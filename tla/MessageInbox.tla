---------------------------- MODULE MessageInbox ----------------------------
(***************************************************************************)
(* What a subscription promises the reader of an MQTT topic: messages are  *)
(* handed over in the order they arrived, each at most once, and the only  *)
(* message that may disappear is the oldest one, when a bounded inbox that *)
(* is full takes a new arrival.                                            *)
(*                                                                         *)
(* Messages are numbered in their order of arrival: message n is the n-th. *)
(***************************************************************************)
EXTENDS Naturals, Sequences

CONSTANTS
  Bound,       (* capacity of the inbox; 0 means it never drops anything *)
  MaxMessages  (* bounds the model: how many messages ever arrive        *)

VARIABLES
  arrived,     (* number of messages that arrived so far                 *)
  pending,     (* the messages waiting, oldest first                     *)
  delivered    (* the messages handed to the reader, in order            *)

inboxVars == <<arrived, pending, delivered>>

Full == Bound > 0 /\ Len(pending) = Bound

InboxInit ==
  /\ arrived = 0
  /\ pending = <<>>
  /\ delivered = <<>>

Arrive ==
  /\ arrived < MaxMessages
  /\ arrived' = arrived + 1
  /\ pending' = Append(IF Full THEN Tail(pending) ELSE pending, arrived + 1)
  /\ UNCHANGED delivered

(* One read hands over a prefix of what is waiting. *)
Take ==
  \E n \in 1..Len(pending) :
    /\ delivered' = delivered \o SubSeq(pending, 1, n)
    /\ pending' = SubSeq(pending, n + 1, Len(pending))
    /\ UNCHANGED arrived

InboxNext == Arrive \/ Take

InboxSpec == InboxInit /\ [][InboxNext]_inboxVars
=============================================================================
