-------------------------- MODULE MessageDelivery ---------------------------
(***************************************************************************)
(* How a message gets from the MQTT library to a stream reader of the      *)
(* adapter.  Three threads meet here.  The library delivers a message to   *)
(* all subscriptions of the client and holds sub_lock while it does.  The  *)
(* connection's thread creates and deletes the readers; creating one adds  *)
(* a subscription, waits for the broker and then installs the listener in  *)
(* two stores that no lock protects.  The session reads the queue of a     *)
(* reader whose listener announced data and returns the loan.              *)
(*                                                                         *)
(* One reader is observed: its receive queue is the whole                  *)
(* UnboundedReceiveQueue; of the others only their place in the lists      *)
(* matters.  When owner is "application" there is no reader and the        *)
(* queue is read by any callers, with the actions of that module.          *)
(***************************************************************************)
EXTENDS UnboundedReceiveQueue

CONSTANTS
  Readers,      (* stream readers of one connection, one life each        *)
  Observed,     (* the reader whose queue is modelled                     *)
  Loan,         (* the sequence `messages` of its read()                  *)
  NULL,         (* no listener data                                       *)
  MaxArrivals   (* bounds the model: messages for the observed reader     *)

ASSUME ReadersAssumption ==
  /\ Observed \in Readers
  /\ NULL \notin Readers
  /\ Loan \in Seqs /\ SeqMax[Loan] = 0
  /\ MaxArrivals \in 0..MaxMessages

VARIABLES
  owner,               (* who reads the queue: "application" or "reader"  *)
  phase,               (* how far each reader is in its life              *)
  readers,             (* connection->readers                             *)
  subscriptions,       (* client->subscriptions, by the reader of each    *)
  data_avail_listener, (* whether the subscription has a listener         *)
  data_avail_listener_data,
  position,            (* i of on_message_arrived; 0 = the library is not *)
                       (* delivering and sub_lock is free                 *)
  step,                (* what it does next with subscriptions[position]  *)
  announced,           (* the session was told that there is data         *)
  session,             (* "idle", "reading" or "discarding"               *)
  client_error,        (* the client is in state ERROR                    *)
  undefined,           (* why the behaviour of the process is undefined   *)
  unheard              (* history: the last message that was stored while *)
                       (* the subscription had no listener                *)

libraryVars == <<position, step, client_error, undefined>>
lifeVars == <<owner, phase, readers, subscriptions, data_avail_listener,
              data_avail_listener_data>>
sessionVars == <<announced, session>>
deliveryVars == <<vars, lifeVars, libraryVars, sessionVars, unheard>>

-----------------------------------------------------------------------------
(* A stream reader owns the queue and nothing undefined has happened. *)
Running == owner = "reader" /\ undefined = "no"

Transient == {"adding", "subscribed", "listening", "deleting", "unsubscribed"}

(* sub_lock can be taken. *)
LockFree == position = 0

(* What Subscription_receive does, in this order. *)
AnnounceFirst == <<"listener", "store">>
ReceiveOrder == <<"store", "listener">>

AfterStep(s) == IF s = ReceiveOrder[1] THEN ReceiveOrder[2] ELSE "next"

(* list without its element r; the elements behind it move up. *)
NotRemoved(list, r) == list
Removed(list, r) ==
  LET At == {k \in DOMAIN list : list[k] = r}
      k == CHOOSE k \in At : TRUE
  IN IF At = {} THEN list
     ELSE [i \in 1..(Len(list) - 1) |-> list[IF i < k THEN i ELSE i + 1]]

Subscription == subscriptions[position]

(* The loop goes to the next subscription, or ends and frees the lock. *)
Advance ==
  IF position = Len(subscriptions)
  THEN position' = 0 /\ step' = "idle"
  ELSE position' = position + 1 /\ step' = "match"

Proceed(s) ==
  IF s = "next" THEN Advance ELSE position' = position /\ step' = s

-----------------------------------------------------------------------------
DeliveryInit ==
  /\ Init
  /\ owner \in {"application", "reader"}
  /\ phase = [r \in Readers |-> "none"]
  /\ readers = <<>> /\ subscriptions = <<>>
  /\ data_avail_listener = [r \in Readers |-> FALSE]
  /\ data_avail_listener_data = [r \in Readers |-> NULL]
  /\ position = 0 /\ step = "idle"
  /\ announced = FALSE /\ session = "idle"
  /\ client_error = FALSE /\ undefined = "no"
  /\ unheard = 0

-----------------------------------------------------------------------------
(* The thread of the library. *)

on_message_arrived ==
  /\ Running
  /\ LockFree
  /\ subscriptions # <<>>
  /\ received_count < MaxArrivals
  /\ position' = 1 /\ step' = "match"
  /\ UNCHANGED <<vars, lifeVars, sessionVars, client_error, undefined, unheard>>

Match ==
  /\ Running
  /\ step = "match"
  /\ \/ Proceed(ReceiveOrder[1])
     \/ Advance
  /\ UNCHANGED <<vars, lifeVars, sessionVars, client_error, undefined, unheard>>

Store ==
  /\ Running
  /\ step = "store"
  /\ Proceed(AfterStep("store"))
  /\ IF Subscription = Observed THEN Receive ELSE UNCHANGED vars
  /\ UNCHANGED <<lifeVars, sessionVars, client_error, undefined, unheard>>

(* The listener and its data are two loads. *)
Listener ==
  /\ Running
  /\ step = "listener"
  /\ IF data_avail_listener[Subscription]
     THEN Proceed("call") /\ UNCHANGED unheard
     ELSE /\ Proceed(AfterStep("listener"))
          /\ unheard' = IF Subscription = Observed THEN received_count ELSE unheard
  /\ UNCHANGED <<vars, lifeVars, sessionVars, client_error, undefined>>

Call ==
  LET reader == data_avail_listener_data[Subscription] IN
  /\ Running
  /\ step = "call"
  /\ Proceed(AfterStep("listener"))
  /\ undefined' = CASE reader = NULL -> "no reader"
                    [] reader # NULL /\ phase[reader] = "deleted" -> "freed reader"
                    [] OTHER -> undefined
  /\ announced' = (announced \/ reader = Observed)
  /\ UNCHANGED <<vars, lifeVars, session, client_error, unheard>>

(* The topic doesn't match because of an error, or the queue refuses the   *)
(* message: the remaining subscriptions don't get it, the client is in     *)
(* ERROR, and the callback returns false for a message it has freed.       *)
DeliveryFails ==
  /\ Running
  /\ step \in {"match", "store"}
  /\ position' = 0 /\ step' = "idle"
  /\ client_error' = TRUE
  /\ UNCHANGED <<vars, lifeVars, sessionVars, undefined, unheard>>

(* The library delivers a message again when its callback returned false.  *)
DeliverFreedMessage ==
  /\ Running
  /\ LockFree /\ client_error
  /\ undefined' = "freed message"
  /\ UNCHANGED <<vars, lifeVars, position, step, client_error, sessionVars, unheard>>

Library ==
  \/ on_message_arrived \/ Match \/ Store \/ Listener \/ Call
  \/ DeliveryFails \/ DeliverFreedMessage

-----------------------------------------------------------------------------
(* The connection's thread: one call at a time. *)

Idle == \A r \in Readers : phase[r] \notin Transient

To(r, p) == phase' = [phase EXCEPT ![r] = p]

unchangedByLife == <<owner, vars, libraryVars, sessionVars, unheard>>

create_stream_reader(r) ==
  /\ Running
  /\ phase[r] = "none" /\ Idle
  /\ LockFree
  /\ subscriptions' = Append(subscriptions, r)
  /\ To(r, "adding")
  /\ UNCHANGED <<readers, data_avail_listener, data_avail_listener_data, unchangedByLife>>

Subscribed(r) ==
  /\ Running
  /\ phase[r] = "adding"
  /\ To(r, "subscribed")
  /\ UNCHANGED <<readers, subscriptions, data_avail_listener,
                 data_avail_listener_data, unchangedByLife>>

(* The broker refuses: the subscription is taken back, the reader freed. *)
SubscribeRefused(r) ==
  /\ Running
  /\ phase[r] = "adding"
  /\ LockFree
  /\ subscriptions' = Removed(subscriptions, r)
  /\ To(r, "deleted")
  /\ UNCHANGED <<readers, data_avail_listener, data_avail_listener_data, unchangedByLife>>

StoreListener(r) ==
  /\ Running
  /\ phase[r] = "subscribed"
  /\ data_avail_listener' = [data_avail_listener EXCEPT ![r] = TRUE]
  /\ To(r, "listening")
  /\ UNCHANGED <<readers, subscriptions, data_avail_listener_data, unchangedByLife>>

(* The reader is entered in the list, or is deleted again when the list    *)
(* can't grow.                                                             *)
StoreListenerData(r) ==
  /\ Running
  /\ phase[r] = "listening"
  /\ data_avail_listener_data' = [data_avail_listener_data EXCEPT ![r] = r]
  /\ \/ To(r, "ready") /\ readers' = Append(readers, r)
     \/ To(r, "deleting") /\ UNCHANGED readers
  /\ UNCHANGED <<subscriptions, data_avail_listener, unchangedByLife>>

(* Routing Service has stopped the session of a reader it deletes. *)
delete_stream_reader(r) ==
  /\ Running
  /\ phase[r] = "ready" /\ Idle
  /\ r = Observed => session = "idle"
  /\ \E i \in DOMAIN readers : readers[i] = r
  /\ To(r, "deleting")
  /\ UNCHANGED <<readers, subscriptions, data_avail_listener,
                 data_avail_listener_data, unchangedByLife>>

Unsubscribe(r) ==
  /\ Running
  /\ phase[r] = "deleting"
  /\ LockFree
  /\ subscriptions' = Removed(subscriptions, r)
  /\ To(r, "unsubscribed")
  /\ UNCHANGED <<readers, data_avail_listener, data_avail_listener_data, unchangedByLife>>

Free(r) ==
  /\ Running
  /\ phase[r] = "unsubscribed"
  /\ readers' = Removed(readers, r)
  /\ To(r, "deleted")
  /\ UNCHANGED <<subscriptions, data_avail_listener, data_avail_listener_data,
                 unchangedByLife>>

Connection ==
  \E r \in Readers :
    \/ create_stream_reader(r) \/ Subscribed(r) \/ SubscribeRefused(r)
    \/ StoreListener(r) \/ StoreListenerData(r)
    \/ delete_stream_reader(r) \/ Unsubscribe(r) \/ Free(r)

-----------------------------------------------------------------------------
(* The session that owns the observed reader. *)

(* MessageReader_read.  When the sample infos can't be allocated the loan  *)
(* goes straight back, although the queue counts the messages as read.     *)
SessionReads ==
  /\ Running
  /\ announced /\ session = "idle" /\ phase[Observed] = "ready"
  /\ LoanRead(Loan)
  /\ announced' = FALSE
  /\ IF queue = <<>> THEN UNCHANGED session
                     ELSE session' \in {"reading", "discarding"}
  /\ UNCHANGED <<lifeVars, libraryVars, unheard>>

SessionReturns ==
  /\ Running
  /\ session # "idle"
  /\ ReturnLoan(Loan)
  /\ session' = "idle"
  /\ UNCHANGED <<lifeVars, libraryVars, announced, unheard>>

Session == SessionReads \/ SessionReturns

-----------------------------------------------------------------------------
(* Without a stream reader: the callers of the queue itself. *)
Application ==
  /\ owner = "application"
  /\ Next
  /\ UNCHANGED <<lifeVars, libraryVars, sessionVars, unheard>>

DeliveryNext == Application \/ Library \/ Connection \/ Session

(* The library and the session are threads of their own and go on when     *)
(* they can; nobody has to create or delete a reader.                      *)
DeliverySpec ==
  /\ DeliveryInit /\ [][DeliveryNext]_deliveryVars
  /\ WF_deliveryVars(Match \/ Store \/ Listener \/ Call)
  /\ WF_deliveryVars(Session)

-----------------------------------------------------------------------------
(* A message waits for a reader that is ready only if its listener was     *)
(* told, or is about to be: the exceptions are the messages that came      *)
(* before the reader had installed its listener, about which nobody is     *)
(* told until the next message arrives.                                    *)
NothingWaitsUnannounced ==
  Running /\ phase[Observed] = "ready"
    /\ ~announced /\ ~(position # 0 /\ step \in {"listener", "call"} /\ Subscription = Observed)
    => \A i \in DOMAIN queue : queue[i] <= unheard

(* The library never calls a reader that was freed: deleting one waits     *)
(* until no delivery is under way.  And the two lists agree: a subscription*)
(* in the client's list belongs to a reader that is not freed, and a ready *)
(* reader has one.                                                         *)
NoCallIntoFreedReader ==
  /\ undefined # "freed reader"
  /\ \A i \in DOMAIN subscriptions : phase[subscriptions[i]] # "deleted"
  /\ \A r \in Readers : phase[r] = "ready" =>
       /\ \E i \in DOMAIN subscriptions : subscriptions[i] = r
       /\ \E i \in DOMAIN readers : readers[i] = r

(* A message stored after the listener was installed is read by the        *)
(* session, unless the reader is deleted first or the behaviour is         *)
(* undefined: storing comes before telling, and neither is skipped.        *)
EveryMessageRead ==
  \A m \in 1..MaxArrivals :
    owner = "reader" /\ received_count >= m /\ unheard < m /\ phase[Observed] = "ready"
      ~> \/ \E k \in DOMAIN delivered : delivered[k] = m
         \/ phase[Observed] # "ready" \/ undefined # "no"
=============================================================================
