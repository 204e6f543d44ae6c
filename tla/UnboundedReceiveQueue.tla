----------------------- MODULE UnboundedReceiveQueue ------------------------
(***************************************************************************)
(* The receive queue of a subscription, RTI_MQTT_MessageReceiveQueue, with *)
(* capacity = 0, the default: a sequence of pointers that grows with every *)
(* arrival.  As in CircularReceiveQueue each operation runs under          *)
(* self->lock and is one step, a message is the number of its arrival, and *)
(* Seqs are the DDS sequences that readers pass to read().                 *)
(*                                                                         *)
(* A copying read that leaves messages behind moves nothing: the test      *)
(* `seq_len < tot_messages` that guards the move can't be true, so the     *)
(* sequence loses its tail and keeps the pointers that were cleared.  The  *)
(* next read follows such a pointer: the process fails (crashed).          *)
(***************************************************************************)
EXTENDS Integers, Sequences

CONSTANTS
  Seqs,         (* the sequences readers pass to read()                   *)
  NoSeq,        (* no sequence                                            *)
  SeqMax,       (* maximum length of each sequence, 0 = takes a loan      *)
  MaxMessages   (* bounds the model: number of messages received          *)

ASSUME SeqsAssumption ==
  /\ NoSeq \notin Seqs
  /\ SeqMax \in [Seqs -> Nat]
  /\ MaxMessages \in Nat

VARIABLES
  queue,        (* self->queue: the message behind each pointer           *)
  read_buffer,  (* self->read_buffer while it is loaned, else <<>>        *)
  loaned_to,    (* the sequence that holds the loan; NoSeq when           *)
                (* self->read_buffer_loaned is false                      *)
  received_count, unread_count, read_count, lost_count,
                (* the counters of RTI_MQTT_SubscriptionMessageStatus     *)
  delivered,    (* history: messages handed over by successful reads      *)
  crashed       (* a read followed a pointer to no message                *)

msg_status == <<received_count, unread_count, read_count, lost_count>>
vars == <<queue, read_buffer, loaned_to, msg_status, delivered, crashed>>

-----------------------------------------------------------------------------
Broken == 0   \* a NULL pointer, or one to a message already deleted
READ_LENGTH_UNLIMITED == 0

AlwaysFree == TRUE
LoanFree == loaned_to = NoSeq

Least(a, b) == IF a <= b THEN a ELSE b

(* messages_max of read_unbounded. *)
MaximumOf(s) == IF loaned_to = s THEN Len(read_buffer) ELSE SeqMax[s]

Cleared(n) == [i \in DOMAIN queue |-> IF i <= n THEN Broken ELSE queue[i]]

(* What is left once n messages were taken: the length shrinks by n, the   *)
(* pointers stay where they were.                                          *)
RemainingAll(n) == queue
Remaining(n) == SubSeq(Cleared(n), 1, Len(queue) - n)

-----------------------------------------------------------------------------
Init ==
  /\ queue = <<>>
  /\ read_buffer = <<>>
  /\ loaned_to = NoSeq
  /\ received_count = 0 /\ unread_count = 0 /\ read_count = 0 /\ lost_count = 0
  /\ delivered = <<>>
  /\ crashed = FALSE

Receive ==
  /\ ~crashed
  /\ received_count < MaxMessages
  /\ queue' = Append(queue, received_count + 1)
  /\ received_count' = received_count + 1
  /\ unread_count' = unread_count + 1
  /\ UNCHANGED <<read_buffer, loaned_to, read_count, lost_count, delivered, crashed>>

(* The end of read(): the first n messages reached the reader. *)
Hand(n) ==
  /\ queue' = Remaining(n)
  /\ unread_count' = unread_count - n
  /\ read_count' = read_count + n
  /\ delivered' = delivered \o SubSeq(queue, 1, n)
  /\ UNCHANGED <<received_count, lost_count, crashed>>

LoanRead(s) ==
  /\ ~crashed
  /\ MaximumOf(s) = 0
  /\ LoanFree
  /\ Broken \notin {queue[i] : i \in DOMAIN queue}
  /\ Hand(Len(queue))
  /\ IF queue # <<>>
     THEN read_buffer' = queue /\ loaned_to' = s
     ELSE UNCHANGED <<read_buffer, loaned_to>>

CopyRead(s, max) ==
  LET n == Least(max, Len(queue)) IN
  /\ ~crashed
  /\ s # loaned_to
  /\ max \in 1..MaximumOf(s)
  /\ \A i \in 1..n : queue[i] # Broken
  /\ Hand(n)
  /\ UNCHANGED <<read_buffer, loaned_to>>

(* DDS copies k samples and not the next one: the k pointers are cleared,  *)
(* the message that failed is deleted behind its pointer unless a loan is  *)
(* out, and nothing leaves the sequence.  tot_messages is still 0, so no   *)
(* loss is counted.                                                        *)
CopyReadFails(s, max, k) ==
  LET n == Least(max, Len(queue)) IN
  /\ ~crashed
  /\ s # loaned_to
  /\ max \in 1..MaximumOf(s)
  /\ k < n
  /\ \A i \in 1..(k + 1) : queue[i] # Broken
  /\ queue' = Cleared(IF LoanFree THEN k + 1 ELSE k)
  /\ UNCHANGED <<read_buffer, loaned_to, msg_status, delivered, crashed>>

(* Any accepted read that meets a broken pointer before it is through. *)
CrashingRead(s, max) ==
  /\ ~crashed
  /\ \/ MaximumOf(s) = 0 /\ max = READ_LENGTH_UNLIMITED /\ LoanFree
     \/ s # loaned_to /\ max \in 1..MaximumOf(s)
  /\ LET n == IF max = READ_LENGTH_UNLIMITED
              THEN Len(queue) ELSE Least(max, Len(queue))
     IN  \E i \in 1..n : queue[i] = Broken
  /\ crashed' = TRUE
  /\ UNCHANGED <<queue, read_buffer, loaned_to, msg_status, delivered>>

LoanReturned ==
  /\ read_buffer' = <<>>
  /\ loaned_to' = NoSeq
  /\ UNCHANGED <<queue, msg_status, delivered, crashed>>

(* A refused read ends the loan of the sequence it was called with: the    *)
(* error path calls return_loan whenever a loan is out.                    *)
RejectedRead(s, max) ==
  /\ ~crashed
  /\ IF MaximumOf(s) > 0
     THEN max = READ_LENGTH_UNLIMITED \/ MaximumOf(s) < max
     ELSE max # READ_LENGTH_UNLIMITED \/ ~LoanFree
  /\ loaned_to = s
  /\ LoanReturned

ReturnLoan(s) ==
  /\ ~crashed
  /\ loaned_to = s
  /\ LoanReturned

Requests == 0..(MaxMessages + 1)

Next ==
  \/ Receive
  \/ \E s \in Seqs :
       \/ LoanRead(s)
       \/ ReturnLoan(s)
       \/ \E max \in Requests :
            \/ RejectedRead(s, max)
            \/ CopyRead(s, max)
            \/ CrashingRead(s, max)
            \/ \E k \in 0..MaxMessages : CopyReadFails(s, max, k)

Spec == Init /\ [][Next]_vars

-----------------------------------------------------------------------------
TypeOK ==
  /\ queue \in Seq(Nat)
  /\ read_buffer \in Seq(Nat)
  /\ loaned_to \in Seqs \cup {NoSeq}
  /\ {received_count, unread_count, read_count, lost_count} \subseteq Nat
  /\ delivered \in Seq(Nat)
  /\ crashed \in BOOLEAN

(* Messages reach readers in the order they came and none twice, whatever  *)
(* partial reads, failed copies and loans came before.                     *)
DeliveredInOrder ==
  \A i, j \in DOMAIN delivered : i < j => delivered[i] < delivered[j]

(* The counters account for every message and say how many wait. *)
Conservation ==
  /\ received_count = unread_count + read_count + lost_count
  /\ unread_count = Len(queue)

(* A pointer that a copying read cleared and left behind. *)
Damaged == queue # <<>> /\ queue[1] = Broken

(* Until a copying read leaves such a pointer, every step of the queue is  *)
(* a step of a MessageInbox that never drops anything.                     *)
Inbox == INSTANCE MessageInbox WITH
  Bound <- 0,
  arrived <- received_count,
  pending <- queue

KeepsInboxPromise ==
  Inbox!InboxInit /\ [][Damaged' \/ Inbox!InboxNext]_(Inbox!inboxVars)
=============================================================================
