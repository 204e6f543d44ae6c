------------------------ MODULE CircularReceiveQueue ------------------------
(***************************************************************************)
(* The receive queue of a subscription, RTI_MQTT_MessageReceiveQueue, with *)
(* capacity > 0: a ring of slots that overwrites the oldest message when   *)
(* it has no room left.                                                    *)
(*                                                                         *)
(* receive() runs on the thread of the MQTT library, read() and            *)
(* return_loan() on the threads of the reader.  Each of them holds         *)
(* self->lock from its first access to the queue to its return, so each    *)
(* is one step here; the interleavings are the orders of those steps.      *)
(*                                                                         *)
(* A message is the number of its arrival.  The reader's DDS sequences are *)
(* Seqs: one with SeqMax[s] = 0 has no buffer of its own (it takes a loan  *)
(* of the queue's read_buffer), the others own SeqMax[s] samples.          *)
(***************************************************************************)
EXTENDS Integers, Sequences

CONSTANTS
  Capacity,     (* self->capacity                                         *)
  Seqs,         (* the sequences readers pass to read()                   *)
  NoSeq,        (* no sequence                                            *)
  SeqMax,       (* maximum length of each of them                         *)
  MaxMessages   (* bounds the model: number of messages received          *)

ASSUME CapacityAssumption == Capacity \in Nat \ {0}
ASSUME SeqsAssumption ==
  /\ NoSeq \notin Seqs
  /\ SeqMax \in [Seqs -> Nat]
  /\ MaxMessages \in Nat

VARIABLES
  slot,         (* self->queue: what the message pointer of each slot is  *)
  size,         (* self->size                                             *)
  head,         (* self->head                                             *)
  next,         (* self->next: the slot of the next arrival               *)
  next_unread,  (* self->next_unread: the slot a read starts from         *)
  read_buffer,  (* self->read_buffer while it is loaned, else <<>>        *)
  loaned_to,    (* the sequence that holds the loan; NoSeq when           *)
                (* self->read_buffer_loaned is false                      *)
  received_count, unread_count, read_count, lost_count,
                (* the counters of RTI_MQTT_SubscriptionMessageStatus     *)
  delivered,    (* history: messages handed over by successful reads      *)
  copy_failed   (* history: DDS failed to copy a sample in some read      *)

msg_status == <<received_count, unread_count, read_count, lost_count>>
vars == <<slot, size, head, next, next_unread,
          read_buffer, loaned_to, msg_status, delivered, copy_failed>>

-----------------------------------------------------------------------------
NULL == 0
READ_LENGTH_UNLIMITED == 0

Slots == 0..(Capacity - 1)
read_buffer_loaned == loaned_to # NoSeq

(* read() refuses a second loan. *)
AlwaysFree == TRUE
LoanFree == ~read_buffer_loaned

Least(a, b) == IF a <= b THEN a ELSE b

(* The slot n places after slot i. *)
Advance(i, n) == (i + n) % Capacity

(* How many places after slot i slot j stands. *)
Distance(i, j) == (j + Capacity - i) % Capacity
Offset(j) == Distance(next_unread, j)

(* How many slots the loop of read_circular visits: from next_unread up to *)
(* next, at most max.  None when the two are equal.                        *)
ReadablePastNext(max) == Least(max, Capacity)
ReadableBySize(max) == Least(max, size)
Readable(max) == Least(max, Offset(next))

(* The messages found in the first n of those slots, and the ring once     *)
(* those n pointers are cleared.                                           *)
Taken(n) == [k \in 1..n |-> slot[Advance(next_unread, k - 1)]]
ClearedNever(n) == slot
Cleared(n) ==
  [j \in Slots |-> IF \E k \in 0..(n - 1) : j = Advance(next_unread, k)
                   THEN NULL ELSE slot[j]]

(* messages_max of read_circular. *)
MaximumOf(s) == IF loaned_to = s THEN Len(read_buffer) ELSE SeqMax[s]

-----------------------------------------------------------------------------
Init ==
  /\ slot = [j \in Slots |-> NULL]
  /\ size = 0
  /\ head = 0
  /\ next = 0
  /\ next_unread = 0
  /\ read_buffer = <<>>
  /\ loaned_to = NoSeq
  /\ received_count = 0 /\ unread_count = 0 /\ read_count = 0 /\ lost_count = 0
  /\ delivered = <<>>
  /\ copy_failed = FALSE

(* `self->head = (self->head += 1) % self->capacity` assigns head twice    *)
(* with no sequence point between: either store may be the last one.       *)
HeadPushed == {Advance(head, 1), head + 1}

(* The read cursor skips the message that was overwritten. *)
UnreadKept(lost) == next_unread
UnreadAfter(lost) == IF lost THEN Advance(next_unread, 1) ELSE next_unread

Receive ==
  /\ received_count < MaxMessages
  /\ LET lost == slot[next] # NULL IN
       /\ next_unread' = UnreadAfter(lost)
       /\ unread_count' = IF lost THEN unread_count ELSE unread_count + 1
       /\ lost_count' = IF lost THEN lost_count + 1 ELSE lost_count
  /\ received_count' = received_count + 1
  /\ slot' = [slot EXCEPT ![next] = received_count + 1]
  /\ \/ size < Capacity /\ size' = size + 1 /\ head' = head
     \/ size >= Capacity /\ size' = size /\ head' \in HeadPushed
  /\ next' = Advance(next, 1)
  /\ UNCHANGED <<read_buffer, loaned_to, read_count, delivered, copy_failed>>

(* The end of read(): n messages left the ring and reached the reader. *)
Hand(n) ==
  /\ slot' = Cleared(n)
  /\ next_unread' = Advance(next_unread, n)
  /\ size' = size - n
  /\ head' = Advance(head, n)
  /\ unread_count' = unread_count - n
  /\ read_count' = read_count + n
  /\ delivered' = delivered \o Taken(n)
  /\ UNCHANGED <<received_count, lost_count, copy_failed>>

(* read(READ_LENGTH_UNLIMITED) with a sequence that has no buffer. *)
LoanRead(s) ==
  LET n == Readable(Capacity) IN
  /\ MaximumOf(s) = 0
  /\ LoanFree
  /\ Hand(n)
  /\ IF n > 0
     THEN read_buffer' = Taken(n) /\ loaned_to' = s
     ELSE UNCHANGED <<read_buffer, loaned_to>>
  /\ UNCHANGED next

(* read(max) into the samples the sequence owns. *)
CopyRead(s, max) ==
  LET n == Readable(max) IN
  /\ s # loaned_to
  /\ max \in 1..MaximumOf(s)
  /\ \A k \in 1..n : Taken(n)[k] # NULL
  /\ Hand(n)
  /\ UNCHANGED <<next, read_buffer, loaned_to>>

(* The same read when DDS copies k samples and not the next one.  The      *)
(* cursors stay where they were although k messages are gone; the message  *)
(* that failed is deleted too, unless a loan is out, when the error path   *)
(* counts k losses and tries to return a loan this sequence does not hold. *)
CopyReadFails(s, max, k) ==
  LET n == Readable(max) IN
  /\ s # loaned_to
  /\ max \in 1..MaximumOf(s)
  /\ k < n
  /\ \A i \in 1..k : Taken(n)[i] # NULL
  /\ slot' = Cleared(IF read_buffer_loaned THEN k ELSE k + 1)
  /\ lost_count' = IF read_buffer_loaned THEN lost_count + k ELSE lost_count
  /\ copy_failed' = TRUE
  /\ UNCHANGED <<size, head, next, next_unread, read_buffer, loaned_to,
                 received_count, unread_count, read_count, delivered>>

LoanReturned ==
  /\ read_buffer' = <<>>
  /\ loaned_to' = NoSeq

(* A read refused by its preconditions.  The error path of read_circular   *)
(* calls return_loan with the caller's sequence whenever a loan is out:    *)
(* that ends the loan when it is this sequence that holds it.              *)
RejectedRead(s, max) ==
  /\ IF MaximumOf(s) > 0
     THEN max = READ_LENGTH_UNLIMITED \/ MaximumOf(s) < max
     ELSE max # READ_LENGTH_UNLIMITED \/ ~LoanFree
  /\ loaned_to = s
  /\ LoanReturned
  /\ UNCHANGED <<slot, size, head, next, next_unread, msg_status, delivered, copy_failed>>

ReturnLoan(s) ==
  /\ read_buffer_loaned
  /\ loaned_to = s
  /\ LoanReturned
  /\ UNCHANGED <<slot, size, head, next, next_unread, msg_status, delivered, copy_failed>>

Next ==
  \/ Receive
  \/ \E s \in Seqs :
       \/ LoanRead(s)
       \/ ReturnLoan(s)
       \/ \E max \in 0..(Capacity + 1) :
            \/ RejectedRead(s, max)
            \/ CopyRead(s, max)
            \/ \E k \in 0..(Capacity - 1) : CopyReadFails(s, max, k)

Spec == Init /\ [][Next]_vars

-----------------------------------------------------------------------------
Messages == 1..MaxMessages

TypeOK ==
  /\ slot \in [Slots -> Nat]
  /\ size \in 0..Capacity
  /\ head \in Nat
  /\ next \in Slots
  /\ next_unread \in Slots
  /\ read_buffer \in Seq(Nat)
  /\ loaned_to \in Seqs \cup {NoSeq}
  /\ unread_count \in Int
  /\ {received_count, read_count, lost_count} \subseteq Nat
  /\ delivered \in Seq(Nat)
  /\ copy_failed \in BOOLEAN

(* The ring never loses track of a message: between next_unread and next   *)
(* stand the newest unread messages in the order they came, and every      *)
(* other slot is empty.  receive() and read() move the two cursors without *)
(* looking at size.  A failed copy ends it: the cursors stay on slots that *)
(* the read emptied.                                                       *)
RingHoldsNewest ==
  ~copy_failed => \A j \in Slots :
    slot[j] = IF Offset(j) < size
              THEN received_count - size + 1 + Offset(j) ELSE NULL

(* The counters reported to the user account for every message: each one   *)
(* received is unread, read or lost, and the unread ones are in the ring.  *)
(* The messages of a failed copy are missing from all of them.             *)
Conservation ==
  ~copy_failed =>
  /\ received_count = unread_count + read_count + lost_count
  /\ unread_count = size
  /\ read_count = Len(delivered)

(* head and next_unread are moved by different code and name the same slot *)
(* whichever store of the double assignment comes last.                    *)
HeadIsNextUnread == ~copy_failed => head % Capacity = next_unread

(* A reader that holds a loan keeps exactly the samples it was given until *)
(* the loan ends: no receive and no other read touches them.               *)
LoanUntouched ==
  [][read_buffer_loaned /\ loaned_to' # NoSeq =>
       read_buffer' = read_buffer /\ loaned_to' = loaned_to]_vars

(* Readers get messages in the order they came and none twice, although a  *)
(* failed copy leaves the cursors on slots that it emptied.                *)
DeliveredInOrder ==
  \A i, j \in DOMAIN delivered :
    i < j /\ delivered[i] # NULL /\ delivered[j] # NULL => delivered[i] < delivered[j]

(* The three cursors agree: size messages stand between next_unread and    *)
(* next.  No property of its own, but what the others rest on.             *)
CursorsAgree == ~copy_failed => next = Advance(next_unread, size)

(* "READ_LENGTH_UNLIMITED may be used to read all available messages"      *)
(* (rtiadapt_mqtt_client.h:668): the loop of read_circular visits as many  *)
(* slots as there are unread messages.                                     *)
ReadTakesAllAvailable == ~copy_failed => Readable(Capacity) = unread_count

(* It does not: once every slot is taken next = next_unread, which         *)
(* read_circular takes for an empty queue.  No later read delivers         *)
(* anything and no later arrival makes room, for the rest of the life of   *)
(* the subscription.                                                       *)
FullIsForever ==
  [][~copy_failed /\ size = Capacity =>
       size' = Capacity /\ delivered' = delivered]_vars

(* Until a copy fails every step of the queue is a step of MessageInbox:   *)
(* its waiting messages are the unread slots, read from next_unread.       *)
Inbox == INSTANCE MessageInbox WITH
  Bound <- Capacity,
  arrived <- received_count,
  pending <- Taken(size)

KeepsInboxPromise ==
  Inbox!InboxInit /\ [][copy_failed' \/ Inbox!InboxNext]_(Inbox!inboxVars)
=============================================================================
