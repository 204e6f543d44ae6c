------------------------ MODULE MessageDeliveryProofs ------------------------
(***************************************************************************)
(* First the unbounded queue by itself, for every number of messages and   *)
(* every set of readers: its counters account for every message, and it    *)
(* implements MessageInbox with no bound until a copying read leaves a     *)
(* pointer that it cleared.  Loans take every message and leave none: a    *)
(* queue that is read by a stream reader of the adapter always does.       *)
(*                                                                         *)
(* Then two safety properties of the delivery to a stream reader, for any  *)
(* number of readers on one connection, any number of messages and any     *)
(* order of the steps of the three threads.                                *)
(*                                                                         *)
(* A reader stands in the list of the client exactly while it is between   *)
(* its creation and its unsubscription (Listed), and once (Once).  The     *)
(* list changes only while no delivery is under way, so the subscription   *)
(* that the library is looking at belongs to a reader that is not freed    *)
(* (NotFreed).  And storing a message is followed, with nothing of the     *)
(* library in between, by telling its listener (Waiting).                  *)
(*                                                                         *)
(* Last, which messages these are: what the properties of the adapter make *)
(* of a connection and of the filters of a subscription, and what the      *)
(* scanner answers of a topic, for every filter, topic and property.  Its  *)
(* two indices are always the same place, a level and a character, of the  *)
(* filter and of the topic (InStep), and the configuration is always that  *)
(* of the properties looked up so far (AsFarAsLooked).                     *)
(***************************************************************************)
EXTENDS MessageDelivery, AdapterProperties, SequenceTheorems, TLAPS

(* Such a pointer is the first one, and every later read meets it. *)
OnlyDamageBreaks == ~Damaged => \A i \in DOMAIN queue : queue[i] # Broken

QueueInv ==
  /\ TypeOK
  /\ Conservation
  /\ OnlyDamageBreaks

Promise == [Damaged' \/ Inbox!InboxNext]_(Inbox!inboxVars)

-----------------------------------------------------------------------------
LEMMA InitQueueInv == Init => QueueInv /\ Inbox!InboxInit
<1> SUFFICES ASSUME Init PROVE QueueInv /\ Inbox!InboxInit
  OBVIOUS
<1>1. <<>> \in Seq(Nat) /\ Len(<<>>) = 0
  OBVIOUS
<1>2. TypeOK
  <2>1. crashed \in BOOLEAN
    BY DEF Init
  <2> QED BY <1>1, <2>1 DEF Init, TypeOK
<1>3. Conservation /\ OnlyDamageBreaks
  BY <1>1 DEF Init, Conservation, OnlyDamageBreaks
<1> QED BY <1>2, <1>3 DEF QueueInv, Init, Inbox!InboxInit

(* An arrival goes to the end. *)
LEMMA ReceiveStep ==
  ASSUME QueueInv, Receive
  PROVE  QueueInv' /\ Promise
<1>1. /\ queue \in Seq(Nat) /\ received_count \in Nat /\ unread_count \in Nat
      /\ read_count \in Nat /\ lost_count \in Nat
      /\ received_count = unread_count + read_count + lost_count
      /\ unread_count = Len(queue)
  BY DEF QueueInv, TypeOK, Conservation
<1>2. /\ queue' = Append(queue, received_count + 1)
      /\ received_count' = received_count + 1 /\ received_count < MaxMessages
      /\ unread_count' = unread_count + 1
      /\ UNCHANGED <<read_buffer, loaned_to, read_count, lost_count, delivered, crashed>>
  BY DEF Receive
<1>3. received_count + 1 \in Nat /\ received_count + 1 # 0
  BY <1>1
<1>4. /\ queue' \in Seq(Nat) /\ Len(queue') = Len(queue) + 1
      /\ \A i \in 1..Len(queue) : queue'[i] = queue[i]
      /\ queue'[Len(queue) + 1] = received_count + 1
  BY <1>1, <1>2, <1>3, AppendProperties
<1>5. TypeOK'
  <2>1. crashed' \in BOOLEAN
    BY <1>2 DEF QueueInv, TypeOK
  <2> QED BY <1>1, <1>2, <1>4, <2>1 DEF QueueInv, TypeOK
<1>6. Conservation'
  BY <1>1, <1>2, <1>4 DEF Conservation
<1>7. OnlyDamageBreaks'
  <2> SUFFICES ASSUME ~Damaged', NEW i \in DOMAIN queue', queue'[i] = Broken
               PROVE  FALSE
    BY DEF OnlyDamageBreaks
  <2>1. i \in 1..Len(queue)
    BY <1>1, <1>3, <1>4 DEF Broken
  <2>2. Damaged
    BY <1>1, <1>4, <2>1 DEF QueueInv, OnlyDamageBreaks
  <2>3. queue'[1] = Broken /\ queue' # <<>>
    BY <1>1, <1>4, <2>1, <2>2 DEF Damaged
  <2> QED BY <2>3 DEF Damaged
<1>8. Inbox!Arrive
  BY <1>2 DEF Inbox!Arrive, Inbox!Full
<1> QED BY <1>5, <1>6, <1>7, <1>8 DEF QueueInv, Promise, Inbox!InboxNext

(* A read that succeeds takes a prefix, all of it or not. *)
LEMMA HandStep ==
  ASSUME QueueInv, NEW n \in 0..Len(queue), n = 0 => queue = <<>>, Hand(n),
         read_buffer' \in Seq(Nat), loaned_to' \in Seqs \cup {NoSeq}
  PROVE  QueueInv' /\ Promise
<1>1. /\ queue \in Seq(Nat) /\ received_count \in Nat /\ unread_count \in Nat
      /\ read_count \in Nat /\ lost_count \in Nat /\ delivered \in Seq(Nat)
      /\ received_count = unread_count + read_count + lost_count
      /\ unread_count = Len(queue) /\ Len(queue) \in Nat
  BY DEF QueueInv, TypeOK, Conservation
<1>2. /\ queue' = SubSeq(Cleared(n), 1, Len(queue) - n)
      /\ unread_count' = unread_count - n /\ read_count' = read_count + n
      /\ delivered' = delivered \o SubSeq(queue, 1, n)
      /\ UNCHANGED <<received_count, lost_count, crashed>>
  BY DEF Hand, Remaining
<1>3. /\ Cleared(n) \in Seq(Nat) /\ Len(Cleared(n)) = Len(queue)
      /\ \A i \in 1..Len(queue) : Cleared(n)[i] = IF i <= n THEN Broken ELSE queue[i]
  BY <1>1 DEF Cleared, Broken
<1>4. /\ queue' \in Seq(Nat) /\ Len(queue') = Len(queue) - n
      /\ \A i \in 1..(Len(queue) - n) : queue'[i] = IF i <= n THEN Broken ELSE queue[i]
  <2> DEFINE c == Cleared(n)
  <2> HIDE DEF c
  <2>1. /\ SubSeq(c, 1, Len(queue) - n) \in Seq(Nat)
        /\ Len(SubSeq(c, 1, Len(queue) - n)) = Len(queue) - n
        /\ \A i \in 1..(Len(queue) - n) : SubSeq(c, 1, Len(queue) - n)[i] = c[i]
    <3>1. c \in Seq(Nat) /\ Len(c) = Len(queue) /\ Len(queue) - n \in 0..Len(c)
      BY <1>1, <1>3 DEF c
    <3> QED BY <3>1
  <2>2. \A i \in 1..(Len(queue) - n) : c[i] = IF i <= n THEN Broken ELSE queue[i]
    BY <1>1, <1>3 DEF c
  <2> QED BY <1>2, <2>1, <2>2 DEF c
<1>5. SubSeq(queue, 1, n) \in Seq(Nat) /\ delivered' \in Seq(Nat)
  <2>1. SubSeq(queue, 1, n) \in Seq(Nat)
    BY <1>1
  <2> QED BY <1>1, <1>2, <2>1, ConcatProperties
<1>6. TypeOK'
  <2>1. crashed' \in BOOLEAN
    BY <1>2 DEF QueueInv, TypeOK
  <2>2. {received_count, unread_count, read_count, lost_count}' \subseteq Nat
    BY <1>1, <1>2
  <2> QED BY <1>4, <1>5, <2>1, <2>2 DEF TypeOK
<1>7. Conservation'
  <2>1. received_count' = unread_count' + read_count' + lost_count'
    <3>1. /\ n \in Nat /\ unread_count \in Nat /\ read_count \in Nat /\ lost_count \in Nat
          /\ received_count = unread_count + read_count + lost_count
      BY <1>1
    <3>2. /\ unread_count' = unread_count - n /\ read_count' = read_count + n
          /\ received_count' = received_count /\ lost_count' = lost_count
      BY <1>2
    <3> QED BY <3>1, <3>2
  <2>2. unread_count' = Len(queue')
    BY <1>1, <1>2, <1>4
  <2> QED BY <2>1, <2>2 DEF Conservation
<1>8. CASE n = Len(queue)
  <2>1. queue' = <<>>
    BY <1>1, <1>4, <1>8, EmptySeq
  <2>2. OnlyDamageBreaks'
    BY <2>1 DEF OnlyDamageBreaks
  <2>3. CASE n = 0
    <3>1. SubSeq(queue, 1, 0) = <<>>
      BY <1>1
    <3>2. delivered' = delivered
      BY <1>1, <1>2, <2>3, <3>1, ConcatEmptySeq
    <3> QED BY <1>2, <1>6, <1>7, <2>1, <2>2, <2>3, <3>2 DEF QueueInv, Promise, Inbox!inboxVars
  <2>4. CASE n # 0
    <3>1. n \in 1..Len(queue) /\ SubSeq(queue, n + 1, Len(queue)) = <<>>
      BY <1>1, <1>8, <2>4
    <3>2. Inbox!Take
      BY <1>2, <2>1, <3>1 DEF Inbox!Take
    <3> QED BY <1>6, <1>7, <2>2, <3>2 DEF QueueInv, Promise, Inbox!InboxNext
  <2> QED BY <2>3, <2>4
<1>9. CASE n # Len(queue)
  <2>1. n > 0 /\ 1 \in 1..(Len(queue) - n)
    BY <1>1, <1>9, EmptySeq
  <2>2. Damaged'
    <3>1. queue'[1] = Broken
      BY <1>1, <1>4, <2>1
    <3>2. queue' # <<>>
      BY <1>1, <1>4, <2>1
    <3> QED BY <3>1, <3>2 DEF Damaged
  <2> QED BY <1>6, <1>7, <2>2 DEF QueueInv, Promise, OnlyDamageBreaks
<1> QED BY <1>8, <1>9

(* A copy that fails clears the first pointers, or none. *)
LEMMA CopyFailsStep ==
  ASSUME QueueInv, NEW n \in 0..Len(queue), queue' = Cleared(n),
         UNCHANGED <<read_buffer, loaned_to, msg_status, delivered, crashed>>
  PROVE  QueueInv' /\ Promise
<1>1. /\ queue \in Seq(Nat) /\ Len(queue) \in Nat
  BY DEF QueueInv, TypeOK
<1>2. /\ queue' \in Seq(Nat) /\ Len(queue') = Len(queue)
      /\ \A i \in 1..Len(queue) : queue'[i] = IF i <= n THEN Broken ELSE queue[i]
  BY <1>1 DEF Cleared, Broken
<1>3. TypeOK' /\ Conservation'
  BY <1>2 DEF QueueInv, TypeOK, Conservation, msg_status
<1>4. CASE n = 0
  <2>1. queue' = queue
    BY <1>1, <1>2, <1>4
  <2> QED BY <1>3, <2>1 DEF QueueInv, Promise, OnlyDamageBreaks, Damaged, msg_status, Inbox!inboxVars
<1>5. CASE n > 0
  <2>1. queue' # <<>> /\ queue'[1] = Broken
    BY <1>1, <1>2, <1>5
  <2>2. Damaged'
    BY <2>1 DEF Damaged
  <2> QED BY <1>3, <2>2 DEF QueueInv, Promise, OnlyDamageBreaks
<1> QED BY <1>1, <1>4, <1>5

LEMMA NextStep ==
  ASSUME QueueInv, [Next]_vars
  PROVE  QueueInv' /\ Promise
<1> DEFINE Goal == QueueInv' /\ Promise
<1>0. Len(queue) \in Nat /\ queue \in Seq(Nat)
      /\ read_buffer \in Seq(Nat) /\ loaned_to \in Seqs \cup {NoSeq}
  BY DEF QueueInv, TypeOK
<1>1. CASE Receive
  BY <1>1, ReceiveStep
<1>2. ASSUME NEW s \in Seqs, LoanRead(s)
      PROVE  Goal
  <2>1. /\ Hand(Len(queue)) /\ Len(queue) \in 0..Len(queue)
        /\ read_buffer' \in Seq(Nat) /\ loaned_to' \in Seqs \cup {NoSeq}
        /\ Len(queue) = 0 => queue = <<>>
    BY <1>0, <1>2, EmptySeq DEF LoanRead
  <2> QED BY <2>1, HandStep
<1>3. ASSUME NEW s \in Seqs, NEW max \in Requests, CopyRead(s, max)
      PROVE  Goal
  <2> DEFINE n == Least(max, Len(queue))
  <2>1. n \in 0..Len(queue) /\ (n = 0 => queue = <<>>)
    <3>1. max \in Nat /\ max > 0
      BY <1>3, SeqsAssumption DEF CopyRead, Requests
    <3> QED BY <1>0, <3>1, EmptySeq DEF Least
  <2>2. /\ Hand(n) /\ read_buffer' \in Seq(Nat) /\ loaned_to' \in Seqs \cup {NoSeq}
    BY <1>0, <1>3 DEF CopyRead
  <2> HIDE DEF n
  <2> QED BY <2>1, <2>2, HandStep
<1>4. ASSUME NEW s \in Seqs, NEW max \in Requests, NEW k \in 0..MaxMessages,
             CopyReadFails(s, max, k)
      PROVE  Goal
  <2>1. k \in Nat /\ k < Len(queue) /\ max \in Nat
    BY <1>0, <1>4, SeqsAssumption DEF CopyReadFails, Least, Requests
  <2>2. PICK n \in 0..Len(queue) : queue' = Cleared(n)
    <3>1. k \in 0..Len(queue) /\ k + 1 \in 0..Len(queue)
      BY <1>0, <2>1
    <3> QED BY <1>4, <3>1 DEF CopyReadFails
  <2> QED BY <1>4, <2>2, CopyFailsStep DEF CopyReadFails
(* What leaves the queue and its counters alone. *)
<1>5. ASSUME UNCHANGED <<queue, msg_status, delivered>>, read_buffer' \in Seq(Nat),
             loaned_to' \in Seqs \cup {NoSeq}, crashed' \in BOOLEAN
      PROVE  Goal
  <2>1. TypeOK' /\ Conservation'
    BY <1>5 DEF QueueInv, TypeOK, Conservation, msg_status
  <2>2. OnlyDamageBreaks'
    BY <1>5 DEF QueueInv, OnlyDamageBreaks, Damaged
  <2> QED BY <1>5, <2>1, <2>2 DEF QueueInv, Promise, msg_status, Inbox!inboxVars
<1>6. ASSUME NEW s \in Seqs, NEW max \in Requests, CrashingRead(s, max)
      PROVE  Goal
  BY <1>0, <1>5, <1>6 DEF CrashingRead
<1>7. ASSUME LoanReturned
      PROVE  Goal
  <2>1. crashed' \in BOOLEAN
    <3>1. crashed \in BOOLEAN /\ crashed' = crashed
      BY <1>7 DEF QueueInv, TypeOK, LoanReturned
    <3> QED BY <3>1
  <2> QED BY <1>5, <1>7, <2>1 DEF LoanReturned
<1>8. CASE UNCHANGED vars
  <2>1. crashed' \in BOOLEAN
    <3>1. crashed \in BOOLEAN /\ crashed' = crashed
      BY <1>8 DEF QueueInv, TypeOK, vars
    <3> QED BY <3>1
  <2> QED BY <1>0, <1>5, <1>8, <2>1 DEF vars
<1> QED BY <1>1, <1>2, <1>3, <1>4, <1>6, <1>7, <1>8
        DEF Next, RejectedRead, ReturnLoan

-----------------------------------------------------------------------------
LEMMA QueueAlone == Spec => []QueueInv
<1>1. Init => QueueInv
  BY InitQueueInv
<1>2. QueueInv /\ [Next]_vars => QueueInv'
  BY NextStep
<1> QED BY <1>1, <1>2, PTL DEF Spec

(* The variables keep their types; in particular read_unbounded never      *)
(* takes more from unread_count than it counted.                           *)
THEOREM QueueTypeCorrect == Spec => []TypeOK
<1>1. QueueInv => TypeOK
  BY DEF QueueInv
<1> QED BY <1>1, QueueAlone, PTL

(* The counters of RTI_MQTT_SubscriptionMessageStatus account for every    *)
(* message and say how long self->queue is, whatever copies failed.        *)
THEOREM CountersConserve == Spec => []Conservation
<1>1. QueueInv => Conservation
  BY DEF QueueInv
<1> QED BY <1>1, QueueAlone, PTL

(* A subscription with the default queue_size hands over every message in  *)
(* order, none twice and none lost, as long as every read takes all there  *)
(* is; read by loans, as MessageReader.c does, it always does.             *)
THEOREM UnboundedKeepsPromise == Spec => KeepsInboxPromise
<1>1. Init => Inbox!InboxInit
  BY InitQueueInv
<1>2. QueueInv /\ [Next]_vars => [Damaged' \/ Inbox!InboxNext]_(Inbox!inboxVars)
  BY NextStep DEF Promise
<1> QED BY <1>1, <1>2, QueueAlone, PTL DEF Spec, KeepsInboxPromise

-----------------------------------------------------------------------------
(* The queue at work between the three threads. *)
Live == {"adding", "subscribed", "listening", "ready", "deleting"}
Phases == Live \cup {"none", "unsubscribed", "deleted"}
Steps == {"idle", "match", "store", "listener", "call"}

In(list, r) == \E i \in DOMAIN list : list[i] = r

LifeTypes ==
  /\ phase \in [Readers -> Phases]
  /\ subscriptions \in Seq(Readers) /\ readers \in Seq(Readers)
  /\ data_avail_listener_data \in [Readers -> Readers \cup {NULL}]
  /\ position \in Nat /\ step \in Steps
  /\ position = 0 <=> step = "idle"
  /\ position <= Len(subscriptions)

Once == \A i, j \in DOMAIN subscriptions : subscriptions[i] = subscriptions[j] => i = j
Listed == \A r \in Readers : phase[r] \in Live <=> In(subscriptions, r)
ReadyListed == \A r \in Readers : phase[r] = "ready" => In(readers, r)
OwnData == \A r \in Readers : data_avail_listener_data[r] \in {NULL, r}
NotFreed == undefined # "freed reader"

LifeInv == LifeTypes /\ Once /\ Listed /\ ReadyListed /\ OwnData /\ NotFreed

-----------------------------------------------------------------------------
(* What is left of a list without r. *)
LEMMA RemovedFacts ==
  ASSUME NEW list \in Seq(Readers), NEW r \in Readers
  PROVE  /\ Removed(list, r) \in Seq(Readers)
         /\ \A x \in Readers : x # r => (In(Removed(list, r), x) <=> In(list, x))
         /\ (\A i, j \in DOMAIN list : list[i] = list[j] => i = j) =>
              /\ ~In(Removed(list, r), r)
              /\ \A i, j \in DOMAIN Removed(list, r) :
                   Removed(list, r)[i] = Removed(list, r)[j] => i = j
<1> DEFINE Where == {n \in DOMAIN list : list[n] = r}
           k == CHOOSE n \in Where : TRUE
           m == Len(list)
           g == [i \in 1..(m - 1) |-> list[IF i < k THEN i ELSE i + 1]]
<1>1. m \in Nat /\ DOMAIN list = 1..m /\ \A n \in 1..m : list[n] \in Readers
  OBVIOUS
<1>2. CASE Where = {}
  <2>1. Removed(list, r) = list
    BY <1>2 DEF Removed
  <2>2. ~In(list, r)
    BY <1>2 DEF In
  <2> QED BY <2>1, <2>2
<1>3. CASE Where # {}
  <2>1. k \in 1..m /\ list[k] = r
    BY <1>1, <1>3
  <2>2. Removed(list, r) = g
    BY <1>3 DEF Removed
  <2> HIDE DEF k, m
  <2>3. ASSUME NEW i \in 1..(m - 1)
        PROVE  (IF i < k THEN i ELSE i + 1) \in 1..m /\ (IF i < k THEN i ELSE i + 1) # k
    BY <1>1, <2>1
  <2>4. g \in [1..(m - 1) -> Readers]
    BY <1>1, <2>3
  <2>5. m - 1 \in Nat
    BY <1>1, <2>1
  <2>6. g \in Seq(Readers) /\ DOMAIN g = 1..(m - 1)
    BY <2>4, <2>5
  <2>7. ASSUME NEW n \in 1..m, n # k
        PROVE  \E i \in 1..(m - 1) : g[i] = list[n]
    <3>1. CASE n < k
      <4>1. n \in 1..(m - 1) /\ g[n] = list[n]
        BY <1>1, <2>1, <3>1
      <4> QED BY <4>1
    <3>2. CASE n > k
      <4>1. n - 1 \in 1..(m - 1) /\ ~(n - 1 < k) /\ (n - 1) + 1 = n
        BY <1>1, <2>1, <3>2
      <4>2. g[n - 1] = list[n]
        BY <4>1
      <4> QED BY <4>1, <4>2
    <3> QED BY <1>1, <2>1, <2>7, <3>1, <3>2
  <2>8. \A x \in Readers : x # r => (In(g, x) <=> In(list, x))
    <3> SUFFICES ASSUME NEW x \in Readers, x # r
                 PROVE  In(g, x) <=> In(list, x)
      OBVIOUS
    <3>1. ASSUME NEW i \in 1..(m - 1), g[i] = x
          PROVE  In(list, x)
      BY <1>1, <2>3, <3>1 DEF In
    <3>2. ASSUME NEW n \in 1..m, list[n] = x
          PROVE  In(g, x)
      <4>1. n # k
        BY <2>1, <3>2
      <4> QED BY <2>6, <2>7, <3>2, <4>1 DEF In
    <3> QED BY <1>1, <2>6, <3>1, <3>2 DEF In
  <2>9. ASSUME \A i, j \in DOMAIN list : list[i] = list[j] => i = j
        PROVE  /\ ~In(g, r)
               /\ \A i, j \in DOMAIN g : g[i] = g[j] => i = j
    <3>1. \A i \in 1..(m - 1) : g[i] # r
      BY <1>1, <2>1, <2>3, <2>9
    <3>2. ASSUME NEW i \in 1..(m - 1), NEW j \in 1..(m - 1), g[i] = g[j]
          PROVE  i = j
      <4>1. (IF i < k THEN i ELSE i + 1) = (IF j < k THEN j ELSE j + 1)
        BY <1>1, <2>3, <2>9, <3>2
      <4> QED BY <1>1, <2>1, <4>1
    <3> QED BY <2>6, <3>1, <3>2 DEF In
  <2> QED BY <2>2, <2>6, <2>8, <2>9
<1> QED BY <1>2, <1>3

LEMMA AppendFacts ==
  ASSUME NEW list \in Seq(Readers), NEW r \in Readers
  PROVE  /\ Append(list, r) \in Seq(Readers)
         /\ \A x \in Readers : In(Append(list, r), x) <=> In(list, x) \/ x = r
         /\ (\A i, j \in DOMAIN list : list[i] = list[j] => i = j) /\ ~In(list, r) =>
              \A i, j \in DOMAIN Append(list, r) :
                Append(list, r)[i] = Append(list, r)[j] => i = j
<1> DEFINE m == Len(list)
           g == Append(list, r)
<1>1. /\ m \in Nat /\ DOMAIN list = 1..m /\ g \in Seq(Readers)
      /\ DOMAIN g = 1..(m + 1) /\ g[m + 1] = r
      /\ \A i \in 1..m : g[i] = list[i]
  BY AppendProperties
<1> HIDE DEF m, g
<1>2. \A i \in 1..(m + 1) : i \in 1..m \/ i = m + 1
  BY <1>1
<1>3. 1..m \subseteq 1..(m + 1) /\ m + 1 \in 1..(m + 1)
  BY <1>1
<1>4. \A x \in Readers : In(g, x) <=> In(list, x) \/ x = r
  BY <1>1, <1>2, <1>3 DEF In
<1>5. ASSUME \A i, j \in DOMAIN list : list[i] = list[j] => i = j, ~In(list, r)
      PROVE  \A i, j \in DOMAIN g : g[i] = g[j] => i = j
  BY <1>1, <1>2, <1>5 DEF In
<1> QED BY <1>1, <1>4, <1>5 DEF g

-----------------------------------------------------------------------------
LEMMA InitLife == DeliveryInit => LifeInv
<1> SUFFICES ASSUME DeliveryInit PROVE LifeInv
  OBVIOUS
<1>1. LifeTypes
  BY DEF DeliveryInit, LifeTypes, Phases, Live, Steps
<1>2. Once /\ OwnData /\ NotFreed
  BY DEF DeliveryInit, Once, OwnData, NotFreed
<1>3. Listed /\ ReadyListed
  BY DEF DeliveryInit, Listed, ReadyListed, In, Live
<1> QED BY <1>1, <1>2, <1>3 DEF LifeInv

(* The library moves along the list and leaves the rest as it is. *)
LEMMA Moves ==
  ASSUME LifeTypes, step # "idle", UNCHANGED lifeVars,
         Advance \/ \E s \in {"store", "listener", "call"} : Proceed(s)
  PROVE  LifeTypes'
<1>1. /\ position \in Nat /\ position # 0 /\ position <= Len(subscriptions)
      /\ Len(subscriptions) \in Nat
  BY DEF LifeTypes
<1>2. CASE Advance
  BY <1>1, <1>2 DEF Advance, LifeTypes, lifeVars, Steps
<1>3. ASSUME NEW s \in {"store", "listener", "call"}, Proceed(s)
      PROVE  LifeTypes'
  <2>1. position' = position /\ step' = s
    BY <1>3 DEF Proceed
  <2> QED BY <1>1, <1>3, <2>1 DEF LifeTypes, lifeVars, Steps
<1> QED BY <1>2, <1>3

LEMMA TheLibrarysOrder ==
  AfterStep("store") = "listener" /\ AfterStep("listener") = "next"
  /\ ReceiveOrder[1] = "store"
BY DEF AfterStep, ReceiveOrder

LEMMA RestOfLife ==
  ASSUME LifeInv, UNCHANGED lifeVars
  PROVE  Once' /\ Listed' /\ ReadyListed' /\ OwnData'
BY DEF LifeInv, lifeVars, Once, Listed, ReadyListed, OwnData, In

LEMMA LibraryLife == ASSUME LifeInv, Library PROVE LifeInv'
<1>1. LifeTypes /\ UNCHANGED lifeVars
  BY DEF LifeInv, Library, on_message_arrived, Match, Store, Listener, Call,
         DeliveryFails, DeliverFreedMessage
<1>2. Once' /\ Listed' /\ ReadyListed' /\ OwnData'
  BY <1>1, RestOfLife
<1>3. LifeTypes'
  <2>1. CASE on_message_arrived
    BY <1>1, <2>1, EmptySeq DEF on_message_arrived, LifeTypes, lifeVars, Steps
  <2>2. CASE Match \/ Store \/ Listener \/ Call
    <3>1. step # "idle"
      BY <2>2 DEF Match, Store, Listener, Call
    <3>2. Advance \/ \E s \in {"store", "listener", "call"} : Proceed(s)
      <4>1. Proceed("next") => Advance
        BY DEF Proceed
      <4>2. CASE Match
        BY <4>2, TheLibrarysOrder DEF Match
      <4>3. CASE Store
        BY <4>3, TheLibrarysOrder DEF Store
      <4>4. CASE Listener
        <5>1. Proceed("call") \/ Proceed("next")
          BY <4>4, TheLibrarysOrder DEF Listener
        <5> QED BY <4>1, <5>1
      <4>5. CASE Call
        BY <4>1, <4>5, TheLibrarysOrder DEF Call
      <4> QED BY <2>2, <4>2, <4>3, <4>4, <4>5
    <3> QED BY <1>1, <3>1, <3>2, Moves
  <2>3. CASE DeliveryFails
    BY <1>1, <2>3 DEF DeliveryFails, LifeTypes, lifeVars, Steps
  <2>4. CASE DeliverFreedMessage
    BY <1>1, <2>4 DEF DeliverFreedMessage, LifeTypes, lifeVars, Steps
  <2> QED BY <2>1, <2>2, <2>3, <2>4 DEF Library
<1>4. NotFreed'
  <2>1. CASE Call
    <3>1. position \in DOMAIN subscriptions
      <4>1. step = "call" /\ step # "idle"
        BY <2>1 DEF Call
      <4>2. position \in Nat /\ position # 0 /\ position <= Len(subscriptions)
        BY <1>1, <4>1 DEF LifeTypes
      <4>3. DOMAIN subscriptions = 1..Len(subscriptions) /\ Len(subscriptions) \in Nat
        BY <1>1 DEF LifeTypes
      <4> QED BY <4>2, <4>3
    <3>2. Subscription \in Readers /\ In(subscriptions, Subscription)
      BY <1>1, <3>1 DEF LifeTypes, Subscription, In
    <3>3. phase[Subscription] # "deleted"
      BY <3>2 DEF LifeInv, Listed, Live
    <3>4. data_avail_listener_data[Subscription] \in {NULL, Subscription}
      BY <3>2 DEF LifeInv, OwnData
    <3> DEFINE reader == data_avail_listener_data[Subscription]
    <3>5. undefined' = CASE reader = NULL -> "no reader"
                         [] reader # NULL /\ phase[reader] = "deleted" -> "freed reader"
                         [] OTHER -> undefined
      BY <2>1 DEF Call
    <3>6. reader = NULL \/ phase[reader] # "deleted"
      BY <3>3, <3>4
    <3>7. undefined' \in {"no reader", undefined}
      <4> HIDE DEF reader
      <4> QED BY <3>5, <3>6
    <3> QED BY <3>7 DEF LifeInv, NotFreed
  <2>2. CASE ~Call
    BY <2>2 DEF Library, on_message_arrived, Match, Store, Listener, DeliveryFails,
                DeliverFreedMessage, LifeInv, NotFreed
  <2> QED BY <2>1, <2>2
<1> QED BY <1>2, <1>3, <1>4 DEF LifeInv

(* A reader goes from one phase to the next; the list of the client has it *)
(* exactly in the live ones.                                               *)
LEMMA PhaseStep ==
  ASSUME LifeInv, NEW r \in Readers, NEW p \in Phases, To(r, p),
         UNCHANGED <<position, step, undefined>>,
         subscriptions' \in Seq(Readers), readers' \in Seq(Readers), Once',
         position = 0 \/ subscriptions' = subscriptions,
         \A x \in Readers : x # r => (In(subscriptions', x) <=> In(subscriptions, x)),
         \A x \in Readers : x # r /\ In(readers, x) => In(readers', x),
         p \in Live <=> In(subscriptions', r),
         p = "ready" => In(readers', r),
         data_avail_listener_data' \in [Readers -> Readers \cup {NULL}], OwnData'
  PROVE  LifeInv'
<1>1. /\ phase' \in [Readers -> Phases] /\ phase'[r] = p
      /\ \A x \in Readers : x # r => phase'[x] = phase[x]
  BY DEF To, LifeInv, LifeTypes
<1>2. LifeTypes'
  BY <1>1 DEF LifeInv, LifeTypes
<1>3. Listed'
  BY <1>1 DEF LifeInv, Listed
<1>4. ReadyListed'
  BY <1>1 DEF LifeInv, ReadyListed
<1>5. NotFreed'
  BY DEF LifeInv, NotFreed
<1> QED BY <1>2, <1>3, <1>4, <1>5 DEF LifeInv

LEMMA ConnectionLife == ASSUME LifeInv, Connection PROVE LifeInv'
<1>0. PICK r \in Readers :
        \/ create_stream_reader(r) \/ Subscribed(r) \/ SubscribeRefused(r)
        \/ StoreListener(r) \/ StoreListenerData(r)
        \/ delete_stream_reader(r) \/ Unsubscribe(r) \/ Free(r)
  BY DEF Connection
<1>1. /\ subscriptions \in Seq(Readers) /\ readers \in Seq(Readers)
      /\ Once /\ OwnData
      /\ data_avail_listener_data \in [Readers -> Readers \cup {NULL}]
      /\ phase[r] \in Live <=> In(subscriptions, r)
      /\ phase[r] = "ready" => In(readers, r)
  BY DEF LifeInv, LifeTypes, Listed, ReadyListed
<1>2. UNCHANGED <<position, step, undefined>>
  BY <1>0 DEF create_stream_reader, Subscribed, SubscribeRefused, StoreListener,
              StoreListenerData, delete_stream_reader, Unsubscribe, Free,
              unchangedByLife, libraryVars
<1>3. ASSUME UNCHANGED data_avail_listener_data
      PROVE  /\ data_avail_listener_data' \in [Readers -> Readers \cup {NULL}]
             /\ OwnData'
  BY <1>1, <1>3 DEF OwnData
<1>4. ASSUME UNCHANGED subscriptions
      PROVE  /\ subscriptions' \in Seq(Readers) /\ Once'
             /\ \A x \in Readers : In(subscriptions', x) <=> In(subscriptions, x)
  BY <1>1, <1>4 DEF Once
<1>5. ASSUME UNCHANGED readers
      PROVE  /\ readers' \in Seq(Readers)
             /\ \A x \in Readers : In(readers, x) => In(readers', x)
  BY <1>1, <1>5
<1>6. ASSUME subscriptions' = Removed(subscriptions, r)
      PROVE  /\ subscriptions' \in Seq(Readers) /\ Once' /\ ~In(subscriptions', r)
             /\ \A x \in Readers : x # r => (In(subscriptions', x) <=> In(subscriptions, x))
  BY <1>1, <1>6, RemovedFacts DEF Once
<1>7. CASE create_stream_reader(r)
  <2>1. /\ subscriptions' = Append(subscriptions, r) /\ To(r, "adding") /\ position = 0
        /\ UNCHANGED <<readers, data_avail_listener_data>> /\ ~In(subscriptions, r)
    BY <1>1, <1>7 DEF create_stream_reader, LockFree, Live
  <2>2. /\ subscriptions' \in Seq(Readers) /\ Once' /\ In(subscriptions', r)
        /\ \A x \in Readers : x # r => (In(subscriptions', x) <=> In(subscriptions, x))
    BY <1>1, <2>1, AppendFacts DEF Once
  <2>3. "adding" \in Live /\ "adding" \in Phases /\ "adding" # "ready"
    BY DEF Live, Phases
  <2> QED BY <1>2, <1>3, <1>5, <2>1, <2>2, <2>3, PhaseStep
<1>8. CASE Subscribed(r)
  <2>1. /\ To(r, "subscribed") /\ In(subscriptions, r)
        /\ UNCHANGED <<subscriptions, readers, data_avail_listener_data>>
    BY <1>1, <1>8 DEF Subscribed, Live
  <2>2. "subscribed" \in Live /\ "subscribed" \in Phases /\ "subscribed" # "ready"
    BY DEF Live, Phases
  <2> QED BY <1>2, <1>3, <1>4, <1>5, <2>1, <2>2, PhaseStep
<1>9. CASE SubscribeRefused(r)
  <2>1. /\ To(r, "deleted") /\ subscriptions' = Removed(subscriptions, r) /\ position = 0
        /\ UNCHANGED <<readers, data_avail_listener_data>>
    BY <1>9 DEF SubscribeRefused, LockFree
  <2>2. "deleted" \notin Live /\ "deleted" \in Phases /\ "deleted" # "ready"
    BY DEF Live, Phases
  <2> QED BY <1>2, <1>3, <1>5, <1>6, <2>1, <2>2, PhaseStep
<1>10. CASE StoreListener(r)
  <2>1. /\ To(r, "listening") /\ In(subscriptions, r)
        /\ UNCHANGED <<subscriptions, readers, data_avail_listener_data>>
    BY <1>1, <1>10 DEF StoreListener, Live
  <2>2. "listening" \in Live /\ "listening" \in Phases /\ "listening" # "ready"
    BY DEF Live, Phases
  <2> QED BY <1>2, <1>3, <1>4, <1>5, <2>1, <2>2, PhaseStep
<1>11. CASE StoreListenerData(r)
  <2>1. /\ data_avail_listener_data' = [data_avail_listener_data EXCEPT ![r] = r]
        /\ In(subscriptions, r) /\ UNCHANGED subscriptions
    BY <1>1, <1>11 DEF StoreListenerData, Live
  <2>2. data_avail_listener_data' \in [Readers -> Readers \cup {NULL}] /\ OwnData'
    BY <1>1, <2>1 DEF OwnData
  <2>3. CASE To(r, "ready") /\ readers' = Append(readers, r)
    <3>1. "ready" \in Live /\ "ready" \in Phases
      BY DEF Live, Phases
    <3>2. readers' \in Seq(Readers) /\ \A x \in Readers : In(readers', x) <=> In(readers, x) \/ x = r
      BY <1>1, <2>3, AppendFacts
    <3> QED BY <1>2, <1>4, <2>1, <2>2, <2>3, <3>1, <3>2, PhaseStep
  <2>4. CASE To(r, "deleting") /\ UNCHANGED readers
    <3>1. "deleting" \in Live /\ "deleting" \in Phases /\ "deleting" # "ready"
      BY DEF Live, Phases
    <3> QED BY <1>2, <1>4, <1>5, <2>1, <2>2, <2>4, <3>1, PhaseStep
  <2> QED BY <1>11, <2>3, <2>4 DEF StoreListenerData
<1>12. CASE delete_stream_reader(r)
  <2>1. /\ To(r, "deleting") /\ In(subscriptions, r)
        /\ UNCHANGED <<subscriptions, readers, data_avail_listener_data>>
    BY <1>1, <1>12 DEF delete_stream_reader, Live
  <2>2. "deleting" \in Live /\ "deleting" \in Phases /\ "deleting" # "ready"
    BY DEF Live, Phases
  <2> QED BY <1>2, <1>3, <1>4, <1>5, <2>1, <2>2, PhaseStep
<1>13. CASE Unsubscribe(r)
  <2>1. /\ To(r, "unsubscribed") /\ subscriptions' = Removed(subscriptions, r) /\ position = 0
        /\ UNCHANGED <<readers, data_avail_listener_data>>
    BY <1>13 DEF Unsubscribe, LockFree
  <2>2. "unsubscribed" \notin Live /\ "unsubscribed" \in Phases /\ "unsubscribed" # "ready"
    BY DEF Live, Phases
  <2> QED BY <1>2, <1>3, <1>5, <1>6, <2>1, <2>2, PhaseStep
<1>14. CASE Free(r)
  <2>1. /\ To(r, "deleted") /\ readers' = Removed(readers, r) /\ ~In(subscriptions, r)
        /\ UNCHANGED <<subscriptions, data_avail_listener_data>>
    BY <1>1, <1>14 DEF Free, Live
  <2>2. /\ readers' \in Seq(Readers)
        /\ \A x \in Readers : x # r /\ In(readers, x) => In(readers', x)
    BY <1>1, <2>1, RemovedFacts
  <2>3. "deleted" \notin Live /\ "deleted" \in Phases /\ "deleted" # "ready"
    BY DEF Live, Phases
  <2> QED BY <1>2, <1>3, <1>4, <2>1, <2>2, <2>3, PhaseStep
<1> QED BY <1>0, <1>7, <1>8, <1>9, <1>10, <1>11, <1>12, <1>13, <1>14

LEMMA LifeStep == ASSUME LifeInv, [DeliveryNext]_deliveryVars PROVE LifeInv'
<1>1. CASE Library
  BY <1>1, LibraryLife
<1>2. CASE Connection
  BY <1>2, ConnectionLife
<1>3. CASE Application \/ Session \/ UNCHANGED deliveryVars
  <2>1. UNCHANGED lifeVars /\ UNCHANGED libraryVars
    BY <1>3 DEF Application, Session, SessionReads, SessionReturns, deliveryVars
  <2>2. LifeTypes' /\ NotFreed'
    BY <2>1 DEF LifeInv, LifeTypes, NotFreed, lifeVars, libraryVars
  <2> QED BY <2>1, <2>2, RestOfLife DEF LifeInv
<1> QED BY <1>1, <1>2, <1>3 DEF DeliveryNext

-----------------------------------------------------------------------------
(* The observed queue while a stream reader owns it. *)
Told == position # 0 /\ step \in {"listener", "call"} /\ Subscription = Observed

Waiting ==
  owner = "reader" =>
    /\ queue \in Seq(Nat) /\ received_count \in Nat
    /\ \A i \in DOMAIN queue : queue[i] <= received_count
    /\ undefined = "no" /\ ~announced /\ ~Told => \A i \in DOMAIN queue : queue[i] <= unheard

LEMMA InitWaiting == DeliveryInit => Waiting
BY DEF DeliveryInit, Init, Waiting

LEMMA ReceiveFacts ==
  ASSUME queue \in Seq(Nat), received_count \in Nat,
         \A i \in DOMAIN queue : queue[i] <= received_count, Receive
  PROVE  /\ queue' \in Seq(Nat) /\ received_count' \in Nat
         /\ \A i \in DOMAIN queue' : queue'[i] <= received_count'
<1>1. queue' = Append(queue, received_count + 1) /\ received_count' = received_count + 1
  BY DEF Receive
<1>2. /\ queue' \in Seq(Nat) /\ DOMAIN queue' = 1..(Len(queue) + 1)
      /\ DOMAIN queue = 1..Len(queue) /\ Len(queue) \in Nat
      /\ \A i \in 1..Len(queue) : queue'[i] = queue[i] /\ queue[i] \in Nat
      /\ queue'[Len(queue) + 1] = received_count + 1
  BY <1>1, AppendProperties
<1>3. \A i \in 1..(Len(queue) + 1) : i \in 1..Len(queue) \/ i = Len(queue) + 1
  BY <1>2
<1> QED BY <1>1, <1>2, <1>3

LEMMA WaitingKept ==
  ASSUME Waiting, UNCHANGED <<owner, queue, received_count>>,
         undefined' = "no" => undefined = "no",
         unheard' = unheard, announced => announced', Told => Told' \/ announced' \/ undefined' # "no"
  PROVE  Waiting'
BY DEF Waiting

LEMMA WaitingStep == ASSUME LifeInv, Waiting, [DeliveryNext]_deliveryVars PROVE Waiting'
<1> SUFFICES ASSUME owner' = "reader"
             PROVE  Waiting'
  BY DEF Waiting
<1>1. owner' = owner
  BY DEF DeliveryNext, Application, Library, on_message_arrived, Match, Store, Listener, Call,
         DeliveryFails, DeliverFreedMessage, Connection, create_stream_reader, Subscribed,
         SubscribeRefused, StoreListener, StoreListenerData, delete_stream_reader, Unsubscribe,
         Free, unchangedByLife, Session, SessionReads, SessionReturns, deliveryVars, lifeVars
<1>2. /\ owner = "reader" /\ queue \in Seq(Nat) /\ received_count \in Nat
      /\ \A i \in DOMAIN queue : queue[i] <= received_count
  BY <1>1 DEF Waiting
<1>3. position = 0 <=> step = "idle"
  BY DEF LifeInv, LifeTypes
<1>4. CASE on_message_arrived \/ Match \/ DeliveryFails \/ DeliverFreedMessage
  <2>1. UNCHANGED <<queue, received_count, unheard, announced>>
    BY <1>4 DEF on_message_arrived, Match, DeliveryFails, DeliverFreedMessage, vars, msg_status,
                sessionVars
  <2>2. ~Told \/ undefined' # "no"
    BY <1>3, <1>4 DEF on_message_arrived, Match, DeliveryFails, DeliverFreedMessage, Told, LockFree
  <2>3. undefined' = "no" => undefined = "no"
    BY <1>4 DEF on_message_arrived, Match, DeliveryFails, DeliverFreedMessage
  <2> QED BY <1>1, <2>1, <2>2, <2>3, WaitingKept
<1>5. CASE Store
  <2>1. /\ step = "store" /\ position' = position /\ step' = "listener"
        /\ UNCHANGED <<subscriptions, undefined, unheard, announced>>
    BY <1>5, TheLibrarysOrder DEF Store, Proceed, lifeVars, sessionVars
  <2>2. CASE Subscription = Observed
    <3>1. Receive
      BY <1>5, <2>2 DEF Store
    <3>2. Told'
      BY <1>3, <2>1, <2>2 DEF Told, Subscription
    <3> QED BY <1>2, <3>1, <3>2, ReceiveFacts DEF Waiting
  <2>3. CASE Subscription # Observed
    <3>1. UNCHANGED <<queue, received_count>>
      BY <1>5, <2>3 DEF Store, vars, msg_status
    <3> QED BY <1>1, <2>1, <2>3, <3>1, WaitingKept DEF Told
  <2> QED BY <2>2, <2>3
<1>6. CASE Listener
  <2>1. /\ step = "listener" /\ position # 0
        /\ UNCHANGED <<queue, received_count, subscriptions, undefined, announced>>
    BY <1>3, <1>6 DEF Listener, vars, msg_status, lifeVars, sessionVars
  <2>2. CASE data_avail_listener[Subscription]
    <3>1. position' = position /\ step' = "call" /\ unheard' = unheard
      BY <1>6, <2>2 DEF Listener, Proceed
    <3>2. Told => Told'
      BY <2>1, <3>1 DEF Told, Subscription
    <3> QED BY <1>1, <2>1, <3>1, <3>2, WaitingKept
  <2>3. CASE ~data_avail_listener[Subscription]
    <3>1. unheard' = IF Subscription = Observed THEN received_count ELSE unheard
      BY <1>6, <2>3 DEF Listener
    <3>2. CASE Subscription = Observed
      BY <1>2, <2>1, <3>1, <3>2 DEF Waiting
    <3>3. CASE Subscription # Observed
      <4>1. ~Told
        BY <3>3 DEF Told
      <4> QED BY <1>1, <2>1, <3>1, <3>3, <4>1, WaitingKept
    <3> QED BY <3>2, <3>3
  <2> QED BY <2>2, <2>3
<1>7. CASE Call
  <2>1. /\ UNCHANGED <<queue, received_count, unheard>>
        /\ undefined = "no" /\ step = "call" /\ position # 0
    BY <1>3, <1>7 DEF Call, Running, vars, msg_status
  <2>2. Subscription \in Readers
    BY <2>1 DEF LifeInv, LifeTypes, Subscription
  <2>3. data_avail_listener_data[Subscription] \in {NULL, Subscription}
    BY <2>2 DEF LifeInv, OwnData
  <2>4. /\ announced => announced'
        /\ data_avail_listener_data[Subscription] = Observed => announced'
    BY <1>7, Zenon DEF Call
  <2>5. CASE data_avail_listener_data[Subscription] = NULL
    <3>1. undefined' = "no reader"
      BY <1>7, <2>5 DEF Call
    <3> QED BY <1>1, <2>1, <2>4, <3>1, WaitingKept
  <2>6. CASE data_avail_listener_data[Subscription] = Subscription
    <3>1. Told => announced'
      BY <2>4, <2>6 DEF Told
    <3> QED BY <1>1, <2>1, <2>4, <3>1, WaitingKept
  <2> QED BY <2>3, <2>5, <2>6
<1>8. CASE Connection
  <2>0. PICK r \in Readers :
          \/ create_stream_reader(r) \/ Subscribed(r) \/ SubscribeRefused(r)
          \/ StoreListener(r) \/ StoreListenerData(r)
          \/ delete_stream_reader(r) \/ Unsubscribe(r) \/ Free(r)
    BY <1>8 DEF Connection
  <2>1. UNCHANGED <<queue, received_count, unheard, announced, undefined, position, step>>
    BY <2>0 DEF create_stream_reader, Subscribed, SubscribeRefused, StoreListener,
                StoreListenerData, delete_stream_reader, Unsubscribe, Free,
                unchangedByLife, libraryVars, sessionVars, vars, msg_status
  <2>2. position = 0 \/ subscriptions' = subscriptions
    BY <2>0 DEF create_stream_reader, Subscribed, SubscribeRefused, StoreListener,
                StoreListenerData, delete_stream_reader, Unsubscribe, Free, LockFree
  <2>3. Told => Told'
    BY <2>1, <2>2 DEF Told, Subscription
  <2> QED BY <1>1, <2>1, <2>3, WaitingKept
<1>9. CASE SessionReads
  <2>1. queue' = Remaining(Len(queue)) /\ UNCHANGED received_count
    BY <1>9 DEF SessionReads, LoanRead, Hand
  <2>2. queue' = <<>>
    <3>1. Len(queue) \in Nat /\ DOMAIN Cleared(Len(queue)) = 1..Len(queue)
      BY <1>2 DEF Cleared
    <3>2. Cleared(Len(queue)) \in Seq(Nat)
      BY <1>2, <3>1 DEF Cleared, Broken
    <3>3. SubSeq(Cleared(Len(queue)), 1, 0) = <<>>
      BY <3>2
    <3> QED BY <2>1, <3>1, <3>3 DEF Remaining
  <2> QED BY <1>2, <2>1, <2>2 DEF Waiting
<1>10. CASE SessionReturns
  <2>1. UNCHANGED <<queue, received_count, announced, unheard>> /\ UNCHANGED <<lifeVars, libraryVars>>
    BY <1>10 DEF SessionReturns, ReturnLoan, LoanReturned, msg_status
  <2>2. Told => Told'
    BY <2>1 DEF Told, Subscription, lifeVars, libraryVars
  <2> QED BY <1>1, <2>1, <2>2, WaitingKept DEF libraryVars
<1>11. CASE Application
  BY <1>2, <1>11 DEF Application
<1>12. CASE UNCHANGED deliveryVars
  BY <1>12 DEF deliveryVars, vars, msg_status, lifeVars, libraryVars, sessionVars,
               Waiting, Told, Subscription
<1> QED BY <1>4, <1>5, <1>6, <1>7, <1>8, <1>9, <1>10, <1>11, <1>12
        DEF DeliveryNext, Library, Session

-----------------------------------------------------------------------------
LEMMA DeliveryInvariant == DeliverySpec => [](LifeInv /\ Waiting)
<1>1. DeliveryInit => LifeInv /\ Waiting
  BY InitLife, InitWaiting
<1>2. LifeInv /\ Waiting /\ [DeliveryNext]_deliveryVars => (LifeInv /\ Waiting)'
  BY LifeStep, WaitingStep
<1> QED BY <1>1, <1>2, PTL DEF DeliverySpec

(* The library never calls a reader that was freed, and the lists of the   *)
(* client and of the connection agree with the lives of the readers, for   *)
(* any number of readers (Client.c:722, BrokerConnection.c:281).           *)
THEOREM NeverCallsFreedReader == DeliverySpec => []NoCallIntoFreedReader
<1>1. LifeInv => NoCallIntoFreedReader
  <2> SUFFICES ASSUME LifeInv PROVE NoCallIntoFreedReader
    OBVIOUS
  <2>1. undefined # "freed reader"
    BY DEF LifeInv, NotFreed
  <2>2. \A i \in DOMAIN subscriptions : phase[subscriptions[i]] # "deleted"
    <3> SUFFICES ASSUME NEW i \in DOMAIN subscriptions
                 PROVE  phase[subscriptions[i]] # "deleted"
      OBVIOUS
    <3>1. subscriptions[i] \in Readers /\ In(subscriptions, subscriptions[i])
      BY DEF LifeInv, LifeTypes, In
    <3> QED BY <3>1 DEF LifeInv, Listed, Live
  <2>3. \A r \in Readers : phase[r] = "ready" => In(subscriptions, r) /\ In(readers, r)
    BY DEF LifeInv, Listed, ReadyListed, Live
  <2> QED BY <2>1, <2>2, <2>3 DEF NoCallIntoFreedReader, In
<1> QED BY <1>1, DeliveryInvariant, PTL

(* No message waits unannounced but those that came before the listener    *)
(* was installed (MessageReader.c:89), for any number of messages.         *)
THEOREM NothingWaitsUnannouncedTheorem == DeliverySpec => []NothingWaitsUnannounced
<1>1. Waiting => NothingWaitsUnannounced
  BY DEF Waiting, NothingWaitsUnannounced, Running, Told
<1> QED BY <1>1, DeliveryInvariant, PTL

-----------------------------------------------------------------------------
(* Between the threads the queue takes its own steps and no others, and a  *)
(* stream reader reads it by loans only.                                   *)
LoansOnly == owner = "reader" => ~Damaged /\ ~crashed

LEMMA DeliveryIsQueueStep ==
  ASSUME [DeliveryNext]_deliveryVars
  PROVE  /\ [Next]_vars
         /\ owner' = owner
         /\ owner = "reader" => \/ UNCHANGED vars \/ Receive
                                \/ LoanRead(Loan) \/ ReturnLoan(Loan)
<1>1. CASE Library
  BY <1>1 DEF Library, on_message_arrived, Match, Store, Listener, Call, DeliveryFails,
              DeliverFreedMessage, Next, lifeVars
<1>2. CASE Connection
  <2>1. UNCHANGED vars /\ owner' = owner
    BY <1>2 DEF Connection, create_stream_reader, Subscribed, SubscribeRefused, StoreListener,
                StoreListenerData, delete_stream_reader, Unsubscribe, Free, unchangedByLife
  <2> QED BY <2>1
<1>3. CASE Session
  <2>1. Loan \in Seqs
    BY ReadersAssumption
  <2> QED BY <1>3, <2>1 DEF Session, SessionReads, SessionReturns, Running, Next, lifeVars
<1>4. CASE Application
  BY <1>4 DEF Application, lifeVars
<1>5. CASE UNCHANGED deliveryVars
  BY <1>5 DEF deliveryVars, lifeVars
<1> QED BY <1>1, <1>2, <1>3, <1>4, <1>5 DEF DeliveryNext

LEMMA LoansOnlyStep ==
  ASSUME QueueInv, LoansOnly, [DeliveryNext]_deliveryVars
  PROVE  LoansOnly'
<1> SUFFICES ASSUME owner' = "reader" PROVE ~Damaged' /\ ~crashed'
  BY DEF LoansOnly
<1>1. /\ owner = "reader" /\ ~Damaged /\ ~crashed
      /\ \/ UNCHANGED vars \/ Receive \/ LoanRead(Loan) \/ ReturnLoan(Loan)
  BY DeliveryIsQueueStep DEF LoansOnly
<1>2. queue \in Seq(Nat) /\ Len(queue) \in Nat /\ received_count \in Nat
  BY DEF QueueInv, TypeOK
<1>3. CASE Receive
  <2>1. queue' = Append(queue, received_count + 1) /\ crashed' = crashed
    BY <1>3 DEF Receive
  <2>2. CASE queue = <<>>
    BY <1>1, <1>2, <2>1, <2>2 DEF Damaged, Broken
  <2>3. CASE queue # <<>>
    <3>1. 1 \in 1..Len(queue)
      BY <1>2, <2>3, EmptySeq
    <3>2. queue'[1] = queue[1]
      BY <1>2, <2>1, <3>1, AppendProperties
    <3> QED BY <1>1, <2>1, <2>3, <3>2 DEF Damaged
  <2> QED BY <2>2, <2>3
<1>4. CASE LoanRead(Loan)
  <2>1. queue' = SubSeq(Cleared(Len(queue)), 1, 0) /\ crashed' = crashed
    BY <1>2, <1>4 DEF LoanRead, Hand, Remaining
  <2>2. queue' = <<>>
    BY <2>1
  <2> QED BY <1>1, <2>1, <2>2 DEF Damaged
<1>5. CASE UNCHANGED vars \/ ReturnLoan(Loan)
  BY <1>1, <1>5 DEF vars, ReturnLoan, LoanReturned, Damaged
<1> QED BY <1>1, <1>3, <1>4, <1>5

LEMMA QueueAmongThreads == DeliverySpec => [](QueueInv /\ LoansOnly)
<1>1. DeliveryInit => QueueInv /\ LoansOnly
  BY InitQueueInv DEF DeliveryInit, LoansOnly, Init, Damaged
<1>2. QueueInv /\ LoansOnly /\ [DeliveryNext]_deliveryVars => (QueueInv /\ LoansOnly)'
  BY DeliveryIsQueueStep, NextStep, LoansOnlyStep
<1> QED BY <1>1, <1>2, PTL DEF DeliverySpec

(* What the library stores in the queue of a subscription and the session  *)
(* reads from it, in any order of their steps, is handed over in order,    *)
(* once and completely until a copying read leaves a cleared pointer.      *)
THEOREM DeliveryKeepsPromise == DeliverySpec => KeepsInboxPromise
<1>1. DeliveryInit => Inbox!InboxInit
  BY InitQueueInv DEF DeliveryInit
<1>2. QueueInv /\ [DeliveryNext]_deliveryVars
        => [Damaged' \/ Inbox!InboxNext]_(Inbox!inboxVars)
  BY DeliveryIsQueueStep, NextStep DEF Promise
<1> QED BY <1>1, <1>2, QueueAmongThreads, PTL DEF DeliverySpec, KeepsInboxPromise

ReaderSteps == owner = "reader" => Inbox!InboxNext \/ UNCHANGED Inbox!inboxVars

(* The stream reader of the adapter never leaves such a pointer: for it    *)
(* the queue is a MessageInbox without exception, and read_unbounded never *)
(* follows a pointer to no message.                                        *)
THEOREM ReaderHasAnInbox ==
  DeliverySpec => [](owner = "reader" => ~crashed) /\ [][ReaderSteps]_deliveryVars
<1>1. LoansOnly => (owner = "reader" => ~crashed)
  BY DEF LoansOnly
<1>2. QueueInv /\ LoansOnly' /\ [DeliveryNext]_deliveryVars => [ReaderSteps]_deliveryVars
  <2> SUFFICES ASSUME QueueInv, LoansOnly', [DeliveryNext]_deliveryVars, owner = "reader"
               PROVE  Inbox!InboxNext \/ UNCHANGED Inbox!inboxVars
    BY DEF ReaderSteps
  <2>1. Promise /\ owner' = owner
    BY DeliveryIsQueueStep, NextStep
  <2> QED BY <2>1 DEF Promise, LoansOnly
<1> QED BY <1>1, <1>2, QueueAmongThreads, PTL DEF DeliverySpec

-----------------------------------------------------------------------------
(* The scanner of topic filters.  The places of a text, its end included.  *)
Places(s) == {p \in [level : 1..Len(s), char : Nat] : p.char <= Len(s[p.level])}

(* The two places of the scanner are one, because only a slash matches a   *)
(* slash and a wildcard ends its level in both; and before that place the  *)
(* filter agrees with the topic, unless it is malformed.                   *)
InStep(f, t, p) ==
  /\ p \in Places(f) /\ p \in Places(t)
  /\ ~Malformed(f) =>
       /\ Agree(f, t, p.level - 1)
       /\ \A m \in 1..p.char :
            f[p.level][m] = t[p.level][m] /\ f[p.level][m] \notin Wildcards

(* The filters tried before did not match, and the one being tried is in   *)
(* step with the topic.                                                    *)
FilterInv ==
  /\ filters \in Seq(Seq(Seq(Characters))) /\ <<>> \notin {filters[n] : n \in 1..Len(filters)}
  /\ verdict = "none" /\ filters = <<>> => trying = 1
  /\ verdict = "none" /\ filters # <<>> =>
       /\ trying \in 1..Len(filters)
       /\ f_i = v_i /\ InStep(filter, topic, v_i)
       /\ \A n \in 1..(trying - 1) : ~Missed(filters[n], topic)
  /\ AgreesWithStandard /\ FailsOnEmptyLevels

-----------------------------------------------------------------------------
LEMMA LevelsAreSeqs ==
  ASSUME NEW s, IsText(s), NEW n \in 1..Len(s)
  PROVE  Len(s) \in Nat \ {0} /\ s[n] \in Seq(Characters) /\ Len(s[n]) \in Nat
BY DEF IsText

LEMMA StartIsPlace ==
  ASSUME NEW s, IsText(s)
  PROVE  Start \in Places(s)
<1>1. 1 \in 1..Len(s)
  BY LevelsAreSeqs DEF IsText
<1>2. QED
  BY <1>1, LevelsAreSeqs DEF Start, Places

(* What the scanner sees at a place and where it goes from there. *)
LEMMA WithinLevel ==
  ASSUME NEW s, IsText(s), NEW p \in Places(s), p.char < Len(s[p.level])
  PROVE  /\ At(s, p) = s[p.level][p.char + 1]
         /\ At(s, p) \in Characters /\ At(s, p) \notin {"/", NUL}
         /\ Succ(s, p) = [level |-> p.level, char |-> p.char + 1]
         /\ Succ(s, p) \in Places(s)
<1>1. p.level \in 1..Len(s) /\ p.char \in Nat
  BY DEF Places
<1>2. s[p.level] \in Seq(Characters) /\ Len(s[p.level]) \in Nat
  BY <1>1, LevelsAreSeqs
<1>3. At(s, p) = s[p.level][p.char + 1]
  BY <1>1, <1>2 DEF At
<1>4. At(s, p) \in Characters
  BY <1>1, <1>2, <1>3
<1>5. Succ(s, p) = [level |-> p.level, char |-> p.char + 1]
  BY <1>1, <1>2 DEF Succ, LevelEnd, Places
<1>6. Succ(s, p) \in Places(s)
  BY <1>1, <1>2, <1>5 DEF Places
<1> QED
  BY <1>3, <1>4, <1>5, <1>6, TextAssumption

LEMMA BetweenLevels ==
  ASSUME NEW s, IsText(s), NEW p \in Places(s), p.char = Len(s[p.level]), p.level < Len(s)
  PROVE  /\ At(s, p) = "/"
         /\ Succ(s, p) = [level |-> p.level + 1, char |-> 0]
         /\ Succ(s, p) \in Places(s)
<1>1. p.level \in 1..Len(s) /\ p.char \in Nat /\ Len(s) \in Nat
  BY LevelsAreSeqs DEF Places
<1>2. Len(s[p.level]) \in Nat /\ p.level + 1 \in 1..Len(s) /\ Len(s[p.level + 1]) \in Nat
  BY <1>1, LevelsAreSeqs
<1>3. At(s, p) = "/"
  BY <1>1, <1>2 DEF At
<1>4. Succ(s, p) = [level |-> p.level + 1, char |-> 0]
  BY <1>1, <1>2 DEF Succ, LevelEnd, Places
<1> QED
  BY <1>1, <1>2, <1>3, <1>4 DEF Places

LEMMA AtTheEnd ==
  ASSUME NEW s, IsText(s), NEW p \in Places(s), p.char = Len(s[p.level]), p.level >= Len(s)
  PROVE  At(s, p) = NUL /\ p = End(s) /\ p.level = Len(s)
<1>1. p.level \in 1..Len(s) /\ p.char \in Nat /\ Len(s) \in Nat
  BY LevelsAreSeqs DEF Places
<1>2. Len(s[p.level]) \in Nat /\ p.level = Len(s)
  BY <1>1, LevelsAreSeqs
<1> QED
  BY <1>1, <1>2 DEF At, End, Places

(* Every place is of one of these three kinds. *)
LEMMA KindsOfPlaces ==
  ASSUME NEW s, IsText(s), NEW p \in Places(s)
  PROVE  /\ p.level \in 1..Len(s) /\ p.char \in 0..Len(s[p.level])
         /\ Len(s) \in Nat /\ Len(s[p.level]) \in Nat
         /\ At(s, p) = NUL <=> p = End(s)
         /\ At(s, p) = "/" <=> p.char = Len(s[p.level]) /\ p.level < Len(s)
         /\ p = End(s) => p.char = Len(s[p.level]) /\ p.level = Len(s)
<1>1. p.level \in 1..Len(s) /\ p.char \in Nat /\ p.char <= Len(s[p.level])
  BY DEF Places
<1>2. Len(s) \in Nat /\ Len(s[p.level]) \in Nat
  BY <1>1, LevelsAreSeqs
<1>3. p = End(s) => p.char = Len(s[p.level]) /\ p.level = Len(s)
  BY DEF End
<1>4. CASE p.char < Len(s[p.level])
  BY <1>1, <1>2, <1>3, <1>4, WithinLevel
<1>5. CASE p.char = Len(s[p.level]) /\ p.level < Len(s)
  BY <1>1, <1>2, <1>3, <1>5, BetweenLevels DEF NUL
<1>6. CASE p.char = Len(s[p.level]) /\ p.level >= Len(s)
  BY <1>1, <1>2, <1>3, <1>6, AtTheEnd DEF NUL
<1> QED
  BY <1>1, <1>2, <1>4, <1>5, <1>6

-----------------------------------------------------------------------------
(* What the answers say of one filter. *)
Truthful(answer, f, t) ==
  /\ answer = "no" => ~Missed(f, t)
  /\ answer = "yes" => LetThrough(f, t)
  /\ answer = "error" => Fails(f, t)

(* What every step of the scanner begins with and leaves alone. *)
Here == topic \in Topics /\ verdict = "none" /\ UNCHANGED <<filters, topic>>

LEMMA SettleKeeps ==
  ASSUME Here, FilterInv, filters # <<>>, NEW answer \in {"no", "yes", "error"},
         Settle(answer), Truthful(answer, filter, topic)
  PROVE  FilterInv'
<1>1. IsText(topic) /\ \A n \in 1..Len(filters) : IsText(filters[n])
  BY TextAssumption DEF Here, FilterInv, IsText
<1>2. trying \in 1..Len(filters) /\ Len(filters) \in Nat
  BY DEF Here, FilterInv
<1>3. \A n \in 1..(trying - 1) : ~Missed(filters[n], topic)
  BY DEF Here, FilterInv
<1>4. filters' = filters /\ topic' = topic
  BY DEF Here
<1>5. CASE answer = "no" /\ trying < Len(filters)
  <2>1. verdict' = "none" /\ trying' = trying + 1 /\ f_i' = Start /\ v_i' = Start
    BY <1>5 DEF Settle, Here
  <2>2. trying + 1 \in 1..Len(filters)
    BY <1>2, <1>5
  <2>3. \A n \in 1..((trying + 1) - 1) : ~Missed(filters[n], topic)
    BY <1>2, <1>3, <1>5 DEF Truthful, filter
  <2>4. Start \in Places(filters[trying + 1]) /\ Start \in Places(topic)
    BY <1>1, <2>2, StartIsPlace
  <2>5. InStep(filters[trying + 1], topic, Start)
    BY <2>4 DEF InStep, Start, Agree
  <2> QED
    BY <1>2, <1>4, <2>1, <2>2, <2>3, <2>5
       DEF FilterInv, AgreesWithStandard, NothingMissed, StrangersAreCutShort,
           FailsOnEmptyLevels, filter
<1>6. CASE ~(answer = "no" /\ trying < Len(filters))
  <2>1. verdict' = answer
    BY <1>6 DEF Settle
  <2>2. CASE answer = "no"
    <3>1. trying = Len(filters)
      BY <1>2, <1>6, <2>2
    <3>2. \A n \in 1..Len(filters) : ~Missed(filters[n], topic)
      BY <1>2, <1>3, <2>2, <3>1 DEF Truthful, filter
    <3> QED
      BY <1>4, <2>1, <2>2, <3>2
         DEF FilterInv, AgreesWithStandard, NothingMissed, StrangersAreCutShort,
             FailsOnEmptyLevels
  <2>3. CASE answer = "yes"
    <3>1. LetThrough(filters[trying], topic)
      BY <2>3 DEF Truthful, filter
    <3> QED
      BY <1>2, <1>4, <2>1, <2>3, <3>1
         DEF FilterInv, AgreesWithStandard, NothingMissed, StrangersAreCutShort,
             FailsOnEmptyLevels
  <2>4. CASE answer = "error"
    <3>1. Fails(filters[trying], topic)
      BY <2>4 DEF Truthful, filter
    <3> QED
      BY <1>2, <1>4, <2>1, <2>4, <3>1
         DEF FilterInv, AgreesWithStandard, NothingMissed, StrangersAreCutShort,
             FailsOnEmptyLevels
  <2> QED
    BY <2>2, <2>3, <2>4
<1> QED
  BY <1>5, <1>6

LEMMA GoOnKeeps ==
  ASSUME Here, FilterInv, filters # <<>>, NEW i, GoOn(i, i), InStep(filter, topic, i)
  PROVE  FilterInv'
<1>1. filters' = filters /\ topic' = topic /\ verdict' = "none" /\ trying' = trying
      /\ f_i' = i /\ v_i' = i
  BY DEF Here, GoOn
<1> QED
  BY <1>1
     DEF FilterInv, Here, AgreesWithStandard, NothingMissed, StrangersAreCutShort,
         FailsOnEmptyLevels, filter

-----------------------------------------------------------------------------
(* One lemma for each kind of round of the loop.  f and t are the filter   *)
(* and the topic, p the place in both.                                     *)
Scans(f, t, p) == IsText(f) /\ IsText(t) /\ InStep(f, t, p)

(* A level of a filter that agrees with the topic, where the filter has no *)
(* wildcard, is the level of the topic. *)
LEMMA OneWildcard ==
  ASSUME NEW level \in {<<"#">>, <<"+">>}
  PROVE  Len(level) = 1 /\ level[1] \in Wildcards
BY DEF Wildcards

LEMMA LoopEndsTruthfully ==
  ASSUME NEW f, NEW t, NEW p, Scans(f, t, p), At(f, p) = NUL \/ At(t, p) = NUL
  PROVE  Truthful(IF p = End(t) THEN "yes" ELSE "no", f, t)
<1>1. p \in Places(f) /\ p \in Places(t)
  BY DEF Scans, InStep
<1>2. /\ p.level \in 1..Len(f) /\ p.char \in 0..Len(f[p.level])
      /\ p.level \in 1..Len(t) /\ p.char \in 0..Len(t[p.level])
      /\ Len(f) \in Nat /\ Len(t) \in Nat /\ Len(f[p.level]) \in Nat /\ Len(t[p.level]) \in Nat
      /\ At(f, p) = NUL <=> p = End(f)
      /\ At(t, p) = NUL <=> p = End(t)
      /\ p = End(t) => p.char = Len(t[p.level]) /\ p.level = Len(t)
      /\ p = End(f) => p.char = Len(f[p.level]) /\ p.level = Len(f)
  BY <1>1, KindsOfPlaces DEF Scans
<1>3. SUFFICES ASSUME ~Malformed(f)
               PROVE  IF p = End(t) THEN CutShort(f, t) ELSE ~Missed(f, t)
  BY DEF Truthful, LetThrough, Missed
<1>4. Agree(f, t, p.level - 1)
      /\ \A m \in 1..p.char :
            f[p.level][m] = t[p.level][m] /\ f[p.level][m] \notin Wildcards
  BY <1>3 DEF Scans, InStep
<1>5. CASE p = End(t)
  BY <1>2, <1>4, <1>5 DEF CutShort
<1>6. CASE p # End(t)
  <2>1. p.char = Len(f[p.level]) /\ p.level = Len(f)
    BY <1>2, <1>6
  <2>2. SUFFICES ASSUME MqttMatches(f, t) PROVE FALSE
    BY <1>6 DEF Missed
  <2>3. f[Len(f)] \notin {<<"#">>, <<"+">>}
    <3>1. SUFFICES ASSUME f[Len(f)] \in {<<"#">>, <<"+">>} PROVE FALSE
      OBVIOUS
    <3>2. p.char = 1 /\ f[p.level][1] \in Wildcards
      BY <2>1, <3>1, OneWildcard
    <3> QED
      BY <1>4, <3>2
  <2>4. Len(t) = Len(f) /\ f[Len(f)] = t[Len(f)]
    BY <1>2, <2>1, <2>2, <2>3 DEF MqttMatches, Agree, LevelMatches
  <2>5. p = End(t)
    BY <1>1, <2>1, <2>4 DEF End, Places
  <2> QED
    BY <1>6, <2>5
<1> QED
  BY <1>5, <1>6

(* Two equal characters that are no wildcard leave the scanner in step,    *)
(* two different ones show that the topic does not match.                  *)
LEMMA EqualCharacters ==
  ASSUME NEW f, NEW t, NEW p, Scans(f, t, p), At(f, p) # NUL,
         At(f, p) \notin Wildcards, At(f, p) = At(t, p)
  PROVE  Succ(f, p) = Succ(t, p) /\ InStep(f, t, Succ(t, p))
<1>1. p \in Places(f) /\ p \in Places(t) /\ IsText(f) /\ IsText(t)
  BY DEF Scans, InStep
<1>2. /\ p.level \in 1..Len(f) /\ p.char \in 0..Len(f[p.level])
      /\ p.level \in 1..Len(t) /\ p.char \in 0..Len(t[p.level])
      /\ Len(f) \in Nat /\ Len(t) \in Nat /\ Len(f[p.level]) \in Nat /\ Len(t[p.level]) \in Nat
  BY <1>1, KindsOfPlaces
<1>3. CASE p.char < Len(f[p.level])
  <2>1. At(f, p) = f[p.level][p.char + 1] /\ At(f, p) \notin {"/", NUL}
        /\ Succ(f, p) = [level |-> p.level, char |-> p.char + 1] /\ Succ(f, p) \in Places(f)
    BY <1>1, <1>3, WithinLevel
  <2>2. p.char < Len(t[p.level])
    <3>1. At(t, p) \notin {"/", NUL}
      BY <2>1
    <3>2. CASE p.level < Len(t)
      BY <1>1, <1>2, <3>1, <3>2, KindsOfPlaces
    <3>3. CASE p.level >= Len(t)
      BY <1>1, <1>2, <3>1, <3>3, AtTheEnd
    <3> QED
      BY <1>2, <3>2, <3>3
  <2>3. At(t, p) = t[p.level][p.char + 1]
        /\ Succ(t, p) = [level |-> p.level, char |-> p.char + 1] /\ Succ(t, p) \in Places(t)
    BY <1>1, <2>2, WithinLevel
  <2>4. ASSUME ~Malformed(f), NEW m \in 1..(p.char + 1)
        PROVE  f[p.level][m] = t[p.level][m] /\ f[p.level][m] \notin Wildcards
    <3>1. CASE m = p.char + 1
      BY <2>1, <2>3, <3>1
    <3>2. CASE m \in 1..p.char
      BY <2>4, <3>2 DEF Scans, InStep
    <3> QED
      BY <1>2, <3>1, <3>2
  <2> QED
    BY <1>2, <2>1, <2>3, <2>4 DEF Scans, InStep
<1>4. CASE p.char = Len(f[p.level])
  <2>1. p.level < Len(f) /\ At(f, p) = "/"
        /\ Succ(f, p) = [level |-> p.level + 1, char |-> 0] /\ Succ(f, p) \in Places(f)
    BY <1>1, <1>2, <1>4, BetweenLevels, AtTheEnd
  <2>2. p.char = Len(t[p.level]) /\ p.level < Len(t)
    BY <1>1, <2>1, KindsOfPlaces
  <2>3. Succ(t, p) = [level |-> p.level + 1, char |-> 0] /\ Succ(t, p) \in Places(t)
    BY <1>1, <2>2, BetweenLevels
  <2>4. ASSUME ~Malformed(f)
        PROVE  Agree(f, t, p.level)
    <3>1. f[p.level] = t[p.level]
      <4>1. f[p.level] \in Seq(Characters) /\ t[p.level] \in Seq(Characters)
        BY <1>1, <1>2, LevelsAreSeqs
      <4>2. \A m \in 1..p.char : f[p.level][m] = t[p.level][m]
        BY <2>4 DEF Scans, InStep
      <4> QED
        BY <1>4, <2>2, <4>1, <4>2, SeqEqual
    <3>2. Agree(f, t, p.level - 1)
      BY <2>4 DEF Scans, InStep
    <3> QED
      BY <1>2, <3>1, <3>2 DEF Agree, LevelMatches
  <2> QED
    BY <1>2, <2>1, <2>3, <2>4 DEF InStep
<1> QED
  BY <1>2, <1>3, <1>4

LEMMA DifferentCharacters ==
  ASSUME NEW f, NEW t, NEW p, Scans(f, t, p), At(f, p) # NUL, At(t, p) # NUL,
         At(f, p) \notin Wildcards, At(f, p) # At(t, p)
  PROVE  ~Missed(f, t)
<1>1. p \in Places(f) /\ p \in Places(t) /\ IsText(f) /\ IsText(t)
  BY DEF Scans, InStep
<1>2. /\ p.level \in 1..Len(f) /\ p.char \in 0..Len(f[p.level])
      /\ p.level \in 1..Len(t) /\ p.char \in 0..Len(t[p.level])
      /\ Len(f) \in Nat /\ Len(t) \in Nat /\ Len(f[p.level]) \in Nat /\ Len(t[p.level]) \in Nat
  BY <1>1, KindsOfPlaces
<1>3. SUFFICES ASSUME ~Malformed(f), MqttMatches(f, t) PROVE FALSE
  BY DEF Missed
<1>4. f[p.level] \notin {<<"#">>, <<"+">>}
  <2>1. SUFFICES ASSUME f[p.level] \in {<<"#">>, <<"+">>} PROVE FALSE
    OBVIOUS
  <2>2. Len(f[p.level]) = 1 /\ f[p.level][1] \in Wildcards
    BY <2>1, OneWildcard
  <2>3. CASE p.char = 0
    BY <1>1, <1>2, <2>2, <2>3, WithinLevel
  <2>4. CASE p.char = 1
    BY <1>2, <1>3, <2>2, <2>4 DEF Scans, InStep
  <2> QED
    BY <1>2, <2>2, <2>3, <2>4
<1>5. f[p.level] = t[p.level]
  <2>1. CASE f[Len(f)] = <<"#">>
    <3>1. p.level \in 1..(Len(f) - 1)
      <4>1. p.level # Len(f)
        BY <1>4, <2>1
      <4> QED
        BY <1>2, <4>1
    <3> QED
      BY <1>3, <1>4, <2>1, <3>1 DEF MqttMatches, Agree, LevelMatches
  <2>2. CASE f[Len(f)] # <<"#">>
    BY <1>2, <1>3, <1>4, <2>2 DEF MqttMatches, Agree, LevelMatches
  <2> QED
    BY <2>1, <2>2
<1>6. CASE p.char < Len(f[p.level])
  BY <1>1, <1>5, <1>6, WithinLevel
<1>7. CASE p.char = Len(f[p.level])
  <2>1. At(f, p) = "/"
    BY <1>1, <1>2, <1>7, BetweenLevels, AtTheEnd
  <2>2. At(t, p) = "/"
    BY <1>1, <1>2, <1>5, <1>7, BetweenLevels, AtTheEnd
  <2> QED
    BY <2>1, <2>2
<1> QED
  BY <1>2, <1>6, <1>7

(* A wildcard the scanner stops at is a level of its own. *)
LEMMA WildcardAlone ==
  ASSUME NEW f, NEW t, NEW p, Scans(f, t, p), ~Malformed(f), At(f, p) \in Wildcards
  PROVE  /\ p.char = 0 /\ f[p.level] = <<At(f, p)>>
         /\ At(f, p) = "#" => p.level = Len(f)
         /\ At(f, Succ(f, p)) = "/" => p.level < Len(f)
         /\ At(f, Succ(f, p)) # "/" => p.level = Len(f) /\ At(f, Succ(f, p)) = NUL
<1>1. p \in Places(f) /\ IsText(f)
  BY DEF Scans, InStep
<1>2. /\ p.level \in 1..Len(f) /\ p.char \in 0..Len(f[p.level])
      /\ Len(f) \in Nat /\ Len(f[p.level]) \in Nat /\ f[p.level] \in Seq(Characters)
  BY <1>1, KindsOfPlaces, LevelsAreSeqs
<1>3. At(f, p) \notin {"/", NUL}
  BY DEF Wildcards, NUL
<1>4. p.char < Len(f[p.level])
  BY <1>1, <1>2, <1>3, BetweenLevels, AtTheEnd
<1>5. At(f, p) = f[p.level][p.char + 1] /\ Succ(f, p) = [level |-> p.level, char |-> p.char + 1]
      /\ Succ(f, p) \in Places(f)
  BY <1>1, <1>4, WithinLevel
<1>6. /\ Len(f[p.level]) <= 1
      /\ f[p.level] = <<"#">> => p.level = Len(f)
  <2>1. p.char + 1 \in 1..Len(f[p.level]) /\ f[p.level][p.char + 1] \in Wildcards
    BY <1>2, <1>4, <1>5
  <2>2. ~(Len(f[p.level]) > 1 \/ (f[p.level] = <<"#">> /\ p.level < Len(f)))
    BY <1>2, <2>1 DEF Malformed
  <2> QED
    BY <1>2, <2>2
<1>7. p.char = 0 /\ Len(f[p.level]) = 1
  <2> DEFINE c == p.char
             n == Len(f[p.level])
  <2>1. c \in Nat /\ n \in Nat /\ c < n /\ n <= 1
    BY <1>2, <1>4, <1>6
  <2> HIDE DEF c, n
  <2>2. c = 0 /\ n = 1
    BY <2>1
  <2> QED
    BY <2>2 DEF c, n
<1>8. f[p.level] = <<At(f, p)>>
  <2>1. At(f, p) \in Characters
    BY <1>1, <1>4, WithinLevel
  <2>2. <<At(f, p)>> \in Seq(Characters) /\ Len(<<At(f, p)>>) = 1 /\ <<At(f, p)>>[1] = At(f, p)
    BY <2>1
  <2> QED
    BY <1>2, <1>5, <1>7, <2>2, SeqEqual
<1>9. Succ(f, p).level = p.level /\ Succ(f, p).char = Len(f[p.level])
  BY <1>5, <1>7
<1>10. CASE p.level < Len(f)
  <2>1. At(f, Succ(f, p)) = "/"
    BY <1>1, <1>5, <1>9, <1>10, BetweenLevels
  <2> QED
    BY <1>6, <1>7, <1>8, <1>10, <2>1
<1>11. CASE p.level = Len(f)
  <2>1. At(f, Succ(f, p)) = NUL
    BY <1>1, <1>2, <1>5, <1>9, <1>11, AtTheEnd
  <2> QED
    BY <1>7, <1>8, <1>11, <2>1 DEF NUL
<1> QED
  BY <1>2, <1>10, <1>11

(* The level a wildcard stands for has been skipped in both. *)
LEMMA SkippedLevel ==
  ASSUME NEW f, NEW t, NEW p, Scans(f, t, p), At(f, p) \in Wildcards,
         At(f, Succ(f, p)) = "/", At(t, LevelEnd(t, p)) = "/"
  PROVE  /\ Succ(f, Succ(f, p)) = Succ(t, LevelEnd(t, p))
         /\ InStep(f, t, Succ(t, LevelEnd(t, p)))
<1> DEFINE k == LevelEnd(t, p)
           q == [level |-> p.level + 1, char |-> 0]
<1>1. p \in Places(f) /\ p \in Places(t) /\ IsText(f) /\ IsText(t)
  BY DEF Scans, InStep
<1>2. /\ p.level \in 1..Len(f) /\ p.char \in 0..Len(f[p.level])
      /\ p.level \in 1..Len(t) /\ p.char \in 0..Len(t[p.level])
      /\ Len(f) \in Nat /\ Len(t) \in Nat /\ Len(f[p.level]) \in Nat /\ Len(t[p.level]) \in Nat
  BY <1>1, KindsOfPlaces
<1>3. k \in Places(t) /\ k.level = p.level /\ k.char = Len(t[p.level])
  BY <1>1, <1>2 DEF Places, LevelEnd
<1>4. p.level < Len(t) /\ Succ(t, k) = q /\ q \in Places(t)
  <2>1. p.level < Len(t)
    BY <1>1, <1>3, KindsOfPlaces
  <2> QED
    BY <1>1, <1>3, <2>1, BetweenLevels
<1>5. p.char < Len(f[p.level])
  <2>1. At(f, p) \notin {"/", NUL}
    BY DEF Wildcards, NUL
  <2> QED
    BY <1>1, <1>2, <2>1, BetweenLevels, AtTheEnd
<1>6. Succ(f, p) = [level |-> p.level, char |-> p.char + 1] /\ Succ(f, p) \in Places(f)
  BY <1>1, <1>5, WithinLevel
<1>7. p.level < Len(f) /\ Succ(f, Succ(f, p)) = q /\ q \in Places(f)
  <2>1. Succ(f, p).char = Len(f[p.level]) /\ Succ(f, p).level = p.level /\ p.level < Len(f)
    BY <1>1, <1>6, KindsOfPlaces
  <2> QED
    BY <1>1, <1>6, <2>1, BetweenLevels
<1>8. ASSUME ~Malformed(f)
      PROVE  Agree(f, t, p.level)
  <2>1. At(f, p) = "+" /\ f[p.level] = <<"+">>
    BY <1>2, <1>7, <1>8, WildcardAlone DEF Wildcards
  <2>2. Agree(f, t, p.level - 1)
    BY <1>8 DEF Scans, InStep
  <2> QED
    BY <1>2, <2>1, <2>2 DEF Agree, LevelMatches
<1> QED
  BY <1>2, <1>4, <1>7, <1>8 DEF InStep

(* A `+' that meets an empty level, ends the filter or stands for the last *)
(* level of the topic matches nothing, and nothing is missed but what      *)
(* PlusIsLast names.                                                       *)
LEMMA PlusIsTruthful ==
  ASSUME NEW f, NEW t, NEW p, Scans(f, t, p), At(f, p) = "+",
         \/ At(t, p) = "/"
         \/ At(f, Succ(f, p)) = NUL
         \/ At(t, LevelEnd(t, p)) # "/"
  PROVE  ~Missed(f, t)
<1>1. p \in Places(f) /\ p \in Places(t) /\ IsText(f) /\ IsText(t)
  BY DEF Scans, InStep
<1>2. /\ p.level \in 1..Len(f) /\ p.char \in 0..Len(f[p.level])
      /\ p.level \in 1..Len(t) /\ p.char \in 0..Len(t[p.level])
      /\ Len(f) \in Nat /\ Len(t) \in Nat /\ Len(f[p.level]) \in Nat /\ Len(t[p.level]) \in Nat
  BY <1>1, KindsOfPlaces
<1>3. SUFFICES ASSUME ~Malformed(f), MqttMatches(f, t), ~PlusIsLast(f, t), ~HasEmptyLevel(t)
               PROVE  FALSE
  BY DEF Missed
<1>4. p.char = 0 /\ f[p.level] = <<"+">>
  BY <1>3, WildcardAlone DEF Wildcards
<1>5. At(t, p) # "/"
  <2>1. SUFFICES ASSUME Len(t[p.level]) = 0 PROVE FALSE
    BY <1>1, <1>4, KindsOfPlaces
  <2>2. t[p.level] = <<>>
    BY <1>1, <1>2, <2>1, LevelsAreSeqs
  <2> QED
    BY <1>2, <1>3, <2>2 DEF HasEmptyLevel
<1>6. CASE At(f, Succ(f, p)) = NUL
  <2>1. p.level = Len(f)
    BY <1>3, <1>6, WildcardAlone DEF Wildcards, NUL
  <2>2. f[Len(f)] # <<"#">>
    <3>1. <<"+">>[1] # <<"#">>[1]
      OBVIOUS
    <3> QED
      BY <1>4, <2>1, <3>1
  <2>3. Len(t) = Len(f)
    BY <1>3, <2>2 DEF MqttMatches
  <2> QED
    BY <1>2, <1>3, <1>4, <2>1, <2>3 DEF PlusIsLast
<1>7. CASE At(t, LevelEnd(t, p)) # "/"
  <2>1. LevelEnd(t, p) \in Places(t) /\ LevelEnd(t, p).level = p.level
        /\ LevelEnd(t, p).char = Len(t[p.level])
    BY <1>1, <1>2 DEF Places, LevelEnd
  <2>2. p.level = Len(t)
    BY <1>1, <1>2, <1>7, <2>1, BetweenLevels
  <2> QED
    BY <1>2, <1>3, <1>4, <2>2 DEF PlusIsLast
<1> QED
  BY <1>5, <1>6, <1>7

LEMMA HashIsTruthful ==
  ASSUME NEW f, NEW t, NEW p, Scans(f, t, p), At(f, p) = "#"
  PROVE  /\ At(t, p) = "/" => Fails(f, t)
         /\ At(f, Succ(f, p)) = NUL => LetThrough(f, t)
         /\ At(f, Succ(f, p)) = "/" => Malformed(f)
<1>1. p \in Places(t) /\ IsText(t) /\ IsText(f) /\ p \in Places(f)
  BY DEF Scans, InStep
<1>2. /\ p.level \in 1..Len(f) /\ p.level \in 1..Len(t) /\ p.char \in 0..Len(t[p.level])
      /\ Len(f) \in Nat /\ Len(t) \in Nat /\ Len(t[p.level]) \in Nat
  BY <1>1, KindsOfPlaces
<1>3. SUFFICES ASSUME ~Malformed(f)
               PROVE  /\ At(t, p) = "/" => Fails(f, t)
                      /\ At(f, Succ(f, p)) = NUL => LetThrough(f, t)
                      /\ At(f, Succ(f, p)) # "/"
  BY DEF Fails, LetThrough, NUL
<1>4. p.char = 0 /\ f[p.level] = <<"#">> /\ p.level = Len(f) /\ At(f, Succ(f, p)) # "/"
  BY <1>2, <1>3, WildcardAlone DEF Wildcards
<1>5. ASSUME At(t, p) = "/" PROVE Fails(f, t)
  <2>1. Len(t[p.level]) = 0
    BY <1>1, <1>4, <1>5, KindsOfPlaces
  <2>2. t[p.level] = <<>>
    BY <1>1, <1>2, <2>1, LevelsAreSeqs
  <2> QED
    BY <1>2, <1>4, <2>2 DEF Fails, HasEmptyLevel
<1>6. LetThrough(f, t)
  BY <1>2, <1>3, <1>4 DEF LetThrough, MqttMatches, Scans, InStep
<1> QED
  BY <1>4, <1>5, <1>6

LEMMA InvalidIsTruthful ==
  ASSUME NEW f, NEW t, NEW p, Scans(f, t, p), At(f, p) \in Wildcards,
         At(f, Succ(f, p)) \notin {"/", NUL}
  PROVE  Fails(f, t)
BY WildcardAlone DEF Fails

-----------------------------------------------------------------------------
LEMMA MatchKeepsFilterInv ==
  ASSUME topic \in Topics, FilterInv, Subscription_match
  PROVE  FilterInv'
<1>1. Here /\ IsText(topic)
  BY TextAssumption DEF Subscription_match, Here
<1>2. CASE NoFilters
  <2>1. verdict' = "no" /\ filters = <<>> /\ filters' = <<>>
    <3>1. trying = 1
      BY <1>1, <1>2 DEF NoFilters, FilterInv, Here
    <3> QED
      BY <1>1, <1>2, <3>1 DEF NoFilters, Settle, Here
  <2> QED
    BY <2>1 DEF FilterInv, AgreesWithStandard, NothingMissed, StrangersAreCutShort,
                FailsOnEmptyLevels
<1>3. CASE filters # <<>>
  <2>1. trying \in 1..Len(filters) /\ f_i = v_i /\ InStep(filter, topic, v_i)
    BY <1>1, <1>3 DEF FilterInv, Here
  <2>2. IsText(filter)
    BY <2>1 DEF FilterInv, IsText, filter
  <2>3. Scans(filter, topic, v_i)
    BY <1>1, <2>1, <2>2 DEF Scans
  <2>4. ASSUME NEW answer \in {"no", "yes", "error"}, Settle(answer),
               Truthful(answer, filter, topic)
        PROVE  FilterInv'
    BY <1>1, <1>3, <2>4, SettleKeeps
  <2>5. ASSUME NEW i, GoOn(i, i), InStep(filter, topic, i)
        PROVE  FilterInv'
    BY <1>1, <1>3, <2>5, GoOnKeeps
  <2>6. CASE LoopEnds
    <3>1. At(filter, v_i) = NUL \/ At(topic, v_i) = NUL
      BY <2>1, <2>6 DEF LoopEnds, Scanning, f_ch, v_ch
    <3>2. Truthful(IF v_i = End(topic) THEN "yes" ELSE "no", filter, topic)
      BY <2>3, <3>1, LoopEndsTruthfully
    <3>3. Settle(Consumed(v_i))
      BY <2>6 DEF LoopEnds
    <3> QED
      BY <2>4, <3>2, <3>3 DEF Consumed
  <2>7. CASE SameCharacter
    <3>1. At(filter, v_i) # NUL /\ At(topic, v_i) # NUL /\ At(filter, v_i) \notin Wildcards
      BY <2>1, <2>7 DEF SameCharacter, Scanning, f_ch, v_ch
    <3>2. CASE At(filter, v_i) = At(topic, v_i)
      <4>1. Succ(filter, v_i) = Succ(topic, v_i) /\ InStep(filter, topic, Succ(topic, v_i))
        BY <2>3, <3>1, <3>2, EqualCharacters
      <4>2. GoOn(Succ(filter, v_i), Succ(topic, v_i))
        BY <2>1, <2>7, <3>2 DEF SameCharacter, f_ch, v_ch
      <4> QED
        BY <2>5, <4>1, <4>2
    <3>3. CASE At(filter, v_i) # At(topic, v_i)
      <4>1. Truthful("no", filter, topic)
        BY <2>3, <3>1, <3>3, DifferentCharacters DEF Truthful
      <4>2. Settle("no")
        BY <2>1, <2>7, <3>3 DEF SameCharacter, f_ch, v_ch
      <4> QED
        BY <2>4, <4>1, <4>2
    <3> QED
      BY <3>2, <3>3
  <2>8. CASE InvalidWildcard
    <3>1. At(filter, v_i) \in Wildcards /\ At(filter, Succ(filter, v_i)) \notin {"/", NUL}
          /\ Settle("error")
      BY <2>1, <2>8 DEF InvalidWildcard, Invalid, f_ch, f_ch_next
    <3>2. Truthful("error", filter, topic)
      BY <2>3, <3>1, InvalidIsTruthful DEF Truthful
    <3> QED
      BY <2>4, <3>1, <3>2
  <2>9. ASSUME SkipLevel, At(filter, v_i) \in Wildcards, At(filter, Succ(filter, v_i)) = "/"
        PROVE  FilterInv'
    <3>1. CASE At(topic, LevelEnd(topic, v_i)) = "/"
      <4>1. /\ Succ(filter, Succ(filter, v_i)) = Succ(topic, LevelEnd(topic, v_i))
            /\ InStep(filter, topic, Succ(topic, LevelEnd(topic, v_i)))
        BY <2>3, <2>9, <3>1, SkippedLevel
      <4>2. GoOn(Succ(filter, Succ(filter, v_i)), Succ(topic, LevelEnd(topic, v_i)))
        BY <2>1, <2>9, <3>1 DEF SkipLevel
      <4> QED
        BY <2>5, <4>1, <4>2
    <3>2. CASE At(topic, LevelEnd(topic, v_i)) # "/"
      <4>1. ~Missed(filter, topic)
        <5>1. CASE At(filter, v_i) = "+"
          BY <2>3, <3>2, <5>1, PlusIsTruthful
        <5>2. CASE At(filter, v_i) = "#"
          BY <2>3, <2>9, <5>2, HashIsTruthful DEF Missed
        <5> QED
          BY <2>9, <5>1, <5>2 DEF Wildcards
      <4>2. Settle("no")
        BY <2>9, <3>2 DEF SkipLevel
      <4> QED
        BY <2>4, <4>1, <4>2 DEF Truthful
    <3> QED
      BY <3>1, <3>2
  <2>10. CASE Hash
    <3>1. At(filter, v_i) = "#"
      BY <2>1, <2>10 DEF Hash, Wildcard, f_ch
    <3>2. \/ At(topic, v_i) = "/" /\ Settle("error")
          \/ At(filter, Succ(filter, v_i)) = NUL /\ Settle("yes")
          \/ At(filter, Succ(filter, v_i)) = "/" /\ SkipLevel
      <4>1. At(filter, Succ(filter, v_i)) \in {"/", NUL}
        BY <2>1, <2>10 DEF Hash, Wildcard, Invalid, f_ch_next
      <4>2. CASE EmptyLevel
        BY <2>10, <4>2 DEF Hash, EmptyLevel, v_ch
      <4>3. CASE ~EmptyLevel /\ f_ch_next = NUL
        BY <2>1, <2>10, <4>3 DEF Hash, f_ch_next, NUL
      <4>4. CASE ~EmptyLevel /\ f_ch_next = "/"
        BY <2>1, <2>10, <4>4 DEF Hash, f_ch_next, NUL
      <4> QED
        BY <2>1, <4>1, <4>2, <4>3, <4>4 DEF f_ch_next
    <3>3. At(topic, v_i) = "/" => Truthful("error", filter, topic)
      BY <2>3, <3>1, HashIsTruthful DEF Truthful
    <3>4. At(filter, Succ(filter, v_i)) = NUL => Truthful("yes", filter, topic)
      BY <2>3, <3>1, HashIsTruthful DEF Truthful
    <3> QED
      BY <2>4, <2>9, <3>1, <3>2, <3>3, <3>4 DEF Wildcards
  <2>11. CASE Plus
    <3>1. At(filter, v_i) = "+"
      BY <2>1, <2>11 DEF Plus, Wildcard, f_ch
    <3>2. LastPlus => Settle("no")
      <4>1. v_i.level \in 1..Len(topic) /\ v_i \in Places(topic)
        BY <2>1, <1>1, KindsOfPlaces DEF InStep
      <4>2. CASE At(topic, LevelEnd(topic, v_i)) = NUL
        <5>1. LevelEnd(topic, v_i) \in Places(topic)
          BY <1>1, <4>1, LevelsAreSeqs DEF LevelEnd, Places
        <5>2. LevelEnd(topic, v_i) = End(topic)
          BY <1>1, <4>2, <5>1, KindsOfPlaces
        <5>3. Succ(topic, End(topic)) # End(topic)
          <6>1. Len(topic) \in Nat /\ Len(topic[Len(topic)]) \in Nat
            BY <1>1, <4>1, LevelsAreSeqs
          <6> QED
            BY <6>1 DEF Succ, End
        <5> QED
          BY <4>2, <5>2, <5>3 DEF LastPlus, Consumed
      <4>3. CASE At(topic, LevelEnd(topic, v_i)) # NUL
        BY <4>3 DEF LastPlus
      <4> QED
        BY <4>2, <4>3
    <3>3. \/ At(topic, v_i) = "/" /\ Settle("no")
          \/ At(filter, Succ(filter, v_i)) = NUL /\ Settle("no")
          \/ At(filter, Succ(filter, v_i)) = "/" /\ SkipLevel
      <4>1. At(filter, Succ(filter, v_i)) \in {"/", NUL}
        BY <2>1, <2>11 DEF Plus, Wildcard, Invalid, f_ch_next
      <4>2. CASE EmptyLevel
        BY <2>11, <4>2 DEF Plus, EmptyLevel, v_ch
      <4>3. CASE ~EmptyLevel /\ f_ch_next = NUL
        BY <2>1, <2>11, <3>2, <4>3 DEF Plus, f_ch_next, NUL
      <4>4. CASE ~EmptyLevel /\ f_ch_next = "/"
        BY <2>1, <2>11, <4>4 DEF Plus, f_ch_next, NUL
      <4> QED
        BY <2>1, <4>1, <4>2, <4>3, <4>4 DEF f_ch_next
    <3>4. At(topic, v_i) = "/" \/ At(filter, Succ(filter, v_i)) = NUL
            => Truthful("no", filter, topic)
      BY <2>3, <3>1, PlusIsTruthful DEF Truthful
    <3> QED
      BY <2>4, <2>9, <3>1, <3>3, <3>4 DEF Wildcards
  <2> QED
    BY <1>3, <2>6, <2>7, <2>8, <2>10, <2>11 DEF Subscription_match, NoFilters
<1> QED
  BY <1>2, <1>3 DEF Subscription_match, LoopEnds, SameCharacter, InvalidWildcard, Hash, Plus,
                    Scanning, Wildcard

-----------------------------------------------------------------------------
(* The configuration: first what the tables of properties hold.  *)
Objects == {"connection", "input", "output"}

LEMMA TablesAreSeqs ==
  /\ ClientProperties \in Seq(ToSet(ClientProperties)) /\ Len(ClientProperties) = 16
  /\ Credentials \in Seq(ToSet(Credentials))
  /\ SslProperties \in Seq(ToSet(SslProperties))
  /\ SubscriptionProperties \in Seq(ToSet(SubscriptionProperties))
  /\ PublicationProperties \in Seq(ToSet(PublicationProperties))
<1>1. ClientProperties \in Seq(ToSet(ClientProperties)) /\ Len(ClientProperties) = 16
  <2>1. ClientProperties = [k \in 1..16 |-> ClientProperties[k]] /\ Len(ClientProperties) = 16
    BY DEF ClientProperties
  <2> QED
    BY <2>1 DEF ToSet
<1>2. Credentials \in Seq(ToSet(Credentials))
  BY DEF Credentials, ToSet
<1>3. SslProperties \in Seq(ToSet(SslProperties))
  <2>1. SslProperties = [k \in 1..7 |-> SslProperties[k]]
    BY DEF SslProperties
  <2> QED
    BY <2>1 DEF ToSet
<1>4. SubscriptionProperties \in Seq(ToSet(SubscriptionProperties))
  BY DEF SubscriptionProperties, ToSet
<1>5. PublicationProperties \in Seq(ToSet(PublicationProperties))
  <2>1. PublicationProperties = [k \in 1..6 |-> PublicationProperties[k]]
    BY DEF PublicationProperties
  <2> QED
    BY <2>1 DEF ToSet
<1> QED
  BY <1>1, <1>2, <1>3, <1>4, <1>5

LEMMA LookedIsSeq ==
  ASSUME NEW o \in Objects
  PROVE  \E S : Looked[o] \in Seq(S)
<1> DEFINE S == ToSet(ClientProperties) \cup ToSet(Credentials) \cup ToSet(SslProperties)
<1>1. ClientProperties \in Seq(S) /\ Credentials \in Seq(S) /\ SslProperties \in Seq(S)
  BY TablesAreSeqs
<1>2. Looked["connection"] \in Seq(S)
  <2> HIDE DEF S
  <2> QED
    BY <1>1 DEF Looked
<1>3. CASE o = "connection"
  BY <1>2, <1>3
<1>4. CASE o = "input"
  BY <1>4, TablesAreSeqs DEF Looked
<1>5. CASE o = "output"
  BY <1>5, TablesAreSeqs DEF Looked
<1> QED
  BY <1>3, <1>4, <1>5 DEF Objects

(* The configuration begins with a value for each property, and a property *)
(* is stored in one of them. *)
LEMMA DefaultHasAll ==
  ASSUME NEW o \in Objects
  PROVE  Default[o] = [f \in ToSet(Looked[o]) |-> Default[o][f]]
<1>1. CASE o = "connection"
  BY <1>1 DEF Default, ClientDefault
<1>2. CASE o = "input"
  <2>1. ToSet(Looked[o]) = {"topics", "max_qos", "queue_size"}
    BY <1>2 DEF Looked, ToSet, SubscriptionProperties
  <2> QED
    BY <1>2, <2>1 DEF Default, SubscriptionDefault
<1>3. CASE o = "output"
  BY <1>3 DEF Default, PublicationDefault, Looked
<1> QED
  BY <1>1, <1>2, <1>3 DEF Objects

LEMMA JoinedHasFirst ==
  ASSUME NEW S, NEW s \in Seq(S), NEW t \in Seq(S)
  PROVE  s \o t \in Seq(S) /\ ToSet(s) \subseteq ToSet(s \o t)
<1>1. /\ s \o t \in Seq(S) /\ Len(s \o t) = Len(s) + Len(t) /\ Len(s) \in Nat /\ Len(t) \in Nat
      /\ \A k \in 1..(Len(s) + Len(t)) : (s \o t)[k] = IF k <= Len(s) THEN s[k] ELSE t[k - Len(s)]
  BY ConcatProperties
<1>2. \A k \in DOMAIN s : k \in DOMAIN (s \o t) /\ (s \o t)[k] = s[k]
  BY <1>1
<1> QED
  BY <1>1, <1>2 DEF ToSet

LEMMA TimesOfConnections ==
  /\ Timeout \cup KeepAlive \subseteq ToSet(Looked["connection"])
  /\ \A o \in {"input", "output"} : KeepAlive \cap ToSet(Looked[o]) = {}
  /\ \A p \in Timeout \cup KeepAlive : Reads(p) = "number" /\ Field(p) \in Timeout
  /\ \A p : p \notin KeepAlive => Field(p) = p
<1>1. Timeout \cup KeepAlive \subseteq ToSet(Looked["connection"])
  <2> DEFINE first == ClientProperties \o Credentials
             S == ToSet(ClientProperties) \cup ToSet(Credentials) \cup ToSet(SslProperties)
  <2>1. ClientProperties \in Seq(S) /\ Credentials \in Seq(S) /\ SslProperties \in Seq(S)
        /\ Len(ClientProperties) = 16
    BY TablesAreSeqs
  <2>2. Looked["connection"] = first \o SslProperties
    BY DEF Looked
  <2> HIDE DEF S
  <2>3. first \in Seq(S) /\ ToSet(ClientProperties) \subseteq ToSet(first)
    BY <2>1, JoinedHasFirst
  <2> HIDE DEF first
  <2>4. ToSet(first) \subseteq ToSet(Looked["connection"])
    BY <2>1, <2>2, <2>3, JoinedHasFirst
  <2>5. \A k \in 1..16 : ClientProperties[k] \in ToSet(ClientProperties)
    BY <2>1 DEF ToSet
  <2>6. /\ ClientProperties[4] = "connection_timeout.sec"
        /\ ClientProperties[5] = "connection_timeout.nanosec"
        /\ ClientProperties[7] = "keep_alive_period.sec"
        /\ ClientProperties[8] = "keep_alive_period.nanosec"
    BY DEF ClientProperties
  <2> QED
    BY <2>3, <2>4, <2>5, <2>6 DEF Timeout, KeepAlive
<1>2. \A o \in {"input", "output"} : KeepAlive \cap ToSet(Looked[o]) = {}
  <2>1. KeepAlive \cap ToSet(SubscriptionProperties) = {}
    BY DEF SubscriptionProperties, ToSet, KeepAlive
  <2>2. KeepAlive \cap ToSet(PublicationProperties) = {}
    BY DEF PublicationProperties, ToSet, KeepAlive
  <2> QED
    BY <2>1, <2>2 DEF Looked
<1>3. \A p \in Timeout \cup KeepAlive : Reads(p) = "number" /\ Field(p) \in Timeout
  BY DEF Timeout, KeepAlive, Reads, Field
<1>4. \A p : p \notin KeepAlive => Field(p) = p
  BY DEF KeepAlive, Field
<1> QED
  BY <1>1, <1>2, <1>3, <1>4

(* Adding whole units to the dividend. *)
LEMMA SecondsAddUp ==
  ASSUME NEW s \in Int, NEW n \in Int, NEW d \in Nat \ {0}
  PROVE  (s * d + n) \div d = s + n \div d
<1> DEFINE q == n \div d
<1>1. q \in Int /\ q * d <= n /\ n < q * d + d
  OBVIOUS
<1> HIDE DEF q
<1> DEFINE r == (s * d + n) \div d
<1>2. r \in Int /\ r * d <= s * d + n /\ s * d + n < r * d + d
  OBVIOUS
<1> HIDE DEF r
<1>3. r = s + q
  BY <1>1, <1>2
<1> QED
  BY <1>3 DEF r, q

-----------------------------------------------------------------------------
(* Fields that may hold what another property said. *)
Mixed == IF KeepAlive \cap DOMAIN properties = {} THEN {} ELSE Timeout

(* What the properties looked up so far have done to the configuration. *)
Seen == {Looked[object][k] : k \in 1..looked}
AsFarAsLooked ==
  \A f \in ToSet(Looked[object]) \ Mixed :
    config[f] = IF f \in (Seen \cap DOMAIN properties) \ KeepAlive
                THEN Read(Reads(f), properties[f]) ELSE Default[object][f]

GivenText(p) == properties[p]
GivenWell ==
  \A p \in DOMAIN properties :
    /\ GivenText(p).is = "number" => GivenText(p).value \in Int
    /\ object = "input" /\ p = "topics" =>
         /\ GivenText(p).value \in Seq(Seq(Seq(Characters)))
         /\ GivenText(p).value # <<>>
         /\ \A n \in DOMAIN GivenText(p).value : GivenText(p).value[n] # <<<<>>>>

TopicsGiven == IF "topics" \in DOMAIN properties THEN properties["topics"].value ELSE <<>>

ParseInv ==
  /\ object \in Objects /\ GivenWell
  /\ stage \in {"given", "parsed", "refused", "made", "failed"}
  /\ looked \in 0..Len(Looked[object])
  /\ stage \in {"parsed", "made", "failed"} => looked = Len(Looked[object])
  /\ config = [f \in ToSet(Looked[object]) |-> config[f]]
  /\ stage # "refused" => AsFarAsLooked
  /\ object = "connection" => \A f \in Timeout : config[f] \in Int

(* What was made of it, and that nothing is matched before it was. *)
MadeInv ==
  /\ object = "connection" /\ stage = "made" => LibraryIsTold
  /\ object = "input" /\ stage = "made" => FiltersAreListed(TopicsGiven)
  /\ object = "input" => topic \in Topics
  /\ object # "input" \/ stage # "made" =>
       filters = <<>> /\ verdict = "none" /\ trying = 1 /\ f_i = Start /\ v_i = Start

ConfigInv == ParseInv /\ MadeInv /\ FilterInv

LEMMA LookedHas ==
  ASSUME NEW o \in Objects
  PROVE  /\ Len(Looked[o]) \in Nat
         /\ \A k \in 1..Len(Looked[o]) : Looked[o][k] \in ToSet(Looked[o])
         /\ \A f \in ToSet(Looked[o]) : \E k \in 1..Len(Looked[o]) : f = Looked[o][k]
<1>1. PICK S : Looked[o] \in Seq(S)
  BY LookedIsSeq
<1> QED
  BY <1>1 DEF ToSet

LEMMA InitConfigInv == ConfigInit => ConfigInv
<1> SUFFICES ASSUME ConfigInit PROVE ConfigInv
  OBVIOUS
<1>1. PICK setting \in Settings : object = setting[1] /\ properties = setting[2]
  BY DEF ConfigInit
<1>2. object \in Objects /\ GivenWell
  BY <1>1, SettingsAssumption DEF Objects, GivenWell, GivenText
<1>3. ParseInv
  <2>1. looked = 0 /\ stage = "given" /\ config = Default[object]
    BY DEF ConfigInit
  <2>2. Seen = {}
    BY <2>1 DEF Seen
  <2>3. object = "connection" => \A f \in Timeout : config[f] \in Int
    BY <2>1, TimesOfConnections DEF Timeout, Default, ClientDefault
  <2> QED
    BY <1>2, <2>1, <2>2, <2>3, LookedHas, DefaultHasAll DEF ParseInv, AsFarAsLooked
<1>4. MadeInv
  BY DEF ConfigInit, MadeInv
<1>5. FilterInv
  BY DEF ConfigInit, FilterInv, AgreesWithStandard, NothingMissed, StrangersAreCutShort,
         FailsOnEmptyLevels
<1> QED
  BY <1>3, <1>4, <1>5 DEF ConfigInv

LEMMA LookupKeepsConfigInv ==
  ASSUME ConfigInv, lookup_property
  PROVE  ConfigInv'
<1> DEFINE p == Looked[object][looked + 1]
<1>1. object' = object /\ properties' = properties /\ looked' = looked + 1 /\ told' = told
      /\ UNCHANGED filterVars /\ stage = "given" /\ looked < Len(Looked[object])
  BY DEF lookup_property
<1>2. object \in Objects /\ Len(Looked[object]) \in Nat /\ looked \in Nat /\ looked + 1 \in 1..Len(Looked[object])
  BY <1>1, LookedHas DEF ConfigInv, ParseInv
<1>3. p \in ToSet(Looked[object])
  BY <1>2, LookedHas
<1>4. AsFarAsLooked /\ config = [f \in ToSet(Looked[object]) |-> config[f]] /\ GivenWell
  BY <1>1 DEF ConfigInv, ParseInv
<1>5. Seen' = Seen \cup {p} /\ Mixed' = Mixed
  BY <1>1, <1>2 DEF Seen, Mixed
<1> HIDE DEF p
<1>6. FilterInv'
  BY <1>1 DEF ConfigInv, FilterInv, AgreesWithStandard, NothingMissed, StrangersAreCutShort,
     FailsOnEmptyLevels, filterVars, filter
<1>7. stage' \in {"given", "refused"}
  BY <1>1 DEF lookup_property, p
<1>8. MadeInv'
  BY <1>1, <1>7 DEF ConfigInv, MadeInv, filterVars
<1>9. GivenWell'
  BY <1>1, <1>4 DEF GivenWell, GivenText
<1>10. CASE config' = config /\ (p \notin DOMAIN properties \/ stage' = "refused")
  <2>1. stage' # "refused" => AsFarAsLooked'
    BY <1>1, <1>4, <1>5, <1>10 DEF AsFarAsLooked
  <2> QED
    BY <1>1, <1>2, <1>4, <1>6, <1>7, <1>8, <1>9, <1>10, <2>1 DEF ConfigInv, ParseInv
<1>11. CASE /\ p \in DOMAIN properties
            /\ config' = [config EXCEPT ![Field(p)] = Read(Reads(p), properties[p])]
  <2>1. Field(p) \in ToSet(Looked[object])
    BY <1>2, <1>3, TimesOfConnections DEF Objects
  <2>2. config' = [f \in ToSet(Looked[object]) |-> config'[f]]
    BY <1>4, <1>11
  <2>3. /\ config'[Field(p)] = Read(Reads(p), properties[p])
        /\ \A f \in ToSet(Looked[object]) : f # Field(p) => config'[f] = config[f]
    BY <1>4, <1>11, <2>1
  <2>4. AsFarAsLooked'
    <3> SUFFICES ASSUME NEW f \in ToSet(Looked[object]) \ Mixed
                 PROVE  config'[f] = IF f \in ((Seen \cup {p}) \cap DOMAIN properties) \ KeepAlive
                                     THEN Read(Reads(f), properties[f]) ELSE Default[object][f]
      BY <1>1, <1>5 DEF AsFarAsLooked
    <3>1. config[f] = IF f \in (Seen \cap DOMAIN properties) \ KeepAlive
                      THEN Read(Reads(f), properties[f]) ELSE Default[object][f]
      BY <1>4 DEF AsFarAsLooked
    <3>2. CASE p \in KeepAlive
      <4>1. Field(p) \in Mixed
        BY <1>11, <3>2, TimesOfConnections DEF Mixed
      <4> QED
        BY <2>3, <3>1, <3>2, <4>1
    <3>3. CASE p \notin KeepAlive
      <4>1. Field(p) = p
        BY <3>3, TimesOfConnections
      <4>2. CASE f = p
        BY <1>11, <2>3, <3>3, <4>1, <4>2
      <4>3. CASE f # p
        BY <2>3, <3>1, <4>1, <4>3
      <4> QED
        BY <4>2, <4>3
    <3> QED
      BY <3>2, <3>3
  <2>5. ASSUME object = "connection", NEW f \in Timeout
        PROVE  config'[f] \in Int
    <3>1. f \in ToSet(Looked[object]) /\ config[f] \in Int
      BY <2>5, TimesOfConnections DEF ConfigInv, ParseInv
    <3>2. CASE f = Field(p)
      <4>1. p \in Timeout \cup KeepAlive
        BY <2>5, <3>2, TimesOfConnections
      <4>2. Reads(p) = "number"
        BY <4>1, TimesOfConnections
      <4>3. Read("number", properties[p]) \in Int
        BY <1>4, <1>11 DEF Read, GivenWell, GivenText
      <4> QED
        BY <2>3, <3>2, <4>2, <4>3
    <3>3. CASE f # Field(p)
      BY <2>3, <3>1, <3>3
    <3> QED
      BY <3>2, <3>3
  <2>6. ParseInv'
    BY <1>1, <1>2, <1>7, <1>9, <2>2, <2>4, <2>5 DEF ParseInv
  <2> QED
    BY <1>6, <1>8, <2>6 DEF ConfigInv
<1> QED
  BY <1>1, <1>10, <1>11 DEF lookup_property, p

LEMMA AllSeen ==
  ASSUME ParseInv, looked = Len(Looked[object]), stage # "refused",
         NEW f \in ToSet(Looked[object]) \ Mixed
  PROVE  config[f] = IF f \in DOMAIN properties \ KeepAlive
                     THEN Read(Reads(f), properties[f]) ELSE Default[object][f]
<1>1. f \in Seen
  BY LookedHas DEF Seen, ParseInv
<1> QED
  BY <1>1 DEF ParseInv, AsFarAsLooked

LEMMA ConnectKeepsConfigInv ==
  ASSUME ConfigInv, connect
  PROVE  ConfigInv'
<1>1. object = "connection" /\ stage = "parsed" /\ stage' \in {"made", "failed"}
      /\ looked = Len(Looked[object])
      /\ UNCHANGED <<filterVars, object, properties, looked, config>>
  BY DEF connect, ConfigInv, ParseInv
<1>2. ParseInv'
  <2>1. GivenWell' /\ AsFarAsLooked'
    BY <1>1 DEF ConfigInv, ParseInv, GivenWell, GivenText, AsFarAsLooked, Seen, Mixed
  <2> QED
    BY <1>1, <2>1 DEF ConfigInv, ParseInv
<1>3. FilterInv'
  BY <1>1 DEF ConfigInv, FilterInv, AgreesWithStandard, NothingMissed, StrangersAreCutShort,
              FailsOnEmptyLevels, filterVars, filter
<1>4. ASSUME stage' = "made" PROVE LibraryIsTold'
  <2>1. told' = ConnectOptions
    BY <1>1, <1>4 DEF connect
  <2>2. KeepAlive \subseteq ToSet(Looked[object]) \ Mixed
    BY <1>1, TimesOfConnections DEF KeepAlive, Mixed, Timeout
  <2>3. /\ config["keep_alive_period.sec"] = ClientDefault["keep_alive_period.sec"]
        /\ config["keep_alive_period.nanosec"] = ClientDefault["keep_alive_period.nanosec"]
    BY <1>1, <2>2, AllSeen DEF ConfigInv, KeepAlive, Default
  <2>4. ClientDefault["keep_alive_period.sec"] = 10 /\ ClientDefault["keep_alive_period.nanosec"] = 0
    BY TimesOfConnections DEF ClientDefault, KeepAlive
  <2>5. /\ config["connection_timeout.sec"] \in Int
        /\ config["connection_timeout.nanosec"] \in Int
    BY <1>1 DEF ConfigInv, ParseInv, Timeout
  <2>6. /\ keep_alive_period.seconds \in Int /\ keep_alive_period.nanoseconds \in Int
        /\ connect_timeout.seconds \in Int /\ connect_timeout.nanoseconds \in Int
    BY <2>3, <2>4, <2>5 DEF keep_alive_period, connect_timeout, Time
  <2>7. \A t : t.seconds \in Int /\ t.nanoseconds \in Int => Time_to_seconds(t) = WholeSeconds(t)
    BY SecondsAddUp, UnitsAssumption DEF Time_to_seconds, WholeSeconds, Carry
  <2>8. /\ told'.keepAliveInterval = WholeSeconds(keep_alive_period)
        /\ told'.connectTimeout = WholeSeconds(connect_timeout)
    BY <2>1, <2>6, <2>7 DEF ConnectOptions
  <2> QED
    BY <1>1, <2>8 DEF LibraryIsTold, WholeSeconds, keep_alive_period, connect_timeout, Time
<1>5. MadeInv'
  BY <1>1, <1>4 DEF ConfigInv, MadeInv, filterVars
<1> QED
  BY <1>2, <1>3, <1>5 DEF ConfigInv

LEMMA PiecesInPlace ==
  ASSUME NEW S, NEW v \in Seq(S), v # <<>>
  PROVE  /\ Pieces(v) \in Seq(S) /\ Len(Pieces(v)) <= Len(v)
         /\ \A n \in 1..Len(Pieces(v)) : Pieces(v)[n] = v[n]
         /\ \A n \in 1..Len(v) : v[n] # <<>> => n \in 1..Len(Pieces(v))
<1>1. Len(v) \in Nat \ {0}
  OBVIOUS
<1>2. CASE v[Len(v)] = <<>>
  <2>1. Pieces(v) = SubSeq(v, 1, Len(v) - 1)
    BY <1>2 DEF Pieces, Last, Front
  <2>2. SubSeq(v, 1, Len(v) - 1) \in Seq(S) /\ Len(SubSeq(v, 1, Len(v) - 1)) = Len(v) - 1
        /\ \A n \in 1..(Len(v) - 1) : SubSeq(v, 1, Len(v) - 1)[n] = v[n]
    <3> DEFINE m == Len(v) - 1
    <3>1. m \in Nat /\ \A n \in 1..m : n \in 1..Len(v)
      BY <1>1
    <3>2. \A n \in 1..m : v[n] \in S
      BY <3>1, ElementOfSeq
    <3> HIDE DEF m
    <3>3. /\ SubSeq(v, 1, m) \in Seq(S)
          /\ Len(SubSeq(v, 1, m)) = IF 1 <= m THEN m - 1 + 1 ELSE 0
          /\ \A n \in 1..(m - 1 + 1) : SubSeq(v, 1, m)[n] = v[1 + n - 1]
      BY <3>1, <3>2, SubSeqProperties
    <3>4. Len(SubSeq(v, 1, m)) = m
      BY <3>1, <3>3
    <3>5. \A n \in 1..m : SubSeq(v, 1, m)[n] = v[n]
      BY <3>1, <3>3
    <3> QED
      BY <3>3, <3>4, <3>5 DEF m
  <2> QED
    BY <1>1, <1>2, <2>1, <2>2
<1>3. CASE v[Len(v)] # <<>>
  BY <1>1, <1>3 DEF Pieces, Last
<1> QED
  BY <1>2, <1>3

LEMMA SubscriptionKeepsConfigInv ==
  ASSUME ConfigInv, Subscription_new
  PROVE  ConfigInv'
<1> DEFINE w == config.topics
           S == Seq(Seq(Characters))
<1>1. /\ object = "input" /\ stage = "parsed" /\ stage' = "made" /\ looked = Len(Looked[object])
      /\ UNCHANGED <<topic, trying, f_i, v_i, verdict, object, properties, looked, config, told>>
      /\ filters' = [n \in DOMAIN w |-> IF w[n] = <<>> THEN <<<<>>>> ELSE w[n]]
  BY DEF Subscription_new, ConfigInv, ParseInv
<1>2. trying = 1 /\ f_i = Start /\ v_i = Start /\ verdict = "none" /\ topic \in Topics
  BY <1>1 DEF ConfigInv, MadeInv
<1>3. ParseInv'
  <2>1. GivenWell' /\ AsFarAsLooked'
    BY <1>1 DEF ConfigInv, ParseInv, GivenWell, GivenText, AsFarAsLooked, Seen, Mixed
  <2> QED
    BY <1>1, <2>1 DEF ConfigInv, ParseInv
<1>4. w = IF "topics" \in DOMAIN properties THEN Pieces(TopicsGiven) ELSE <<>>
  <2>1. "topics" \in ToSet(Looked[object]) \ Mixed /\ "topics" \notin KeepAlive
        /\ Reads("topics") = "list" /\ Default[object]["topics"] = <<>>
    BY <1>1 DEF Looked, SubscriptionProperties, ToSet, Mixed, Timeout, KeepAlive, Reads,
                Default, SubscriptionDefault
  <2>2. config["topics"] = IF "topics" \in DOMAIN properties
                           THEN Read("list", properties["topics"]) ELSE <<>>
    BY <1>1, <2>1, AllSeen DEF ConfigInv
  <2> QED
    BY <2>2 DEF Read, TopicsGiven
<1>5. /\ w \in Seq(S) /\ TopicsGiven \in Seq(S) /\ Len(w) <= Len(TopicsGiven)
      /\ \A n \in 1..Len(w) : w[n] = TopicsGiven[n]
      /\ \A n \in 1..Len(TopicsGiven) : TopicsGiven[n] # <<>> => n \in 1..Len(w)
      /\ \A n \in 1..Len(TopicsGiven) : TopicsGiven[n] # <<<<>>>>
  <2>1. CASE "topics" \in DOMAIN properties
    <3>1. TopicsGiven \in Seq(S) /\ TopicsGiven # <<>>
          /\ \A n \in DOMAIN TopicsGiven : TopicsGiven[n] # <<<<>>>>
      BY <1>1, <2>1 DEF ConfigInv, ParseInv, GivenWell, GivenText, TopicsGiven
    <3>2. w = Pieces(TopicsGiven)
      BY <1>4, <2>1
    <3> HIDE DEF S, w
    <3>3. /\ w \in Seq(S) /\ Len(w) <= Len(TopicsGiven)
          /\ \A n \in 1..Len(w) : w[n] = TopicsGiven[n]
          /\ \A n \in 1..Len(TopicsGiven) : TopicsGiven[n] # <<>> => n \in 1..Len(w)
      BY <3>1, <3>2, PiecesInPlace
    <3>4. DOMAIN TopicsGiven = 1..Len(TopicsGiven)
      BY <3>1, LenProperties
    <3> QED
      BY <3>1, <3>3, <3>4
  <2>2. CASE "topics" \notin DOMAIN properties
    <3>1. TopicsGiven = <<>> /\ w = <<>>
      BY <1>4, <2>2 DEF TopicsGiven
    <3> HIDE DEF S, w
    <3> QED
      BY <3>1
  <2> QED
    BY <2>1, <2>2
<1> HIDE DEF w
<1>6. /\ filters' \in Seq(S) /\ Len(filters') = Len(w)
      /\ \A n \in 1..Len(w) : filters'[n] = IF w[n] = <<>> THEN <<<<>>>> ELSE w[n]
  <2>1. <<<<>>>> \in S
    OBVIOUS
  <2> DEFINE e(n) == IF w[n] = <<>> THEN <<<<>>>> ELSE w[n]
  <2> HIDE DEF S
  <2>2. Len(w) \in Nat /\ DOMAIN w = 1..Len(w)
    BY <1>5, LenProperties
  <2>3. \A n \in 1..Len(w) : e(n) \in S
    BY <1>5, <2>1, ElementOfSeq
  <2>4. filters' = [n \in 1..Len(w) |-> e(n)]
    BY <1>1, <2>2
  <2>5. /\ filters' \in [1..Len(w) -> S]
        /\ \A n \in 1..Len(w) : filters'[n] = e(n)
    <3> HIDE DEF e
    <3> QED
      BY <2>3, <2>4
  <2>6. filters' \in Seq(S) /\ Len(filters') = Len(w)
    BY <2>2, <2>5
  <2> QED
    BY <2>5, <2>6
<1>7. FilterInv'
  <2>1. \A n \in 1..Len(filters') : filters'[n] # <<>>
    <3>1. <<<<>>>> # <<>>
      OBVIOUS
    <3> QED
      BY <1>6, <3>1
  <2>2. verdict' = "none" /\ trying' = 1 /\ f_i' = Start /\ v_i' = Start /\ topic' = topic
    BY <1>1, <1>2
  <2>3. ASSUME filters' # <<>>
        PROVE  1 \in 1..Len(filters') /\ InStep(filters'[1], topic, Start)
    <3>1. 1 \in 1..Len(filters') /\ IsText(filters'[1]) /\ IsText(topic)
      BY <1>2, <1>6, <2>1, <2>3, TextAssumption DEF IsText
    <3>2. Start \in Places(filters'[1]) /\ Start \in Places(topic)
      BY <3>1, StartIsPlace
    <3> QED
      BY <3>1, <3>2 DEF InStep, Start, Agree
  <2> QED
    BY <1>6, <2>1, <2>2, <2>3
       DEF FilterInv, AgreesWithStandard, NothingMissed, StrangersAreCutShort,
           FailsOnEmptyLevels, filter
<1>8. MadeInv'
  <2>1. TopicsGiven' = TopicsGiven
    BY <1>1 DEF TopicsGiven
  <2>2. FiltersAreListed(TopicsGiven)'
    <3>1. DOMAIN filters' = 1..Len(w) /\ DOMAIN TopicsGiven = 1..Len(TopicsGiven)
      BY <1>5, <1>6
    <3> HIDE DEF S
    <3> QED
      BY <1>5, <1>6, <2>1, <3>1 DEF FiltersAreListed
  <2> QED
    BY <1>1, <1>2, <2>2 DEF MadeInv
<1> QED
  BY <1>3, <1>7, <1>8 DEF ConfigInv

LEMMA StepKeepsConfigInv == ConfigInv /\ [ConfigNext]_allVars => ConfigInv'
<1> SUFFICES ASSUME ConfigInv, [ConfigNext]_allVars PROVE ConfigInv'
  OBVIOUS
<1>1. CASE lookup_property
  BY <1>1, LookupKeepsConfigInv
<1>2. CASE connect
  BY <1>2, ConnectKeepsConfigInv
<1>3. CASE Subscription_new
  BY <1>3, SubscriptionKeepsConfigInv
<1>4. CASE MessageArrives
  <2>1. object = "input" /\ stage = "made" /\ Subscription_match /\ UNCHANGED configVars
    BY <1>4 DEF MessageArrives
  <2>2. FilterInv'
    BY <2>1, MatchKeepsFilterInv DEF ConfigInv, MadeInv
  <2>3. ParseInv'
    BY <2>1 DEF ConfigInv, ParseInv, configVars, GivenWell, GivenText, AsFarAsLooked, Seen,
                Mixed
  <2>4. MadeInv'
    BY <2>1 DEF ConfigInv, MadeInv, configVars, Subscription_match, FiltersAreListed,
                TopicsGiven
  <2> QED
    BY <2>2, <2>3, <2>4 DEF ConfigInv
<1>5. CASE parse_from_properties \/ Publication_new \/ UNCHANGED allVars
  <2>1. /\ UNCHANGED <<filterVars, object, properties, looked, config, told>>
        /\ \/ stage = "given" /\ looked = Len(Looked[object]) /\ stage' = "parsed"
           \/ object = "output" /\ stage = "parsed" /\ stage' \in {"made", "failed"}
           \/ stage' = stage
    BY <1>5 DEF parse_from_properties, Publication_new, allVars, configVars
  <2>2. FilterInv'
    BY <2>1 DEF ConfigInv, FilterInv, AgreesWithStandard, NothingMissed, StrangersAreCutShort,
                FailsOnEmptyLevels, filterVars, filter
  <2>3. ParseInv'
    BY <2>1 DEF ConfigInv, ParseInv, GivenWell, GivenText, AsFarAsLooked, Seen, Mixed
  <2>4. MadeInv'
    BY <2>1 DEF ConfigInv, MadeInv, LibraryIsTold, WholeSeconds, keep_alive_period,
                connect_timeout, Time, FiltersAreListed, TopicsGiven, filterVars
  <2> QED
    BY <2>2, <2>3, <2>4 DEF ConfigInv
<1> QED
  BY <1>1, <1>2, <1>3, <1>4, <1>5 DEF ConfigNext

(* At every step of the parser, of what is made of the configuration and   *)
(* of the scanner, for any properties and any topic: the configuration is  *)
(* as far as the properties have been looked up, and the scanner is in     *)
(* step.  Everything below follows from this.                              *)
THEOREM ConfigInvariant == ConfigSpec => []ConfigInv
<1>1. ConfigInit => ConfigInv
  BY InitConfigInv
<1>2. ConfigInv /\ [ConfigNext]_allVars => ConfigInv'
  BY StepKeepsConfigInv
<1> QED
  BY <1>1, <1>2, PTL DEF ConfigSpec

(* For every list of filters that a topics property can give and every     *)
(* topic, of any length and any number of levels: RTI_MQTT_TopicFilter_    *)
(* match misses a message only for a `+' at the last level or an empty     *)
(* level, and lets a strange one through only if it is cut short.          *)
THEOREM AgreesWithStandardTheorem == ConfigSpec => []AgreesWithStandard
<1>1. ConfigInv => AgreesWithStandard
  BY DEF ConfigInv, FilterInv
<1> QED
  BY <1>1, ConfigInvariant, PTL

(* A match fails, which makes the client fail, only for a malformed filter *)
(* or a `#' that meets an empty level of the topic.                        *)
THEOREM FailsOnEmptyLevelsTheorem == ConfigSpec => []FailsOnEmptyLevels
<1>1. ConfigInv => FailsOnEmptyLevels
  BY DEF ConfigInv, FilterInv
<1> QED
  BY <1>1, ConfigInvariant, PTL

(* For every set of properties and all their texts: what is set takes      *)
(* effect and what is not keeps its default, but for the fields of which   *)
(* the property says that nothing is claimed; the library is told whole    *)
(* seconds of the configuration's times, and the filters are those that    *)
(* the property lists.                                                     *)
THEOREM PropertiesTakeEffectTheorem == ConfigSpec => []PropertiesTakeEffect
<1>1. ConfigInv => PropertiesTakeEffect
  <2> SUFFICES ASSUME ConfigInv PROVE PropertiesTakeEffect
    OBVIOUS
  <2>1. stage \in {"parsed", "made", "failed"} => FieldsAreAsSet
    <3>1. ASSUME stage \in {"parsed", "made", "failed"}, NEW f \in ToSet(Looked[object]) \ Confused
          PROVE  /\ f \in DOMAIN properties => config[f] = Read(Reads(f), properties[f])
                 /\ f \notin DOMAIN properties => config[f] = Default[object][f]
      <4>1. f \notin Mixed /\ f \notin KeepAlive \cap DOMAIN properties
        BY DEF Confused, Mixed
      <4> QED
        BY <3>1, <4>1, AllSeen DEF ConfigInv, ParseInv
    <3> QED
      BY <3>1 DEF FieldsAreAsSet
  <2> QED
    BY <2>1 DEF ConfigInv, MadeInv, PropertiesTakeEffect, TopicsGiven
<1> QED
  BY <1>1, ConfigInvariant, PTL
=============================================================================
