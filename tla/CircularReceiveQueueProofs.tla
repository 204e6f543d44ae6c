--------------------- MODULE CircularReceiveQueueProofs ---------------------
(***************************************************************************)
(* The invariants of the ring, for every capacity, every number of         *)
(* messages and every set of readers.  They speak of executions in which   *)
(* DDS has copied every sample it was asked to copy so far (~copy_failed); *)
(* a copy that fails leaves the cursors on slots that the read emptied.    *)
(*                                                                         *)
(* The argument: next_unread and size determine next (CursorsAgree) and    *)
(* what every slot holds (RingHoldsNewest).  So a slot found taken by      *)
(* receive() means size = Capacity, and a read visits                      *)
(* Offset(next) = size % Capacity slots: all of them, or none when full.   *)
(* The messages of the window are then the newest ones in order, which is  *)
(* the sequence MessageInbox keeps.                                        *)
(***************************************************************************)
EXTENDS CircularReceiveQueue, SequenceTheorems, TLAPS

IInv ==
  ~copy_failed =>
  /\ TypeOK
  /\ CursorsAgree
  /\ RingHoldsNewest
  /\ Conservation
  /\ HeadIsNextUnread

-----------------------------------------------------------------------------
(* Arithmetic modulo Capacity, for the operands the queue uses. *)
LEMMA AdvanceValue ==
  ASSUME NEW i \in Slots, NEW n \in 0..Capacity
  PROVE  Advance(i, n) = IF i + n < Capacity THEN i + n ELSE i + n - Capacity
<1>1. CASE i + n < Capacity
  BY <1>1, CapacityAssumption DEF Advance, Slots
<1>2. CASE i + n >= Capacity
  BY <1>2, CapacityAssumption DEF Advance, Slots
<1> QED BY <1>1, <1>2, CapacityAssumption DEF Slots

LEMMA DistanceValue ==
  ASSUME NEW i \in Slots, NEW j \in Slots
  PROVE  Distance(i, j) = IF j >= i THEN j - i ELSE j + Capacity - i
<1>1. CASE j >= i
  BY <1>1, CapacityAssumption DEF Distance, Slots
<1>2. CASE j < i
  BY <1>2, CapacityAssumption DEF Distance, Slots
<1> QED BY <1>1, <1>2, CapacityAssumption DEF Slots

LEMMA DistanceOfAdvance ==
  ASSUME NEW i \in Slots, NEW n \in 0..Capacity
  PROVE  /\ Advance(i, n) \in Slots
         /\ Distance(i, Advance(i, n)) = IF n = Capacity THEN 0 ELSE n
<1> DEFINE a == Advance(i, n)
<1>1. a = IF i + n < Capacity THEN i + n ELSE i + n - Capacity
  BY AdvanceValue
<1>2. a \in Slots
  BY <1>1, CapacityAssumption DEF Slots
<1>3. Distance(i, a) = IF a >= i THEN a - i ELSE a + Capacity - i
  BY <1>2, DistanceValue
<1> HIDE DEF a
<1>4. Distance(i, a) = IF n = Capacity THEN 0 ELSE n
  BY <1>1, <1>3, CapacityAssumption DEF Slots
<1> QED BY <1>2, <1>4 DEF a

(* Moving the origin n places forward. *)
LEMMA DistanceFromAdvance ==
  ASSUME NEW i \in Slots, NEW j \in Slots, NEW n \in 0..Capacity
  PROVE  Distance(Advance(i, n), j) =
           IF n = Capacity THEN Distance(i, j)
           ELSE IF Distance(i, j) >= n THEN Distance(i, j) - n
           ELSE Distance(i, j) - n + Capacity
<1> DEFINE a == Advance(i, n)
<1>1. a = IF i + n < Capacity THEN i + n ELSE i + n - Capacity
  BY AdvanceValue
<1>2. a \in Slots
  BY <1>1, CapacityAssumption DEF Slots
<1>3. Distance(a, j) = IF j >= a THEN j - a ELSE j + Capacity - a
  BY <1>2, DistanceValue
<1>4. Distance(i, j) = IF j >= i THEN j - i ELSE j + Capacity - i
  BY DistanceValue
<1> HIDE DEF a
<1>5. Distance(a, j) =
           IF n = Capacity THEN Distance(i, j)
           ELSE IF Distance(i, j) >= n THEN Distance(i, j) - n
           ELSE Distance(i, j) - n + Capacity
  BY <1>1, <1>3, <1>4, CapacityAssumption DEF Slots
<1> QED BY <1>5 DEF a

LEMMA DistanceType ==
  ASSUME NEW i \in Slots, NEW j \in Slots
  PROVE  Distance(i, j) \in Slots
BY DistanceValue, CapacityAssumption DEF Slots

(* A slot is where its distance says. *)
LEMMA AdvanceOfDistance ==
  ASSUME NEW i \in Slots, NEW j \in Slots
  PROVE  Advance(i, Distance(i, j)) = j
<1> DEFINE d == Distance(i, j)
<1>1. d = IF j >= i THEN j - i ELSE j + Capacity - i
  BY DistanceValue
<1>2. d \in 0..Capacity
  BY <1>1, CapacityAssumption DEF Slots
<1>3. Advance(i, d) = IF i + d < Capacity THEN i + d ELSE i + d - Capacity
  BY <1>2, AdvanceValue
<1> HIDE DEF d
<1>4. Advance(i, d) = j
  BY <1>1, <1>3, CapacityAssumption DEF Slots
<1> QED BY <1>4 DEF d

(* A number has one residue. *)
LEMMA Residue ==
  ASSUME NEW q \in Nat, NEW r \in Slots
  PROVE  (Capacity * q + r) % Capacity = r
<1> DEFINE x == Capacity * q + r
           p == x \div Capacity
           t == x % Capacity
<1>1. x \in Nat
  BY CapacityAssumption DEF Slots
<1>2. p \in Nat /\ t \in Slots /\ x = Capacity * p + t
  BY <1>1, CapacityAssumption DEF Slots
<1>3. Capacity * (q - p) = t - r
  BY <1>2, CapacityAssumption DEF Slots
<1>4. q - p < 1 /\ q - p > -1
  <2> HIDE DEF x, p, t
  <2>1. t - r < Capacity /\ t - r > -Capacity
    BY <1>2, CapacityAssumption DEF Slots
  <2>2. CASE q - p >= 1
    BY <2>1, <2>2, <1>2, <1>3, CapacityAssumption DEF Slots
  <2>3. CASE q - p <= -1
    BY <2>1, <2>3, <1>2, <1>3, CapacityAssumption DEF Slots
  <2> QED BY <2>2, <2>3, <1>2
<1>5. q = p
  <2> HIDE DEF x, p, t
  <2> QED BY <1>2, <1>4
<1> QED
  <2> HIDE DEF p
  <2> QED BY <1>2, <1>5, CapacityAssumption DEF Slots

(* head may run past Capacity; what counts is its residue. *)
LEMMA AdvanceHead ==
  ASSUME NEW h \in Nat, NEW n \in 0..Capacity
  PROVE  /\ h % Capacity \in Slots
         /\ (h + n) % Capacity = Advance(h % Capacity, n)
         /\ Advance(h, n) \in Slots
         /\ Advance(h, n) % Capacity = Advance(h, n)
<1> DEFINE q == h \div Capacity
           r == h % Capacity
<1>1. q \in Nat /\ r \in Slots /\ h = Capacity * q + r
  BY CapacityAssumption DEF Slots
<1>2. (h + n) % Capacity = Advance(r, n)
  <2> HIDE DEF q, r
  <2>1. CASE r + n < Capacity
    <3>1. h + n = Capacity * q + (r + n) /\ r + n \in Slots
      BY <1>1, <2>1, CapacityAssumption DEF Slots
    <3> QED BY <1>1, <2>1, <3>1, Residue, AdvanceValue
  <2>2. CASE r + n >= Capacity
    <3>1. h + n = Capacity * (q + 1) + (r + n - Capacity) /\ r + n - Capacity \in Slots /\ q + 1 \in Nat
      BY <1>1, <2>2, CapacityAssumption DEF Slots
    <3>2. (h + n) % Capacity = r + n - Capacity
      <4> DEFINE d == r + n - Capacity
                 p == q + 1
      <4>1. (Capacity * p + d) % Capacity = d
        <5> HIDE DEF d, p
        <5> QED BY <3>1, Residue DEF d, p
      <4> QED BY <3>1, <4>1
    <3>3. Advance(r, n) = r + n - Capacity
      BY <1>1, <2>2, AdvanceValue, CapacityAssumption DEF Slots
    <3> QED BY <3>2, <3>3
  <2> QED BY <2>1, <2>2, <1>1, CapacityAssumption DEF Slots
<1>3. Advance(h, n) \in Slots
  BY CapacityAssumption DEF Advance, Slots
<1>4. Advance(h, n) % Capacity = Advance(h, n)
  <2> HIDE DEF Advance
  <2> QED BY <1>3, CapacityAssumption DEF Slots
<1> QED BY <1>1, <1>2, <1>3, <1>4

-----------------------------------------------------------------------------
(* A slot is found taken exactly when the ring is full. *)
LEMMA LostWhenFull ==
  ASSUME IInv, ~copy_failed
  PROVE  slot[next] # NULL <=> size = Capacity
<1> USE CapacityAssumption
<1>1. /\ next \in Slots /\ next_unread \in Slots /\ size \in 0..Capacity
      /\ received_count \in Nat /\ received_count >= size
      /\ next = Advance(next_unread, size)
  BY DEF IInv, TypeOK, CursorsAgree, Conservation
<1>2. slot[next] = IF Offset(next) < size
                   THEN received_count - size + 1 + Offset(next) ELSE 0
  BY <1>1 DEF IInv, RingHoldsNewest, NULL
<1>3. Offset(next) = IF size = Capacity THEN 0 ELSE size
  BY <1>1, DistanceOfAdvance DEF Offset
<1> QED BY <1>1, <1>2, <1>3 DEF NULL

(* What a read finds: all of the unread messages, or none when full. *)
LEMMA ReadableValue ==
  ASSUME IInv, ~copy_failed, NEW max \in Nat
  PROVE  /\ Readable(max) \in 0..size
         /\ size = Capacity => Readable(max) = 0
<1> USE CapacityAssumption
<1>1. /\ next \in Slots /\ next_unread \in Slots /\ size \in 0..Capacity
      /\ next = Advance(next_unread, size)
  BY DEF IInv, TypeOK, CursorsAgree
<1>2. Offset(next) = IF size = Capacity THEN 0 ELSE size
  BY <1>1, DistanceOfAdvance DEF Offset
<1> QED BY <1>1, <1>2 DEF Readable, Least

(* The messages of the window are real ones. *)
LEMMA TakenReal ==
  ASSUME IInv, ~copy_failed, NEW n \in 0..size
  PROVE  /\ Taken(n) \in Seq(Nat)
         /\ Len(Taken(n)) = n
         /\ \A k \in 1..n : Taken(n)[k] # NULL
<1> USE CapacityAssumption
<1>1. /\ next_unread \in Slots /\ size \in 0..Capacity /\ slot \in [Slots -> Nat]
      /\ received_count \in Nat /\ received_count >= size
  BY DEF IInv, TypeOK, Conservation
<1>2. ASSUME NEW k \in 1..n
      PROVE  /\ slot[Advance(next_unread, k - 1)] \in Nat
             /\ slot[Advance(next_unread, k - 1)] # NULL
  <2> DEFINE j == Advance(next_unread, k - 1)
  <2>1. j \in Slots /\ Distance(next_unread, j) = k - 1
    BY <1>1, DistanceOfAdvance
  <2>2. slot[j] = IF Offset(j) < size
                  THEN received_count - size + 1 + Offset(j) ELSE 0
    BY <2>1 DEF IInv, RingHoldsNewest, NULL
  <2> QED BY <1>1, <2>1, <2>2 DEF Offset, NULL
<1>3. Taken(n) = [k \in 1..n |-> slot[Advance(next_unread, k - 1)]]
  BY DEF Taken
<1> QED BY <1>2, <1>3, <1>1

-----------------------------------------------------------------------------
LEMMA InitIInv == Init => IInv
<1> SUFFICES ASSUME Init PROVE IInv
  OBVIOUS
<1> USE CapacityAssumption DEF Init
<1>1. TypeOK
  BY DEF TypeOK, Slots, NULL
<1>2. CursorsAgree
  BY AdvanceValue DEF CursorsAgree, Slots
<1>3. RingHoldsNewest
  BY DistanceType DEF RingHoldsNewest, Offset, Slots, NULL
<1>4. Conservation
  BY DEF Conservation
<1>5. HeadIsNextUnread
  BY DEF HeadIsNextUnread
<1> QED BY <1>1, <1>2, <1>3, <1>4, <1>5 DEF IInv

(* A message received into a free slot, or over the oldest one. *)
LEMMA ReceiveStep ==
  ASSUME IInv, ~copy_failed, Receive
  PROVE  IInv'
<1> USE CapacityAssumption
<1> DEFINE lost == slot[next] # NULL
<1>1. /\ slot \in [Slots -> Nat] /\ size \in 0..Capacity /\ head \in Nat
      /\ next \in Slots /\ next_unread \in Slots
      /\ read_buffer \in Seq(Nat) /\ loaned_to \in Seqs \cup {NoSeq}
      /\ delivered \in Seq(Nat)
      /\ next = Advance(next_unread, size)
      /\ received_count = unread_count + read_count + lost_count
      /\ unread_count = size /\ read_count = Len(delivered)
      /\ head % Capacity = next_unread
      /\ received_count \in Nat /\ unread_count \in Int
      /\ read_count \in Nat /\ lost_count \in Nat
  BY DEF IInv, TypeOK, CursorsAgree, Conservation, HeadIsNextUnread
<1>2. lost <=> size = Capacity
  BY LostWhenFull
<1>3. /\ slot' = [slot EXCEPT ![next] = received_count + 1]
      /\ next_unread' = IF lost THEN Advance(next_unread, 1) ELSE next_unread
      /\ received_count' = received_count + 1 /\ read_count' = read_count
      /\ unread_count' = (IF lost THEN unread_count ELSE unread_count + 1)
      /\ lost_count' = (IF lost THEN lost_count + 1 ELSE lost_count)
      /\ next' = Advance(next, 1)
      /\ read_buffer' = read_buffer /\ loaned_to' = loaned_to
      /\ delivered' = delivered /\ copy_failed' = copy_failed
      /\ \/ size < Capacity /\ size' = size + 1 /\ head' = head
         \/ size >= Capacity /\ size' = size /\ head' \in HeadPushed
  BY DEF Receive, UnreadAfter
<1>free. size < Capacity =>
           /\ next_unread' = next_unread /\ size' = size + 1 /\ head' = head
           /\ unread_count' = unread_count + 1 /\ lost_count' = lost_count
  <2> HIDE DEF lost
  <2> QED BY <1>1, <1>2, <1>3
<1>full. size = Capacity =>
           /\ next_unread' = Advance(next_unread, 1) /\ size' = size
           /\ head' \in HeadPushed
           /\ unread_count' = unread_count /\ lost_count' = lost_count + 1
  <2> HIDE DEF lost
  <2> QED BY <1>1, <1>2, <1>3
<1>4. Advance(next, 1) \in Slots /\ Advance(next_unread, 1) \in Slots
  BY <1>1, DistanceOfAdvance
<1>5. head' \in Nat /\ HeadIsNextUnread'
  <2>1. CASE size < Capacity
    <3> next_unread' = next_unread /\ head' = head
      BY <1>1, <1>3, <1>free, <1>full, <2>1
    <3> QED BY <1>1 DEF HeadIsNextUnread
  <2>2. CASE size = Capacity
    <3>1. /\ Advance(head, 1) \in Slots
          /\ Advance(head, 1) % Capacity = Advance(head, 1)
          /\ (head + 1) % Capacity = Advance(head % Capacity, 1)
      <4>1. 1 \in 0..Capacity
        OBVIOUS
      <4> QED BY <1>1, <4>1, AdvanceHead
    <3>2. Advance(head, 1) = (head + 1) % Capacity
      BY DEF Advance
    <3>3. next_unread' = Advance(next_unread, 1) /\ head' \in {Advance(head, 1), head + 1}
      BY <1>1, <1>3, <1>free, <1>full, <2>2 DEF HeadPushed
    <3>4. head' % Capacity = next_unread'
      BY <1>1, <3>1, <3>2, <3>3
    <3>5. head' \in Nat
      <4>1. Advance(head, 1) \in Nat
        BY <3>1 DEF Slots
      <4>2. head + 1 \in Nat
        BY <1>1
      <4> QED BY <3>3, <4>1, <4>2
    <3> QED BY <3>4, <3>5 DEF HeadIsNextUnread
  <2> QED BY <2>1, <2>2, <1>1
<1>6. TypeOK'
  <2>1. slot' \in [Slots -> Nat]
    BY <1>1, <1>3, <1>free, <1>full
  <2>2. size' \in 0..Capacity
    BY <1>1, <1>3, <1>free, <1>full
  <2>3. unread_count' \in Int /\ {received_count, read_count, lost_count}' \subseteq Nat
    BY <1>1, <1>3, <1>free, <1>full
  <2>4. next' \in Slots /\ next_unread' \in Slots
    BY <1>1, <1>3, <1>free, <1>full, <1>4
  <2>5. copy_failed' \in BOOLEAN
    <3>1. copy_failed \in BOOLEAN
      BY DEF IInv, TypeOK
    <3> QED BY <1>3, <3>1
  <2> QED BY <1>1, <1>3, <1>free, <1>full, <1>5, <2>1, <2>2, <2>3, <2>4, <2>5 DEF TypeOK, Slots
<1>7. Conservation'
  BY <1>1, <1>3, <1>free, <1>full DEF Conservation
<1>8. CursorsAgree'
  <2>1. CASE size < Capacity
    <3>1. Advance(Advance(next_unread, size), 1) = Advance(next_unread, size + 1)
      <4>1. /\ size + 1 \in 0..Capacity /\ 1 \in 0..Capacity
            /\ Advance(next_unread, size) \in Slots
        BY <1>1, <2>1
      <4>2. /\ Advance(next_unread, size) =
                  IF next_unread + size < Capacity THEN next_unread + size
                  ELSE next_unread + size - Capacity
            /\ Advance(next_unread, size + 1) =
                  IF next_unread + (size + 1) < Capacity THEN next_unread + (size + 1)
                  ELSE next_unread + (size + 1) - Capacity
            /\ Advance(Advance(next_unread, size), 1) =
                  IF Advance(next_unread, size) + 1 < Capacity
                  THEN Advance(next_unread, size) + 1
                  ELSE Advance(next_unread, size) + 1 - Capacity
        BY <1>1, <4>1, AdvanceValue
      <4> QED BY <1>1, <2>1, <4>1, <4>2 DEF Slots
    <3> QED BY <1>1, <1>3, <1>free, <1>full, <2>1, <3>1 DEF CursorsAgree
  <2>2. CASE size = Capacity
    <3>1. ASSUME NEW i \in Slots PROVE Advance(i, Capacity) = i
      <4>1. Advance(i, Capacity) = IF i + Capacity < Capacity THEN i + Capacity
                                   ELSE i + Capacity - Capacity
        BY AdvanceValue
      <4> QED BY <4>1 DEF Slots
    <3>2. /\ Advance(next_unread, Capacity) = next_unread
          /\ Advance(Advance(next_unread, 1), Capacity) = Advance(next_unread, 1)
      BY <1>1, <1>4, <3>1
    <3> QED BY <1>1, <1>3, <1>free, <1>full, <2>2, <3>1, <3>2 DEF CursorsAgree
  <2> QED BY <2>1, <2>2, <1>1
<1>9. RingHoldsNewest'
  <2> SUFFICES ASSUME NEW j \in Slots
               PROVE  slot'[j] = IF Distance(next_unread', j) < size'
                                 THEN received_count' - size' + 1
                                        + Distance(next_unread', j)
                                 ELSE 0
    BY DEF RingHoldsNewest, Offset, NULL, Slots
  <2> DEFINE d == Distance(next_unread, j)
  <2>0. size \in 0..Capacity /\ received_count \in Nat
    BY <1>1
  <2>1. slot[j] = IF d < size THEN received_count - size + 1 + d ELSE 0
    BY DEF IInv, RingHoldsNewest, Offset, NULL
  <2>2. d \in Slots
    BY <1>1, DistanceType
  <2>3. next = j <=> d = IF size = Capacity THEN 0 ELSE size
    <3> DEFINE D == IF size = Capacity THEN 0 ELSE size
    <3>1. Distance(next_unread, next) = D
      BY <1>1, DistanceOfAdvance
    <3>2. Advance(next_unread, d) = j
      BY <1>1, AdvanceOfDistance
    <3>3. Advance(next_unread, D) = next
      BY <1>1, <3>1, AdvanceOfDistance
    <3> HIDE DEF D
    <3> QED BY <3>1, <3>2, <3>3 DEF D
  <2>4. slot'[j] = IF next = j THEN received_count + 1 ELSE slot[j]
    BY <1>1, <1>3, <1>free, <1>full
  <2>5. CASE size < Capacity
    <3>1. /\ next_unread' = next_unread /\ size' = size + 1
          /\ received_count' = received_count + 1
      BY <1>1, <1>3, <1>free, <1>full, <2>5
    <3> HIDE DEF d
    <3>2. slot'[j] = IF d < size + 1 THEN received_count + 1 - (size + 1) + 1 + d ELSE 0
      BY <2>0, <2>1, <2>2, <2>3, <2>4, <2>5 DEF Slots
    <3> QED BY <2>0, <2>2, <3>1, <3>2 DEF d, Slots
  <2>6. CASE size = Capacity
    <3>1. /\ next_unread' = Advance(next_unread, 1) /\ size' = Capacity
          /\ received_count' = received_count + 1
      BY <1>1, <1>3, <1>free, <1>full, <2>6
    <3>2. Distance(Advance(next_unread, 1), j) =
            IF 1 = Capacity THEN d ELSE IF d >= 1 THEN d - 1 ELSE d - 1 + Capacity
      <4>1. 1 \in 0..Capacity
        OBVIOUS
      <4> QED BY <1>1, <4>1, DistanceFromAdvance
    <3> DEFINE e == Distance(Advance(next_unread, 1), j)
    <3> HIDE DEF d, e
    <3>3. e = IF d = 0 THEN Capacity - 1 ELSE d - 1
      BY <2>2, <3>2 DEF e, Slots
    <3>4. slot'[j] = IF e < Capacity THEN received_count + 1 - Capacity + 1 + e ELSE 0
      BY <2>0, <2>1, <2>2, <2>3, <2>4, <2>6, <3>3 DEF Slots
    <3>5. e \in Slots
      BY <2>2, <3>3 DEF Slots
    <3> QED BY <2>0, <3>1, <3>4, <3>5 DEF e, Slots
  <2> QED BY <2>5, <2>6, <1>1
<1> QED BY <1>5, <1>6, <1>7, <1>8, <1>9 DEF IInv

(* A read that takes the first n messages of the window. *)
LEMMA HandStep ==
  ASSUME IInv, ~copy_failed, NEW n \in 0..size, n < Capacity, Hand(n), next' = next,
         read_buffer' \in Seq(Nat), loaned_to' \in Seqs \cup {NoSeq}
  PROVE  IInv'
<1> USE CapacityAssumption
<1>1. /\ slot \in [Slots -> Nat] /\ size \in 0..Capacity /\ head \in Nat
      /\ next \in Slots /\ next_unread \in Slots
      /\ delivered \in Seq(Nat)
      /\ next = Advance(next_unread, size)
      /\ received_count = unread_count + read_count + lost_count
      /\ unread_count = size /\ read_count = Len(delivered)
      /\ head % Capacity = next_unread
      /\ received_count \in Nat /\ unread_count \in Int
      /\ read_count \in Nat /\ lost_count \in Nat
  BY DEF IInv, TypeOK, CursorsAgree, Conservation, HeadIsNextUnread
<1>2. /\ slot' = Cleared(n)
      /\ next_unread' = Advance(next_unread, n)
      /\ size' = size - n
      /\ head' = Advance(head, n)
      /\ unread_count' = unread_count - n /\ read_count' = read_count + n
      /\ received_count' = received_count /\ lost_count' = lost_count
      /\ delivered' = delivered \o Taken(n) /\ copy_failed' = copy_failed
  BY DEF Hand
<1>3. n \in 0..Capacity /\ n \in Nat
  BY <1>1
<1>4. next_unread' \in Slots
  BY <1>1, <1>2, <1>3, DistanceOfAdvance
<1>5. delivered' \in Seq(Nat) /\ Len(delivered') = Len(delivered) + n
  <2>1. Taken(n) \in Seq(Nat) /\ Len(Taken(n)) = n
    BY TakenReal
  <2> QED BY <1>1, <1>2, <2>1, ConcatProperties
<1>6. HeadIsNextUnread' /\ head' \in Nat
  <2>1. /\ Advance(head, n) \in Slots
        /\ Advance(head, n) % Capacity = Advance(head, n)
        /\ (head + n) % Capacity = Advance(head % Capacity, n)
    BY <1>1, <1>3, AdvanceHead
  <2>2. Advance(head, n) = (head + n) % Capacity
    BY DEF Advance
  <2>3. Advance(head, n) \in Nat
    BY <2>1 DEF Slots
  <2> QED BY <1>1, <1>2, <2>1, <2>2, <2>3 DEF HeadIsNextUnread
<1>7. Conservation'
  <2>1. Len(delivered') = Len(delivered) + n
    BY <1>5
  <2>2. size \in Nat /\ received_count = size + Len(delivered) + lost_count
    BY <1>1
  <2>3. /\ unread_count' = size' /\ size' = size - n
        /\ read_count' = Len(delivered) + n
    BY <1>1, <1>2
  <2>4. received_count' = unread_count' + read_count' + lost_count'
    <3>1. /\ received_count = unread_count + read_count + lost_count
          /\ unread_count \in Int /\ read_count \in Nat /\ lost_count \in Nat
      BY <1>1
    <3>2. /\ unread_count' = unread_count - n /\ read_count' = read_count + n
          /\ received_count' = received_count /\ lost_count' = lost_count
      BY <1>2
    <3> QED BY <1>3, <3>1, <3>2
  <2> QED BY <2>1, <2>3, <2>4 DEF Conservation
<1>8. CursorsAgree'
  <2>1. Advance(Advance(next_unread, n), size - n) = Advance(next_unread, size)
    <3>1. /\ size - n \in 0..Capacity /\ Advance(next_unread, n) \in Slots
      BY <1>1, <1>3, DistanceOfAdvance
    <3>2. /\ Advance(next_unread, n) =
                IF next_unread + n < Capacity THEN next_unread + n
                ELSE next_unread + n - Capacity
          /\ Advance(next_unread, size) =
                IF next_unread + size < Capacity THEN next_unread + size
                ELSE next_unread + size - Capacity
          /\ Advance(Advance(next_unread, n), size - n) =
                IF Advance(next_unread, n) + (size - n) < Capacity
                THEN Advance(next_unread, n) + (size - n)
                ELSE Advance(next_unread, n) + (size - n) - Capacity
      BY <1>1, <1>3, <3>1, AdvanceValue
    <3> QED BY <1>1, <1>3, <3>1, <3>2 DEF Slots
  <2> QED BY <1>1, <1>2, <2>1 DEF CursorsAgree
<1>9. ASSUME NEW j \in Slots
      PROVE  slot'[j] = IF Distance(next_unread, j) < n THEN 0 ELSE slot[j]
  <2>1. slot'[j] = IF \E k \in 0..(n - 1) : j = Advance(next_unread, k)
                   THEN 0 ELSE slot[j]
    BY <1>2 DEF Cleared, NULL
  <2>2. ASSUME NEW k \in 0..(n - 1), j = Advance(next_unread, k)
        PROVE  Distance(next_unread, j) < n
    <3>1. k \in 0..Capacity /\ k # Capacity /\ k < n
      BY <1>1, <1>3
    <3> QED BY <1>1, <2>2, <3>1, DistanceOfAdvance
  <2>3. ASSUME Distance(next_unread, j) < n
        PROVE  \E k \in 0..(n - 1) : j = Advance(next_unread, k)
    <3>1. Distance(next_unread, j) \in 0..(n - 1)
      <4>1. Distance(next_unread, j) \in Slots
        BY <1>1, DistanceType
      <4> QED BY <1>3, <2>3, <4>1 DEF Slots
    <3>2. j = Advance(next_unread, Distance(next_unread, j))
      BY <1>1, AdvanceOfDistance
    <3> QED BY <3>1, <3>2
  <2> QED BY <2>1, <2>2, <2>3
<1>10. RingHoldsNewest'
  <2> SUFFICES ASSUME NEW j \in Slots
               PROVE  slot'[j] = IF Distance(next_unread', j) < size'
                                 THEN received_count' - size' + 1
                                        + Distance(next_unread', j)
                                 ELSE 0
    BY DEF RingHoldsNewest, Offset, NULL, Slots
  <2> DEFINE d == Distance(next_unread, j)
             e == Distance(next_unread', j)
  <2>1. slot[j] = IF d < size THEN received_count - size + 1 + d ELSE 0
    BY DEF IInv, RingHoldsNewest, Offset, NULL
  <2>2. slot'[j] = IF d < n THEN 0 ELSE slot[j]
    BY <1>9
  <2>3. d \in Slots /\ e \in Slots
    BY <1>1, <1>4, DistanceType
  <2>4. e = IF d >= n THEN d - n ELSE d - n + Capacity
    <3>1. e = Distance(Advance(next_unread, n), j)
      BY <1>2
    <3>2. n # Capacity
      BY <1>1, <1>3
    <3> QED BY <1>1, <1>3, <3>1, <3>2, DistanceFromAdvance
  <2>5. size' = size - n /\ received_count' = received_count
    BY <1>1, <1>2
  <2>6. size \in 0..Capacity /\ received_count \in Nat
    BY <1>1
  <2> HIDE DEF d, e
  <2>7. slot'[j] = IF e < size - n THEN received_count - (size - n) + 1 + e ELSE 0
    <3>1. CASE d < n
      BY <1>3, <2>2, <2>3, <2>4, <2>6, <3>1 DEF Slots
    <3>2. CASE d >= n
      BY <1>3, <2>1, <2>2, <2>3, <2>4, <2>6, <3>2 DEF Slots
    <3> QED BY <1>3, <2>3, <3>1, <3>2 DEF Slots
  <2> QED BY <1>3, <2>3, <2>5, <2>6, <2>7 DEF e, Slots
<1>11. TypeOK'
  <2>1. slot' \in [Slots -> Nat]
    <3>1. slot' = [j \in Slots |-> slot'[j]]
      BY <1>2 DEF Cleared
    <3>2. \A j \in Slots : slot'[j] \in Nat
      BY <1>1, <1>9
    <3> QED BY <3>1, <3>2
  <2>2. size' \in 0..Capacity
    BY <1>1, <1>2, <1>3
  <2>3. unread_count' \in Int /\ {received_count, read_count, lost_count}' \subseteq Nat
    BY <1>1, <1>2, <1>3
  <2>4. next' \in Slots
    BY <1>1
  <2>5. copy_failed' \in BOOLEAN
    <3>1. copy_failed \in BOOLEAN
      BY DEF IInv, TypeOK
    <3> QED BY <1>2, <3>1
  <2> QED BY <1>4, <1>5, <1>6, <2>1, <2>2, <2>3, <2>4, <2>5 DEF TypeOK, Slots
<1> QED BY <1>6, <1>7, <1>8, <1>10, <1>11 DEF IInv

LEMMA NextStep ==
  ASSUME IInv, [Next]_vars
  PROVE  IInv'
<1> USE CapacityAssumption
<1>0. ASSUME copy_failed'
      PROVE  IInv'
  BY <1>0 DEF IInv
<1> SUFFICES ASSUME ~copy_failed
             PROVE  IInv'
  <2>1. copy_failed => copy_failed'
    BY DEF Next, Receive, LoanRead, CopyRead, CopyReadFails, RejectedRead, ReturnLoan, Hand, vars
  <2> QED BY <1>0, <2>1
<1>1. size \in 0..Capacity
  BY DEF IInv, TypeOK
<1>2. ASSUME NEW max \in Nat
      PROVE  Readable(max) \in 0..size /\ Readable(max) < Capacity
  BY <1>1, ReadableValue
<1>3. CASE Receive
  BY <1>3, ReceiveStep
<1>4. ASSUME NEW s \in Seqs, LoanRead(s)
      PROVE  IInv'
  <2> DEFINE n == Readable(Capacity)
  <2>1. n \in 0..size /\ n < Capacity
    BY <1>2
  <2>2. Hand(n) /\ next' = next
    BY <1>4 DEF LoanRead
  <2>3. read_buffer' \in Seq(Nat) /\ loaned_to' \in Seqs \cup {NoSeq}
    <3>1. /\ read_buffer \in Seq(Nat) /\ loaned_to \in Seqs \cup {NoSeq}
          /\ Taken(n) \in Seq(Nat)
      BY <2>1, TakenReal DEF IInv, TypeOK
    <3> QED BY <1>4, <3>1 DEF LoanRead
  <2> HIDE DEF n
  <2> QED BY <2>1, <2>2, <2>3, HandStep
<1>5. ASSUME NEW s \in Seqs, NEW max \in 0..(Capacity + 1), CopyRead(s, max)
      PROVE  IInv'
  <2> DEFINE n == Readable(max)
  <2>1. n \in 0..size /\ n < Capacity
    BY <1>2
  <2>2. Hand(n) /\ next' = next
    BY <1>5 DEF CopyRead
  <2>3. read_buffer' \in Seq(Nat) /\ loaned_to' \in Seqs \cup {NoSeq}
    BY <1>5 DEF CopyRead, IInv, TypeOK
  <2> HIDE DEF n
  <2> QED BY <2>1, <2>2, <2>3, HandStep
<1>6. ASSUME NEW s \in Seqs, NEW max \in 0..(Capacity + 1), NEW k \in 0..(Capacity - 1),
             CopyReadFails(s, max, k)
      PROVE  IInv'
  BY <1>0, <1>6 DEF CopyReadFails
(* What ends a loan or does nothing leaves the ring and its counters alone. *)
<1>7. ASSUME UNCHANGED <<slot, size, head, next, next_unread, msg_status, delivered, copy_failed>>,
             read_buffer' \in Seq(Nat), loaned_to' \in Seqs \cup {NoSeq}
      PROVE  IInv'
  <2>1. TypeOK'
    BY <1>7 DEF IInv, TypeOK, msg_status, Slots
  <2>2. CursorsAgree' /\ Conservation' /\ HeadIsNextUnread'
    BY <1>7 DEF IInv, CursorsAgree, Conservation, HeadIsNextUnread, msg_status, Advance
  <2>3. RingHoldsNewest'
    BY <1>7 DEF IInv, RingHoldsNewest, msg_status, Offset, Slots, NULL
  <2> QED BY <2>1, <2>2, <2>3 DEF IInv
<1>8. ASSUME NEW s \in Seqs, NEW max \in 0..(Capacity + 1), RejectedRead(s, max)
      PROVE  IInv'
  BY <1>7, <1>8 DEF RejectedRead, LoanReturned
<1>9. ASSUME NEW s \in Seqs, ReturnLoan(s)
      PROVE  IInv'
  BY <1>7, <1>9 DEF ReturnLoan, LoanReturned
<1>10. CASE UNCHANGED vars
  BY <1>7, <1>10 DEF vars, IInv, TypeOK
<1> QED BY <1>3, <1>4, <1>5, <1>6, <1>8, <1>9, <1>10 DEF Next

-----------------------------------------------------------------------------
(* The ring's invariant holds in every reachable state. *)
THEOREM QueueInvariant ==
  Spec => []IInv
<1>1. Init => IInv
  BY InitIInv
<1>2. IInv /\ [Next]_vars => IInv'
  BY NextStep
<1> QED BY <1>1, <1>2, PTL DEF Spec

(* The variables keep their types; in particular every cursor stays inside *)
(* the ring (Message.c receive_circular, read_circular).                   *)
THEOREM TypeCorrect ==
  Spec => [](~copy_failed => TypeOK)
<1>1. IInv => (~copy_failed => TypeOK)
  BY DEF IInv
<1> QED BY <1>1, QueueInvariant, PTL

(* Between next_unread and next stand the newest unread messages, in the   *)
(* order receive_circular stored them, and nothing stands elsewhere.       *)
THEOREM RingOrder ==
  Spec => []RingHoldsNewest
<1>1. IInv => RingHoldsNewest
  BY DEF IInv, RingHoldsNewest
<1> QED BY <1>1, QueueInvariant, PTL

(* Every message counted as received is unread, read or lost. *)
THEOREM CountersConserve ==
  Spec => []Conservation
<1>1. IInv => Conservation
  BY DEF IInv, Conservation
<1> QED BY <1>1, QueueInvariant, PTL

(* head and next_unread name the same slot after every operation. *)
THEOREM HeadFollows ==
  Spec => []HeadIsNextUnread
<1>1. IInv => HeadIsNextUnread
  BY DEF IInv, HeadIsNextUnread
<1> QED BY <1>1, QueueInvariant, PTL

(* A step taken by a full ring leaves it full and delivers nothing. *)
LEMMA FullStep ==
  ASSUME IInv, ~copy_failed, [Next]_vars, size = Capacity
  PROVE  size' = Capacity /\ delivered' = delivered
<1> USE CapacityAssumption
<1>1. ASSUME NEW max \in Nat
      PROVE  Readable(max) = 0
  BY ReadableValue
<1>2. ASSUME Hand(0)
      PROVE  size' = Capacity /\ delivered' = delivered
  <2>1. size' = Capacity
    BY <1>2 DEF Hand
  <2>2. Taken(0) = <<>> /\ delivered \in Seq(Nat)
    BY DEF Taken, IInv, TypeOK
  <2> QED BY <1>2, <2>1, <2>2, ConcatEmptySeq DEF Hand
<1>3. CASE Receive
  BY <1>3 DEF Receive
<1>4. ASSUME NEW s \in Seqs, LoanRead(s) PROVE size' = Capacity /\ delivered' = delivered
  BY <1>1, <1>2, <1>4 DEF LoanRead
<1>5. ASSUME NEW s \in Seqs, NEW max \in 0..(Capacity + 1), CopyRead(s, max)
      PROVE  size' = Capacity /\ delivered' = delivered
  BY <1>1, <1>2, <1>5 DEF CopyRead
<1>6. ASSUME UNCHANGED <<size, delivered>>
      PROVE  size' = Capacity /\ delivered' = delivered
  BY <1>6
<1> QED BY <1>3, <1>4, <1>5, <1>6
        DEF Next, CopyReadFails, RejectedRead, ReturnLoan, vars

(* A ring whose slots are all taken never hands over another message: for  *)
(* every capacity, so a queue_size of 1 delivers nothing at all.           *)
THEOREM FullIsForeverTheorem ==
  Spec => FullIsForever
<1>1. IInv /\ [Next]_vars => [~copy_failed /\ size = Capacity =>
                                 size' = Capacity /\ delivered' = delivered]_vars
  BY FullStep
<1> QED BY <1>1, QueueInvariant, PTL DEF Spec, FullIsForever

-----------------------------------------------------------------------------
(* The window of unread slots is the sequence of messages the inbox keeps. *)
Unread == Taken(size)
Window ==
  /\ Unread \in Seq(Nat)
  /\ Len(Unread) = size
  /\ \A k \in 1..size : Unread[k] = received_count - size + k

LEMMA TakenMessages ==
  ASSUME IInv, ~copy_failed, NEW n \in 0..size
  PROVE  /\ Taken(n) \in Seq(Nat) /\ Len(Taken(n)) = n
         /\ \A k \in 1..n : Taken(n)[k] = received_count - size + k
<1> USE CapacityAssumption
<1>1. /\ next_unread \in Slots /\ size \in 0..Capacity
      /\ received_count \in Nat
  BY DEF IInv, TypeOK
<1>2. ASSUME NEW k \in 1..n
      PROVE  slot[Advance(next_unread, k - 1)] = received_count - size + k
  <2> DEFINE j == Advance(next_unread, k - 1)
  <2>1. j \in Slots /\ Distance(next_unread, j) = k - 1
    BY <1>1, DistanceOfAdvance
  <2>2. slot[j] = IF Offset(j) < size
                  THEN received_count - size + 1 + Offset(j) ELSE 0
    BY <2>1 DEF IInv, RingHoldsNewest, NULL
  <2> QED BY <1>1, <2>1, <2>2 DEF Offset
<1> QED BY <1>2, TakenReal DEF Taken

LEMMA WindowMessages == IInv /\ ~copy_failed => Window
<1> SUFFICES ASSUME IInv, ~copy_failed PROVE Window
  OBVIOUS
<1>1. size \in 0..size
  BY CapacityAssumption DEF IInv, TypeOK
<1> QED BY <1>1, TakenMessages DEF Window, Unread

(* Two sequences of numbers that agree everywhere are the same. *)
LEMMA SameSeq ==
  ASSUME NEW s \in Seq(Nat), NEW t \in Seq(Nat), Len(s) = Len(t),
         \A k \in 1..Len(s) : s[k] = t[k]
  PROVE  s = t
OBVIOUS

(* receive() is an arrival: the window grows by the message, and loses its *)
(* oldest one when every slot was taken.                                   *)
LEMMA ReceiveArrives ==
  ASSUME IInv, ~copy_failed, Receive
  PROVE  Inbox!Arrive
<1> USE CapacityAssumption
<1> DEFINE old == Unread
           new == Append(IF Inbox!Full THEN Tail(old) ELSE old, received_count + 1)
<1>1. IInv' /\ ~copy_failed'
  BY ReceiveStep DEF Receive
<1>2. /\ size \in 0..Capacity /\ received_count \in Nat /\ received_count >= size
  BY DEF IInv, TypeOK, Conservation
<1>3. /\ received_count' = received_count + 1 /\ received_count < MaxMessages
      /\ delivered' = delivered
      /\ size' = IF size = Capacity THEN size ELSE size + 1
  BY <1>2 DEF Receive
<1>4. /\ old \in Seq(Nat) /\ Len(old) = size
      /\ \A k \in 1..size : old[k] = received_count - size + k
  BY WindowMessages DEF Window
<1>5. /\ Unread' \in Seq(Nat) /\ Len(Unread') = size'
      /\ \A k \in 1..size' : Unread'[k] = received_count' - size' + k
  <2>1. (IInv /\ ~copy_failed => Window)'
    BY WindowMessages, PTL
  <2> QED BY <1>1, <2>1 DEF Window
<1>6. Inbox!Full <=> size = Capacity
  BY <1>2, <1>4 DEF Inbox!Full, Unread
<1>7. new \in Seq(Nat) /\ Len(new) = size' /\ \A k \in 1..size' : new[k] = received_count' - size' + k
  <2>1. CASE size = Capacity
    BY <1>2, <1>3, <1>4, <1>6, <2>1
  <2>2. CASE size < Capacity
    BY <1>2, <1>3, <1>4, <1>6, <2>2
  <2> QED BY <1>2, <2>1, <2>2
<1>8. Unread' = new
  <2> HIDE DEF new
  <2> QED BY <1>5, <1>7, SameSeq
<1> QED BY <1>3, <1>8 DEF Inbox!Arrive, Unread

(* A read hands over a prefix of the window: all of what a loan can hold.  *)
LEMMA HandTakes ==
  ASSUME IInv, ~copy_failed, NEW n \in 0..size, n < Capacity, Hand(n), next' = next,
         read_buffer' \in Seq(Nat), loaned_to' \in Seqs \cup {NoSeq}
  PROVE  [Inbox!InboxNext]_(Inbox!inboxVars)
<1> USE CapacityAssumption
<1> DEFINE rest == SubSeq(Unread, n + 1, size)
<1>1. IInv' /\ ~copy_failed'
  BY HandStep DEF Hand
<1>2. size \in 0..Capacity /\ received_count \in Nat /\ received_count >= size
      /\ delivered \in Seq(Nat)
  BY DEF IInv, TypeOK, Conservation
<1>3. /\ size' = size - n /\ received_count' = received_count
      /\ delivered' = delivered \o Taken(n)
  BY DEF Hand
<1>4. /\ Unread \in Seq(Nat) /\ Len(Unread) = size
      /\ \A k \in 1..size : Unread[k] = received_count - size + k
  BY WindowMessages DEF Window
<1>5. /\ Unread' \in Seq(Nat) /\ Len(Unread') = size'
      /\ \A k \in 1..size' : Unread'[k] = received_count' - size' + k
  <2>1. (IInv /\ ~copy_failed => Window)'
    BY WindowMessages, PTL
  <2> QED BY <1>1, <2>1 DEF Window
<1>6. Unread' = rest
  <2>1. rest \in Seq(Nat) /\ Len(rest) = size - n
        /\ \A k \in 1..(size - n) : rest[k] = received_count - (size - n) + k
    BY <1>2, <1>4
  <2> HIDE DEF rest
  <2>2. /\ Len(Unread') = Len(rest)
        /\ \A k \in 1..Len(Unread') : Unread'[k] = rest[k]
    BY <1>2, <1>3, <1>5, <2>1
  <2> QED BY <1>5, <2>1, <2>2, SameSeq
<1>7. Taken(n) = SubSeq(Unread, 1, n)
  <2> DEFINE first == SubSeq(Unread, 1, n)
  <2>1. first \in Seq(Nat) /\ Len(first) = n
        /\ \A k \in 1..n : first[k] = received_count - size + k
    BY <1>2, <1>4
  <2>2. /\ Taken(n) \in Seq(Nat) /\ Len(Taken(n)) = n
        /\ \A k \in 1..n : Taken(n)[k] = received_count - size + k
    BY TakenMessages
  <2> HIDE DEF first
  <2>3. Taken(n) = first
    BY <2>1, <2>2, SameSeq
  <2> QED BY <2>3 DEF first
<1>8. CASE n = 0
  <2>1. Taken(0) = <<>> /\ rest = Unread
    BY <1>2, <1>4, <1>8 DEF Taken
  <2>2. delivered' = delivered
    BY <1>2, <1>3, <1>8, <2>1, ConcatEmptySeq
  <2> QED BY <1>3, <1>6, <2>1, <2>2 DEF Inbox!inboxVars, Unread
<1>9. CASE n > 0
  <2>1. n \in 1..Len(Unread)
    BY <1>4, <1>9
  <2>2. Inbox!Take
    BY <1>3, <1>4, <1>6, <1>7, <2>1 DEF Inbox!Take, Unread
  <2> QED BY <2>2 DEF Inbox!InboxNext
<1> QED BY <1>8, <1>9

LEMMA PromiseStep ==
  ASSUME IInv, [Next]_vars
  PROVE  [copy_failed' \/ Inbox!InboxNext]_(Inbox!inboxVars)
<1> USE CapacityAssumption
<1> DEFINE Promise == [copy_failed' \/ Inbox!InboxNext]_(Inbox!inboxVars)
<1>0. ASSUME copy_failed'
      PROVE  Promise
  BY <1>0
<1> SUFFICES ASSUME ~copy_failed
             PROVE  Promise
  <2>1. copy_failed => copy_failed'
    BY DEF Next, Receive, LoanRead, CopyRead, CopyReadFails, RejectedRead, ReturnLoan, Hand, vars
  <2> QED BY <1>0, <2>1
<1>1. ASSUME NEW max \in Nat
      PROVE  Readable(max) \in 0..size /\ Readable(max) < Capacity
  <2>1. size \in 0..Capacity
    BY DEF IInv, TypeOK
  <2> QED BY <2>1, ReadableValue
<1>2. /\ read_buffer \in Seq(Nat) /\ loaned_to \in Seqs \cup {NoSeq}
  BY DEF IInv, TypeOK
<1>3. CASE Receive
  BY <1>3, ReceiveArrives DEF Inbox!InboxNext
<1>4. ASSUME NEW s \in Seqs, LoanRead(s)
      PROVE  Promise
  <2> DEFINE n == Readable(Capacity)
  <2>1. n \in 0..size /\ n < Capacity
    BY <1>1
  <2>2. read_buffer' \in Seq(Nat) /\ loaned_to' \in Seqs \cup {NoSeq}
    <3>1. Taken(n) \in Seq(Nat)
      BY <2>1, TakenReal
    <3> QED BY <1>2, <1>4, <3>1 DEF LoanRead
  <2>3. Hand(n) /\ next' = next
    BY <1>4 DEF LoanRead
  <2> HIDE DEF n
  <2> QED BY <2>1, <2>2, <2>3, HandTakes
<1>5. ASSUME NEW s \in Seqs, NEW max \in 0..(Capacity + 1), CopyRead(s, max)
      PROVE  Promise
  <2> DEFINE n == Readable(max)
  <2>1. n \in 0..size /\ n < Capacity
    BY <1>1
  <2>2. /\ Hand(n) /\ next' = next
        /\ read_buffer' \in Seq(Nat) /\ loaned_to' \in Seqs \cup {NoSeq}
    BY <1>2, <1>5 DEF CopyRead
  <2> HIDE DEF n
  <2> QED BY <2>1, <2>2, HandTakes
<1>6. ASSUME NEW s \in Seqs, NEW max \in 0..(Capacity + 1), NEW k \in 0..(Capacity - 1),
             CopyReadFails(s, max, k)
      PROVE  Promise
  BY <1>0, <1>6 DEF CopyReadFails
<1>7. ASSUME UNCHANGED <<slot, size, next_unread, msg_status, delivered>>
      PROVE  Promise
  BY <1>7 DEF Inbox!inboxVars, Taken, Advance, msg_status
<1> QED BY <1>3, <1>4, <1>5, <1>6, <1>7 DEF Next, RejectedRead, ReturnLoan, vars

(* Until a copy fails, a bounded queue of any capacity keeps the promise   *)
(* of MessageInbox: it drops only the oldest message, and only when full.  *)
THEOREM RingKeepsPromise ==
  Spec => KeepsInboxPromise
<1>1. Init => Inbox!InboxInit
  BY CapacityAssumption DEF Init, Inbox!InboxInit, Taken
<1>2. IInv /\ [Next]_vars => [copy_failed' \/ Inbox!InboxNext]_(Inbox!inboxVars)
  BY PromiseStep
<1> QED BY <1>1, <1>2, QueueInvariant, PTL DEF Spec, KeepsInboxPromise

(* A loan that is out and goes on keeps its reader and its samples, for    *)
(* any number of readers and whatever copies fail (Message.c:775).         *)
THEOREM LoansStay ==
  Spec => LoanUntouched
<1> DEFINE Stays == [read_buffer_loaned /\ loaned_to' # NoSeq =>
                       read_buffer' = read_buffer /\ loaned_to' = loaned_to]_vars
<1>1. ASSUME [Next]_vars
      PROVE  Stays
  <2> SUFFICES ASSUME read_buffer_loaned, loaned_to' # NoSeq
               PROVE  UNCHANGED <<read_buffer, loaned_to>>
    OBVIOUS
  <2>1. CASE UNCHANGED vars
    BY <2>1 DEF vars
  <2>2. CASE Receive
    BY <2>2 DEF Receive
  <2>3. ASSUME NEW s \in Seqs, LoanRead(s)
        PROVE  FALSE
    BY <2>3 DEF LoanRead, LoanFree
  <2>4. ASSUME NEW s \in Seqs, ReturnLoan(s)
        PROVE  FALSE
    BY <2>4 DEF ReturnLoan, LoanReturned
  <2>5. ASSUME NEW s \in Seqs, NEW max, RejectedRead(s, max)
        PROVE  FALSE
    BY <2>5 DEF RejectedRead, LoanReturned
  <2>6. ASSUME NEW s \in Seqs, NEW max, CopyRead(s, max)
        PROVE  UNCHANGED <<read_buffer, loaned_to>>
    BY <2>6 DEF CopyRead
  <2>7. ASSUME NEW s \in Seqs, NEW max, NEW k, CopyReadFails(s, max, k)
        PROVE  UNCHANGED <<read_buffer, loaned_to>>
    BY <2>7 DEF CopyReadFails
  <2> QED BY <1>1, <2>1, <2>2, <2>3, <2>4, <2>5, <2>6, <2>7 DEF Next
<1> QED BY <1>1, PTL DEF Spec, LoanUntouched

-----------------------------------------------------------------------------
(* Order, in every execution.  After a failed copy size says nothing any   *)
(* more, but the slots are still written one after another: counted from   *)
(* next, the messages that are left stand in the order they came           *)
(* (OldestFirst), and those a read can reach are newer than all that were  *)
(* delivered (ReachableIsNew).                                             *)
OldestFirst ==
  \A j, k \in Slots :
    slot[j] # NULL /\ slot[k] # NULL /\ Distance(next, j) < Distance(next, k) => slot[j] < slot[k]

ReachableIsNew ==
  \A j \in Slots, i \in DOMAIN delivered :
    slot[j] # NULL /\ Offset(j) < Offset(next) => delivered[i] < slot[j]

NoneFromTheFuture ==
  /\ \A j \in Slots : slot[j] <= received_count
  /\ \A i \in DOMAIN delivered : delivered[i] <= received_count

OrderInv ==
  /\ slot \in [Slots -> Nat]
  /\ next \in Slots /\ next_unread \in Slots
  /\ received_count \in Nat
  /\ delivered \in Seq(Nat)
  /\ OldestFirst
  /\ ReachableIsNew
  /\ NoneFromTheFuture
  /\ DeliveredInOrder

LEMMA InitOrder == Init => OrderInv
BY CapacityAssumption
   DEF Init, OrderInv, OldestFirst, ReachableIsNew, NoneFromTheFuture, DeliveredInOrder, Slots, NULL

(* Two slots that move on together stay as far apart. *)
LEMMA DistanceKept ==
  ASSUME NEW i \in Slots, NEW j \in Slots
  PROVE  Distance(Advance(i, 1), Advance(j, 1)) = Distance(i, j)
<1> USE CapacityAssumption
<1> DEFINE a == Advance(i, 1)
           b == Advance(j, 1)
<1>1. /\ a = IF i + 1 < Capacity THEN i + 1 ELSE i + 1 - Capacity
      /\ b = IF j + 1 < Capacity THEN j + 1 ELSE j + 1 - Capacity
  BY AdvanceValue
<1>2. a \in Slots /\ b \in Slots
  BY <1>1 DEF Slots
<1>3. /\ Distance(a, b) = IF b >= a THEN b - a ELSE b + Capacity - a
      /\ Distance(i, j) = IF j >= i THEN j - i ELSE j + Capacity - i
  BY <1>2, DistanceValue
<1> HIDE DEF a, b
<1>4. Distance(a, b) = Distance(i, j)
  BY <1>1, <1>3 DEF Slots
<1> QED BY <1>4 DEF a, b

LEMMA DistanceApart ==
  ASSUME NEW i \in Slots, NEW j \in Slots, NEW k \in Slots, j # k
  PROVE  Distance(i, j) # Distance(i, k)
BY AdvanceOfDistance

(* An arrival is the newest and stands farthest from the new next. *)
LEMMA ReceiveOrder ==
  ASSUME OrderInv, Receive
  PROVE  OrderInv'
<1> USE CapacityAssumption
<1>1. /\ slot \in [Slots -> Nat] /\ next \in Slots /\ next_unread \in Slots
      /\ received_count \in Nat /\ delivered \in Seq(Nat)
      /\ OldestFirst /\ ReachableIsNew /\ NoneFromTheFuture /\ DeliveredInOrder
  BY DEF OrderInv
<1>2. /\ slot' = [slot EXCEPT ![next] = received_count + 1]
      /\ received_count' = received_count + 1
      /\ next' = Advance(next, 1) /\ delivered' = delivered
      /\ next_unread' = next_unread \/ next_unread' = Advance(next_unread, 1)
  BY DEF Receive, UnreadAfter
<1>3. /\ slot' \in [Slots -> Nat] /\ slot'[next] = received_count + 1
      /\ \A j \in Slots : j # next => slot'[j] = slot[j]
      /\ received_count' \in Nat /\ delivered' \in Seq(Nat)
  BY <1>1, <1>2
<1>one. 1 \in 0..Capacity
  OBVIOUS
<1>4. next' \in Slots /\ next_unread' \in Slots
  BY <1>1, <1>2, <1>one, DistanceOfAdvance
<1>5. NoneFromTheFuture'
  BY <1>1, <1>2, <1>3 DEF NoneFromTheFuture
<1>6. DeliveredInOrder'
  BY <1>1, <1>2 DEF DeliveredInOrder
<1>7. OldestFirst'
  <2> SUFFICES ASSUME NEW j \in Slots, NEW k \in Slots, slot'[j] # NULL, slot'[k] # NULL,
                      Distance(next', j) < Distance(next', k)
               PROVE  slot'[j] < slot'[k]
    BY DEF OldestFirst, Distance
  <2>1. \A x \in Slots :
          /\ Distance(next, x) \in Slots
          /\ Distance(next', x) = IF 1 = Capacity THEN Distance(next, x)
                                  ELSE IF Distance(next, x) >= 1 THEN Distance(next, x) - 1
                                  ELSE Distance(next, x) - 1 + Capacity
    BY <1>1, <1>2, <1>one, DistanceType, DistanceFromAdvance
  <2>2. Distance(next, next) = 0
    BY <1>1, DistanceValue DEF Slots
  <2>3. j # next
    BY <2>1, <2>2 DEF Slots
  <2>4. CASE k = next
    BY <1>1, <1>3, <2>3, <2>4 DEF NoneFromTheFuture
  <2>5. CASE k # next
    <3>1. Distance(next, j) < Distance(next, k)
      <4>1. Distance(next, j) # 0 /\ Distance(next, k) # 0
        BY <1>1, <2>2, <2>3, <2>5, DistanceApart
      <4> QED BY <2>1, <4>1 DEF Slots
    <3> QED BY <1>1, <1>3, <2>3, <2>5, <3>1 DEF OldestFirst
  <2> QED BY <2>4, <2>5
<1>8. ReachableIsNew'
  <2> SUFFICES ASSUME NEW j \in Slots, NEW i \in DOMAIN delivered, slot'[j] # NULL,
                      Distance(next_unread', j) < Distance(next_unread', next')
               PROVE  delivered[i] < slot'[j]
    BY <1>2 DEF ReachableIsNew, Offset, Distance
  <2>1. CASE j = next
    BY <1>1, <1>3, <2>1 DEF NoneFromTheFuture
  <2>2. CASE j # next
    <3> DEFINE o == Distance(next_unread, j)
               d == Distance(next_unread, next)
    <3>1. o \in Slots /\ d \in Slots /\ o # d
      BY <1>1, <2>2, DistanceType, DistanceApart
    <3>2. CASE next_unread' = next_unread
      <4>1. Distance(next_unread, next') = IF d + 1 < Capacity THEN d + 1 ELSE 0
        <5>1. next = Advance(next_unread, d)
          BY <1>1, AdvanceOfDistance
        <5>2. Distance(next_unread, next') =
                IF next' >= next_unread THEN next' - next_unread ELSE next' + Capacity - next_unread
          BY <1>1, <1>4, DistanceValue
        <5>3. d = IF next >= next_unread THEN next - next_unread ELSE next + Capacity - next_unread
          BY <1>1, DistanceValue
        <5>4. next' = IF next + 1 < Capacity THEN next + 1 ELSE next + 1 - Capacity
          BY <1>1, <1>2, AdvanceValue
        <5> HIDE DEF d
        <5> QED BY <1>1, <5>2, <5>3, <5>4 DEF Slots
      <4>2. o < d
        <5> HIDE DEF o, d
        <5>1. Distance(next_unread, j) = o
          BY DEF o
        <5> QED BY <3>1, <3>2, <4>1, <5>1 DEF Slots
      <4> QED BY <1>1, <1>3, <2>2, <4>2 DEF ReachableIsNew, Offset
    <3>3. CASE next_unread' = Advance(next_unread, 1)
      <4>1. Distance(next_unread', next') = d
        BY <1>1, <1>2, <3>3, DistanceKept
      <4>2. Distance(next_unread', j) = IF 1 = Capacity THEN o ELSE IF o >= 1 THEN o - 1 ELSE o - 1 + Capacity
        BY <1>1, <1>one, <3>3, DistanceFromAdvance
      <4>3. o < d
        <5> HIDE DEF o, d
        <5> QED BY <3>1, <4>1, <4>2 DEF Slots
      <4> QED BY <1>1, <1>3, <2>2, <4>3 DEF ReachableIsNew, Offset
    <3> QED BY <1>2, <3>2, <3>3
  <2> QED BY <2>1, <2>2
<1> QED BY <1>3, <1>4, <1>5, <1>6, <1>7, <1>8 DEF OrderInv

(* Seen from next_unread, the slots a read can reach are in order, too. *)
LEMMA ReachableInOrder ==
  ASSUME OrderInv, NEW j \in Slots, NEW k \in Slots, slot[j] # NULL, slot[k] # NULL,
         Offset(j) < Offset(k), Offset(k) < Offset(next)
  PROVE  slot[j] < slot[k]
<1> USE CapacityAssumption
<1> DEFINE d == Offset(next)
<1>1. next \in Slots /\ next_unread \in Slots
  BY DEF OrderInv
<1>2. Offset(j) \in Slots /\ Offset(k) \in Slots /\ d \in Slots
  BY <1>1, DistanceType DEF Offset
<1>3. next = Advance(next_unread, d)
  BY <1>1, AdvanceOfDistance DEF Offset
<1>4. d \in 0..Capacity
  BY <1>2 DEF Slots
<1>5. /\ Distance(next, j) = Offset(j) - d + Capacity
      /\ Distance(next, k) = Offset(k) - d + Capacity
  <2>1. \A x \in Slots :
          Distance(Advance(next_unread, d), x) =
            IF d = Capacity THEN Distance(next_unread, x)
            ELSE IF Distance(next_unread, x) >= d THEN Distance(next_unread, x) - d
            ELSE Distance(next_unread, x) - d + Capacity
    BY <1>1, <1>4, DistanceFromAdvance
  <2> HIDE DEF d
  <2>2. Offset(j) < d /\ Offset(k) < d
    BY <1>2 DEF d, Slots
  <2> QED BY <1>2, <1>3, <2>1, <2>2 DEF Offset, Slots
<1>6. Distance(next, j) < Distance(next, k)
  <2> HIDE DEF d
  <2> QED BY <1>2, <1>5 DEF Slots
<1> QED BY <1>6 DEF OrderInv, OldestFirst

LEMMA SlotsCleared ==
  ASSUME OrderInv, slot' \in [Slots -> Nat],
         \A j \in Slots : slot'[j] # NULL => slot'[j] = slot[j],
         UNCHANGED <<next, received_count>>
  PROVE  OldestFirst' /\ \A j \in Slots : slot'[j] <= received_count'
<1>1. OldestFirst'
  BY DEF OrderInv, OldestFirst, Distance
<1>2. ASSUME NEW j \in Slots
      PROVE  slot'[j] <= received_count'
  <2>1. slot[j] <= received_count /\ received_count \in Nat
    BY DEF OrderInv, NoneFromTheFuture
  <2> QED BY <2>1 DEF NULL
<1> QED BY <1>1, <1>2

LEMMA ClearedType ==
  ASSUME OrderInv, NEW n, slot' = Cleared(n)
  PROVE  slot' \in [Slots -> Nat] /\ \A j \in Slots : slot'[j] # NULL => slot'[j] = slot[j]
BY DEF OrderInv, Cleared, NULL

(* A read takes the next n reachable messages and leaves the newer ones. *)
LEMMA HandOrder ==
  ASSUME OrderInv, NEW n \in 0..Offset(next), Hand(n), next' = next
  PROVE  OrderInv'
<1> USE CapacityAssumption
<1> DEFINE d == Offset(next)
<1>0. PICK m \in Nat : m = Len(delivered) /\ DOMAIN delivered = 1..m
  BY DEF OrderInv
<1>1. /\ slot \in [Slots -> Nat] /\ next \in Slots /\ next_unread \in Slots
      /\ received_count \in Nat /\ delivered \in Seq(Nat)
      /\ ReachableIsNew /\ NoneFromTheFuture /\ DeliveredInOrder
  BY DEF OrderInv
<1>2. /\ slot' = Cleared(n) /\ next_unread' = Advance(next_unread, n)
      /\ delivered' = delivered \o Taken(n) /\ received_count' = received_count
  BY DEF Hand
<1>3. d \in Slots /\ n \in Nat /\ n <= d /\ n < Capacity
  <2>1. d \in Slots
    BY <1>1, DistanceType DEF Offset
  <2> HIDE DEF d
  <2>2. n \in 0..d
    BY DEF d
  <2> QED BY <2>1, <2>2 DEF Slots
<1>4. slot' \in [Slots -> Nat] /\ \A j \in Slots : slot'[j] # NULL => slot'[j] = slot[j]
  BY <1>2, ClearedType
<1>5. OldestFirst' /\ \A j \in Slots : slot'[j] <= received_count'
  BY <1>2, <1>4, SlotsCleared
<1>6. ASSUME NEW k \in 1..n
      PROVE  /\ Advance(next_unread, k - 1) \in Slots
             /\ Offset(Advance(next_unread, k - 1)) = k - 1
             /\ Taken(n)[k] = slot[Advance(next_unread, k - 1)]
             /\ Taken(n)[k] \in Nat
  <2> HIDE DEF d
  <2>1. k - 1 \in 0..Capacity /\ k - 1 # Capacity
    BY <1>3
  <2>2. /\ Advance(next_unread, k - 1) \in Slots
        /\ Distance(next_unread, Advance(next_unread, k - 1)) = k - 1
    BY <1>1, <2>1, DistanceOfAdvance
  <2> QED BY <1>1, <2>2 DEF Taken, Offset
<1>7. Taken(n) \in Seq(Nat) /\ Len(Taken(n)) = n
  <2>1. Taken(n) \in [1..n -> Nat]
    BY <1>6 DEF Taken
  <2> QED BY <1>3, <2>1
<1>8. /\ delivered' \in Seq(Nat) /\ Len(delivered') = m + n
      /\ \A i \in 1..m : delivered'[i] = delivered[i]
      /\ \A i \in (m + 1)..(m + n) : i - m \in 1..n /\ delivered'[i] = Taken(n)[i - m]
  <2> HIDE DEF d
  <2>1. \A i \in (m + 1)..(m + n) : i - m \in 1..n
    BY <1>0, <1>3
  <2>2. PICK u : u = Taken(n)
    OBVIOUS
  <2>3. /\ delivered \in Seq(Nat) /\ Len(delivered) = m /\ delivered' = delivered \o u
        /\ u \in Seq(Nat) /\ Len(u) = n
    <3>1. delivered \in Seq(Nat) /\ Len(delivered) = m
      BY <1>0, <1>1
    <3>2. u \in Seq(Nat) /\ Len(u) = n
      BY <1>7, <2>2
    <3>3. delivered' = delivered \o u
      BY <1>2, <2>2
    <3> QED BY <3>1, <3>2, <3>3
  <2>4. delivered' \in Seq(Nat) /\ Len(delivered') = m + n
    BY <2>3, ConcatProperties
  <2>5. \A i \in 1..m : delivered'[i] = delivered[i]
    BY <1>0, <1>3, <2>3
  <2>6. \A i \in (m + 1)..(m + n) : delivered'[i] = u[i - m]
    BY <1>0, <1>3, <2>3
  <2> QED BY <2>1, <2>2, <2>4, <2>5, <2>6
<1>9. next_unread' \in Slots
  BY <1>1, <1>2, <1>3, DistanceOfAdvance
<1>10. NoneFromTheFuture'
  <2>1. ASSUME NEW i \in DOMAIN delivered'
        PROVE  delivered'[i] <= received_count
    <3>1. CASE i \in 1..m
      BY <1>0, <1>1, <1>8, <3>1 DEF NoneFromTheFuture
    <3>2. CASE i \in (m + 1)..(m + n)
      BY <1>1, <1>6, <1>8, <3>2 DEF NoneFromTheFuture
    <3> QED BY <1>1, <1>3, <1>8, <3>1, <3>2
  <2> QED BY <1>2, <1>5, <2>1 DEF NoneFromTheFuture
<1>11. DeliveredInOrder'
  <2> SUFFICES ASSUME NEW i \in DOMAIN delivered', NEW j \in DOMAIN delivered',
                      i < j, delivered'[i] # NULL, delivered'[j] # NULL
               PROVE  delivered'[i] < delivered'[j]
    BY DEF DeliveredInOrder
  <2>0. i \in 1..(m + n) /\ j \in 1..(m + n) /\ m \in Nat
    BY <1>0, <1>1, <1>8
  <2>1. CASE j \in 1..m
    <3>1. i \in 1..m
      BY <1>3, <2>0, <2>1
    <3> QED BY <1>0, <1>1, <1>8, <2>1, <3>1 DEF DeliveredInOrder
  <2>2. CASE i \in 1..m /\ j \in (m + 1)..(m + n)
    <3> DEFINE k == j - m
               a == Advance(next_unread, k - 1)
    <3>1. k \in 1..n /\ delivered'[j] = slot[a] /\ a \in Slots /\ Offset(a) = k - 1
      BY <1>6, <1>8, <2>2
    <3>2. Offset(a) < d
      <4> HIDE DEF d
      <4> QED BY <1>3, <3>1 DEF Slots
    <3>3. i \in DOMAIN delivered /\ delivered'[i] = delivered[i]
      BY <1>0, <1>8, <2>2
    <3> HIDE DEF a, k
    <3> QED BY <1>1, <3>1, <3>2, <3>3 DEF ReachableIsNew
  <2>3. CASE i \in (m + 1)..(m + n) /\ j \in (m + 1)..(m + n)
    <3> DEFINE k == j - m
               h == i - m
               a == Advance(next_unread, k - 1)
               b == Advance(next_unread, h - 1)
    <3>1. /\ k \in 1..n /\ delivered'[j] = slot[a] /\ a \in Slots /\ Offset(a) = k - 1
          /\ h \in 1..n /\ delivered'[i] = slot[b] /\ b \in Slots /\ Offset(b) = h - 1
      BY <1>6, <1>8, <2>3
    <3>2. Offset(a) < d /\ Offset(b) < Offset(a)
      <4>1. h < k
        BY <2>0, <2>3
      <4> HIDE DEF d, h, k
      <4> QED BY <1>3, <3>1, <4>1 DEF Slots
    <3> QED BY <3>1, <3>2, ReachableInOrder
  <2> QED BY <1>3, <2>0, <2>1, <2>2, <2>3
<1>12. ReachableIsNew'
  <2> SUFFICES ASSUME NEW j \in Slots, NEW i \in DOMAIN delivered', slot'[j] # NULL,
                      Distance(next_unread', j) < Distance(next_unread', next)
               PROVE  delivered'[i] < slot'[j]
    BY DEF ReachableIsNew, Offset, Distance
  <2> DEFINE o == Offset(j)
  <2>1. /\ Distance(next_unread', j) = IF o >= n THEN o - n ELSE o - n + Capacity
        /\ Distance(next_unread', next) = d - n
        /\ o \in Slots
    <3>1. n \in 0..Capacity
      BY <1>3
    <3>2. \A x \in Slots :
            Distance(next_unread', x) =
              IF n = Capacity THEN Distance(next_unread, x)
              ELSE IF Distance(next_unread, x) >= n THEN Distance(next_unread, x) - n
              ELSE Distance(next_unread, x) - n + Capacity
      BY <1>1, <1>2, <3>1, DistanceFromAdvance
    <3>3. o \in Slots /\ n # Capacity
      BY <1>1, <1>3, DistanceType DEF Offset
    <3>4. Distance(next_unread', j) = IF o >= n THEN o - n ELSE o - n + Capacity
      BY <3>2, <3>3 DEF Offset
    <3>5. Distance(next_unread', next) = IF d >= n THEN d - n ELSE d - n + Capacity
      BY <1>1, <3>2, <3>3 DEF Offset
    <3>6. d >= n
      BY <1>3 DEF Slots
    <3> HIDE DEF o, d
    <3> QED BY <3>3, <3>4, <3>5, <3>6
  <2>2. n <= o /\ o < d
    <3> HIDE DEF o, d
    <3> QED BY <1>3, <2>1 DEF Slots
  <2>3. slot'[j] = slot[j] /\ slot[j] # NULL
    BY <1>4
  <2>4. m \in Nat /\ i \in 1..(m + n)
    BY <1>0, <1>1, <1>8
  <2>5. CASE i \in 1..m
    <3>1. i \in DOMAIN delivered /\ delivered'[i] = delivered[i]
      BY <1>0, <1>8, <2>5
    <3> QED BY <1>1, <2>2, <2>3, <3>1 DEF ReachableIsNew
  <2>6. CASE i \in (m + 1)..(m + n)
    <3> DEFINE k == i - m
               a == Advance(next_unread, k - 1)
    <3>1. k \in 1..n /\ delivered'[i] = slot[a] /\ a \in Slots /\ Offset(a) = k - 1
      BY <1>6, <1>8, <2>6
    <3>2. Offset(a) < o
      <4> HIDE DEF o, k
      <4> QED BY <1>3, <2>1, <2>2, <3>1 DEF Slots
    <3>3. CASE slot[a] = NULL
      BY <1>1, <2>3, <3>1, <3>3 DEF NULL
    <3>4. CASE slot[a] # NULL
      BY <2>2, <2>3, <3>1, <3>2, <3>4, ReachableInOrder
    <3> QED BY <3>3, <3>4
  <2> QED BY <1>3, <2>4, <2>5, <2>6
<1> QED BY <1>1, <1>2, <1>4, <1>5, <1>8, <1>9, <1>10, <1>11, <1>12 DEF OrderInv

LEMMA OrderStep ==
  ASSUME OrderInv, [Next]_vars
  PROVE  OrderInv'
<1>0. Offset(next) \in Nat /\ next_unread \in Slots /\ next \in Slots
  <2>1. next_unread \in Slots /\ next \in Slots
    BY DEF OrderInv
  <2>2. Offset(next) \in Slots
    BY <2>1, DistanceType DEF Offset
  <2> QED BY <2>1, <2>2, CapacityAssumption DEF Slots
<1>1. ASSUME NEW max \in Nat
      PROVE  Readable(max) \in 0..Offset(next)
  BY <1>0 DEF Readable, Least
<1>2. ASSUME UNCHANGED <<slot, next, next_unread, received_count, delivered>>
      PROVE  OrderInv'
  BY <1>2 DEF OrderInv, OldestFirst, ReachableIsNew, NoneFromTheFuture, DeliveredInOrder,
              Offset, Distance
<1>3. CASE Receive
  BY <1>3, ReceiveOrder
<1>4. ASSUME NEW s \in Seqs, LoanRead(s)
      PROVE  OrderInv'
  <2>1. Readable(Capacity) \in 0..Offset(next)
    BY <1>1, CapacityAssumption
  <2> QED BY <1>4, <2>1, HandOrder DEF LoanRead
<1>5. ASSUME NEW s \in Seqs, NEW max \in 0..(Capacity + 1), CopyRead(s, max)
      PROVE  OrderInv'
  <2>1. Readable(max) \in 0..Offset(next)
    BY <1>1, CapacityAssumption
  <2> QED BY <1>5, <2>1, HandOrder DEF CopyRead
<1>6. ASSUME NEW s \in Seqs, NEW max, NEW k, CopyReadFails(s, max, k)
      PROVE  OrderInv'
  <2>1. UNCHANGED <<next, next_unread, received_count, delivered>>
    BY <1>6 DEF CopyReadFails
  <2>2. slot' \in [Slots -> Nat] /\ \A j \in Slots : slot'[j] # NULL => slot'[j] = slot[j]
    BY <1>6, ClearedType DEF CopyReadFails
  <2>3. OldestFirst' /\ \A j \in Slots : slot'[j] <= received_count'
    BY <2>1, <2>2, SlotsCleared
  <2>4. ReachableIsNew'
    BY <2>1, <2>2 DEF OrderInv, ReachableIsNew, Offset, Distance
  <2> QED BY <2>1, <2>2, <2>3, <2>4 DEF OrderInv, NoneFromTheFuture, DeliveredInOrder
<1>7. ASSUME NEW s \in Seqs, ReturnLoan(s)
      PROVE  OrderInv'
  BY <1>2, <1>7 DEF ReturnLoan, msg_status
<1>8. ASSUME NEW s \in Seqs, NEW max, RejectedRead(s, max)
      PROVE  OrderInv'
  BY <1>2, <1>8 DEF RejectedRead, msg_status
<1>9. CASE UNCHANGED vars
  BY <1>2, <1>9 DEF vars, msg_status
<1> QED BY <1>3, <1>4, <1>5, <1>6, <1>7, <1>8, <1>9 DEF Next

(* Whatever copies fail, readers get messages in the order they came and   *)
(* none twice, from a ring of any capacity (Message.c:797).                *)
THEOREM DeliveryInOrder ==
  Spec => []DeliveredInOrder
<1>1. OrderInv => DeliveredInOrder
  BY DEF OrderInv
<1> QED BY <1>1, InitOrder, OrderStep, PTL DEF Spec
=============================================================================
