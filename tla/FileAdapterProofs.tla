-------------------------- MODULE FileAdapterProofs --------------------------
(***************************************************************************)
(* The file adapter, for every file, every SamplesPerRead and every moment *)
(* at which the reader's thread rewinds, the writer writes and the service *)
(* updates.                                                                *)
(*                                                                         *)
(* What was written is what is read: the samples of the file stand in the  *)
(* order of their numbers (WriterInv), and the reader has seen those that  *)
(* stand before its position (ReaderInv).                                  *)
(*                                                                         *)
(* A read puts at most one sample in the list for every line it counts     *)
(* (ListBehindCounter), and stops counting at samplesPerRead.  That is at  *)
(* most the length of the arrays as long as no update raised it            *)
(* (SizedForReads).                                                        *)
(***************************************************************************)
EXTENDS FileAdapter, SequenceTheorems, WellFoundedInduction, TLAPS

ListBehindCounter ==
  /\ \E S : batch \in Seq(S)
  /\ i \in Nat
  /\ Len(batch) <= i

SizedForReads ==
  /\ samplesPerRead \in Nat /\ allocated \in Nat
  /\ ~grown => samplesPerRead <= allocated

ArraysInv ==
  /\ ListBehindCounter
  /\ SizedForReads
  /\ WithinArrays

LEMMA AppendAnything ==
  ASSUME NEW S, NEW s \in Seq(S), NEW e
  PROVE  (\E T : Append(s, e) \in Seq(T)) /\ Len(Append(s, e)) = Len(s) + 1
<1>1. s \in Seq(S \cup {e}) /\ e \in S \cup {e}
  OBVIOUS
<1>2. Append(s, e) \in Seq(S \cup {e}) /\ Len(Append(s, e)) = Len(s) + 1
  BY <1>1, AppendProperties
<1> QED BY <1>2

LEMMA ActionOfLine ==
  ASSUME NEW line, NEW o \in read_sample(line)
  PROVE  o.action \in {"error", "skip", "send"}
<1> DEFINE body == Trimmed(line)
<1>1. o \in {Skip} \cup {Error} \cup {Send(body[Len(body)].of)} \cup {Send(Garbage)}
  <2> HIDE DEF body
  <2>1. o \in (IF body = <<>> THEN {Skip}
               ELSE IF \E k \in DOMAIN body : body[k] = Bad THEN {Error}
               ELSE LET held == {body[k].of : k \in DOMAIN body} IN
                    IF \E n \in held : Holds(body, n) THEN {Send(body[Len(body)].of)}
                    ELSE {Error, Send(Garbage)})
    BY DEF read_sample, body
  <2> QED BY <2>1
<1> HIDE DEF body
<1> QED BY <1>1 DEF Skip, Error, Send

LEMMA InitArrays == Init => ArraysInv
<1> SUFFICES ASSUME Init PROVE ArraysInv
  OBVIOUS
<1>1. batch = <<>> /\ i = 0
  BY DEF Init
<1>2. <<>> \in Seq({})
  OBVIOUS
<1>3. ListBehindCounter
  BY <1>1, <1>2 DEF ListBehindCounter
<1> QED BY <1>3 DEF Init, ArraysInv, SizedForReads, WithinArrays

(* The read counts a line, and lists at most one sample for it. *)
LEMMA ReadLineStep ==
  ASSUME ArraysInv, ReadLine
  PROVE  ArraysInv'
<1>1. /\ i \in Nat /\ samplesPerRead \in Nat /\ allocated \in Nat
      /\ ~grown => samplesPerRead <= allocated
      /\ Len(batch) <= i
  BY DEF ArraysInv, ListBehindCounter, SizedForReads
<1>2. PICK S : batch \in Seq(S)
  BY DEF ArraysInv, ListBehindCounter
<1>3. Len(batch) \in Nat
  BY <1>2
<1>4. UNCHANGED config
  BY DEF ReadLine, Undefined, reader
<1>5. SizedForReads'
  BY <1>4 DEF config, ArraysInv, SizedForReads
<1>6. WithinArrays'
  <2>1. i < samplesPerRead
    BY DEF ReadLine, MoreLines
  <2>2. CASE Len(batch) >= allocated
    <3>1. grown
      BY <1>1, <1>3, <2>1, <2>2
    <3> QED BY <1>4, <3>1 DEF WithinArrays, config
  <2>3. CASE ~(Len(batch) >= allocated)
    <3>1. undefined' # "outside the arrays"
      BY <2>3 DEF ReadLine, Undefined, Defined
    <3> QED BY <3>1 DEF WithinArrays
  <2> QED BY <2>2, <2>3
<1>7. ListBehindCounter'
  <2>1. CASE UNCHANGED <<i, batch>>
    BY <2>1 DEF ArraysInv, ListBehindCounter
  <2>2. CASE NoLine
    BY <1>1, <1>2, <1>3, <2>2 DEF NoLine, ListBehindCounter
  <2>3. ASSUME NEW o \in read_sample(NextLine), Line(o)
        PROVE  ListBehindCounter'
    <3>1. CASE i' = 0 /\ batch' = <<>>
      <4>1. <<>> \in Seq({})
        OBVIOUS
      <4> QED BY <3>1, <4>1 DEF ListBehindCounter
    <3>2. CASE i' = i + 1 /\ batch' = batch
      BY <1>1, <1>2, <1>3, <3>2 DEF ListBehindCounter
    <3>3. CASE i' = i + 1 /\ batch' = Append(batch, o.sample)
      <4>1. PICK b, e : b = batch /\ e = o.sample
        OBVIOUS
      <4>2. (\E T : Append(b, e) \in Seq(T)) /\ Len(Append(b, e)) = Len(b) + 1
        BY <1>2, <4>1, AppendAnything
      <4> QED BY <1>1, <1>3, <3>3, <4>1, <4>2 DEF ListBehindCounter
    <3>4. o.action \in {"error", "skip", "send"}
      BY <2>3, ActionOfLine
    <3>5. CASE o.action = "error"
      BY <2>3, <3>1, <3>5 DEF Line
    <3>6. CASE o.action = "skip"
      BY <2>3, <3>2, <3>6 DEF Line
    <3>7. CASE o.action = "send"
      BY <2>3, <3>3, <3>7 DEF Line
    <3> QED BY <3>4, <3>5, <3>6, <3>7
  <2> QED BY <2>1, <2>2, <2>3 DEF ReadLine, Undefined, reader, read
<1> QED BY <1>5, <1>6, <1>7 DEF ArraysInv

LEMMA ArraysStep ==
  ASSUME ArraysInv, [Next]_vars
  PROVE  ArraysInv'
<1>1. /\ i \in Nat /\ samplesPerRead \in Nat /\ allocated \in Nat
      /\ ~grown => samplesPerRead <= allocated
      /\ undefined = "outside the arrays" => grown
  BY DEF ArraysInv, ListBehindCounter, SizedForReads, WithinArrays
<1>2. ASSUME UNCHANGED <<i, batch>> PROVE ListBehindCounter'
  BY <1>2 DEF ArraysInv, ListBehindCounter
<1>3. ASSUME UNCHANGED config, undefined' # "outside the arrays"
      PROVE  SizedForReads' /\ WithinArrays'
  BY <1>3 DEF config, ArraysInv, SizedForReads, WithinArrays
<1>4. \A n \in BatchSizes : n \in Nat
  BY FileAssumption
<1>5. ASSUME i' = 0, batch' = <<>> PROVE ListBehindCounter'
  <2>1. <<>> \in Seq({})
    OBVIOUS
  <2> QED BY <1>5, <2>1 DEF ListBehindCounter
<1>6. CASE WriterNext \/ RunNext \/ StartRead \/ delete_stream_reader
  <2>1. UNCHANGED <<i, batch>> /\ UNCHANGED config /\ undefined' # "outside the arrays"
    BY <1>6 DEF WriterNext, create_stream_writer, write, WriteSample, Spill, delete_stream_writer,
                RunNext, RunTop, RunWakes, RunRewinds, RunNotifies, StartRead, delete_stream_reader,
                Defined, reader, read
  <2> QED BY <1>2, <1>3, <2>1 DEF ArraysInv
<1>7. ASSUME NEW l, NEW n \in BatchSizes, create_stream_reader(l, n)
      PROVE  ArraysInv'
  <2>1. UNCHANGED <<i, batch>> /\ undefined' # "outside the arrays"
    BY <1>7 DEF create_stream_reader, Undefined, Defined, reader, read
  <2>2. SizedForReads'
    <3>1. CASE UNCHANGED config
      BY <1>1, <3>1 DEF SizedForReads, config
    <3>2. CASE samplesPerRead' = n /\ allocated' = n
      <4>1. n \in Nat /\ n <= n
        BY <1>4
      <4> QED BY <3>2, <4>1 DEF SizedForReads
    <3> QED BY <1>7, <3>1, <3>2 DEF create_stream_reader, Undefined, reader
  <2> QED BY <1>2, <2>1, <2>2 DEF ArraysInv, WithinArrays
<1>8. ASSUME NEW l, NEW n \in BatchSizes, update(l, n)
      PROVE  ArraysInv'
  <2>1. UNCHANGED <<i, batch>> /\ undefined' # "outside the arrays"
    BY <1>8 DEF update, Defined, read
  <2>2. SizedForReads'
    <3>1. samplesPerRead' = n /\ allocated' = allocated /\ n \in Nat
      BY <1>4, <1>8 DEF update
    <3>2. ~grown' => n <= allocated
      <4>1. n > allocated => grown'
        BY <1>8, Zenon DEF update
      <4>2. n \in Nat /\ allocated \in Nat
        BY <1>1, <3>1
      <4>3. n > allocated \/ n <= allocated
        BY <4>2
      <4> QED BY <4>1, <4>3, Zenon
    <3> QED BY <1>1, <3>1, <3>2 DEF SizedForReads
  <2> QED BY <1>2, <2>1, <2>2 DEF ArraysInv, WithinArrays
<1>9. CASE ReadLine
  BY <1>9, ReadLineStep
<1>10. CASE EndRead
  <2>1. ListBehindCounter'
    BY <1>5, <1>10 DEF EndRead, ListBehindCounter
  <2> QED BY <1>3, <1>10, <2>1 DEF EndRead, ArraysInv, Defined
<1>11. CASE Join
  <2>1. SizedForReads' /\ WithinArrays'
    BY <1>11 DEF Join, SizedForReads, WithinArrays, Defined
  <2> QED BY <1>5, <1>11, <2>1 DEF Join, ArraysInv
<1>12. CASE UNCHANGED vars
  BY <1>12 DEF vars, reader, read, config, ArraysInv, ListBehindCounter, SizedForReads, WithinArrays
<1> QED BY <1>6, <1>7, <1>8, <1>9, <1>10, <1>11, <1>12 DEF Next, ReadNext

(* read() leaves the arrays allocated for it only after update() raised    *)
(* SamplesPerRead, for every file, every size and every schedule of the    *)
(* threads (FileAdapter.c:191, 360 and 595).                               *)
THEOREM WithinArraysTheorem ==
  Spec => []WithinArrays
<1>1. ArraysInv => WithinArrays
  BY DEF ArraysInv
<1> QED BY <1>1, InitArrays, ArraysStep, PTL DEF Spec
-----------------------------------------------------------------------------
(* The writer: file and unflushed text together have every stored sample,  *)
(* in the order of the numbers it gives out.                               *)
Text == disk \o out

WriterInv ==
  /\ disk \in Texts /\ out \in Texts
  /\ newest \in Nat /\ left \in Nat /\ newest + left <= MaxSamples
  /\ Numbered(Text) /\ stored = SamplesOf(Text)
  /\ \A n \in stored : n <= newest
  /\ stream_writer = "none" => out = <<>> /\ left = 0

(* The reader: what it has seen is what stands before its position.        *)
Before(p, n) == \E q \in 1..p : disk[q] = TailOf(n)

ReaderInv ==
  /\ pos \in 0..Len(disk)
  /\ stream_reader = "none" => pos = 0 /\ seen = <<>>
  /\ seen \in Seq(Samples \cup {Garbage})
  /\ \A j, k \in DOMAIN seen : j < k /\ seen[k] # Garbage => seen[j] < seen[k]
  /\ \A n \in Samples : n \in ToSet(seen) => Before(pos, n)
  /\ ~broken => \A n \in Samples : Before(pos, n) => n \in ToSet(seen)

FileInv == WriterInv /\ ReaderInv

(* A read is of an open reader: it is deleted between reads only.          *)
ReadsOpen == reading => stream_reader = "open"

-----------------------------------------------------------------------------
(* A set of numbers has a smallest one.                                    *)
Below == {pair \in Nat \X Nat : pair[1] < pair[2]}

LEMMA SmallestExists ==
  ASSUME NEW I, I \subseteq Nat, I # {}
  PROVE  \E k \in I : \A j \in I : k <= j
<1>1. IsWellFoundedOn(Below, Nat)
  <2>1. Below = OpToRel(<, Nat)
    BY Zenon DEF Below, OpToRel
  <2> QED BY <2>1, NatLessThanWellFounded
<1>2. PICK k \in I : \A j \in I : <<j, k>> \notin Below
  BY <1>1, Zenon, WFMin
<1>3. ASSUME NEW j \in I PROVE k <= j
  <2>1. <<j, k>> \notin Below /\ j \in Nat /\ k \in Nat
    BY <1>2, <1>3
  <2>2. ~(j < k)
    BY <2>1 DEF Below
  <2> QED BY <2>1, <2>2
<1> QED BY <1>3

LEMMA LargestIsLargest ==
  ASSUME NEW S, S \subseteq Samples
  PROVE  /\ Largest(S) \in 0..MaxSamples
         /\ \A n \in S : n <= Largest(S)
<1>1. MaxSamples \in Nat /\ \A n \in S : n \in 1..MaxSamples
  BY FileAssumption DEF Samples
<1>2. CASE S = {}
  BY <1>1, <1>2 DEF Largest
<1>3. CASE S # {}
  <2> DEFINE I == {MaxSamples - n : n \in S}
  <2>1. I \subseteq Nat /\ I # {}
    BY <1>1, <1>3
  <2>2. PICK k \in I : \A j \in I : k <= j
    BY <2>1, SmallestExists
  <2>3. PICK m \in S : k = MaxSamples - m
    BY <2>2
  <2>4. \A n \in S : n <= m
    <3> TAKE n \in S
    <3>1. k <= MaxSamples - n
      BY <2>2
    <3> QED BY <1>1, <2>3, <3>1
  <2>5. Largest(S) \in S /\ \A n \in S : n <= Largest(S)
    BY <1>3, <2>4 DEF Largest
  <2> QED BY <1>1, <2>5
<1> QED BY <1>2, <1>3

(* The pieces of a text.                                                   *)
LEMMA PieceFacts ==
  /\ \A n : /\ TailOf(n) # Newline /\ TailOf(n) # Bad
            /\ TailOf(n).part # "head" /\ TailOf(n).of = n
            /\ \A m : TailOf(n) # HeadOf(m)
  /\ \A m, n : TailOf(m) = TailOf(n) => m = n
  /\ Newline \in Pieces /\ Garbage \notin Samples
  /\ \A n \in Samples : HeadOf(n) \in Pieces /\ TailOf(n) \in Pieces
<1>1. ASSUME NEW n, NEW m
      PROVE  /\ TailOf(n) # Newline /\ TailOf(n) # Bad
             /\ TailOf(n).part # "head" /\ TailOf(n).of = n
             /\ TailOf(n) # HeadOf(m)
             /\ TailOf(m) = TailOf(n) => m = n
  <2>1. TailOf(n).part = "tail" /\ TailOf(n).of = n /\ TailOf(m).of = m /\ HeadOf(m).part = "head"
        /\ Newline.part = "newline" /\ Bad.part = "bad"
    BY DEF TailOf, HeadOf, Piece, Newline, Bad
  <2>2. "tail" # "head" /\ "tail" # "newline" /\ "tail" # "bad"
    OBVIOUS
  <2> QED BY <2>1, <2>2, Zenon
<1>2. Newline \in Pieces /\ \A n \in Samples : HeadOf(n) \in Pieces /\ TailOf(n) \in Pieces
  BY DEF Pieces
<1>3. Garbage \notin Samples
  BY FileAssumption DEF Garbage, Samples
<1> QED BY <1>1, <1>2, <1>3

LEMMA WholeText ==
  ASSUME NEW s \in Texts, NEW t \in Texts
  PROVE  /\ s \o t \in Texts /\ Len(s \o t) = Len(s) + Len(t)
         /\ \A p \in 1..Len(s) : (s \o t)[p] = s[p]
         /\ \A p \in 1..Len(t) : (s \o t)[Len(s) + p] = t[p]
         /\ \A p \in 1..Len(s) + Len(t) : p \notin 1..Len(s) => p - Len(s) \in 1..Len(t)
  BY DEF Texts

(* A line is as long as fgets takes it: all of it is unread text.          *)
LEMMA NextLineFacts ==
  ASSUME disk \in Texts, pos \in 0..Len(disk), Unread # <<>>
  PROVE  /\ NextLine \in Texts /\ NextLine # <<>>
         /\ pos + Len(NextLine) \in 0..Len(disk) /\ Len(NextLine) \in Nat
         /\ \A k \in 1..Len(NextLine) : NextLine[k] = disk[pos + k]
<1>1. /\ Unread \in Texts /\ Len(Unread) = Len(disk) - pos
      /\ \A k \in 1..Len(Unread) : Unread[k] = disk[pos + k]
  BY DEF Unread, Texts
<1>2. Len(Unread) \in Nat \ {0} /\ Len(disk) \in Nat
  BY <1>1, EmptySeq DEF Texts
<1>3. LineLength(Unread) \in 1..Len(Unread)
  <2> DEFINE I == {k \in 1..Len(Unread) : IsNewline(Unread[k])}
  <2>1. SelectInSeq(Unread, IsNewline) = IF I # {} THEN Min(I) ELSE 0
    BY DEF SelectInSeq
  <2>2. I # {} => Min(I) \in I
    <3>1. I \subseteq Nat
      OBVIOUS
    <3> HIDE DEF I
    <3> QED BY <3>1, SmallestExists DEF Min
  <2> QED BY <1>2, <2>1, <2>2 DEF LineLength
<1>4. /\ NextLine \in Texts /\ Len(NextLine) = LineLength(Unread)
      /\ \A k \in 1..Len(NextLine) : NextLine[k] = Unread[k]
  BY <1>1, <1>3 DEF NextLine, Texts
<1>5. NextLine # <<>>
  BY <1>3, <1>4, <1>2
<1> HIDE DEF NextLine, Unread
<1>6. \A k \in 1..Len(NextLine) : NextLine[k] = disk[pos + k]
  BY <1>1, <1>2, <1>3, <1>4
<1>7. pos + Len(NextLine) \in 0..Len(disk) /\ Len(NextLine) \in Nat
  BY <1>1, <1>2, <1>3, <1>4
<1> QED BY <1>4, <1>5, <1>6, <1>7

(* What is made of a line: a sample that is sent and not garbage has the   *)
(* only tail of the line.                                                  *)
LEMMA OutcomeOfLine ==
  ASSUME NEW line \in Texts, line # <<>>, NEW o \in read_sample(line)
  PROVE  \/ o.action = "error"
         \/ o.action = "skip" /\ \A p \in 1..Len(line) : \A n : line[p] # TailOf(n)
         \/ o.action = "send" /\ o.sample = Garbage
         \/ /\ o.action = "send" /\ o.sample \in Samples
            /\ \E p \in 1..Len(line) : line[p] = TailOf(o.sample)
            /\ \A p \in 1..Len(line) : \A n : line[p] = TailOf(n) => n = o.sample
<1> DEFINE body == Trimmed(line)
<1>1. Len(line) \in Nat \ {0} /\ line \in Seq(Pieces) /\ line[Len(line)] = Last(line)
  BY EmptySeq DEF Texts, Last
<1>2. /\ body \in Seq(Pieces) /\ Len(body) <= Len(line)
      /\ \A p \in 1..Len(body) : body[p] = line[p]
      /\ \A p \in 1..Len(line) : \A n : line[p] = TailOf(n) => p \in 1..Len(body)
  <2>1. CASE Last(line) = Newline
    <3>1. body = SubSeq(line, 1, Len(line) - 1)
      BY <2>1 DEF Trimmed, Front
    <3>2. /\ body \in Seq(Pieces) /\ Len(body) = Len(line) - 1
          /\ \A p \in 1..Len(body) : body[p] = line[p]
      <4> HIDE DEF body
      <4>1. Len(line) - 1 \in 0..Len(line)
        BY <1>1
      <4>2. SubSeq(line, 1, Len(line) - 1) \in Seq(Pieces)
            /\ Len(SubSeq(line, 1, Len(line) - 1)) = Len(line) - 1
        <5> DEFINE k == Len(line) - 1
        <5>1. 1 \in Int /\ k \in Int /\ k >= 0 /\ \A q \in 1..k : line[q] \in Pieces
          BY <1>1
        <5> HIDE DEF k
        <5>2. SubSeq(line, 1, k) \in Seq(Pieces) /\ Len(SubSeq(line, 1, k)) = IF 1 <= k THEN k - 1 + 1 ELSE 0
          BY <5>1, SubSeqProperties
        <5>3. Len(SubSeq(line, 1, k)) = k
          BY <5>1, <5>2
        <5> QED BY <5>2, <5>3 DEF k
      <4>3. \A p \in 1..Len(line) - 1 : SubSeq(line, 1, Len(line) - 1)[p] = line[p]
        BY <1>1, <4>1
      <4> QED BY <3>1, <4>2, <4>3
    <3> HIDE DEF body
    <3> QED BY <1>1, <2>1, <3>2, PieceFacts
  <2>2. CASE Last(line) # Newline
    BY <1>1, <2>2 DEF Trimmed
  <2> QED BY <2>1, <2>2
<1>3. o \in (IF body = <<>> THEN {Skip}
             ELSE IF \E k \in DOMAIN body : body[k] = Bad THEN {Error}
             ELSE LET held == {body[k].of : k \in DOMAIN body} IN
                  IF \E n \in held : Holds(body, n) THEN {Send(body[Len(body)].of)}
                  ELSE {Error, Send(Garbage)})
  BY DEF read_sample
<1> HIDE DEF body
<1>4. CASE body = <<>>
  BY <1>2, <1>3, <1>4 DEF Skip
<1>5. CASE o \in {Error, Send(Garbage)}
  BY <1>5 DEF Error, Send
<1>6. ASSUME NEW m, Holds(body, m), o = Send(body[Len(body)].of)
      PROVE  /\ o.action = "send" /\ o.sample \in Samples
             /\ \E p \in 1..Len(line) : line[p] = TailOf(o.sample)
             /\ \A p \in 1..Len(line) : \A n : line[p] = TailOf(n) => n = o.sample
  <2>1. /\ Len(body) >= 2 /\ body[Len(body)] = TailOf(m) /\ Len(body) \in Nat
        /\ \A k \in 1..Len(body) - 1 : body[k].part = "head"
    BY <1>2, <1>6 DEF Holds
  <2>2. o.action = "send" /\ o.sample = m
    BY <1>6, <2>1, PieceFacts DEF Send
  <2>3. Len(body) \in 1..Len(body)
    BY <2>1
  <2>4. m \in Samples
    <3>1. TailOf(m) \in Pieces
      BY <1>2, <2>1, <2>3
    <3> QED BY <3>1, PieceFacts DEF Pieces
  <2>5. Len(body) \in 1..Len(line) /\ line[Len(body)] = TailOf(m)
    BY <1>1, <1>2, <2>1, <2>3
  <2>6. ASSUME NEW p \in 1..Len(line), NEW n, line[p] = TailOf(n) PROVE n = m
    <3>1. p \in 1..Len(body) /\ body[p] = TailOf(n)
      BY <1>2, <2>6
    <3>2. p = Len(body)
      BY <2>1, <3>1, PieceFacts
    <3> QED BY <2>1, <3>1, <3>2, PieceFacts
  <2> QED BY <2>2, <2>4, <2>5, <2>6
<1> QED BY <1>3, <1>4, <1>5, <1>6 DEF Error

(* A text to which the pieces of one more sample are added.                *)
LEMMA TextGrows ==
  ASSUME NEW t \in Texts, Numbered(t), NEW n \in Nat, \A m \in SamplesOf(t) : m <= n,
         NEW w \in Texts,
         \A p, q \in 1..Len(w), m, k \in Samples :
           w[p] = TailOf(m) /\ w[q] = TailOf(k) => p = q /\ m = n + 1
  PROVE  /\ t \o w \in Texts
         /\ Numbered(t \o w)
         /\ SamplesOf(t \o w) =
              SamplesOf(t) \cup {m \in Samples : \E p \in 1..Len(w) : w[p] = TailOf(m)}
<1> DEFINE b == t \o w
<1>1. /\ b \in Texts /\ Len(b) = Len(t) + Len(w)
      /\ \A p \in 1..Len(t) : b[p] = t[p]
      /\ \A p \in 1..Len(w) : b[Len(t) + p] = w[p]
      /\ \A p \in 1..Len(t) + Len(w) : p \notin 1..Len(t) => p - Len(t) \in 1..Len(w)
  BY WholeText
<1>2. Len(t) \in Nat /\ Len(w) \in Nat /\ DOMAIN t = 1..Len(t) /\ DOMAIN b = 1..Len(b)
  BY <1>1 DEF Texts
<1>3. \A p \in 1..Len(t) : p \in DOMAIN b
  BY <1>1, <1>2
<1>4. \A p \in 1..Len(w) : Len(t) + p \in DOMAIN b
  BY <1>1, <1>2
<1> HIDE DEF b
<1>5. ASSUME NEW p \in DOMAIN b
      PROVE  \/ p \in 1..Len(t) /\ b[p] = t[p]
             \/ p - Len(t) \in 1..Len(w) /\ b[p] = w[p - Len(t)] /\ p \notin 1..Len(t)
  <2>1. CASE p \in 1..Len(t)
    BY <1>1, <2>1
  <2>2. CASE p \notin 1..Len(t)
    <3>1. p - Len(t) \in 1..Len(w) /\ Len(t) + (p - Len(t)) = p
      BY <1>1, <1>2, <1>5, <2>2
    <3> QED BY <1>1, <2>2, <3>1
  <2> QED BY <2>1, <2>2
<1>6. Numbered(b)
  <2> SUFFICES ASSUME NEW p \in DOMAIN b, NEW q \in DOMAIN b, NEW m \in Samples, NEW k \in Samples,
                      p < q, b[p] = TailOf(m), b[q] = TailOf(k)
               PROVE  m < k
    BY DEF Numbered
  <2>1. p \in Int /\ q \in Int /\ m \in Int /\ k \in Int
    BY <1>2 DEF Samples
  <2>2. CASE p \in 1..Len(t) /\ q \in 1..Len(t)
    BY <1>1, <1>2, <2>2 DEF Numbered
  <2>3. CASE p \in 1..Len(t) /\ q \notin 1..Len(t)
    <3>1. m \in SamplesOf(t)
      BY <1>1, <1>2, <2>3 DEF SamplesOf
    <3>2. k = n + 1
      BY <1>5, <2>3
    <3> QED BY <2>1, <3>1, <3>2
  <2>4. CASE p \notin 1..Len(t) /\ q \notin 1..Len(t)
    <3>1. p - Len(t) = q - Len(t)
      BY <1>5, <2>4
    <3> QED BY <1>2, <2>1, <3>1
  <2>5. CASE p \notin 1..Len(t) /\ q \in 1..Len(t)
    BY <1>2, <2>1, <2>5
  <2> QED BY <2>2, <2>3, <2>4, <2>5
<1>7. SamplesOf(b) = SamplesOf(t) \cup {m \in Samples : \E p \in 1..Len(w) : w[p] = TailOf(m)}
  <2>1. ASSUME NEW m \in Samples
        PROVE  (\E p \in DOMAIN b : b[p] = TailOf(m)) <=>
                 \/ \E p \in DOMAIN t : t[p] = TailOf(m)
                 \/ \E p \in 1..Len(w) : w[p] = TailOf(m)
    <3>1. ASSUME NEW p \in DOMAIN t, t[p] = TailOf(m) PROVE \E q \in DOMAIN b : b[q] = TailOf(m)
      BY <1>1, <1>2, <1>3, <3>1
    <3>2. ASSUME NEW p \in 1..Len(w), w[p] = TailOf(m) PROVE \E q \in DOMAIN b : b[q] = TailOf(m)
      BY <1>1, <1>4, <3>2
    <3> QED BY <1>2, <1>5, <3>1, <3>2
  <2> QED BY <2>1 DEF SamplesOf
<1> QED BY <1>1, <1>6, <1>7 DEF b

LEMMA PrintedPieces ==
  ASSUME NEW n \in Samples, NEW failing \in Failures
  PROVE  LET w == write_sample(n, failing) IN
         /\ w \in Texts
         /\ \A p \in 1..Len(w) : \A m : w[p] = TailOf(m) => p = 2 /\ m = n
         /\ failing = "none" => 2 \in 1..Len(w) /\ w[2] = TailOf(n)
         /\ failing # "none" => \A p \in 1..Len(w) : \A m : w[p] # TailOf(m)
<1>1. HeadOf(n) \in Pieces /\ TailOf(n) \in Pieces /\ Newline \in Pieces
  BY PieceFacts
<1> DEFINE w == write_sample(n, failing)
<1>2. CASE failing = "none"
  <2>1. w = <<HeadOf(n), TailOf(n), Newline>>
    BY <1>2 DEF write_sample
  <2> DEFINE h == HeadOf(n)
             l == TailOf(n)
             e == Newline
  <2> HIDE DEF w, h, l, e
  <2>2. <<h, l, e>> \in Seq({h, l, e}) /\ Len(<<h, l, e>>) = 3
    OBVIOUS
  <2>3. <<h, l, e>>[1] = h /\ <<h, l, e>>[2] = l /\ <<h, l, e>>[3] = e
    OBVIOUS
  <2>4. h \in Pieces /\ l \in Pieces /\ e \in Pieces
    BY <1>1 DEF h, l, e
  <2>5. <<h, l, e>> \in Seq(Pieces)
    BY <2>4
  <2>6. w = <<h, l, e>>
    BY <2>1 DEF h, l, e
  <2>7. \A p \in 1..3 : p = 1 \/ p = 2 \/ p = 3
    OBVIOUS
  <2>8. ASSUME NEW p \in 1..3, NEW m, w[p] = TailOf(m) PROVE p = 2 /\ m = n
    BY <2>3, <2>6, <2>7, <2>8, PieceFacts, Zenon DEF h, l, e
  <2>9. w \in Texts /\ Len(w) = 3 /\ 2 \in 1..3 /\ w[2] = TailOf(n)
    BY <2>2, <2>3, <2>5, <2>6 DEF Texts, l
  <2> QED BY <1>2, <2>8, <2>9 DEF w
<1>3. CASE failing = "first"
  <2>1. w = <<>>
    BY <1>3 DEF write_sample
  <2>2. w \in Texts /\ Len(w) = 0
    BY <2>1 DEF Texts
  <2> HIDE DEF w
  <2>3. \A p \in 1..Len(w) : FALSE
    BY <2>2
  <2> QED BY <1>3, <2>2, <2>3 DEF w
<1>4. CASE failing = "second"
  <2>1. w = <<HeadOf(n)>>
    BY <1>4 DEF write_sample
  <2> DEFINE h == HeadOf(n)
  <2>2. w = <<h>>
    BY <2>1
  <2> HIDE DEF w, h
  <2>3. h \in Pieces /\ \A m : h # TailOf(m)
    BY <1>1, PieceFacts DEF h
  <2>4. w \in Texts /\ Len(w) = 1 /\ w[1] = h
    BY <2>2, <2>3 DEF Texts
  <2>5. \A p \in 1..Len(w) : w[p] = h
    BY <2>4
  <2> QED BY <1>4, <2>3, <2>4, <2>5 DEF w
<1> QED BY <1>2, <1>3, <1>4 DEF Failures

(* A longer text on disk does not change what the reader has read.         *)
LEMMA ReaderKept ==
  ASSUME ReaderInv, UNCHANGED <<stream_reader, pos, seen, broken>>,
         disk \in Texts, disk' \in Texts, Len(disk) <= Len(disk'),
         \A p \in 1..Len(disk) : disk'[p] = disk[p]
  PROVE  ReaderInv'
<1>1. pos \in 0..Len(disk) /\ Len(disk) \in Nat /\ Len(disk') \in Nat
  BY DEF ReaderInv, Texts
<1>2. pos' \in 0..Len(disk')
  BY <1>1
<1>3. \A n : Before(pos, n)' <=> Before(pos, n)
  <2>1. \A p \in 1..pos : disk'[p] = disk[p]
    BY <1>1
  <2> QED BY <2>1 DEF Before
<1>4. broken' = broken
  OBVIOUS
<1> QED BY <1>2, <1>3, <1>4 DEF ReaderInv

LEMMA Associative ==
  ASSUME NEW s \in Texts, NEW t \in Texts, NEW u \in Texts
  PROVE  s \o (t \o u) = (s \o t) \o u
<1>1. s \in Seq(Pieces) /\ t \in Seq(Pieces) /\ u \in Seq(Pieces)
  BY DEF Texts
<1> QED BY <1>1, ConcatAssociative

LEMMA WriteSampleStep ==
  ASSUME FileInv, NEW failing \in Failures, WriteSample(failing)
  PROVE  FileInv'
<1> DEFINE n == newest + 1
           w == write_sample(n, failing)
<1>1. /\ disk \in Texts /\ out \in Texts /\ newest \in Nat /\ left \in Nat
      /\ newest + left <= MaxSamples /\ Numbered(Text) /\ stored = SamplesOf(Text)
      /\ \A m \in stored : m <= newest
      /\ left > 0 /\ stream_writer # "none"
  BY DEF FileInv, WriterInv, WriteSample
<1>2. n \in Samples /\ n \in Nat
  BY <1>1, FileAssumption DEF Samples
<1>3. /\ w \in Texts
      /\ \A p \in 1..Len(w) : \A m : w[p] = TailOf(m) => p = 2 /\ m = n
      /\ failing = "none" => 2 \in 1..Len(w) /\ w[2] = TailOf(n)
      /\ failing # "none" => \A p \in 1..Len(w) : \A m : w[p] # TailOf(m)
  BY <1>2, PrintedPieces
<1>4. /\ stream_writer' = stream_writer
      /\ stored' = IF failing = "none" THEN stored \cup {n} ELSE stored
      /\ failing = "none" => newest' = n /\ left' = left - 1
      /\ failing # "none" => newest' = newest + left /\ left' = 0
      /\ \/ disk' = disk \o (out \o w) /\ out' = <<>>
         \/ disk' = disk /\ out' = out \o w
      /\ UNCHANGED <<stream_reader, pos, seen, broken>>
  BY DEF WriteSample, Printed, reader, FILE
<1> HIDE DEF w, n
<1>5. Text \in Texts /\ out \o w \in Texts /\ disk \o (out \o w) \in Texts /\ <<>> \in Texts
  BY <1>1, <1>3, WholeText DEF Text, Texts
<1>6. Text' = Text \o w
  <2>1. disk \o (out \o w) = (disk \o out) \o w
    BY <1>1, <1>3, Associative
  <2>2. (disk \o (out \o w)) \o <<>> = disk \o (out \o w)
    BY <1>5, ConcatEmptySeq DEF Texts
  <2> QED BY <1>4, <2>1, <2>2 DEF Text
<1>7. /\ Numbered(Text \o w)
      /\ SamplesOf(Text \o w) =
           SamplesOf(Text) \cup {m \in Samples : \E p \in 1..Len(w) : w[p] = TailOf(m)}
  <2>1. \A p, q \in 1..Len(w), m, k \in Samples :
          w[p] = TailOf(m) /\ w[q] = TailOf(k) => p = q /\ m = newest + 1
    BY <1>3 DEF n
  <2> QED BY <1>1, <1>3, <1>5, <2>1, TextGrows
<1>8. stored' = SamplesOf(Text \o w)
  <2>1. CASE failing = "none"
    <3>1. {m \in Samples : \E p \in 1..Len(w) : w[p] = TailOf(m)} = {n}
      BY <1>2, <1>3, <2>1
    <3> QED BY <1>1, <1>4, <1>7, <2>1, <3>1
  <2>2. CASE failing # "none"
    <3>1. {m \in Samples : \E p \in 1..Len(w) : w[p] = TailOf(m)} = {}
      BY <1>3, <2>2
    <3> QED BY <1>1, <1>4, <1>7, <2>2, <3>1
  <2> QED BY <2>1, <2>2
<1>9. newest' \in Nat /\ left' \in Nat /\ newest' + left' <= MaxSamples
      /\ newest' >= newest /\ (failing = "none" => newest' = n) /\ n = newest + 1
  BY <1>1, <1>4 DEF n
<1>10. \A m \in stored' : m <= newest'
  <2>1. \A m \in stored : m \in Nat /\ m <= newest
    BY <1>1 DEF SamplesOf, Samples
  <2> QED BY <1>1, <1>4, <1>9, <2>1
<1>11. WriterInv'
  <2>1. disk' \in Texts /\ out' \in Texts
    BY <1>1, <1>4, <1>5
  <2>2. Numbered(Text') /\ stored' = SamplesOf(Text')
    BY <1>6, <1>7, <1>8
  <2> QED BY <1>1, <1>4, <1>9, <1>10, <2>1, <2>2 DEF WriterInv, Numbered, SamplesOf
<1>12. ReaderInv'
  <2>1. disk' \in Texts /\ Len(disk) <= Len(disk') /\ \A p \in 1..Len(disk) : disk'[p] = disk[p]
    <3>1. CASE disk' = disk
      BY <1>1, <3>1 DEF Texts
    <3>2. CASE disk' = disk \o (out \o w)
      BY <1>1, <1>5, <3>2, WholeText DEF Texts
    <3> QED BY <1>4, <3>1, <3>2
  <2> QED BY <1>1, <1>4, <2>1, ReaderKept DEF FileInv
<1> QED BY <1>11, <1>12 DEF FileInv

(* What writes no new sample: text may move from the buffer to the disk.   *)
LEMMA TextKept ==
  ASSUME FileInv, disk' \in Texts, out' \in Texts, Text' = Text, UNCHANGED stored,
         newest' = newest, left' \in Nat, newest' + left' <= MaxSamples,
         stream_writer' = "none" => out' = <<>> /\ left' = 0
  PROVE  WriterInv'
  BY DEF FileInv, WriterInv, Numbered, SamplesOf

LEMMA NothingWritten ==
  ASSUME FileInv, UNCHANGED <<disk, out, left, newest, stored, stream_writer>>
  PROVE  WriterInv'
  BY DEF FileInv, WriterInv, Text, Numbered, SamplesOf

LEMMA NothingRead ==
  ASSUME FileInv, UNCHANGED <<disk, stream_reader, pos, seen, broken>>
  PROVE  ReaderInv'
<1>1. disk \in Texts /\ Len(disk) \in Nat
  BY DEF FileInv, WriterInv, Texts
<1> QED BY <1>1, ReaderKept DEF FileInv

LEMMA SpillStep ==
  ASSUME FileInv, Spill
  PROVE  FileInv'
<1> DEFINE h == Head(out)
           r == Tail(out)
<1>1. /\ disk \in Texts /\ out \in Texts /\ out # <<>>
      /\ disk' = Append(disk, h) /\ out' = r
      /\ UNCHANGED <<stream_writer, left, newest, stored, stream_reader, pos, seen, broken>>
  BY DEF FileInv, WriterInv, Spill, reader, FILE
<1>2. h \in Pieces /\ r \in Texts /\ out = <<h>> \o r
  BY <1>1 DEF Texts
<1> HIDE DEF h, r
<1>3. <<h>> \in Texts /\ Append(disk, h) = disk \o <<h>> /\ Append(disk, h) \in Texts
  BY <1>1, <1>2 DEF Texts
<1>4. Text' = Text
  BY <1>1, <1>2, <1>3, Associative DEF Text
<1>5. WriterInv'
  <2>1. stream_writer # "none"
    BY <1>1 DEF FileInv, WriterInv
  <2>2. left \in Nat /\ newest + left <= MaxSamples
    BY DEF FileInv, WriterInv
  <2> QED BY <1>1, <1>2, <1>3, <1>4, <2>1, <2>2, TextKept
<1>6. ReaderInv'
  <2>1. Len(disk) <= Len(disk') /\ \A p \in 1..Len(disk) : disk'[p] = disk[p]
    BY <1>1, <1>2 DEF Texts
  <2> QED BY <1>1, <1>3, <2>1, ReaderKept DEF FileInv
<1> QED BY <1>5, <1>6 DEF FileInv

LEMMA DeleteWriterStep ==
  ASSUME FileInv, delete_stream_writer
  PROVE  FileInv'
<1>1. /\ disk \in Texts /\ out \in Texts /\ <<>> \in Texts /\ left = 0
      /\ newest \in Nat /\ newest <= MaxSamples
      /\ disk' = disk \o out /\ out' = <<>>
      /\ UNCHANGED <<left, newest, stored, stream_reader, pos, seen, broken>>
  BY FileAssumption DEF FileInv, WriterInv, delete_stream_writer, reader, FILE, Texts
<1>2. /\ disk' \in Texts /\ Len(disk') = Len(disk) + Len(out)
      /\ \A p \in 1..Len(disk) : disk'[p] = disk[p]
  BY <1>1, WholeText
<1>3. Text' = Text
  BY <1>1, <1>2 DEF Text, Texts
<1>4. WriterInv'
  BY <1>1, <1>2, <1>3, TextKept
<1>5. ReaderInv'
  <2>1. Len(disk) <= Len(disk')
    BY <1>1, <1>2 DEF Texts
  <2> QED BY <1>1, <1>2, <2>1, ReaderKept DEF FileInv
<1> QED BY <1>4, <1>5 DEF FileInv

(* Nothing is emptied under an open reader. *)
LEMMA CreateWriterStep ==
  ASSUME FileInv, NEW mode, NEW f, create_stream_writer(mode, f)
  PROVE  FileInv'
<1>1. /\ out = <<>> /\ left = 0 /\ newest \in Nat /\ newest <= MaxSamples
      /\ UNCHANGED <<out, left, newest, stream_reader, pos, seen, broken>>
  BY FileAssumption DEF FileInv, WriterInv, create_stream_writer, reader, FILE
<1>2. CASE Emptied(mode)
  <2>1. disk' = <<>> /\ stored' = {} /\ stream_reader = "none" /\ pos = 0 /\ seen = <<>>
    BY <1>2 DEF create_stream_writer, Emptied, FileInv, ReaderInv
  <2>2. <<>> \in Texts /\ <<>> \o <<>> = <<>> /\ DOMAIN <<>> = {} /\ Len(<<>>) = 0
    BY DEF Texts
  <2>3. Text' = <<>>
    BY <1>1, <2>1, <2>2 DEF Text
  <2>4. WriterInv'
    BY <1>1, <2>1, <2>2, <2>3 DEF WriterInv, Numbered, SamplesOf
  <2>5. ReaderInv'
    <3>1. \A n : ~Before(pos, n) /\ ~Before(pos, n)'
      BY <1>1, <2>1 DEF Before
    <3> QED BY <1>1, <2>1, <2>2, <3>1 DEF FileInv, ReaderInv
  <2> QED BY <2>4, <2>5 DEF FileInv
<1>3. CASE ~Emptied(mode)
  <2>1. UNCHANGED <<disk, stored>>
    BY <1>3 DEF create_stream_writer
  <2>2. WriterInv'
    BY <1>1, <2>1 DEF FileInv, WriterInv, Text, Numbered, SamplesOf
  <2> QED BY <1>1, <2>1, <2>2, NothingRead DEF FileInv
<1> QED BY <1>2, <1>3

(* The reader takes a line of what is on disk: its sample is the only one  *)
(* there, and comes after those before the position.                       *)
LEMMA LineStep ==
  ASSUME FileInv, Unread # <<>>, NEW o \in read_sample(NextLine), Line(o),
         UNCHANGED <<disk, stream_reader>>, stream_reader # "none"
  PROVE  ReaderInv'
<1>1. /\ disk \in Texts /\ Len(disk) \in Nat /\ pos \in 0..Len(disk) /\ pos \in Nat
      /\ seen \in Seq(Samples \cup {Garbage})
      /\ \A j, k \in DOMAIN seen : j < k /\ seen[k] # Garbage => seen[j] < seen[k]
      /\ \A n \in Samples : n \in ToSet(seen) => Before(pos, n)
      /\ ~broken => \A n \in Samples : Before(pos, n) => n \in ToSet(seen)
  BY DEF FileInv, WriterInv, ReaderInv, Texts
<1> DEFINE line == NextLine
<1>2. /\ line \in Texts /\ line # <<>> /\ pos + Len(line) \in 0..Len(disk) /\ Len(line) \in Nat
      /\ \A k \in 1..Len(line) : line[k] = disk[pos + k]
  BY <1>1, NextLineFacts
<1>3. pos' = pos + Len(line)
  BY DEF Line
<1> HIDE DEF line
<1>4. ASSUME NEW n
      PROVE  Before(pos, n)' <=> Before(pos, n) \/ \E k \in 1..Len(line) : line[k] = TailOf(n)
  <2>1. ASSUME Before(pos, n) PROVE Before(pos, n)'
    BY <1>1, <1>2, <1>3, <2>1 DEF Before
  <2>2. ASSUME NEW k \in 1..Len(line), line[k] = TailOf(n) PROVE Before(pos, n)'
    <3>1. pos + k \in 1..pos' /\ disk'[pos + k] = TailOf(n)
      BY <1>1, <1>2, <1>3, <2>2
    <3> QED BY <3>1 DEF Before
  <2>3. ASSUME Before(pos, n)', ~Before(pos, n)
        PROVE  \E k \in 1..Len(line) : line[k] = TailOf(n)
    <3>1. PICK q \in 1..pos' : disk[q] = TailOf(n)
      BY <2>3 DEF Before
    <3>2. q \notin 1..pos
      BY <2>3, <3>1 DEF Before
    <3>3. q - pos \in 1..Len(line) /\ pos + (q - pos) = q
      BY <1>1, <1>2, <1>3, <3>1, <3>2
    <3> QED BY <1>2, <3>1, <3>3
  <2> QED BY <2>1, <2>2, <2>3
<1>5. ASSUME NEW m \in Samples, NEW n \in Samples, Before(pos, m),
             NEW k \in 1..Len(line), line[k] = TailOf(n)
      PROVE  m < n
  <2>1. PICK q \in 1..pos : disk[q] = TailOf(m)
    BY <1>5 DEF Before
  <2>2. q \in 1..Len(disk) /\ pos + k \in 1..Len(disk) /\ q < pos + k /\ disk[pos + k] = TailOf(n)
    BY <1>1, <1>2, <1>5
  <2>3. out \in Texts /\ Numbered(Text)
    BY DEF FileInv, WriterInv
  <2>4. /\ q \in DOMAIN Text /\ pos + k \in DOMAIN Text
        /\ Text[q] = TailOf(m) /\ Text[pos + k] = TailOf(n)
    <3>1. Text \in Texts /\ Len(Text) = Len(disk) + Len(out)
          /\ \A p \in 1..Len(disk) : Text[p] = disk[p]
      BY <1>1, <2>3, WholeText DEF Text
    <3>2. DOMAIN Text = 1..Len(Text) /\ Len(out) \in Nat
      BY <2>3, <3>1 DEF Texts
    <3> QED BY <1>1, <2>1, <2>2, <3>1, <3>2
  <2> QED BY <2>2, <2>3, <2>4 DEF Numbered
<1>6. \/ o.action = "error"
      \/ o.action = "skip" /\ \A p \in 1..Len(line) : \A n : line[p] # TailOf(n)
      \/ o.action = "send" /\ o.sample = Garbage
      \/ /\ o.action = "send" /\ o.sample \in Samples
         /\ \E p \in 1..Len(line) : line[p] = TailOf(o.sample)
         /\ \A p \in 1..Len(line) : \A n : line[p] = TailOf(n) => n = o.sample
  BY <1>2, OutcomeOfLine DEF line
<1>7. pos' \in 0..Len(disk') /\ stream_reader' # "none"
  BY <1>1, <1>2, <1>3
<1>8. ASSUME seen' = seen, broken' \/ \A p \in 1..Len(line) : \A n : line[p] # TailOf(n)
      PROVE  ReaderInv'
  <2>1. \A n \in Samples : n \in ToSet(seen)' => Before(pos, n)'
    BY <1>1, <1>4, <1>8
  <2>2. ASSUME ~broken', broken' = broken PROVE \A n \in Samples : Before(pos, n)' => n \in ToSet(seen)'
    BY <1>1, <1>4, <1>8, <2>2
  <2>3. broken' \/ broken' = broken
    BY <1>6, <1>8, Zenon DEF Line
  <2>4. ~broken' => \A n \in Samples : Before(pos, n)' => n \in ToSet(seen)'
    BY <2>2, <2>3, Zenon
  <2> QED BY <1>1, <1>7, <1>8, <2>1, <2>4 DEF ReaderInv
<1>9. CASE o.action = "error"
  <2>1. seen' = seen /\ broken' = TRUE
    BY <1>9, Zenon DEF Line
  <2> QED BY <1>8, <2>1
<1>10. CASE o.action = "skip" /\ \A p \in 1..Len(line) : \A n : line[p] # TailOf(n)
  <2>1. seen' = seen
    BY <1>10 DEF Line
  <2> QED BY <1>8, <1>10, <2>1
<1>11. ASSUME o.action = "send", NEW s \in Samples \cup {Garbage}, s = o.sample,
              s = Garbage \/ /\ \E p \in 1..Len(line) : line[p] = TailOf(s)
                             /\ \A p \in 1..Len(line) : \A n : line[p] = TailOf(n) => n = s
       PROVE  ReaderInv'
  <2>1. seen' = Append(seen, s)
    BY <1>11 DEF Line
  <2>2. broken' = (broken \/ s = Garbage)
    BY <1>11, Zenon DEF Line
  <2> DEFINE k == Len(seen)
  <2>3. /\ seen' \in Seq(Samples \cup {Garbage}) /\ DOMAIN seen' = 1..k + 1 /\ k \in Nat
        /\ DOMAIN seen = 1..k
        /\ seen'[k + 1] = s /\ \A j \in 1..k : seen'[j] = seen[j]
    BY <1>1, <2>1
  <2>4. ToSet(seen') = ToSet(seen) \cup {s}
    <3> HIDE DEF k
    <3>1. ToSet(seen') = {seen'[j] : j \in 1..k + 1} /\ ToSet(seen) = {seen[j] : j \in 1..k}
      BY <2>3 DEF ToSet
    <3>2. \A j \in 1..k + 1 : j \in 1..k \/ j = k + 1
      BY <2>3
    <3>3. k + 1 \in 1..k + 1 /\ \A j \in 1..k : j \in 1..k + 1
      BY <2>3
    <3> QED BY <2>3, <3>1, <3>2, <3>3
  <2>5. ASSUME s # Garbage PROVE \A j \in DOMAIN seen : seen[j] < s
    <3> TAKE j \in DOMAIN seen
    <3>1. PICK p \in 1..Len(line) : line[p] = TailOf(s)
      BY <1>11, <2>5
    <3>2. seen[j] \in Samples \cup {Garbage} /\ seen[j] \in ToSet(seen)
      BY <1>1 DEF ToSet
    <3>3. CASE seen[j] = Garbage
      BY <2>5, <3>3, FileAssumption DEF Garbage, Samples
    <3>4. CASE seen[j] \in Samples
      BY <1>1, <1>5, <2>5, <3>1, <3>2, <3>4
    <3> QED BY <3>2, <3>3, <3>4
  <2>6. \A j, l \in DOMAIN seen' : j < l /\ seen'[l] # Garbage => seen'[j] < seen'[l]
    <3> HIDE DEF k
    <3> SUFFICES ASSUME NEW j \in 1..k + 1, NEW l \in 1..k + 1, j < l, seen'[l] # Garbage
                 PROVE  seen'[j] < seen'[l]
      BY <2>3
    <3>1. j \in 1..k
      BY <2>3
    <3>2. CASE l \in 1..k
      BY <1>1, <2>3, <3>1, <3>2
    <3>3. CASE l = k + 1
      BY <2>3, <2>5, <3>1, <3>3
    <3> QED BY <2>3, <3>2, <3>3
  <2>7. \A n \in Samples : n \in ToSet(seen') => Before(pos, n)'
    BY <1>1, <1>4, <1>11, <2>4, PieceFacts
  <2>8. ASSUME ~broken' PROVE \A n \in Samples : Before(pos, n)' => n \in ToSet(seen')
    <3>1. ~broken /\ s # Garbage
      BY <2>2, <2>8
    <3> QED BY <1>1, <1>4, <1>11, <2>4, <3>1
  <2>9. \A n \in Samples : n \in ToSet(seen)' => Before(pos, n)'
    BY <2>7 DEF ToSet
  <2>10. ~broken' => \A n \in Samples : Before(pos, n)' => n \in ToSet(seen)'
    BY <2>8 DEF ToSet
  <2> QED BY <1>7, <2>3, <2>6, <2>9, <2>10 DEF ReaderInv
<1> QED BY <1>6, <1>9, <1>10, <1>11

LEMMA ReadsOpenStep == ReadsOpen /\ [Next]_vars => ReadsOpen'
<1> SUFFICES ASSUME ReadsOpen, [Next]_vars PROVE ReadsOpen'
  OBVIOUS
<1>1. ASSUME reading' = reading, stream_reader' = stream_reader PROVE ReadsOpen'
  BY <1>1 DEF ReadsOpen
<1>2. ASSUME NEW l, NEW n, create_stream_reader(l, n) PROVE ReadsOpen'
  <2>1. reading' = reading
    BY <1>2, Zenon DEF create_stream_reader, Undefined, reader, read
  <2>2. stream_reader' = stream_reader \/ stream_reader' = "open"
    BY <1>2 DEF create_stream_reader, Undefined, reader
  <2> QED BY <2>1, <2>2 DEF ReadsOpen
<1>3. CASE StartRead
  BY <1>3 DEF StartRead, ReadsOpen
<1>4. CASE ReadLine
  <2>1. UNCHANGED stream_reader
    BY <1>4 DEF ReadLine, Undefined, reader
  <2>2. reading
    BY <1>4 DEF ReadLine
  <2> QED BY <2>1, <2>2 DEF ReadsOpen
<1>5. CASE EndRead \/ Join
  <2>1. reading' = FALSE
    BY <1>5, Zenon DEF EndRead, Join
  <2> QED BY <2>1 DEF ReadsOpen
<1>6. CASE delete_stream_reader
  <2>1. ~reading /\ reading' = reading
    BY <1>6, Zenon DEF delete_stream_reader, read
  <2> QED BY <2>1 DEF ReadsOpen
<1>7. CASE WriterNext \/ RunNext \/ (\E l \in BOOLEAN, n \in BatchSizes : update(l, n)) \/ UNCHANGED vars
  <2>1. reading' = reading
    BY <1>7, Zenon DEF WriterNext, create_stream_writer, write, WriteSample, Spill,
       delete_stream_writer, RunNext, RunTop, RunWakes, RunRewinds, RunNotifies, update,
       vars, reader, read
  <2>2. stream_reader' = stream_reader
    BY <1>7 DEF WriterNext, create_stream_writer, write, WriteSample, Spill,
       delete_stream_writer, RunNext, RunTop, RunWakes, RunRewinds, RunNotifies, update,
       vars, reader
  <2> QED BY <1>1, <2>1, <2>2
<1> QED BY <1>2, <1>3, <1>4, <1>5, <1>6, <1>7 DEF Next, ReadNext

LEMMA FileStep ==
  ASSUME FileInv, ReadsOpen, [Next]_vars
  PROVE  FileInv'
<1>1. ASSUME UNCHANGED <<disk, out, left, newest, stored, stream_writer>>,
             UNCHANGED <<stream_reader, pos, seen, broken>>
      PROVE  FileInv'
  BY <1>1, NothingWritten, NothingRead DEF FileInv
<1>2. ASSUME UNCHANGED <<disk, out, left, newest, stored, stream_writer>>,
             pos' = 0, seen' = <<>>
      PROVE  FileInv'
  <2>1. WriterInv'
    BY <1>2, NothingWritten
  <2>2. <<>> \in Seq(Samples \cup {Garbage}) /\ DOMAIN <<>> = {} /\ ToSet(<<>>) = {}
    BY DEF ToSet
  <2>3. \A n : ~Before(pos, n)'
    BY <1>2 DEF Before
  <2>4. ReaderInv'
    <3>1. disk' \in Texts /\ Len(disk') \in Nat
      BY <2>1 DEF WriterInv, Texts
    <3>2. 0 \in 0..Len(disk')
      BY <3>1
    <3> QED BY <1>2, <2>2, <2>3, <3>2 DEF ReaderInv, ToSet
  <2> QED BY <2>1, <2>4 DEF FileInv
<1>3. CASE WriterNext
  <2>1. ASSUME NEW n \in WriteSizes, write(n) PROVE FileInv'
    <3>1. n \in Nat /\ newest + n <= MaxSamples /\ left' = n
          /\ UNCHANGED <<disk, out, newest, stored, stream_writer>>
          /\ UNCHANGED <<stream_reader, pos, seen, broken>> /\ stream_writer # "none"
      BY <2>1, FileAssumption DEF write, file, reader, FILE
    <3>2. WriterInv'
      BY <3>1 DEF FileInv, WriterInv, Text, Numbered, SamplesOf
    <3> QED BY <3>1, <3>2, NothingRead DEF FileInv
  <2> QED BY <1>3, <2>1, CreateWriterStep, WriteSampleStep, SpillStep, DeleteWriterStep DEF WriterNext
<1>4. ASSUME NEW l, NEW n, create_stream_reader(l, n) PROVE FileInv'
  <2>1. CASE ~exists
    BY <1>1, <1>4, <2>1 DEF create_stream_reader, Undefined, file, writer, reader, FILE
  <2>2. CASE exists
    <3>1. UNCHANGED <<disk, out, left, newest, stored, stream_writer, pos, seen, broken>>
          /\ stream_reader' = "open"
      BY <1>4, <2>2 DEF create_stream_reader, file, writer, FILE
    <3>2. ReaderInv'
      <4>1. \A m : Before(pos, m)' <=> Before(pos, m)
        BY <3>1 DEF Before
      <4>2. broken' = broken
        BY <3>1
      <4> QED BY <3>1, <4>1, <4>2 DEF FileInv, ReaderInv
    <3> QED BY <3>1, <3>2, NothingWritten DEF FileInv
  <2> QED BY <2>1, <2>2
<1>5. ASSUME NEW l, NEW n, update(l, n) PROVE FileInv'
  BY <1>1, <1>5 DEF update, file, writer, FILE
<1>6. CASE RunNext
  BY <1>1, <1>2, <1>6 DEF RunNext, RunTop, RunWakes, RunRewinds, RunNotifies, file, writer, FILE
<1>7. CASE StartRead \/ EndRead
  BY <1>1, <1>7 DEF StartRead, EndRead, file, writer, FILE
<1>8. CASE ReadLine
  <2>1. CASE UNCHANGED <<file, writer, reader>>
    BY <1>1, <2>1 DEF file, writer, reader, FILE
  <2>2. CASE NoLine /\ UNCHANGED <<file, writer, stream_reader>>
    BY <1>1, <2>2 DEF NoLine, file, writer
  <2>3. ASSUME Unread # <<>>, NEW o \in read_sample(NextLine), Line(o),
               UNCHANGED <<file, writer, stream_reader>>
        PROVE  FileInv'
    <3>1. stream_reader # "none"
      BY <1>8 DEF ReadLine, ReadsOpen
    <3>2. ReaderInv'
      BY <2>3, <3>1, LineStep DEF file
    <3> QED BY <2>3, <3>2, NothingWritten DEF FileInv, file, writer
  <2> QED BY <1>8, <2>1, <2>2, <2>3 DEF ReadLine, Undefined
<1>9. CASE delete_stream_reader
  <2>1. UNCHANGED <<disk, out, left, newest, stored, stream_writer, pos, seen, broken>>
        /\ stream_reader' = "closing"
    BY <1>9 DEF delete_stream_reader, file, writer, FILE
  <2>2. ReaderInv'
    <3>1. \A m : Before(pos, m)' <=> Before(pos, m)
      BY <2>1 DEF Before
    <3>2. broken' = broken
      BY <2>1
    <3> QED BY <2>1, <3>1, <3>2 DEF FileInv, ReaderInv
  <2> QED BY <2>1, <2>2, NothingWritten DEF FileInv
<1>10. CASE Join
  BY <1>2, <1>10 DEF Join, file, writer
<1>11. CASE UNCHANGED vars
  BY <1>1, <1>11 DEF vars, file, writer, reader, FILE
<1> QED BY <1>3, <1>4, <1>5, <1>6, <1>7, <1>8, <1>9, <1>10, <1>11 DEF Next, ReadNext

LEMMA InitFile == Init => FileInv
<1> SUFFICES ASSUME Init PROVE FileInv
  OBVIOUS
<1>1. disk \in Texts /\ Numbered(disk) /\ <<>> \in Texts /\ ToSet(<<>>) = {}
  <2>1. <<>> \in Texts /\ DOMAIN <<>> = {}
    BY DEF Texts
  <2>2. Numbered(<<>>) /\ ToSet(<<>>) = {}
    BY <2>1 DEF Numbered, ToSet
  <2> QED BY <2>1, <2>2, TextsAssumption DEF Init
<1>2. /\ out = <<>> /\ left = 0 /\ stored = SamplesOf(disk) /\ newest = Largest(stored)
      /\ pos = 0 /\ seen = <<>>
  BY DEF Init
<1>3. Text = disk
  BY <1>1, <1>2 DEF Text, Texts
<1>4. stored \subseteq Samples
  BY <1>2 DEF SamplesOf
<1>5. newest \in Nat /\ newest + left <= MaxSamples /\ \A n \in stored : n <= newest
  BY <1>2, <1>4, LargestIsLargest, FileAssumption
<1>6. WriterInv
  BY <1>1, <1>2, <1>3, <1>5 DEF WriterInv
<1>7. ReaderInv
  <2>1. \A n : ~Before(pos, n)
    BY <1>2 DEF Before
  <2>2. 0 \in 0..Len(disk) /\ seen \in Seq(Samples \cup {Garbage}) /\ DOMAIN seen = {}
    BY <1>1, <1>2 DEF Texts
  <2> QED BY <1>1, <1>2, <2>1, <2>2 DEF ReaderInv
<1> QED BY <1>6, <1>7 DEF FileInv

(* What the writer stored is what the reader gets, in the order of writing *)
(* and none twice, and none is left out unless a line was broken, for any  *)
(* file, any sizes and any schedule of the four threads                    *)
(* (LineConversion.c:190, FileAdapter.c:126 and 191).                      *)
THEOREM ReadBackTheorem == Spec => []ReadBack
<1>1. FileInv => ReadBack
  <2> SUFFICES ASSUME FileInv PROVE ReadBack
    OBVIOUS
  <2> DEFINE got == ToSet(seen) \ {Garbage}
  <2>1. /\ disk \in Texts /\ out \in Texts /\ Numbered(Text) /\ stored = SamplesOf(Text)
        /\ pos \in 0..Len(disk) /\ seen \in Seq(Samples \cup {Garbage})
        /\ \A j, k \in DOMAIN seen : j < k /\ seen[k] # Garbage => seen[j] < seen[k]
        /\ \A n \in Samples : n \in ToSet(seen) => Before(pos, n)
        /\ ~broken => \A n \in Samples : Before(pos, n) => n \in ToSet(seen)
    BY DEF FileInv, WriterInv, ReaderInv
  <2>2. got \subseteq Samples
    BY <2>1 DEF ToSet
  <2>3. /\ Text \in Texts /\ DOMAIN Text = 1..Len(disk) + Len(out)
        /\ Len(disk) \in Nat /\ Len(out) \in Nat
        /\ \A p \in 1..Len(disk) : Text[p] = disk[p]
    <3>1. Text \in Texts /\ Len(Text) = Len(disk) + Len(out)
          /\ \A p \in 1..Len(disk) : Text[p] = disk[p]
      BY <2>1, WholeText DEF Text
    <3> QED BY <2>1, <3>1 DEF Texts
  <2>4. ASSUME NEW n \in Samples, Before(pos, n)
        PROVE  \E p \in 1..pos : p \in DOMAIN Text /\ Text[p] = TailOf(n)
    BY <2>1, <2>3, <2>4 DEF Before
  <2>5. got \subseteq stored
    BY <2>1, <2>2, <2>4 DEF SamplesOf
  <2>6. \A j, k \in DOMAIN seen : j < k /\ seen[k] \in got => seen[j] < seen[k]
    BY <2>1
  <2>7. ASSUME ~broken, NEW s \in stored, NEW later \in got, s < later PROVE s \in got
    <3>1. s \in Samples /\ later \in Samples /\ later \in ToSet(seen)
      BY <2>1, <2>2 DEF SamplesOf
    <3>2. PICK p \in 1..pos : p \in DOMAIN Text /\ Text[p] = TailOf(later)
      BY <2>1, <2>4, <3>1
    <3>3. PICK q \in DOMAIN Text : Text[q] = TailOf(s)
      BY <2>1 DEF SamplesOf
    <3>4. ~(p < q)
      <4>1. p < q => later < s
        BY <2>1, <3>1, <3>2, <3>3 DEF Numbered
      <4> QED BY <2>7, <3>1, <4>1, FileAssumption DEF Samples
    <3>5. q \in 1..pos /\ disk[q] = TailOf(s)
      BY <2>1, <2>3, <3>2, <3>3, <3>4
    <3>6. s \in ToSet(seen)
      BY <2>1, <2>7, <3>1, <3>5 DEF Before
    <3> QED BY <3>1, <3>6, PieceFacts
  <2> HIDE DEF got
  <2>8. ~broken => \A s \in stored, later \in got : s < later => s \in got
    BY <2>7
  <2> QED BY <2>5, <2>6, <2>8 DEF ReadBack, got
<1>2. Init => ReadsOpen
  BY DEF Init, ReadsOpen
<1> QED BY <1>1, <1>2, InitFile, FileStep, ReadsOpenStep, PTL DEF Spec
-----------------------------------------------------------------------------
(* Types.  The text, the position and what was seen have theirs from       *)
(* FileInv; the other variables are in three groups.                       *)
Flags ==
  /\ exists \in BOOLEAN /\ flush \in BOOLEAN /\ eof \in BOOLEAN /\ loop \in BOOLEAN
  /\ notified \in BOOLEAN /\ reading \in BOOLEAN /\ broken \in BOOLEAN /\ grown \in BOOLEAN

Modes ==
  /\ stream_writer \in {"none", "open"}
  /\ stream_reader \in {"none", "open", "closing"}
  /\ samplesPerRead \in BatchSizes \cup {0} /\ allocated \in BatchSizes \cup {0}
  /\ divisors \in Divisors \cup {<<0, 0>>}
  /\ run \in {"none", "top", "asleep", "rewind", "notify", "ended"}
  /\ undefined \in {"no", "fclose(NULL)", "outside the arrays", "division by zero"}

ReadTypes ==
  /\ i \in Nat /\ \E n \in BatchSizes \cup {0} : i <= n
  /\ batch \in Seq(Samples \cup {Garbage})
  /\ handed \subseteq Samples \cup {Garbage}

LEMMA FlagsStep == Flags /\ [Next]_vars => Flags'
<1> SUFFICES ASSUME Flags, [Next]_vars PROVE Flags'
  OBVIOUS
<1> USE DEF Flags, file, writer, reader, FILE, config, thread, read
<1>1. ASSUME NEW mode, NEW f \in BOOLEAN, create_stream_writer(mode, f) PROVE Flags'
  BY <1>1, Zenon DEF create_stream_writer
<1>2. ASSUME NEW n, write(n) PROVE Flags'
  BY <1>2, Zenon DEF write
<1>3. ASSUME NEW failing, WriteSample(failing) PROVE Flags'
  BY <1>3, Zenon DEF WriteSample
<1>4. CASE Spill \/ delete_stream_writer
  BY <1>4, Zenon DEF Spill, delete_stream_writer
<1>5. ASSUME NEW l \in BOOLEAN, NEW n, create_stream_reader(l, n) PROVE Flags'
  BY <1>5, Zenon DEF create_stream_reader, Undefined
<1>6. ASSUME NEW l \in BOOLEAN, NEW n, update(l, n) PROVE Flags'
  <2>1. (grown \/ n > allocated) \in BOOLEAN
    OBVIOUS
  <2> QED BY <1>6, <2>1, Zenon DEF update
<1>7. CASE RunNext
  BY <1>7, Zenon DEF RunNext, RunTop, RunWakes, RunRewinds, RunNotifies
<1>8. CASE StartRead \/ EndRead
  BY <1>8, Zenon DEF StartRead, EndRead
<1>9. CASE ReadLine
  <2>1. ASSUME NEW why, Undefined(why) PROVE Flags'
    BY <2>1, Zenon DEF Undefined
  <2>2. CASE NoLine /\ UNCHANGED <<file, writer, config, thread>>
    BY <2>2, Zenon DEF NoLine
  <2>3. ASSUME NEW o \in read_sample(NextLine), Line(o), UNCHANGED <<file, writer, config, thread>>
        PROVE  Flags'
    <3>1. eof' \in BOOLEAN
      <4>1. (~HasLine(Unread)) \in BOOLEAN
        OBVIOUS
      <4> QED BY <2>3, <4>1, Zenon DEF Line
    <3>2. reading' \in BOOLEAN /\ broken' \in BOOLEAN
      <4>1. o.action \in {"error", "skip", "send"}
        BY <2>3, ActionOfLine
      <4>2. CASE o.action = "error"
        BY <2>3, <4>2 DEF Line
      <4>3. CASE o.action = "skip"
        <5>1. UNCHANGED <<reading, broken>>
          BY <2>3, <4>3 DEF Line
        <5> QED BY <5>1, Zenon
      <4>4. CASE o.action = "send"
        <5>1. reading' = reading /\ broken' = (broken \/ o.sample = Garbage)
          BY <2>3, <4>4 DEF Line
        <5>2. (broken \/ o.sample = Garbage) \in BOOLEAN
          OBVIOUS
        <5> QED BY <5>1, <5>2, Zenon
      <4> QED BY <4>1, <4>2, <4>3, <4>4
    <3> QED BY <2>3, <3>1, <3>2, Zenon
  <2> QED BY <1>9, <2>1, <2>2, <2>3, Zenon DEF ReadLine
<1>10. CASE delete_stream_reader \/ Join
  BY <1>10, Zenon DEF delete_stream_reader, Join
<1>11. CASE UNCHANGED vars
  BY <1>11, Zenon DEF vars
<1> HIDE DEF Flags, file, writer, reader, FILE, config, thread, read
<1> QED BY <1>1, <1>2, <1>3, <1>4, <1>5, <1>6, <1>7, <1>8, <1>9, <1>10, <1>11, Zenon
        DEF Next, WriterNext, ReadNext

LEMMA ModesStep == Modes /\ [Next]_vars => Modes'
<1> SUFFICES ASSUME Modes, [Next]_vars PROVE Modes'
  OBVIOUS
<1> DEFINE modes == <<stream_writer, stream_reader, samplesPerRead, allocated, divisors, run, undefined>>
<1>1. CASE UNCHANGED modes
  BY <1>1 DEF Modes
<1>2. ASSUME NEW mode, NEW f, create_stream_writer(mode, f) PROVE Modes'
  BY <1>2 DEF create_stream_writer, Modes, reader, config, thread
<1>3. ASSUME NEW n, write(n) PROVE Modes'
  BY <1>1, <1>3 DEF write, reader, config, thread
<1>4. ASSUME NEW failing, WriteSample(failing) PROVE Modes'
  BY <1>1, <1>4 DEF WriteSample, reader, config, thread
<1>5. CASE Spill
  BY <1>1, <1>5 DEF Spill, reader, config, thread
<1>6. CASE delete_stream_writer
  BY <1>6 DEF delete_stream_writer, Modes, reader, config, thread
<1>7. ASSUME NEW l, NEW n \in BatchSizes, create_stream_reader(l, n) PROVE Modes'
  BY <1>7 DEF create_stream_reader, Undefined, Modes, writer, reader, config, thread
<1>8. ASSUME NEW l, NEW n \in BatchSizes, update(l, n) PROVE Modes'
  BY <1>8 DEF update, Modes, writer, thread
<1>9. CASE RunNext
  BY <1>9 DEF RunNext, RunTop, RunWakes, AfterSleep, RunRewinds, RunNotifies, Modes, writer, config
<1>10. CASE StartRead \/ EndRead
  BY <1>1, <1>10 DEF StartRead, EndRead, writer, config, thread
<1>11. CASE ReadLine
  <2>1. ASSUME NEW why \in {"outside the arrays", "division by zero"}, Undefined(why) PROVE Modes'
    BY <2>1 DEF Undefined, Modes, writer, reader, config, thread
  <2>2. CASE UNCHANGED <<file, writer, stream_reader, config, thread, undefined>>
    BY <1>1, <2>2 DEF writer, config, thread
  <2> QED BY <1>11, <2>1, <2>2 DEF ReadLine
<1>12. CASE delete_stream_reader
  BY <1>12 DEF delete_stream_reader, Modes, writer, config, thread
<1>13. CASE Join
  BY <1>13 DEF Join, Modes, writer
<1>14. CASE UNCHANGED vars
  BY <1>1, <1>14 DEF vars, writer, reader, config, thread
<1> HIDE DEF modes
<1> QED BY <1>2, <1>3, <1>4, <1>5, <1>6, <1>7, <1>8, <1>9, <1>10, <1>11, <1>12, <1>13, <1>14, Zenon
        DEF Next, WriterNext, ReadNext

LEMMA EmptyList ==
  /\ 0 \in Nat /\ \E n \in BatchSizes \cup {0} : 0 <= n
  /\ <<>> \in Seq(Samples \cup {Garbage})
<1>1. 0 \in BatchSizes \cup {0} /\ 0 <= 0
  OBVIOUS
<1> QED BY <1>1

(* A line is counted only while fewer than samplesPerRead were.            *)
LEMMA ReadTypesStep ==
  ASSUME Modes, ReadTypes, FileInv, [Next]_vars
  PROVE  ReadTypes'
<1> DEFINE Read == Samples \cup {Garbage}
<1>1. ASSUME UNCHANGED <<i, batch, handed>> PROVE ReadTypes'
  BY <1>1 DEF ReadTypes
<1>2. ASSUME i' = 0, batch' = <<>>, handed' \subseteq Read PROVE ReadTypes'
  BY <1>2, EmptyList DEF ReadTypes
<1>3. CASE StartRead
  BY <1>3 DEF StartRead, ReadTypes
<1>4. CASE EndRead
  <2>1. ToSet(batch) \subseteq Read
    BY DEF ReadTypes, ToSet
  <2> QED BY <1>2, <1>4, <2>1 DEF EndRead
<1>5. CASE ReadLine
  <2>1. i < samplesPerRead
    BY <1>5, Zenon DEF ReadLine, MoreLines
  <2>6. samplesPerRead \in BatchSizes \cup {0} /\ samplesPerRead \in Nat
    <3>1. samplesPerRead \in BatchSizes \cup {0}
      BY DEF Modes
    <3> QED BY <3>1, FileAssumption
  <2>7. i \in Nat
    BY DEF ReadTypes
  <2>2. ASSUME i' = i + 1, batch' \in Seq(Read), handed' = handed PROVE ReadTypes'
    <3>1. i' \in Nat /\ i' <= samplesPerRead
      BY <2>1, <2>2, <2>6, <2>7
    <3> QED BY <2>2, <2>6, <3>1 DEF ReadTypes
  <2>3. CASE UNCHANGED <<file, writer, reader>>
    BY <1>1, <2>3 DEF reader, read
  <2>4. CASE NoLine
    BY <2>2, <2>4 DEF NoLine, ReadTypes
  <2>5. ASSUME Unread # <<>>, NEW o \in read_sample(NextLine), Line(o) PROVE ReadTypes'
    <3>1. o.action \in {"error", "skip", "send"}
      BY <2>5, ActionOfLine
    <3>2. CASE o.action = "error"
      BY <1>2, <2>5, <3>2 DEF Line, ReadTypes
    <3>3. CASE o.action = "skip"
      BY <2>2, <2>5, <3>3 DEF Line, ReadTypes
    <3>4. CASE o.action = "send"
      <4>1. NextLine \in Texts /\ NextLine # <<>>
        BY <2>5, NextLineFacts DEF FileInv, WriterInv, ReaderInv
      <4>2. o.sample \in Read
        BY <2>5, <3>4, <4>1, OutcomeOfLine
      <4>3. i' = i + 1 /\ batch' = Append(batch, o.sample) /\ handed' = handed
        BY <2>5, <3>4 DEF Line
      <4>4. Append(batch, o.sample) \in Seq(Read)
        BY <4>2 DEF ReadTypes
      <4> QED BY <2>2, <4>3, <4>4
    <3> QED BY <3>1, <3>2, <3>3, <3>4
  <2> QED BY <1>5, <2>3, <2>4, <2>5 DEF ReadLine, Undefined
<1>6. CASE Join
  BY <1>2, <1>6 DEF Join
<1>7. CASE WriterNext \/ RunNext \/ delete_stream_reader \/ UNCHANGED vars
           \/ (\E l \in BOOLEAN, n \in BatchSizes : create_stream_reader(l, n) \/ update(l, n))
  <2>1. UNCHANGED read
    BY <1>7, Zenon DEF WriterNext, create_stream_writer, write, WriteSample, Spill,
       delete_stream_writer, RunNext, RunTop, RunWakes, RunRewinds, RunNotifies,
       delete_stream_reader, create_stream_reader, update, Undefined, vars, reader
  <2> QED BY <1>1, <2>1 DEF read
<1> QED BY <1>3, <1>4, <1>5, <1>6, <1>7 DEF Next, ReadNext

(* Every variable stays within its type, for any file and any sizes; in    *)
(* particular a read counts no more lines than some SamplesPerRead allows, *)
(* although update() may change it meanwhile (FileAdapter.c:191).          *)
THEOREM FileTypeCorrect == Spec => []TypeOK
<1>1. Init => Flags /\ Modes /\ ReadTypes
  <2> SUFFICES ASSUME Init PROVE Flags /\ Modes /\ ReadTypes
    OBVIOUS
  <2>1. Flags
    BY Zenon DEF Init, Flags
  <2>2. Modes
    BY DEF Init, Modes
  <2>3. i = 0 /\ batch = <<>> /\ handed = {}
    BY DEF Init
  <2>4. ReadTypes
    BY <2>3, EmptyList DEF ReadTypes
  <2> QED BY <2>1, <2>2, <2>4
<1>2. Flags /\ Modes /\ ReadTypes /\ FileInv /\ ArraysInv => TypeOK
  <2> SUFFICES ASSUME Flags, Modes, ReadTypes, FileInv, ArraysInv PROVE TypeOK
    OBVIOUS
  <2>1. newest \in 0..MaxSamples /\ left \in 0..MaxSamples - newest
    BY FileAssumption DEF FileInv, WriterInv
  <2>2. stored \subseteq 1..newest
    BY FileAssumption DEF FileInv, WriterInv, SamplesOf, Samples
  <2>3. Len(batch) <= i
    BY DEF ArraysInv, ListBehindCounter
  <2> QED BY <2>1, <2>2, <2>3 DEF TypeOK, Flags, Modes, ReadTypes, FileInv, WriterInv, ReaderInv
<1>3. Init => ReadsOpen
  BY DEF Init, ReadsOpen
<1> QED BY <1>1, <1>2, <1>3, InitFile, InitArrays, FileStep, ReadsOpenStep, ArraysStep,
           FlagsStep, ModesStep, ReadTypesStep, PTL DEF Spec
=============================================================================
