----------------------- MODULE ForwardingEngineProofs -----------------------
(***************************************************************************)
(* The matching table for every configuration, every set of names and      *)
(* every relation Matches (nothing is assumed of how patterns match), and  *)
(* what becomes of every sample, whatever the table.                       *)
(***************************************************************************)
EXTENDS ForwardingEngine, SequenceTheorems, TLAPS

(* What matches a key has a first.  (That sets of natural numbers have a   *)
(* least element is not used: the table grows one entry at a time.)        *)
Least(S, n) == n \in S /\ \A m \in S : n <= m
FirstExists == \A k : Matching(k) # {} => \E n : Least(Matching(k), n)

IInv == TypeOK /\ FirstExists /\ ConfiguredIsFound /\ LastAliasDecides

-----------------------------------------------------------------------------
(* The least element of a set is its first. *)
LEMMA FirstIsLeast ==
  ASSUME NEW S, S \subseteq Nat, NEW n, Least(S, n)
  PROVE  First(S) = n
<1>1. First(S) \in S /\ \A m \in S : First(S) <= m
  BY DEF First, Least
<1>2. First(S) <= n /\ n <= First(S) /\ n \in Nat /\ First(S) \in Nat
  BY <1>1 DEF Least
<1> QED BY <1>2

LEMMA MatchingInDomain ==
  ASSUME entries \in Seq(Entry), NEW k
  PROVE  Matching(k) \subseteq 1..Len(entries) /\ Matching(k) \subseteq Nat
BY DEF Matching

LEMMA FindMatches ==
  ASSUME entries \in Seq(Entry), FirstExists, NEW k, Matching(k) # {}
  PROVE  find(k) \in 1..Len(entries) /\ Least(Matching(k), find(k))
<1>1. Matching(k) \subseteq Nat /\ Matching(k) \subseteq 1..Len(entries)
  BY MatchingInDomain
<1>2. PICK n : Least(Matching(k), n)
  BY DEF FirstExists
<1>3. find(k) = n
  BY <1>1, <1>2, FirstIsLeast DEF find
<1> QED BY <1>1, <1>2, <1>3 DEF Least

-----------------------------------------------------------------------------
LEMMA InitIInv == Init => IInv
<1> SUFFICES ASSUME Init PROVE IInv
  OBVIOUS
<1>1. rows \in Seq(Entry)
  BY EngineAssumption DEF Init, RowSequences
<1>2. TypeOK
  <2>1. /\ queue \in [Inputs -> Seq(Sample)]
        /\ written \in [Outputs -> Seq(Sample)]
    BY DEF Init
  <2>2. with_member \subseteq Inputs /\ engine \in {"name", "value"}
    BY DEF Init
  <2>3. cache \subseteq with_member /\ loaned \in BOOLEAN
    BY DEF Init
  <2>4. /\ row \in 0..Len(rows) /\ entries \in Seq(Entry) /\ Len(entries) <= row
        /\ todo \in Seq(Inputs) /\ samples \in Seq(Sample) /\ samples = <<>> /\ ~loaned
    BY <1>1 DEF Init
  <2>5. dropped \subseteq Sample /\ arrived \in 0..MaxSamples
    BY EngineAssumption DEF Init
  <2> QED BY <1>1, <2>1, <2>2, <2>3, <2>4, <2>5 DEF TypeOK
<1>3. ConfiguredIsFound /\ LastAliasDecides
  BY DEF Init, ConfiguredIsFound, LastAliasDecides
<1>4. FirstExists
  BY DEF Init, FirstExists, Matching
<1> QED BY <1>2, <1>3, <1>4 DEF IInv

(* A row whose key is matched changes an output and no pattern. *)
LEMMA RedirectStep ==
  ASSUME IInv, AddRow, Matching(rows[row + 1].in_key) # {}
  PROVE  entries' \in Seq(Entry) /\ Len(entries') = Len(entries)
         /\ FirstExists' /\ ConfiguredIsFound' /\ LastAliasDecides'
<1>0. PICK T, r, n : T = rows /\ r = row + 1 /\ n = find(T[r].in_key)
  OBVIOUS
<1>1. /\ entries \in Seq(Entry) /\ T \in Seq(Entry) /\ row \in Nat
      /\ r \in 1..Len(T) /\ T[r] \in Entry /\ row' = r /\ rows' = T /\ rows = T
      /\ r = row + 1 /\ n = find(T[r].in_key)
  BY <1>0 DEF IInv, TypeOK, AddRow
<1>2. /\ \A q \in 1..row : Matches(T[q].in_key, T[q].in_key) => Matching(T[q].in_key) # {}
      /\ (\A q \in DOMAIN T : Matches(T[q].in_key, T[q].in_key)) =>
           \A e \in DOMAIN entries, q \in 1..row :
             LastOf(Aliases(e), q) => entries[e].out_name = T[q].out_name
      /\ \A e : Aliases(e) = {p \in 1..row : Matching(T[p].in_key) # {} /\ find(T[p].in_key) = e}
  BY <1>1 DEF IInv, ConfiguredIsFound, LastAliasDecides, SelfMatching, Aliases
<1>3. /\ \A e : Aliases(e)' = {p \in 1..r : Matching(T[p].in_key)' # {} /\ find(T[p].in_key)' = e}
      /\ SelfMatching' = \A q \in DOMAIN T : Matches(T[q].in_key, T[q].in_key)
  BY <1>1 DEF Aliases, SelfMatching
<1>4. n \in 1..Len(entries)
  BY <1>0, <1>1, FindMatches DEF IInv
<1>5. entries' = [entries EXCEPT ![n].out_name = T[r].out_name]
  BY <1>0, <1>1 DEF AddRow, add
<1>6. /\ entries' \in Seq(Entry) /\ Len(entries') = Len(entries)
      /\ \A m \in 1..Len(entries) :
           /\ entries'[m].in_key = entries[m].in_key
           /\ m # n => entries'[m].out_name = entries[m].out_name
      /\ entries'[n].out_name = T[r].out_name
  <2>1. \A m \in 1..Len(entries) : entries[m] \in Entry
    BY <1>1
  <2>2. entries[n] = [in_key |-> entries[n].in_key, out_name |-> entries[n].out_name]
    BY <1>4, <2>1 DEF Entry
  <2>3. [entries[n] EXCEPT !.out_name = T[r].out_name]
          = [in_key |-> entries[n].in_key, out_name |-> T[r].out_name]
    BY <2>2
  <2>4. [entries[n] EXCEPT !.out_name = T[r].out_name] \in Entry
    BY <1>1, <1>4, <2>1, <2>3 DEF Entry
  <2>5. entries' = [entries EXCEPT ![n] = [entries[n] EXCEPT !.out_name = T[r].out_name]]
    BY <1>5
  <2>6. entries' \in Seq(Entry) /\ Len(entries') = Len(entries)
    BY <1>1, <1>4, <2>4, <2>5, ExceptSeq
  <2>7. \A m \in 1..Len(entries) : entries'[m] =
          IF m = n THEN [entries[n] EXCEPT !.out_name = T[r].out_name] ELSE entries[m]
    BY <1>1, <1>4, <2>5
  <2> QED BY <1>4, <2>3, <2>6, <2>7
<1>7. \A k : Matching(k)' = Matching(k)
  BY <1>1, <1>6 DEF Matching
<1>8. \A k : find(k)' = find(k)
  BY <1>7 DEF find
<1>11. FirstExists'
  BY <1>7 DEF IInv, FirstExists
<1>9. ConfiguredIsFound'
  <2> SUFFICES ASSUME NEW q \in 1..r, Matches(T[q].in_key, T[q].in_key)
               PROVE  Matching(T[q].in_key) # {}
    BY <1>1, <1>7 DEF ConfiguredIsFound
  <2> QED BY <1>0, <1>1, <1>2
<1>10. LastAliasDecides'
  <2> SUFFICES ASSUME SelfMatching', NEW e \in DOMAIN entries', NEW q \in 1..r,
                      LastOf(Aliases(e)', q)
               PROVE  entries'[e].out_name = T[q].out_name
    BY <1>1 DEF LastAliasDecides
  <2>1. e \in 1..Len(entries) /\ DOMAIN entries = 1..Len(entries)
    BY <1>1, <1>6
  <2>2. Aliases(e)' = {p \in 1..r : Matching(T[p].in_key) # {} /\ find(T[p].in_key) = e}
    BY <1>3, <1>7, <1>8
  <2>3. CASE e = n
    <3>1. r \in Aliases(e)'
      BY <1>0, <1>1, <2>2, <2>3
    <3>2. r <= q
      BY <3>1 DEF LastOf
    <3>3. q = r
      BY <1>1, <3>2
    <3> QED BY <1>6, <2>3, <3>3
  <2>4. CASE e # n
    <3>1. r \notin Aliases(e)'
      BY <1>1, <2>2, <2>4
    <3>2. Aliases(e)' = Aliases(e)
      <4>1. \A p \in 1..r : p # r <=> p \in 1..row
        BY <1>1
      <4>2. 1..row \subseteq 1..r
        BY <1>1
      <4>3. Aliases(e) = {p \in 1..row : Matching(T[p].in_key) # {} /\ find(T[p].in_key) = e}
        BY <1>2
      <4>4. \A p \in Aliases(e)' : p \in Aliases(e)
        BY <2>2, <3>1, <4>1, <4>3
      <4>5. \A p \in Aliases(e) : p \in Aliases(e)'
        BY <2>2, <4>2, <4>3
      <4> QED BY <4>4, <4>5
    <3>3. q \in 1..row
      BY <1>1, <3>1 DEF LastOf
    <3>4. LastOf(Aliases(e), q)
      BY <3>2 DEF LastOf
    <3>5. entries[e].out_name = T[q].out_name
      BY <1>2, <1>3, <2>1, <3>3, <3>4
    <3> QED BY <1>6, <2>1, <2>4, <3>5
  <2> QED BY <2>3, <2>4
<1> QED BY <1>6, <1>9, <1>10, <1>11

(* A row whose key nothing matches makes an entry at the end, which is the *)
(* first to match none of the earlier keys.                                *)
LEMMA AppendStep ==
  ASSUME IInv, AddRow, Matching(rows[row + 1].in_key) = {}
  PROVE  entries' \in Seq(Entry) /\ Len(entries') = Len(entries) + 1
         /\ FirstExists' /\ ConfiguredIsFound' /\ LastAliasDecides'
<1>0. PICK T, r, N : T = rows /\ r = row + 1 /\ N = Len(entries) + 1
  OBVIOUS
<1>1. /\ entries \in Seq(Entry) /\ T \in Seq(Entry) /\ row \in Nat
      /\ r \in 1..Len(T) /\ T[r] \in Entry /\ row' = r /\ rows' = T /\ rows = T
      /\ r = row + 1 /\ N = Len(entries) + 1 /\ N \in Nat
  BY <1>0 DEF IInv, TypeOK, AddRow
<1>2. /\ \A q \in 1..row : Matches(T[q].in_key, T[q].in_key) => Matching(T[q].in_key) # {}
      /\ (\A q \in DOMAIN T : Matches(T[q].in_key, T[q].in_key)) =>
           \A e \in DOMAIN entries, q \in 1..row :
             LastOf(Aliases(e), q) => entries[e].out_name = T[q].out_name
      /\ \A e : Aliases(e) = {p \in 1..row : Matching(T[p].in_key) # {} /\ find(T[p].in_key) = e}
  BY <1>1 DEF IInv, ConfiguredIsFound, LastAliasDecides, SelfMatching, Aliases
<1>3. /\ \A e : Aliases(e)' = {p \in 1..r : Matching(T[p].in_key)' # {} /\ find(T[p].in_key)' = e}
      /\ SelfMatching' = \A q \in DOMAIN T : Matches(T[q].in_key, T[q].in_key)
  BY <1>1 DEF Aliases, SelfMatching
<1>4. entries' = Append(entries, T[r])
  BY <1>0, <1>1 DEF AddRow, add
<1>5. /\ entries' \in Seq(Entry) /\ Len(entries') = N /\ DOMAIN entries' = 1..N
      /\ \A m \in 1..Len(entries) : entries'[m] = entries[m]
      /\ entries'[N] = T[r]
  BY <1>0, <1>1, <1>4, AppendProperties
<1>6. \A k : Matching(k)' = Matching(k) \cup (IF Matches(T[r].in_key, k) THEN {N} ELSE {})
  BY <1>0, <1>1, <1>5 DEF Matching
<1>7. \A k : Matching(k) # {} => Matching(k)' # {} /\ find(k)' = find(k)
  <2> SUFFICES ASSUME NEW k, Matching(k) # {}
               PROVE  Matching(k)' # {} /\ find(k)' = find(k)
    OBVIOUS
  <2>1. find(k) \in 1..Len(entries) /\ Least(Matching(k), find(k))
    BY <1>1, FindMatches DEF IInv
  <2>2. Matching(k)' \subseteq Nat /\ Least(Matching(k)', find(k))
    BY <1>1, <1>6, <2>1, MatchingInDomain DEF Least
  <2>3. First(Matching(k)') = find(k)
    BY <2>2, FirstIsLeast
  <2> QED BY <2>2, <2>3 DEF find, Least
<1>8. ConfiguredIsFound'
  <2> SUFFICES ASSUME NEW q \in 1..row', Matches(T[q].in_key, T[q].in_key)
               PROVE  Matching(T[q].in_key)' # {}
    BY <1>1 DEF ConfiguredIsFound
  <2>1. CASE q = r
    BY <1>1, <1>6, <2>1
  <2>2. CASE q # r
    <3>1. Matching(T[q].in_key) # {}
      BY <1>1, <2>2 DEF IInv, ConfiguredIsFound
    <3> QED BY <1>1, <1>7, <3>1
  <2> QED BY <2>1, <2>2
<1>9. LastAliasDecides'
  <2> SUFFICES ASSUME SelfMatching', NEW e \in DOMAIN entries', NEW q \in 1..r,
                      LastOf(Aliases(e)', q)
               PROVE  entries'[e].out_name = T[q].out_name
    BY <1>1 DEF LastAliasDecides
  <2>0. \A p \in DOMAIN T : Matches(T[p].in_key, T[p].in_key)
    BY <1>3
  <2>1. \A p \in 1..Len(T) : Matches(T[p].in_key, T[p].in_key)
    <3>1. DOMAIN T = 1..Len(T)
      BY <1>1
    <3> QED BY <2>0, <3>1
  <2>2. \A p \in 1..row : /\ Matching(T[p].in_key) # {}
                         /\ find(T[p].in_key)' = find(T[p].in_key)
                         /\ find(T[p].in_key) \in 1..Len(entries)
    <3> SUFFICES ASSUME NEW p \in 1..row
                 PROVE  /\ Matching(T[p].in_key) # {}
                        /\ find(T[p].in_key)' = find(T[p].in_key)
                        /\ find(T[p].in_key) \in 1..Len(entries)
      OBVIOUS
    <3>0. p \in 1..Len(T)
      BY <1>1
    <3>1. Matching(T[p].in_key) # {}
      <4>1. Matches(T[p].in_key, T[p].in_key)
        BY <2>1, <3>0
      <4> QED BY <1>2, <4>1
    <3> QED BY <1>1, <1>7, <3>1, FindMatches DEF IInv
  <2>3. Matching(T[r].in_key)' = {N} /\ find(T[r].in_key)' = N
    <3>1. Matching(T[r].in_key)' = {N}
      BY <1>0, <1>1, <1>6, <2>1
    <3>2. Least({N}, N)
      BY <1>1 DEF Least
    <3>3. First({N}) = N
      BY <1>1, <3>2, FirstIsLeast
    <3> QED BY <3>1, <3>3 DEF find
  <2>4. q \in Aliases(e)' /\ find(T[q].in_key)' = e
    BY <1>3 DEF LastOf
  <2>5. CASE e = N
    <3>1. q \notin 1..row
      BY <1>1, <2>2, <2>4, <2>5
    <3>2. q = r
      BY <1>1, <3>1
    <3> QED BY <1>5, <2>5, <3>2
  <2>6. CASE e # N
    <3>1. e \in 1..Len(entries) /\ DOMAIN entries = 1..Len(entries)
      BY <1>1, <1>5, <2>6
    <3>2. q \in 1..row
      BY <1>1, <2>3, <2>4, <2>6
    <3>3. Aliases(e) \subseteq Aliases(e)' /\ q \in Aliases(e)
      <4>1. q \in Aliases(e)
        BY <1>2, <2>2, <2>4, <3>2
      <4>2. \A p \in Aliases(e) : p \in 1..r /\ Matching(T[p].in_key)' # {} /\ find(T[p].in_key)' = e
        BY <1>1, <1>2, <1>7, <2>2
      <4> QED BY <1>3, <4>1, <4>2
    <3>4. LastOf(Aliases(e), q)
      BY <3>3 DEF LastOf
    <3>5. entries[e].out_name = T[q].out_name
      BY <1>2, <1>3, <3>1, <3>2, <3>4
    <3> QED BY <1>5, <3>1, <3>5
  <2> QED BY <2>5, <2>6
<1>10. FirstExists'
  <2> SUFFICES ASSUME NEW k, Matching(k)' # {}
               PROVE  \E n : Least(Matching(k)', n)
    BY DEF FirstExists
  <2>1. CASE Matching(k) # {}
    <3>1. PICK n : Least(Matching(k), n)
      BY <2>1 DEF IInv, FirstExists
    <3>2. n \in 1..Len(entries)
      BY <1>1, <3>1, MatchingInDomain DEF Least
    <3>3. Matching(k)' \subseteq Matching(k) \cup {N} /\ Matching(k) \subseteq Matching(k)'
      BY <1>6
    <3>4. n <= N
      BY <1>1, <3>2
    <3>5. Least(Matching(k)', n)
      BY <3>1, <3>3, <3>4 DEF Least
    <3> QED BY <3>5
  <2>2. CASE Matching(k) = {}
    <3>1. Matching(k)' = {N}
      BY <1>6, <2>2
    <3>2. Least(Matching(k)', N)
      BY <1>1, <3>1 DEF Least
    <3> QED BY <3>2
  <2> QED BY <2>1, <2>2
<1> QED BY <1>0, <1>5, <1>8, <1>9, <1>10

LEMMA AddRowStep == ASSUME IInv, AddRow PROVE IInv'
<1>1. /\ entries' \in Seq(Entry) /\ Len(entries') <= Len(entries) + 1
      /\ FirstExists' /\ ConfiguredIsFound' /\ LastAliasDecides'
  <2>1. Len(entries) \in Nat
    BY DEF IInv, TypeOK
  <2> QED BY <2>1, RedirectStep, AppendStep
<1>2. TypeOK'
  BY <1>1 DEF IInv, TypeOK, AddRow, config, handler
<1> QED BY <1>1, <1>2 DEF IInv

(* Every other step leaves the table as it is. *)
LEMMA TableUntouched ==
  ASSUME IInv, UNCHANGED table
  PROVE  FirstExists' /\ ConfiguredIsFound' /\ LastAliasDecides'
<1>1. rows' = rows /\ row' = row /\ entries' = entries
  BY DEF table
<1>2. /\ \A k : Matching(k)' = Matching(k) /\ find(k)' = find(k)
      /\ \A n : Aliases(n)' = Aliases(n)
      /\ SelfMatching' = SelfMatching
  BY <1>1 DEF Matching, find, Aliases, SelfMatching
<1>5. FirstExists'
  BY <1>2 DEF IInv, FirstExists
<1>3. ConfiguredIsFound'
  BY <1>1, <1>2 DEF IInv, ConfiguredIsFound
<1>4. LastAliasDecides'
  BY <1>1, <1>2 DEF IInv, LastAliasDecides, LastOf
<1> QED BY <1>3, <1>4, <1>5

(* The handler moves samples between sequences of samples. *)
LEMMA ArriveTypes ==
  ASSUME IInv, NEW in \in Inputs, NEW value \in Values, NEW quality \in Qualities,
         Arrive(in, value, quality)
  PROVE  TypeOK'
<1>1. arrived' \in 0..MaxSamples /\ arrived + 1 \in 1..MaxSamples
  BY EngineAssumption DEF IInv, TypeOK, Arrive
<1>2. [id |-> arrived + 1, input |-> in, value |-> value, quality |-> quality] \in Sample
  BY <1>1 DEF Sample
<1>3. queue' \in [Inputs -> Seq(Sample)]
  BY <1>2 DEF IInv, TypeOK, Arrive
<1> QED BY <1>1, <1>3 DEF IInv, TypeOK, Arrive, table, config, handler

LEMMA HandlerTypes ==
  ASSUME IInv, on_data_available \/ Take \/ TakeFails \/ NextInput
  PROVE  TypeOK'
<1>1. CASE on_data_available
  <2>1. InputOrder \in Seq(Inputs)
    BY EngineAssumption DEF Inputs
  <2> QED BY <1>1, <2>1 DEF IInv, TypeOK, on_data_available, table, config
<1>2. CASE Take
  <2>1. Head(todo) \in Inputs
    BY <1>2 DEF IInv, TypeOK, Take
  <2>2. samples' \in Seq(Sample)
    BY <1>2, <2>1 DEF IInv, TypeOK, Take
  <2>3. queue' \in [Inputs -> Seq(Sample)]
    <3>1. <<>> \in Seq(Sample)
      OBVIOUS
    <3> QED BY <1>2, <2>1, <3>1 DEF IInv, TypeOK, Take
  <2> QED BY <1>2, <2>2, <2>3 DEF IInv, TypeOK, Take, table, config
<1>3. CASE TakeFails
  <2>1. todo' \in Seq(Inputs)
    BY <1>3 DEF IInv, TypeOK, TakeFails
  <2> QED BY <1>3, <2>1 DEF IInv, TypeOK, TakeFails, table, config
<1>4. CASE NextInput
  <2>1. todo' \in Seq(Inputs)
    BY <1>4 DEF IInv, TypeOK, NextInput
  <2> QED BY <1>4, <2>1 DEF IInv, TypeOK, NextInput, table, config
<1> QED BY <1>1, <1>2, <1>3, <1>4

LEMMA CachedTypes ==
  ASSUME IInv, NEW s \in Sample
  PROVE  Cached(s) \subseteq with_member
BY DEF IInv, TypeOK, Cached, HasKey

LEMMA SampleTypes ==
  ASSUME IInv, ForwardSample \/ DropSample
  PROVE  TypeOK'
<1>1. samples # <<>> /\ samples' = Tail(samples)
  BY DEF ForwardSample, DropSample, Rest
<1>2. Head(samples) \in Sample /\ samples' \in Seq(Sample)
  BY <1>1 DEF IInv, TypeOK
<1>3. CASE ForwardSample
  <2>1. cache' \subseteq with_member
    BY <1>2, <1>3, CachedTypes DEF ForwardSample
  <2>2. PICK out \in Outputs : written' = [written EXCEPT ![out] = Append(@, Head(samples))]
    BY <1>3 DEF ForwardSample, Forwardable
  <2>3. written' \in [Outputs -> Seq(Sample)]
    BY <1>2, <2>2 DEF IInv, TypeOK
  <2> QED BY <1>2, <1>3, <2>1, <2>3 DEF IInv, TypeOK, ForwardSample, table, config
<1>4. CASE DropSample
  <2>1. cache' \subseteq with_member
    BY <1>2, <1>4, CachedTypes DEF DropSample, IInv, TypeOK
  <2>2. dropped' \subseteq Sample
    BY <1>2, <1>4 DEF DropSample, IInv, TypeOK
  <2> QED BY <1>2, <1>4, <2>1, <2>2 DEF IInv, TypeOK, DropSample, table, config
<1> QED BY <1>3, <1>4

LEMMA NextStep == ASSUME IInv, [Next]_vars PROVE IInv'
<1>1. CASE AddRow
  BY <1>1, AddRowStep
<1>2. CASE \E in \in Inputs, value \in Values, quality \in Qualities : Arrive(in, value, quality)
  <2>1. TypeOK'
    BY <1>2, ArriveTypes
  <2>2. UNCHANGED table
    BY <1>2 DEF Arrive
  <2> QED BY <2>1, <2>2, TableUntouched DEF IInv
<1>3. CASE on_data_available \/ Take \/ TakeFails \/ NextInput
  <2>1. TypeOK'
    BY <1>3, HandlerTypes
  <2>2. UNCHANGED table
    BY <1>3 DEF on_data_available, Take, TakeFails, NextInput
  <2> QED BY <2>1, <2>2, TableUntouched DEF IInv
<1>4. CASE ForwardSample \/ DropSample
  <2>1. TypeOK'
    BY <1>4, SampleTypes
  <2>2. UNCHANGED table
    BY <1>4 DEF ForwardSample, DropSample
  <2> QED BY <2>1, <2>2, TableUntouched DEF IInv
<1>5. CASE UNCHANGED vars
  <2>1. UNCHANGED table
    BY <1>5 DEF vars
  <2>2. TypeOK'
    BY <1>5 DEF IInv, TypeOK, vars, table, config, handler
  <2> QED BY <2>1, <2>2, TableUntouched DEF IInv
<1> QED BY <1>1, <1>2, <1>3, <1>4, <1>5 DEF Next

-----------------------------------------------------------------------------
(* The table is well-formed after every row (AddRow), and no later step    *)
(* touches it.                                                             *)
THEOREM EngineInvariant == Spec => []IInv
<1>1. Init => IInv
  BY InitIInv
<1>2. IInv /\ [Next]_vars => IInv'
  BY NextStep
<1> QED BY <1>1, <1>2, PTL DEF Spec

(* The table never has more entries than rows were added and the cache     *)
(* never holds an input without the member (ForwardingEngine.cxx:68,       *)
(* ByInputValueForwardingEngine.cxx:243).                                  *)
THEOREM TypeCorrect == Spec => []TypeOK
<1>1. IInv => TypeOK
  BY DEF IInv
<1> QED BY <1>1, EngineInvariant, PTL

(* A configured key that matches itself is found, whatever the other rows  *)
(* of the table are (ForwardingEngine.cxx:68).                             *)
THEOREM TableFindsConfigured == Spec => []ConfiguredIsFound
<1>1. IInv => ConfiguredIsFound
  BY DEF IInv
<1> QED BY <1>1, EngineInvariant, PTL

(* The last row an entry is the first to match decides its output          *)
(* (ForwardingEngine.cxx:68).                                              *)
THEOREM LastAliasDecidesTheorem == Spec => []LastAliasDecides
<1>1. IInv => LastAliasDecides
  BY DEF IInv
<1> QED BY <1>1, EngineInvariant, PTL

-----------------------------------------------------------------------------
(* Where the samples are.  A sample moves from the queue of its input to   *)
(* the loan and from there to an output or to the dropped ones, always the *)
(* oldest first: so what is behind it (Older) is never met again.          *)
Before(S, T) == \A s \in S, t \in T : s.input = t.input => s.id < t.id
InOrder(q) == \A m, n \in DOMAIN q : m < n => q[m].id < q[n].id
Gone == Total(written) \cup dropped

Older ==
  /\ Before(Elements(samples), Total(queue))
  /\ Before(Gone, Total(queue) \cup Elements(samples))

Lined ==
  /\ \A in \in Inputs : InOrder(queue[in]) /\ \A s \in Elements(queue[in]) : s.input = in
  /\ InOrder(samples) /\ \A s \in Elements(samples) : s.input = Head(todo)

Everywhere == Total(queue) \cup Elements(samples) \cup Total(written) \cup dropped
Ids(S) == {s.id : s \in S}
Apart ==
  /\ \A s \in Total(written) : s \notin dropped /\ s \notin Elements(samples)
  /\ \A out1, out2 \in Outputs :
       \A s \in Elements(written[out1]) \cap Elements(written[out2]) : out1 = out2

SInv ==
  /\ TypeOK
  /\ Lined
  /\ Older
  /\ \A out \in Outputs : Ascending(written[out])
  /\ Ids(Everywhere) = 1..arrived
  /\ Apart

LEMMA AccountedForm == SInv => SamplesAccounted
BY DEF SInv, SamplesAccounted, Ids, Everywhere, Apart

(* The elements of the sequences the handler makes. *)
LEMMA ElementsAppend ==
  ASSUME NEW S, NEW q \in Seq(S), NEW s \in S
  PROVE  Elements(Append(q, s)) = Elements(q) \cup {s}
<1>1. /\ DOMAIN Append(q, s) = 1..(Len(q) + 1) /\ DOMAIN q = 1..Len(q) /\ Len(q) \in Nat
      /\ \A n \in 1..Len(q) : Append(q, s)[n] = q[n]
      /\ Append(q, s)[Len(q) + 1] = s
  BY AppendProperties
<1>2. 1..(Len(q) + 1) = 1..Len(q) \cup {Len(q) + 1}
  BY <1>1
<1> QED BY <1>1, <1>2 DEF Elements

LEMMA ElementsTail ==
  ASSUME NEW S, NEW q \in Seq(S), q # <<>>
  PROVE  /\ Elements(q) = {Head(q)} \cup Elements(Tail(q))
         /\ \A n \in DOMAIN Tail(q) : n + 1 \in DOMAIN q /\ Tail(q)[n] = q[n + 1] /\ 1 < n + 1
         /\ 1 \in DOMAIN q /\ Head(q) = q[1]
<1>1. /\ DOMAIN q = 1..Len(q) /\ Len(q) \in Nat \ {0} /\ Head(q) = q[1]
      /\ Tail(q) \in Seq(S) /\ Len(Tail(q)) = Len(q) - 1
      /\ \A n \in 1..(Len(q) - 1) : Tail(q)[n] = q[n + 1]
  BY HeadTailProperties, EmptySeq
<1>2. DOMAIN Tail(q) = 1..(Len(q) - 1)
  BY <1>1
<1>3. \A n \in 1..Len(q) : n # 1 => n - 1 \in 1..(Len(q) - 1) /\ (n - 1) + 1 = n
  BY <1>1
<1>4. \A n \in 1..(Len(q) - 1) : n + 1 \in 1..Len(q) /\ 1 < n + 1
  BY <1>1
<1>5. Elements(q) \subseteq {Head(q)} \cup Elements(Tail(q))
  <2> SUFFICES ASSUME NEW n \in DOMAIN q
               PROVE  q[n] \in {Head(q)} \cup Elements(Tail(q))
    BY DEF Elements
  <2>1. CASE n = 1
    BY <1>1, <2>1
  <2>2. CASE n # 1
    <3>1. n - 1 \in DOMAIN Tail(q) /\ Tail(q)[n - 1] = q[n]
      BY <1>1, <1>2, <1>3, <2>2
    <3> QED BY <3>1 DEF Elements
  <2> QED BY <2>1, <2>2
<1>6. {Head(q)} \cup Elements(Tail(q)) \subseteq Elements(q)
  BY <1>1, <1>2, <1>4 DEF Elements
<1> QED BY <1>1, <1>2, <1>4, <1>5, <1>6

LEMMA InOrderTail ==
  ASSUME NEW q \in Seq(Sample), q # <<>>, InOrder(q)
  PROVE  InOrder(Tail(q)) /\ \A s \in Elements(Tail(q)) : Head(q).id < s.id
<1>1. /\ \A n \in DOMAIN Tail(q) : n + 1 \in DOMAIN q /\ Tail(q)[n] = q[n + 1] /\ 1 < n + 1
      /\ 1 \in DOMAIN q /\ Head(q) = q[1]
  BY ElementsTail
<1>2. ASSUME NEW m \in DOMAIN Tail(q), NEW n \in DOMAIN Tail(q), m < n
      PROVE  Tail(q)[m].id < Tail(q)[n].id
  <2>1. m + 1 < n + 1
    <3>1. Tail(q) \in Seq(Sample)
      BY HeadTailProperties, EmptySeq
    <3>2. m \in Nat /\ n \in Nat
      BY <3>1
    <3> QED BY <1>2, <3>2
  <2> QED BY <1>1, <2>1 DEF InOrder
<1>3. ASSUME NEW n \in DOMAIN Tail(q)
      PROVE  Head(q).id < Tail(q)[n].id
  BY <1>1 DEF InOrder
<1> QED BY <1>2, <1>3 DEF InOrder, Elements

LEMMA InTotal ==
  ASSUME NEW f, NEW t
  PROVE  t \in Total(f) <=> \E x \in DOMAIN f : t \in Elements(f[x])
BY DEF Total

LEMMA TotalAppend ==
  ASSUME NEW f, NEW g, DOMAIN g = DOMAIN f, NEW x \in DOMAIN f, NEW s \in Sample,
         f[x] \in Seq(Sample), g[x] = Append(f[x], s), \A y \in DOMAIN f : y # x => g[y] = f[y]
  PROVE  Total(g) = Total(f) \cup {s}
<1>1. /\ Elements(g[x]) = Elements(f[x]) \cup {s}
      /\ \A y \in DOMAIN f : y # x => Elements(g[y]) = Elements(f[y])
  BY ElementsAppend
<1>2. \A t : t \in Total(g) <=> t \in Total(f) \cup {s}
  BY <1>1, InTotal
<1> QED BY <1>2

LEMMA TotalTaken ==
  ASSUME NEW f, NEW g, DOMAIN g = DOMAIN f, NEW x \in DOMAIN f,
         g[x] = <<>>, \A y \in DOMAIN f : y # x => g[y] = f[y]
  PROVE  Total(g) \cup Elements(f[x]) = Total(f)
<1>1. Elements(<<>>) = {}
  BY DEF Elements
<1>2. \A t : t \in Total(g) \cup Elements(f[x]) <=> t \in Total(f)
  BY <1>1, InTotal
<1> QED BY <1>2

-----------------------------------------------------------------------------
LEMMA InitSInv == Init => SInv
<1> SUFFICES ASSUME Init PROVE SInv
  OBVIOUS
<1>1. TypeOK
  BY InitIInv DEF IInv
<1>2. Elements(<<>>) = {}
  BY DEF Elements
<1>3. Total(queue) = {} /\ Total(written) = {}
  BY <1>2 DEF Init, Total
<1>4. Lined
  BY <1>2 DEF Init, Lined, InOrder
<1>5. Older
  BY <1>2, <1>3 DEF Init, Older, Before, Gone
<1>6. \A out \in Outputs : Ascending(written[out])
  BY DEF Init, Ascending
<1>7. Ids(Everywhere) = 1..arrived
  BY <1>2, <1>3 DEF Init, Ids, Everywhere
<1>8. Apart
  BY <1>2, <1>3 DEF Init, Apart, Total
<1> QED BY <1>1, <1>4, <1>5, <1>6, <1>7, <1>8 DEF SInv

LEMMA SInvTypes ==
  ASSUME SInv
  PROVE  /\ Total(queue) \subseteq Sample /\ Elements(samples) \subseteq Sample
         /\ Total(written) \subseteq Sample /\ dropped \subseteq Sample
         /\ \A s \in Everywhere : s.id \in 1..arrived
         /\ \A s \in Sample : s.id \in Nat
         /\ arrived \in Nat
<1>1. \A q \in Seq(Sample) : Elements(q) \subseteq Sample
  BY DEF Elements
<1>2. Total(queue) \subseteq Sample /\ Total(written) \subseteq Sample
  BY <1>1 DEF SInv, TypeOK, Total
<1>3. Elements(samples) \subseteq Sample /\ dropped \subseteq Sample
  BY <1>1 DEF SInv, TypeOK
<1>4. \A s \in Everywhere : s.id \in 1..arrived
  BY DEF SInv, Ids
<1>5. \A s \in Sample : s.id \in Nat
  BY EngineAssumption DEF Sample
<1>6. arrived \in Nat
  BY EngineAssumption DEF SInv, TypeOK
<1> QED BY <1>2, <1>3, <1>4, <1>5, <1>6

(* An arrival is newer than everything that arrived before. *)
LEMMA ArriveStep ==
  ASSUME SInv, TypeOK', NEW in \in Inputs, NEW value \in Values, NEW quality \in Qualities,
         Arrive(in, value, quality)
  PROVE  SInv'
<1>0. PICK a : a = [id |-> arrived + 1, input |-> in, value |-> value, quality |-> quality]
  OBVIOUS
<1>1. /\ queue' = [queue EXCEPT ![in] = Append(@, a)] /\ arrived' = arrived + 1
      /\ UNCHANGED <<todo, samples, written, dropped>>
      /\ a.id = arrived + 1 /\ a.input = in
  BY <1>0 DEF Arrive, handler
<1>2. a \in Sample
  <2>1. arrived + 1 \in 1..MaxSamples
    BY EngineAssumption DEF SInv, TypeOK, Arrive
  <2> QED BY <1>0, <2>1 DEF Sample
<1>3. queue \in [Inputs -> Seq(Sample)]
  BY DEF SInv, TypeOK
<1>4. Total(queue') = Total(queue) \cup {a}
  <2>1. /\ queue' \in [Inputs -> Seq(Sample)] /\ queue'[in] = Append(queue[in], a)
        /\ \A y \in Inputs : y # in => queue'[y] = queue[y]
    BY <1>1, <1>2, <1>3
  <2>2. DOMAIN queue = Inputs /\ DOMAIN queue' = Inputs /\ queue[in] \in Seq(Sample)
    BY <1>3, <2>1
  <2> QED BY <1>2, <2>1, <2>2, TotalAppend
<1>5. /\ \A s \in Everywhere : s.id < a.id
      /\ arrived \in Nat
  BY <1>1, SInvTypes
<1>6. Lined'
  <2>1. ASSUME NEW x \in Inputs
        PROVE  InOrder(queue'[x]) /\ \A s \in Elements(queue'[x]) : s.input = x
    <3>1. CASE x # in
      BY <1>1, <1>3, <2>1, <3>1 DEF SInv, Lined
    <3>2. CASE x = in
      <4>1. /\ queue[in] \in Seq(Sample) /\ InOrder(queue[in])
            /\ \A s \in Elements(queue[in]) : s.input = in
        BY <1>3 DEF SInv, Lined
      <4>2. queue'[in] = Append(queue[in], a)
        BY <1>1, <1>3
      <4>3. \A s \in Elements(queue'[in]) : s.input = in
        BY <1>1, <1>2, <4>1, <4>2, ElementsAppend
      <4>4. \A n \in DOMAIN queue[in] : queue[in][n].id < a.id
        <5>1. Elements(queue[in]) \subseteq Everywhere
          BY <1>3 DEF Everywhere, Total
        <5> QED BY <1>5, <5>1 DEF Elements
      <4>5. InOrder(queue'[in])
        <5> DEFINE q == queue[in]
        <5>1. /\ DOMAIN Append(q, a) = 1..(Len(q) + 1) /\ DOMAIN q = 1..Len(q) /\ Len(q) \in Nat
              /\ \A n \in 1..Len(q) : Append(q, a)[n] = q[n]
              /\ Append(q, a)[Len(q) + 1] = a
          BY <1>2, <4>1, AppendProperties
        <5> HIDE DEF q
        <5>2. ASSUME NEW m \in 1..(Len(q) + 1), NEW n \in 1..(Len(q) + 1), m < n
              PROVE  Append(q, a)[m].id < Append(q, a)[n].id
          <6>1. m \in 1..Len(q)
            BY <5>1, <5>2
          <6>2. CASE n \in 1..Len(q)
            BY <4>1, <5>1, <5>2, <6>1, <6>2 DEF InOrder, q
          <6>3. CASE n = Len(q) + 1
            BY <4>4, <5>1, <6>1, <6>3 DEF q
          <6> QED BY <5>1, <6>2, <6>3
        <5> QED BY <4>2, <5>1, <5>2 DEF InOrder, q
      <4> QED BY <3>2, <4>3, <4>5
    <3> QED BY <3>1, <3>2
  <2> QED BY <1>1, <2>1 DEF SInv, Lined
<1>7. Older'
  <2>1. \A s \in Elements(samples) \cup Gone : s.id < a.id
    BY <1>5 DEF Everywhere, Gone
  <2>2. Gone' = Gone
    BY <1>1 DEF Gone
  <2> QED BY <1>1, <1>4, <2>1, <2>2 DEF SInv, Older, Before
<1>8. Ids(Everywhere') = 1..arrived'
  <2>1. Everywhere' = Everywhere \cup {a}
    BY <1>1, <1>4 DEF Everywhere
  <2>2. Ids(Everywhere') = Ids(Everywhere) \cup {arrived + 1}
    BY <1>1, <2>1 DEF Ids
  <2>3. 1..arrived' = 1..arrived \cup {arrived + 1}
    BY <1>1, <1>5
  <2> QED BY <2>2, <2>3 DEF SInv
<1>9. Apart'
  BY <1>1 DEF SInv, Apart
<1> QED BY <1>1, <1>6, <1>7, <1>8, <1>9 DEF SInv, Ids

(* Only the oldest sample of the loan leaves it. *)
LEMMA LeavesLoan ==
  ASSUME SInv, samples # <<>>, samples' = Tail(samples), UNCHANGED <<queue, todo, arrived>>,
         Gone' = Gone \cup {Head(samples)}, written' \in [Outputs -> Seq(Sample)]
  PROVE  /\ Lined' /\ Older' /\ Ids(Everywhere') = 1..arrived'
         /\ \A g \in Gone : g.input = Head(samples).input => g.id < Head(samples).id
         /\ Head(samples) \notin Gone /\ Head(samples) \notin Elements(samples')
         /\ Elements(samples') \subseteq Elements(samples)
         /\ Head(samples) \in Elements(samples)
<1> DEFINE s == Head(samples)
<1>1. samples \in Seq(Sample) /\ s \in Sample
  BY DEF SInv, TypeOK
<1>2. Elements(samples) = {s} \cup Elements(samples')
  BY <1>1, ElementsTail
<1>3. InOrder(samples') /\ \A x \in Elements(samples') : s.id < x.id
  BY <1>1, InOrderTail DEF SInv, Lined
<1>4. Lined'
  BY <1>2, <1>3 DEF SInv, Lined
<1>5. Older'
  <2>1. Before(Elements(samples'), Total(queue))
    BY <1>2 DEF SInv, Older, Before
  <2>2. Before(Gone \cup {s}, Total(queue) \cup Elements(samples'))
    BY <1>2, <1>3 DEF SInv, Older, Before
  <2> QED BY <2>1, <2>2 DEF Older
<1>6. Ids(Everywhere') = 1..arrived'
  <2>1. Everywhere' = Everywhere
    BY <1>2 DEF Everywhere, Gone
  <2> QED BY <2>1 DEF SInv, Ids
<1>7. \A g \in Gone : g.input = s.input => g.id < s.id
  BY <1>2 DEF SInv, Older, Before
<1>8. s \notin Gone /\ s \notin Elements(samples')
  <2>1. s.id \in Nat
    BY <1>1, SInvTypes
  <2>2. ~(s.id < s.id)
    BY <2>1
  <2> QED BY <1>3, <1>7, <2>2
<1> QED BY <1>2, <1>4, <1>5, <1>6, <1>7, <1>8

LEMMA ForwardStep ==
  ASSUME SInv, TypeOK', ForwardSample
  PROVE  SInv'
<1> DEFINE s == Head(samples)
<1>1. PICK out \in Outputs : written' = [written EXCEPT ![out] = Append(@, s)]
  BY DEF ForwardSample, Forwardable
<1>2. /\ samples # <<>> /\ samples' = Tail(samples)
      /\ UNCHANGED <<queue, todo, arrived, dropped>>
  BY DEF ForwardSample, Rest
<1>3. /\ samples \in Seq(Sample) /\ s \in Sample
      /\ written \in [Outputs -> Seq(Sample)] /\ written' \in [Outputs -> Seq(Sample)]
  BY <1>2 DEF SInv, TypeOK
<1>4. Total(written') = Total(written) \cup {s}
  <2>1. /\ written'[out] = Append(written[out], s)
        /\ \A y \in Outputs : y # out => written'[y] = written[y]
    BY <1>1, <1>3
  <2>2. DOMAIN written = Outputs /\ DOMAIN written' = Outputs /\ written[out] \in Seq(Sample)
    BY <1>3
  <2> QED BY <1>3, <2>1, <2>2, TotalAppend
<1>5. Gone' = Gone \cup {s}
  BY <1>2, <1>4 DEF Gone
<1>6. /\ Lined' /\ Older' /\ Ids(Everywhere') = 1..arrived'
      /\ \A g \in Gone : g.input = s.input => g.id < s.id
      /\ s \notin Gone /\ s \notin Elements(samples')
      /\ Elements(samples') \subseteq Elements(samples)
  BY <1>2, <1>3, <1>5, LeavesLoan
<1>7. /\ written'[out] = Append(written[out], s)
      /\ \A o \in Outputs : o # out => written'[o] = written[o]
      /\ written[out] \in Seq(Sample)
      /\ \A o \in Outputs : Elements(written[o]) \subseteq Total(written)
  BY <1>1, <1>3 DEF Total
<1>8. \A o \in Outputs : Ascending(written'[o])
  <2>1. Ascending(written[out])
    BY DEF SInv
  <2>2. \A n \in DOMAIN written[out] : written[out][n].input = s.input => written[out][n].id < s.id
    BY <1>6, <1>7 DEF Gone, Elements
  <2> DEFINE q == written[out]
  <2>3. /\ DOMAIN Append(q, s) = 1..(Len(q) + 1) /\ DOMAIN q = 1..Len(q) /\ Len(q) \in Nat
        /\ \A n \in 1..Len(q) : Append(q, s)[n] = q[n]
        /\ Append(q, s)[Len(q) + 1] = s
    BY <1>3, <1>7, AppendProperties
  <2> HIDE DEF q, s
  <2>4. ASSUME NEW m \in 1..(Len(q) + 1), NEW n \in 1..(Len(q) + 1), m < n,
               Append(q, s)[m].input = Append(q, s)[n].input
        PROVE  Append(q, s)[m].id < Append(q, s)[n].id
    <3>1. m \in 1..Len(q)
      BY <2>3, <2>4
    <3>2. CASE n \in 1..Len(q)
      BY <2>1, <2>3, <2>4, <3>1, <3>2 DEF Ascending, q
    <3>3. CASE n = Len(q) + 1
      BY <2>2, <2>3, <2>4, <3>1, <3>3 DEF q
    <3> QED BY <2>3, <3>2, <3>3
  <2>5. Ascending(written'[out])
    BY <1>7, <2>3, <2>4 DEF Ascending, q
  <2> QED BY <1>7, <2>5 DEF SInv
<1>9. Apart'
  <2>1. \A x \in Total(written') : x \notin dropped' /\ x \notin Elements(samples')
    BY <1>2, <1>4, <1>6 DEF SInv, Apart, Gone
  <2>2. Elements(written'[out]) = Elements(written[out]) \cup {s}
    BY <1>3, <1>7, ElementsAppend
  <2>3. \A o \in Outputs : s \notin Elements(written[o])
    BY <1>6, <1>7 DEF Gone
  <2>4. \A o1, o2 \in Outputs :
          \A x \in Elements(written'[o1]) \cap Elements(written'[o2]) : o1 = o2
    <3>1. \A o1, o2 \in Outputs :
            \A x \in Elements(written[o1]) \cap Elements(written[o2]) : o1 = o2
      BY DEF SInv, Apart
    <3>2. \A o \in Outputs : o # out => Elements(written'[o]) = Elements(written[o])
      BY <1>7
    <3> HIDE DEF s
    <3> QED BY <2>2, <2>3, <3>1, <3>2
  <2> QED BY <2>1, <2>4 DEF Apart
<1> QED BY <1>6, <1>8, <1>9 DEF SInv, Ids

LEMMA DropStep ==
  ASSUME SInv, TypeOK', DropSample
  PROVE  SInv'
<1> DEFINE s == Head(samples)
<1>1. /\ samples # <<>> /\ samples' = Tail(samples) /\ dropped' = dropped \cup {s}
      /\ UNCHANGED <<queue, todo, arrived, written>>
  BY DEF DropSample, Rest
<1>2. written' \in [Outputs -> Seq(Sample)] /\ Gone' = Gone \cup {s}
  BY <1>1 DEF SInv, TypeOK, Gone
<1>3. /\ Lined' /\ Older' /\ Ids(Everywhere') = 1..arrived'
      /\ s \notin Gone /\ Elements(samples') \subseteq Elements(samples)
  BY <1>1, <1>2, LeavesLoan
<1>4. Apart'
  BY <1>1, <1>3 DEF SInv, Apart, Gone
<1> QED BY <1>1, <1>3, <1>4 DEF SInv, Ids

(* Taking moves the whole queue of an input to the loan. *)
LEMMA TakeStep ==
  ASSUME SInv, TypeOK', Take
  PROVE  SInv'
<1> DEFINE in == Head(todo)
<1>1. /\ todo # <<>> /\ ~loaned /\ samples' = queue[in]
      /\ queue' = [queue EXCEPT ![in] = <<>>]
      /\ UNCHANGED <<todo, written, dropped, arrived>>
  BY DEF Take
<1>2. in \in Inputs /\ queue \in [Inputs -> Seq(Sample)] /\ samples = <<>>
  BY <1>1 DEF SInv, TypeOK
<1>3. Elements(<<>>) = {} /\ InOrder(<<>>)
  BY DEF Elements, InOrder
<1>4. Total(queue') \cup Elements(samples') = Total(queue)
  <2>1. /\ queue' \in [Inputs -> Seq(Sample)] /\ queue'[in] = <<>>
        /\ \A x \in Inputs : x # in => queue'[x] = queue[x]
    BY <1>1, <1>2 DEF TypeOK
  <2>2. DOMAIN queue = Inputs /\ DOMAIN queue' = Inputs
    BY <1>2, <2>1
  <2> QED BY <1>1, <1>2, <2>1, <2>2, TotalTaken
<1>5. /\ queue'[in] = <<>>
      /\ \A x \in Inputs : x # in => queue'[x] = queue[x]
  BY <1>1, <1>2
<1>6. Lined'
  BY <1>1, <1>2, <1>3, <1>5 DEF SInv, Lined
<1>7. Older'
  <2>1. \A t \in Total(queue') : t.input # in
    <3>1. PICK x \in Inputs : TRUE
      BY <1>2
    <3>2. DOMAIN queue' = Inputs
      BY <1>1, <1>2
    <3> QED BY <1>3, <1>5, <3>2 DEF Total, SInv, Lined
  <2>2. Before(Elements(samples'), Total(queue'))
    BY <1>1, <1>2, <2>1 DEF SInv, Lined, Before
  <2>3. Gone' = Gone
    BY <1>1 DEF Gone
  <2>4. Before(Gone', Total(queue') \cup Elements(samples'))
    BY <1>4, <2>3 DEF SInv, Older, Before
  <2> QED BY <2>2, <2>4 DEF Older
<1>8. Everywhere' = Everywhere
  BY <1>1, <1>2, <1>3, <1>4 DEF Everywhere
<1>9. Apart'
  <2>1. \A x \in Total(written) : x \notin Elements(samples')
    <3>1. \A x \in Total(written) : x.id \in Nat
      BY SInvTypes
    <3>2. \A x \in Total(written), t \in Elements(samples') : x.input = t.input => x.id < t.id
      BY <1>4 DEF SInv, Older, Before, Gone
    <3> QED BY <3>1, <3>2
  <2> QED BY <1>1, <2>1 DEF SInv, Apart
<1> QED BY <1>1, <1>6, <1>7, <1>8, <1>9 DEF SInv, Ids

LEMMA SInvStep == ASSUME SInv, TypeOK', [Next]_vars PROVE SInv'
<1>1. CASE \E in \in Inputs, value \in Values, quality \in Qualities : Arrive(in, value, quality)
  BY <1>1, ArriveStep
<1>2. CASE Take
  BY <1>2, TakeStep
<1>3. CASE ForwardSample
  BY <1>3, ForwardStep
<1>4. CASE DropSample
  BY <1>4, DropStep
<1>5. ASSUME samples = <<>> \/ todo' = todo, UNCHANGED <<queue, samples, written, dropped, arrived>>
      PROVE  SInv'
  <2>1. Elements(<<>>) = {}
    BY DEF Elements
  <2>2. Lined'
    BY <1>5, <2>1 DEF SInv, Lined
  <2>3. Gone' = Gone /\ Everywhere' = Everywhere
    BY <1>5 DEF Gone, Everywhere
  <2>4. Older'
    BY <1>5, <2>3 DEF SInv, Older
  <2>5. Apart'
    BY <1>5 DEF SInv, Apart
  <2> QED BY <1>5, <2>2, <2>3, <2>4, <2>5 DEF SInv
<1>6. CASE AddRow \/ on_data_available \/ TakeFails \/ NextInput \/ UNCHANGED vars
  <2>1. samples = <<>> \/ todo' = todo
    BY <1>6 DEF AddRow, on_data_available, TakeFails, NextInput, vars, handler, SInv, TypeOK
  <2>2. UNCHANGED <<queue, samples, written, dropped, arrived>>
    BY <1>6 DEF AddRow, on_data_available, TakeFails, NextInput, vars, handler
  <2> QED BY <1>5, <2>1, <2>2
<1> QED BY <1>1, <1>2, <1>3, <1>4, <1>6 DEF Next

(* Whatever samples are dropped, whatever inputs cannot be taken and       *)
(* whatever the table says, every sample that arrived waits, is on loan,   *)
(* was written once or was dropped, and each output has those of one input *)
(* in the order of their arrival (ForwardingEngine.cxx:101).               *)
THEOREM EverySampleAccounted == Spec => []SamplesAccounted
<1>1. Spec => []SInv
  <2>1. IInv => TypeOK
    BY DEF IInv
  <2>2. SInv /\ TypeOK' /\ [Next]_vars => SInv'
    BY SInvStep
  <2> QED BY <2>1, <2>2, InitSInv, EngineInvariant, PTL DEF Spec
<1>2. SInv => SamplesAccounted
  BY AccountedForm
<1> QED BY <1>1, <1>2, PTL
=============================================================================
