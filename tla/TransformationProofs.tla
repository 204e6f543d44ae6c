------------------------ MODULE TransformationProofs -------------------------
(***************************************************************************)
(* A plugin and one of its transformations at work, for any number of      *)
(* transformations and users, any output types, batches and sizes: the     *)
(* list of the plugin is its live transformations and nothing else stays   *)
(* behind, a loan is fresh and has the numbers of its text, whether a text *)
(* is accepted depends on its size alone, and each step of a call brings   *)
(* its end nearer.                                                         *)
(***************************************************************************)
EXTENDS Transformation, SequenceTheorems, WellFoundedInduction, TLAPS

(* The life of the plugin: one transformation at a time is between its     *)
(* making and its entry in the list, and the length it read still holds.   *)
Stages == {"none", "made", "live", "lost", "gone"}

PluginTypes ==
  /\ use_mutex \in BOOLEAN
  /\ stage \in [Transformations -> Stages]
  /\ transforms \in Seq(Transformations)
  /\ length_read \in [Transformations -> Nat]
  /\ pieces \in [Transformations -> SUBSET AllPieces]
  /\ types_refused \subseteq Transformations

OneBuilder ==
  \A t \in Transformations : stage[t] = "made" =>
    /\ length_read[t] = Len(transforms)
    /\ use_mutex => plugin_lock = t
    /\ \A u \in Transformations : stage[u] = "made" => u = t

RefusedAreGone == \A t \in types_refused : stage[t] = "gone"

PluginInv == PluginTypes /\ ListIsLive /\ OneBuilder /\ RefusedAreGone /\ LeftBehind

-----------------------------------------------------------------------------
(* Lists from which the first occurrence of an element is removed.         *)
Below == {pair \in Nat \X Nat : pair[1] < pair[2]}

LEMMA BelowIsWellFounded == IsWellFoundedOn(Below, Nat)
<1>1. Below = OpToRel(<, Nat)
  BY Zenon DEF Below, OpToRel
<1> QED BY <1>1, NatLessThanWellFounded

LEMMA SmallestExists ==
  ASSUME NEW I, I \subseteq Nat, I # {}
  PROVE  \E i \in I : \A j \in I : i <= j
<1>1. PICK i \in I : \A j \in I : <<j, i>> \notin Below
  BY Zenon, BelowIsWellFounded, WFMin
<1>2. ASSUME NEW j \in I PROVE i <= j
  <2>1. <<j, i>> \notin Below /\ i \in Nat /\ j \in Nat
    BY <1>1, <1>2
  <2>2. ~(j < i)
    BY <2>1 DEF Below
  <2> QED BY <2>1, <2>2
<1> QED BY <1>2

LEMMA RemoveFirstTakesOne ==
  ASSUME NEW S, NEW s \in Seq(S), NEW e, Contains(s, e)
  PROVE  \E i \in 1 .. Len(s) : s[i] = e /\ RemoveFirst(s, e) = RemoveAt(s, i)
<1> DEFINE I == {i \in 1 .. Len(s) : s[i] = e}
<1>1. PICK i \in I : \A j \in I : i <= j
  <2>1. I \subseteq Nat /\ I # {}
    BY DEF Contains
  <2> QED BY <2>1, SmallestExists
<1>2. SelectInSeq(s, LAMBDA v : v = e) \in I
  <2>1. Min(I) \in I
    BY <1>1 DEF Min
  <2> QED BY <1>1, <2>1, Zenon DEF SelectInSeq
<1>3. RemoveFirst(s, e) = RemoveAt(s, SelectInSeq(s, LAMBDA v : v = e))
  BY Zenon DEF RemoveFirst, Contains
<1> QED BY <1>2, <1>3, Zenon

LEMMA RemoveAtMovesUp ==
  ASSUME NEW S, NEW s \in Seq(S), NEW i \in 1 .. Len(s)
  PROVE  /\ RemoveAt(s, i) \in Seq(S)
         /\ Len(RemoveAt(s, i)) = Len(s) - 1
         /\ \A j \in 1 .. Len(s) - 1 : RemoveAt(s, i)[j] = s[IF j < i THEN j ELSE j + 1]
<1> DEFINE a == SubSeq(s, 1, i - 1)
           b == SubSeq(s, i + 1, Len(s))
           m == Len(s)
<1>0. m \in Nat /\ i \in Nat /\ i >= 1 /\ i <= m
  OBVIOUS
<1>1. a \in Seq(S) /\ Len(a) = i - 1 /\ \A j \in 1 .. i - 1 : a[j] = s[j]
  BY <1>0
<1>2. b \in Seq(S) /\ Len(b) = m - i /\ \A j \in 1 .. m - i : b[j] = s[i + j]
  <2>1. b \in Seq(S) /\ Len(b) = m - i
    BY <1>0
  <2>2. \A j \in 1 .. m - i : b[j] = s[(i + 1) + j - 1]
    BY <1>0
  <2>3. \A j \in 1 .. m - i : (i + 1) + j - 1 = i + j
    BY <1>0
  <2> QED BY <2>1, <2>2, <2>3
<1> HIDE DEF a, b
<1>3. /\ a \o b \in Seq(S) /\ Len(a \o b) = m - 1
      /\ \A j \in 1 .. m - 1 : (a \o b)[j] = IF j <= i - 1 THEN a[j] ELSE b[j - (i - 1)]
  <2>1. /\ a \o b \in Seq(S) /\ Len(a \o b) = Len(a) + Len(b)
        /\ \A j \in 1 .. Len(a) + Len(b) : (a \o b)[j] = IF j <= Len(a) THEN a[j] ELSE b[j - Len(a)]
    BY <1>1, <1>2, ConcatProperties
  <2>2. Len(a) + Len(b) = m - 1
    BY <1>0, <1>1, <1>2
  <2> QED BY <1>1, <2>1, <2>2
<1>4. ASSUME NEW j \in 1 .. m - 1 PROVE (a \o b)[j] = s[IF j < i THEN j ELSE j + 1]
  <2>1. CASE j < i
    <3>1. j <= i - 1 /\ j \in 1 .. i - 1
      BY <1>0, <2>1
    <3> QED BY <1>1, <1>3, <2>1, <3>1
  <2>2. CASE ~(j < i)
    <3>1. ~(j <= i - 1) /\ j - (i - 1) \in 1 .. m - i /\ i + (j - (i - 1)) = j + 1
      BY <1>0, <2>2
    <3> QED BY <1>2, <1>3, <2>2, <3>1
  <2> QED BY <2>1, <2>2
<1> QED BY <1>3, <1>4 DEF RemoveAt, a, b

(* A list without repetitions loses exactly the element.                   *)
LEMMA RemoveFirstFacts ==
  ASSUME NEW S, NEW s \in Seq(S), NEW e, Contains(s, e), IsInjective(s)
  PROVE  /\ RemoveFirst(s, e) \in Seq(S)
         /\ Len(RemoveFirst(s, e)) = Len(s) - 1
         /\ IsInjective(RemoveFirst(s, e))
         /\ ToSet(RemoveFirst(s, e)) = ToSet(s) \ {e}
<1>1. PICK i \in 1 .. Len(s) : s[i] = e /\ RemoveFirst(s, e) = RemoveAt(s, i)
  BY RemoveFirstTakesOne
<1> DEFINE r == RemoveFirst(s, e)
           m == Len(s)
           from(j) == IF j < i THEN j ELSE j + 1
<1>2. /\ r \in Seq(S) /\ Len(r) = m - 1
      /\ \A j \in 1 .. m - 1 : r[j] = s[from(j)]
  BY <1>1, RemoveAtMovesUp
<1>3. /\ m \in Nat /\ i \in 1 .. m /\ DOMAIN s = 1 .. m /\ DOMAIN r = 1 .. m - 1
      /\ \A a, b \in 1 .. m : s[a] = s[b] => a = b
  <2>1. m \in Nat /\ DOMAIN s = 1 .. m /\ i \in 1 .. m
    OBVIOUS
  <2>2. DOMAIN r = 1 .. Len(r)
    BY <1>2
  <2> QED BY <1>2, <2>1, <2>2 DEF IsInjective
<1>4. /\ \A j \in 1 .. m - 1 : from(j) \in 1 .. m /\ from(j) # i
      /\ \A j, k \in 1 .. m - 1 : from(j) = from(k) => j = k
      /\ \A k \in 1 .. m : k # i => \E j \in 1 .. m - 1 : from(j) = k
  <2>1. ASSUME NEW k \in 1 .. m, k # i PROVE \E j \in 1 .. m - 1 : from(j) = k
    <3>1. CASE k < i
      <4>1. k \in 1 .. m - 1 /\ from(k) = k
        BY <1>3, <3>1
      <4> QED BY <4>1
    <3>2. CASE k > i
      <4>1. k - 1 \in 1 .. m - 1 /\ from(k - 1) = k
        BY <1>3, <3>2
      <4> QED BY <4>1
    <3> QED BY <1>3, <2>1, <3>1, <3>2
  <2>2. \A j \in 1 .. m - 1 : from(j) \in 1 .. m /\ from(j) # i
    BY <1>3
  <2>3. \A j, k \in 1 .. m - 1 : from(j) = from(k) => j = k
    BY <1>3
  <2> QED BY <2>1, <2>2, <2>3
<1> HIDE DEF r, from
<1>5. \A j, k \in 1 .. m - 1 : r[j] = r[k] => j = k
  BY <1>2, <1>3, <1>4
<1>6. ASSUME NEW x PROVE x \in ToSet(r) <=> x \in ToSet(s) /\ x # e
  <2>1. ASSUME NEW j \in 1 .. m - 1, x = r[j] PROVE x \in ToSet(s) /\ x # e
    BY <1>1, <1>2, <1>3, <1>4, <2>1 DEF ToSet
  <2>2. ASSUME NEW k \in 1 .. m, x = s[k], x # e PROVE x \in ToSet(r)
    <3>1. k # i
      BY <1>1, <2>2
    <3>2. PICK j \in 1 .. m - 1 : from(j) = k
      BY <1>4, <3>1
    <3> QED BY <1>2, <1>3, <2>2, <3>2 DEF ToSet
  <2> QED BY <1>3, <2>1, <2>2 DEF ToSet
<1>7. ToSet(r) = ToSet(s) \ {e}
  BY <1>6
<1> QED BY <1>2, <1>3, <1>5, <1>7 DEF r, IsInjective

LEMMA AppendToSet ==
  ASSUME NEW S, NEW s \in Seq(S), NEW e \in S
  PROVE  /\ Append(s, e) \in Seq(S)
         /\ ToSet(Append(s, e)) = ToSet(s) \cup {e}
         /\ IsInjective(s) /\ e \notin ToSet(s) => IsInjective(Append(s, e))
<1> DEFINE r == Append(s, e)
           m == Len(s)
<1>1. /\ r \in Seq(S) /\ m \in Nat /\ DOMAIN s = 1 .. m /\ DOMAIN r = 1 .. m + 1
      /\ \A j \in 1 .. m : r[j] = s[j]
      /\ r[m + 1] = e
  BY AppendProperties
<1> HIDE DEF r, m
<1>2. \A j \in 1 .. m + 1 : j \in 1 .. m \/ j = m + 1
  BY <1>1
<1>3. ASSUME NEW x PROVE x \in ToSet(r) <=> x \in ToSet(s) \/ x = e
  BY <1>1, <1>2 DEF ToSet
<1>4. IsInjective(s) /\ e \notin ToSet(s) => IsInjective(r)
  BY <1>1, <1>2 DEF ToSet, IsInjective
<1>5. ToSet(r) = ToSet(s) \cup {e}
  BY <1>3
<1> QED BY <1>1, <1>4, <1>5 DEF r

LEMMA InitPluginInv == PluginInit => PluginInv
<1> SUFFICES ASSUME PluginInit PROVE PluginInv
  OBVIOUS
<1>1. <<>> \in Seq(Transformations) /\ IsInjective(<<>>) /\ ToSet(<<>>) = {}
  BY DEF IsInjective, ToSet
<1>2. PluginTypes
  BY <1>1 DEF PluginInit, PluginTypes, Stages
<1>3. ListIsLive
  <2>1. Live = {}
    BY DEF PluginInit, Live
  <2> QED BY <1>1, <2>1 DEF PluginInit, ListIsLive
<1> QED BY <1>2, <1>3 DEF PluginInit, PluginInv, OneBuilder, RefusedAreGone, LeftBehind

(* What neither builds nor deletes a transformation.                       *)
LEMMA PluginMoves ==
  ASSUME PluginInv, UNCHANGED <<use_mutex, transforms, stage, length_read, pieces, types_refused>>,
         UNCHANGED plugin_lock, plugin' = "gone" => user_plugin' # "owned"
  PROVE  PluginInv'
<1>1. Live' = Live
  BY DEF Live
<1> QED BY <1>1 DEF PluginInv, PluginTypes, ListIsLive, OneBuilder, RefusedAreGone, LeftBehind

LEMMA NewTransformation ==
  ASSUME PluginInv, NEW t \in Transformations,
         NEW fails \in {"nothing", "state", "config", "properties", "parent", "types"},
         T_new(t, fails)
  PROVE  PluginInv'
<1>0. /\ stage[t] = "none" /\ LockedOut(t) /\ plugin = "alive"
      /\ UNCHANGED <<use_mutex, plugin, user_plugin, transforms>>
  BY DEF T_new
<1>1. \A u \in Transformations : stage[u] # "made"
  <2>1. CASE use_mutex
    BY <1>0, <2>1, NoOneAssumption DEF LockedOut, PluginInv, OneBuilder
  <2>2. CASE ~use_mutex
    BY <1>0, <2>2 DEF LockedOut
  <2> QED BY <2>1, <2>2
<1>2. CASE fails = "nothing"
  <2>1. /\ stage' = [stage EXCEPT ![t] = "made"]
        /\ pieces' = [pieces EXCEPT ![t] = AllPieces]
        /\ length_read' = [length_read EXCEPT ![t] = Len(transforms)]
        /\ plugin_lock' = Holder(t) /\ types_refused' = types_refused
    BY <1>2 DEF T_new
  <2>2. PluginTypes'
    BY <1>0, <2>1 DEF PluginInv, PluginTypes, Stages
  <2>3. ListIsLive'
    <3>1. Live' = Live
      BY <1>0, <2>1 DEF PluginInv, PluginTypes, Live
    <3> QED BY <1>0, <2>1, <3>1 DEF PluginInv, PluginTypes, ListIsLive
  <2>4. OneBuilder'
    BY <1>0, <1>1, <2>1 DEF PluginInv, PluginTypes, OneBuilder, Holder
  <2>5. RefusedAreGone' /\ LeftBehind'
    BY <1>0, <2>1 DEF PluginInv, PluginTypes, RefusedAreGone, LeftBehind
  <2> QED BY <2>2, <2>3, <2>4, <2>5 DEF PluginInv
<1>3. CASE fails # "nothing"
  <2>1. /\ stage' = [stage EXCEPT ![t] = "gone"]
        /\ pieces' = [pieces EXCEPT ![t] = Released(fails)]
        /\ types_refused' = IF fails = "types" THEN types_refused \cup {t} ELSE types_refused
        /\ UNCHANGED <<length_read, plugin_lock>>
    BY <1>3 DEF T_new
  <2>2. PluginTypes'
    BY <1>0, <2>1 DEF PluginInv, PluginTypes, Stages, Released, AllPieces
  <2>3. ListIsLive'
    <3>1. Live' = Live
      BY <1>0, <2>1 DEF PluginInv, PluginTypes, Live
    <3> QED BY <1>0, <2>1, <3>1 DEF PluginInv, PluginTypes, ListIsLive
  <2>4. OneBuilder'
    BY <1>0, <1>1, <2>1 DEF PluginInv, PluginTypes, OneBuilder
  <2>5. RefusedAreGone'
    BY <1>0, <2>1 DEF PluginInv, PluginTypes, RefusedAreGone
  <2>6. LeftBehind'
    BY <1>0, <2>1 DEF PluginInv, PluginTypes, RefusedAreGone, LeftBehind, Released
  <2> QED BY <2>2, <2>3, <2>4, <2>5, <2>6 DEF PluginInv
<1> QED BY <1>2, <1>3

LEMMA InitializedTransformation ==
  ASSUME PluginInv, NEW t \in Transformations, NEW fails \in BOOLEAN,
         initialize_transformation(t, fails)
  PROVE  PluginInv'
<1>0. /\ stage[t] = "made" /\ plugin_lock' = NoOne
      /\ UNCHANGED <<use_mutex, plugin, user_plugin, length_read, types_refused>>
      /\ \A u \in Transformations : stage[u] = "made" => u = t
      /\ t \notin types_refused
  BY DEF initialize_transformation, PluginInv, OneBuilder, RefusedAreGone
<1>1. CASE fails
  <2>1. /\ pieces' = [pieces EXCEPT ![t] = @ \ Freed]
        /\ stage' = [stage EXCEPT ![t] = "gone"]
        /\ transforms' = transforms
    BY <1>1 DEF initialize_transformation, Deleted
  <2>2. PluginTypes'
    BY <1>0, <2>1 DEF PluginInv, PluginTypes, Stages
  <2>3. ListIsLive'
    <3>1. Live' = Live
      BY <1>0, <2>1 DEF PluginInv, PluginTypes, Live
    <3> QED BY <1>0, <2>1, <3>1 DEF PluginInv, PluginTypes, ListIsLive
  <2>4. OneBuilder' /\ RefusedAreGone'
    BY <1>0, <2>1 DEF PluginInv, PluginTypes, OneBuilder, RefusedAreGone
  <2>5. LeftBehind'
    <3>1. pieces'[t] = {}
      BY <1>0, <2>1 DEF PluginInv, PluginTypes, LeftBehind, Freed
    <3> QED BY <1>0, <2>1, <3>1 DEF PluginInv, PluginTypes, LeftBehind
  <2> QED BY <2>2, <2>3, <2>4, <2>5 DEF PluginInv
<1>2. CASE ~fails
  <2>1. /\ transforms' = Registered(t)
        /\ stage' = [stage EXCEPT ![t] = "live"]
        /\ pieces' = pieces
    BY <1>2 DEF initialize_transformation
  <2>2. transforms' = Append(transforms, t)
    <3>1. length_read[t] = Len(transforms) /\ transforms \in Seq(Transformations)
      BY <1>0 DEF PluginInv, PluginTypes, OneBuilder
    <3>2. SubSeq(transforms, 1, Len(transforms)) = transforms
      BY <3>1
    <3> QED BY <2>1, <3>1, <3>2 DEF Registered
  <2>3. /\ transforms' \in Seq(Transformations)
        /\ ToSet(transforms') = ToSet(transforms) \cup {t}
        /\ IsInjective(transforms')
    <3>1. t \notin ToSet(transforms)
      BY <1>0 DEF PluginInv, ListIsLive, Live
    <3> QED BY <2>2, <3>1, AppendToSet DEF PluginInv, PluginTypes, ListIsLive
  <2>4. PluginTypes'
    BY <1>0, <2>1, <2>3 DEF PluginInv, PluginTypes, Stages
  <2>5. ListIsLive'
    <3>1. Live' = Live \cup {t}
      BY <1>0, <2>1 DEF PluginInv, PluginTypes, Live
    <3> QED BY <1>0, <2>1, <2>3, <3>1 DEF PluginInv, PluginTypes, ListIsLive
  <2>6. OneBuilder' /\ RefusedAreGone' /\ LeftBehind'
    BY <1>0, <2>1 DEF PluginInv, PluginTypes, OneBuilder, RefusedAreGone, LeftBehind
  <2> QED BY <2>4, <2>5, <2>6 DEF PluginInv
<1> QED BY <1>1, <1>2

LEMMA DeletedTransformation ==
  ASSUME PluginInv, NEW t \in Transformations, delete_transformation(t)
  PROVE  PluginInv'
<1>0. /\ stage[t] = "live" /\ LockedOut(t)
      /\ UNCHANGED <<use_mutex, plugin, user_plugin, plugin_lock, length_read, types_refused>>
      /\ t \notin types_refused
  BY DEF delete_transformation, PluginInv, RefusedAreGone
<1>1. \A u \in Transformations : stage[u] # "made"
  <2>1. CASE use_mutex
    BY <1>0, <2>1, NoOneAssumption DEF LockedOut, PluginInv, OneBuilder
  <2>2. CASE ~use_mutex
    BY <1>0, <2>2 DEF LockedOut
  <2> QED BY <2>1, <2>2
<1>2. Contains(transforms, t)
  <2>1. t \in ToSet(transforms) /\ transforms \in Seq(Transformations)
    BY <1>0 DEF PluginInv, PluginTypes, ListIsLive, Live
  <2> QED BY <2>1 DEF ToSet, Contains
<1>3. /\ transforms' = RemoveFirst(transforms, t)
      /\ pieces' = [pieces EXCEPT ![t] = @ \ Freed]
      /\ stage' = [stage EXCEPT ![t] = "gone"]
  BY <1>2 DEF delete_transformation, WithoutEntry, Deleted
<1>4. /\ transforms' \in Seq(Transformations)
      /\ ToSet(transforms') = ToSet(transforms) \ {t}
      /\ IsInjective(transforms')
  BY <1>2, <1>3, RemoveFirstFacts DEF PluginInv, PluginTypes, ListIsLive
<1>5. PluginTypes'
  BY <1>0, <1>3, <1>4 DEF PluginInv, PluginTypes, Stages
<1>6. ListIsLive'
  <2>1. Live' = Live \ {t}
    BY <1>0, <1>3 DEF PluginInv, PluginTypes, Live
  <2> QED BY <1>0, <1>3, <1>4, <2>1 DEF PluginInv, PluginTypes, ListIsLive
<1>7. OneBuilder' /\ RefusedAreGone'
  BY <1>0, <1>1, <1>3 DEF PluginInv, PluginTypes, OneBuilder, RefusedAreGone
<1>8. LeftBehind'
  <2>1. pieces'[t] = {}
    BY <1>0, <1>3 DEF PluginInv, PluginTypes, LeftBehind, Freed
  <2> QED BY <1>0, <1>3, <2>1 DEF PluginInv, PluginTypes, LeftBehind
<1> QED BY <1>5, <1>6, <1>7, <1>8 DEF PluginInv

LEMMA PluginStepKeeps == ASSUME PluginInv, PluginStep PROVE PluginInv'
<1>1. ASSUME NEW fails \in {"nothing", "functions", "lock", "parent"}, TPlugin_new(fails)
      PROVE  PluginInv'
  <2>1. plugin' = "gone" => user_plugin' # "owned"
    BY <1>1 DEF TPlugin_new
  <2> QED BY <1>1, <2>1, PluginMoves DEF TPlugin_new
<1>2. CASE TPlugin_delete
  <2>1. Live = {}
    BY <1>2 DEF TPlugin_delete, Live
  <2>2. transforms = <<>>
    <3>1. transforms \in Seq(Transformations) /\ ToSet(transforms) = {}
      BY <2>1 DEF PluginInv, PluginTypes, ListIsLive
    <3>2. DOMAIN transforms = {}
      BY <3>1 DEF ToSet
    <3> QED BY <3>1, <3>2, EmptySeq
  <2>3. user_plugin' = "freed"
    BY <1>2, <2>2 DEF TPlugin_delete
  <2> QED BY <1>2, <2>3, PluginMoves DEF TPlugin_delete
<1> QED BY <1>1, <1>2, NewTransformation, InitializedTransformation DEF PluginStep

LEMMA PluginKept == PluginInv /\ [Next]_vars => PluginInv'
<1> SUFFICES ASSUME PluginInv, [Next]_vars PROVE PluginInv'
  OBVIOUS
<1>1. CASE UNCHANGED pluginVars
  <2>1. UNCHANGED <<use_mutex, transforms, stage, length_read, pieces, types_refused>>
        /\ UNCHANGED <<plugin_lock, plugin, user_plugin>>
    BY <1>1 DEF pluginVars
  <2> QED BY <2>1, PluginMoves DEF PluginInv, LeftBehind
<1>2. CASE Build
  BY <1>2, PluginStepKeeps DEF Build
<1>3. ASSUME NEW t \in Transformations, Delete(t) PROVE PluginInv'
  BY <1>3, DeletedTransformation DEF Delete
<1>4. ASSUME NEW u \in Users, NEW messages \in Batches, transform(u, messages)
      PROVE  PluginInv'
  BY <1>1, <1>4 DEF transform
<1>5. ASSUME NEW u \in Users, Convert(u) \/ return_loan(u) PROVE PluginInv'
  BY <1>1, <1>5 DEF Convert, return_loan
<1>6. CASE update
  BY <1>1, <1>6 DEF update
<1> QED BY <1>1, <1>2, <1>3, <1>4, <1>5, <1>6 DEF Next, vars

LEMMA PluginInvariant == Spec => []PluginInv
<1>1. Init => PluginInv
  BY InitPluginInv DEF Init
<1> QED BY <1>1, PluginKept, PTL DEF Spec

(* The list of the plugin has each live transformation once and no other,  *)
(* for any number of them, with locks or without, whatever fails: no       *)
(* deletion is refused (finalize_transformation finds its entry).          *)
THEOREM ListIsLiveTheorem == Spec => []ListIsLive
<1>1. PluginInv => ListIsLive
  BY DEF PluginInv
<1> QED BY <1>1, PluginInvariant, PTL

(* What is left of a failed or deleted transformation is the parent of one *)
(* whose types were refused, and a plugin that is gone has its functions   *)
(* freed.                                                                  *)
THEOREM LeftBehindTheorem == Spec => []LeftBehind
<1>1. PluginInv => LeftBehind
  BY DEF PluginInv
<1> QED BY <1>1, PluginInvariant, PTL

-----------------------------------------------------------------------------
(* The calls: one user at a time works or has the loan, and the read       *)
(* buffer has a slot for each of its messages.                             *)
Messages == UNION {ToSet(messages) : messages \in Batches}
Entries == [body : Messages, id : Nat \ {0}]
Cells == [id : Nat, value : Int]
Full == [Members -> Cells]

CallTypes ==
  /\ pc \in [Users -> {"idle", "work", "loan"}]
  /\ batch \in [Users -> Seq(Entries)]
  /\ samples \in Seq(Full \cup {NoSample})
  /\ made \in Nat /\ sent \in Nat
  /\ mappings \in OutputTypes \cup {<<>>}

OneCall ==
  /\ \A u, v \in Users : pc[u] # "idle" /\ pc[v] # "idle" => u = v
  /\ loaned <=> \E u \in Users : pc[u] = "loan"
  /\ \A u \in Users :
       /\ pc[u] # "idle" => use_mutex \/ u = FirstUser
       /\ pc[u] = "work" => /\ use_mutex => lock = u
                            /\ made < Len(batch[u])
       /\ pc[u] = "loan" => made = Len(batch[u])
       /\ pc[u] # "idle" => Len(batch[u]) <= Len(samples)

(* A slot is empty, left over from a failed call, or made for the call     *)
(* under way; and a slot that was made is fresh.                           *)
Fresh(sample, entry, i) ==
  /\ sample # NoSample
  /\ \A m \in Members :
       \/ sample[m] = Given(entry)[m]
       \/ i \in residue /\ Given(entry)[m] = Nothing

MadeWell(sample, entry, i) ==
  /\ Fresh(sample, entry, i)
  /\ kind = "JSON in" => deserialize_ok(entry.body)

Vacant(i) == samples[i] \in {NoSample, Empty} \/ i \in residue

SlotsInv ==
  \A i \in DOMAIN samples :
    Vacant(i) \/ \E u \in Users : pc[u] # "idle" /\ i \in 1 .. made

MadeInv ==
  \A u \in Users : pc[u] # "idle" =>
    \A i \in 1 .. made : MadeWell(samples[i], batch[u][i], i)

CallInv == CallTypes /\ OneCall /\ SlotsInv /\ MadeInv

-----------------------------------------------------------------------------
(* Casts. *)
LEMMA Division ==
  ASSUME NEW x \in Int, NEW n \in Nat \ {0}
  PROVE  /\ x % n \in 0 .. n - 1
         /\ \E q \in Int : x = n * q + (x % n)
<1>1. x \div n \in Int /\ x % n \in 0 .. n - 1
  OBVIOUS
<1>2. x = n * (x \div n) + (x % n)
  OBVIOUS
<1> QED BY <1>1, <1>2

LEMMA OneResidue ==
  ASSUME NEW n \in Nat \ {0}, NEW q \in Int, NEW r \in 0 .. n - 1
  PROVE  (n * q + r) % n = r
<1> DEFINE x == n * q + r
           t == x % n
<1>1. x \in Int
  OBVIOUS
<1> HIDE DEF x
<1>2. PICK p \in Int : x = n * p + t /\ t \in 0 .. n - 1
  BY <1>1, Division
<1> HIDE DEF t
<1>3. n * (q - p) = t - r
  BY <1>2 DEF x
<1>4. t - r < n /\ t - r > -n
  BY <1>2
<1>5. q = p
  <2>1. CASE q - p >= 1
    BY <1>2, <1>3, <1>4, <2>1
  <2>2. CASE q - p <= -1
    BY <1>2, <1>3, <1>4, <2>2
  <2> QED BY <1>2, <2>1, <2>2
<1>6. t = r
  BY <1>2, <1>5 DEF x
<1> QED BY <1>6 DEF t, x

LEMMA HalvesFacts ==
  ASSUME NEW type \in IntegerTypes
  PROVE  /\ HalfOf(type) \in Nat \ {0} /\ Modulus(type) = 2 * HalfOf(type)
         /\ HalfOf(type) <= Half["longlong"] /\ Half["longlong"] \in Nat
         /\ HalfOf(type) >= 128
         /\ type = "octet" => HalfOf(type) = 128
         /\ type = "ulonglong" => HalfOf(type) = Half["longlong"]
  BY HalfAssumption DEF IntegerTypes, Signed, Unsigned, HalfOf, Modulus

(* A cast gives a value of the type, the number itself if it is one, and   *)
(* otherwise another number of its residue class.                          *)
LEMMA CastFacts ==
  ASSUME NEW type \in IntegerTypes, NEW n \in Int
  PROVE  /\ Cast(type, n) \in Values(type) /\ Cast(type, n) \in Int
         /\ n \in Values(type) => Cast(type, n) = n
         /\ (n - Cast(type, n)) % Modulus(type) = 0
<1> DEFINE h == HalfOf(type)
           m == Modulus(type)
           low == n % m
           c == Cast(type, n)
<1>1. h \in Nat \ {0} /\ m = 2 * h /\ m \in Nat \ {0}
  BY HalvesFacts
<1>2. c = IF type \in Signed /\ low >= h THEN low - m ELSE low
  BY DEF Cast
<1>3. Values(type) = IF type \in Signed THEN -h .. h - 1 ELSE 0 .. m - 1
  BY DEF Values
<1> HIDE DEF h, m, c, low
<1>4. low \in 0 .. m - 1 /\ \E q \in Int : n = m * q + low
  BY <1>1, Division DEF low
<1>5. c \in Values(type) /\ c \in Int
  BY <1>1, <1>2, <1>3, <1>4
<1>6. (n - c) % m = 0
  <2>1. PICK q \in Int : n = m * q + low
    BY <1>4
  <2>2. n - c = m * q + 0 \/ n - c = m * (q + 1) + 0
    BY <1>1, <1>2, <1>4, <2>1
  <2> QED BY <1>1, <2>2, OneResidue
<1>7. ASSUME n \in Values(type) PROVE c = n
  <2>1. CASE n >= 0
    <3>1. n = m * 0 + n /\ n \in 0 .. m - 1
      BY <1>1, <1>3, <1>7, <2>1
    <3>2. low = n
      BY <1>1, <3>1, OneResidue DEF low
    <3> QED BY <1>1, <1>2, <1>3, <1>7, <3>2
  <2>2. CASE n < 0
    <3>1. n = m * (-1) + (n + m) /\ n + m \in 0 .. m - 1 /\ n + m >= h /\ type \in Signed
      BY <1>1, <1>3, <1>7, <2>2
    <3>2. low = n + m
      <4>1. (m * (-1) + (n + m)) % m = n + m
        BY <1>1, <3>1, OneResidue
      <4> QED BY <3>1, <4>1 DEF low
    <3> QED BY <1>1, <1>2, <3>1, <3>2
  <2> QED BY <2>1, <2>2
<1> QED BY <1>5, <1>6, <1>7 DEF c, m

LEMMA OctetText ==
  ASSUME NEW n \in 0 .. 255
  PROVE  /\ HexReadInDecimal(n) \in 0 .. 255
         /\ n < 10 => HexReadInDecimal(n) = n
         /\ n >= 10 => HexReadInDecimal(n) < n
<1>1. PICK high \in 0 .. 15, low \in 0 .. 15 :
        n = 16 * high + low /\ high = n \div 16 /\ low = n % 16
  <2>1. n \div 16 \in 0 .. 15 /\ n % 16 \in 0 .. 15 /\ n = 16 * (n \div 16) + (n % 16)
    OBVIOUS
  <2> QED BY <2>1
<1>2. HexReadInDecimal(n) = CASE high > 9 \/ (high = 0 /\ low > 9) -> 0
                               [] high \in 1 .. 9 /\ low > 9 -> high
                               [] OTHER -> 10 * high + low
  BY <1>1 DEF HexReadInDecimal
<1> QED BY <1>1, <1>2

(* A survivor is what is read from the text that is written of it          *)
(* (PrimitiveFieldTransformation.c, serialize and deserialize).            *)
LEMMA SurvivorIsRead ==
  ASSUME NEW type, NEW n \in Survivors(type)
  PROVE  FieldValue(type, FieldText(type, n)) = {n}
<1>1. CASE type = "boolean"
  <2>1. n \in {0, 1}
    BY <1>1 DEF Survivors, IntegerTypes, Signed, Unsigned
  <2>2. "octet" \in IntegerTypes /\ n \in Values("octet") /\ n \in Int
    BY <2>1, HalvesFacts DEF IntegerTypes, Signed, Unsigned, Values
  <2>3. FieldValue("boolean", FieldText("boolean", n)) = BooleanValue(n)
    BY DEF FieldText, FieldValue, NeverRead, IntegerTypes, Signed, Unsigned
  <2>4. BooleanValue(n) = {n}
    BY <2>1, <2>2, CastFacts DEF BooleanValue
  <2> QED BY <1>1, <2>3, <2>4
<1>2. CASE type = "octet"
  <2>1. n \in 0 .. 9
    BY <1>2 DEF Survivors, IntegerTypes, Signed, Unsigned
  <2>2. /\ "octet" \in IntegerTypes /\ n \in Values("octet")
        /\ Half["longlong"] \in Nat /\ Half["longlong"] >= 128
    BY <2>1, HalvesFacts DEF IntegerTypes, Signed, Unsigned, Values
  <2>3. FieldText("octet", n) = n
    BY <2>1, OctetText DEF FieldText
  <2>4. ReadAsLong(n) = n
    BY <2>1, <2>2 DEF ReadAsLong, Largest
  <2>5. FieldValue("octet", n) = {Cast("octet", n)}
    BY <2>2, <2>4 DEF FieldValue, NeverRead
  <2>6. Cast("octet", n) = n
    BY <2>1, <2>2, CastFacts
  <2> QED BY <1>2, <2>3, <2>5, <2>6
<1>3. CASE type \in {"ushort", "ulong"}
  <2>1. n \in Values(type)
    BY <1>3 DEF Survivors, IntegerTypes, Signed, Unsigned
  <2>2. n \in Int /\ type \in IntegerTypes
    BY <1>3, <2>1, HalvesFacts DEF Values, IntegerTypes, Signed, Unsigned
  <2>3. FieldValue(type, FieldText(type, n)) = {Cast(type, n)}
    BY <1>3 DEF FieldText, FieldValue, NeverRead
  <2> QED BY <2>1, <2>2, <2>3, CastFacts
<1>4. CASE type \in IntegerTypes \ {"enum", "octet", "ushort", "ulong"}
  <2>1. n \in Values(type) /\ n <= Largest
    <3>1. CASE type = "ulonglong"
      BY <3>1, HalvesFacts DEF Survivors, Values, Largest, IntegerTypes, Signed, Unsigned
    <3>2. CASE type # "ulonglong"
      <4>1. n \in Values(type)
        BY <1>4, <3>2 DEF Survivors, IntegerTypes, Signed, Unsigned
      <4> QED BY <1>4, <3>2, <4>1, HalvesFacts DEF Values, Largest, IntegerTypes, Signed, Unsigned
    <3> QED BY <3>1, <3>2
  <2>2. n \in Int /\ type # "octet" /\ type # "boolean" /\ type \notin NeverRead
    BY <1>4, <2>1, HalvesFacts DEF Values, IntegerTypes, Signed, Unsigned, NeverRead
  <2>3. FieldValue(type, FieldText(type, n)) = {Cast(type, ReadAsLong(n))}
    BY <1>4, <2>2 DEF FieldText, FieldValue, IntegerTypes, Signed, Unsigned
  <2>4. ReadAsLong(n) = n
    <3>1. Half["longlong"] \in Nat
      BY HalfAssumption
    <3>2. Largest \in Int
      BY <3>1 DEF Largest
    <3> HIDE DEF Largest
    <3> QED BY <2>1, <2>2, <3>2 DEF ReadAsLong
  <2> QED BY <1>4, <2>1, <2>2, <2>3, <2>4, CastFacts
<1>5. type \in IntegerTypes \ {"enum"} \/ type = "boolean"
  BY DEF Survivors, IntegerTypes, Signed, Unsigned
<1> QED BY <1>1, <1>2, <1>3, <1>4, <1>5

LEMMA GivenKept ==
  ASSUME UNCHANGED <<kind, mappings>>
  PROVE  \A entry : /\ Given(entry)' = Given(entry)
                    /\ deserialize_ok(entry.body)' = deserialize_ok(entry.body)
  BY DEF Given, Stored, SetBy, Reached, FailsAt, Missing, deserialize_ok

LEMMA SampleFacts ==
  /\ "text" \in Members /\ Nothing \in Cells
  /\ Empty \in Full /\ NoSample \notin Full
  /\ \A m \in Members : Empty[m] = Nothing
<1>1. "text" \in Members /\ Nothing \in Cells
  BY DEF Members, Nothing, Cells
<1>2. Empty \in Full /\ \A m \in Members : Empty[m] = Nothing
  BY <1>1 DEF Empty, Full
<1>3. DOMAIN NoSample = {}
  BY DEF NoSample
<1>4. NoSample \notin Full
  BY <1>1, <1>3 DEF Full
<1> QED BY <1>1, <1>2, <1>4

LEMMA EntryFacts ==
  ASSUME NEW entry \in Entries
  PROVE  /\ entry.id \in Nat \ {0} /\ entry.body.size \in Nat \ {0}
         /\ \A name \in DOMAIN entry.body.json : entry.body.json[name].value \in Int
<1>1. entry.body \in Messages /\ entry.id \in Nat \ {0}
  BY DEF Entries
<1>2. PICK messages \in Batches : entry.body \in ToSet(messages)
  BY <1>1 DEF Messages
<1> QED BY <1>1, <1>2, BatchesAssumption

LEMMA MemberFacts ==
  ASSUME mappings \in OutputTypes \cup {<<>>}
  PROVE  /\ DOMAIN mappings = 1 .. Len(mappings) /\ Len(mappings) \in Nat
         /\ \A i \in DOMAIN mappings : mappings[i].name \in Members
         /\ \A i, j \in DOMAIN mappings : mappings[i].name = mappings[j].name => i = j
<1>1. CASE mappings = <<>>
  BY <1>1
<1>2. CASE mappings \in OutputTypes
  <2>1. /\ mappings \in Seq(ToSet(mappings))
        /\ \A i, j \in DOMAIN mappings : mappings[i].name = mappings[j].name => i = j
    BY <1>2, OutputTypesAssumption
  <2>2. ASSUME NEW i \in DOMAIN mappings PROVE mappings[i].name \in Members
    <3>1. mappings[i] \in ToSet(mappings)
      BY DEF ToSet
    <3> QED BY <1>2, <3>1 DEF Members
  <2> QED BY <2>1, <2>2
<1> QED BY <1>1, <1>2

LEMMA StoredFacts ==
  ASSUME mappings \in OutputTypes \cup {<<>>}, NEW entry \in Entries, NEW sample \in Full
  PROVE  /\ Stored(sample, entry) \in Full
         /\ \A name \in Members :
              LET set == {i \in SetBy(entry.body) : mappings[i].name = name} IN
              /\ set = {} => Stored(sample, entry)[name] = sample[name]
              /\ set # {} => \E i \in set : Stored(sample, entry)[name] =
                   [id |-> entry.id, value |-> MemberValue(mappings[i], entry.body.json[name])]
<1> DEFINE set(name) == {i \in SetBy(entry.body) : mappings[i].name = name}
           cell(name) == IF set(name) = {} THEN sample[name]
                         ELSE LET m == mappings[CHOOSE i \in set(name) : TRUE] IN
                              [id |-> entry.id, value |-> MemberValue(m, entry.body.json[name])]
<1>1. Stored(sample, entry) = [name \in Members |-> cell(name)]
  BY DEF Stored
<1>2. ASSUME NEW name \in Members, set(name) # {}
      PROVE  LET i == CHOOSE i \in set(name) : TRUE IN
             /\ i \in set(name)
             /\ cell(name) = [id |-> entry.id,
                              value |-> MemberValue(mappings[i], entry.body.json[name])]
             /\ cell(name) \in Cells
  <2> DEFINE i == CHOOSE i \in set(name) : TRUE
  <2>1. i \in set(name)
    BY <1>2
  <2>2. cell(name) = [id |-> entry.id,
                      value |-> MemberValue(mappings[i], entry.body.json[name])]
    BY <1>2
  <2>3. name \in DOMAIN entry.body.json /\ mappings[i].name = name
    BY <2>1 DEF SetBy, Missing
  <2>4. entry.body.json[name].value \in Int
    BY <2>3, EntryFacts
  <2>5. MemberValue(mappings[i], entry.body.json[name]) \in Int
    BY <2>4, CastFacts DEF MemberValue
  <2> HIDE DEF i
  <2>6. [id |-> entry.id, value |-> MemberValue(mappings[i], entry.body.json[name])] \in Cells
    BY <2>5, EntryFacts DEF Cells
  <2> QED BY <2>1, <2>2, <2>6 DEF i
<1>3. \A name \in Members : cell(name) \in Cells
  <2>1. \A name \in Members : sample[name] \in Cells
    BY DEF Full
  <2> QED BY <1>2, <2>1
<1>4. Stored(sample, entry) \in Full /\ \A name \in Members : Stored(sample, entry)[name] = cell(name)
  BY <1>1, <1>3 DEF Full
<1> QED BY <1>2, <1>4

(* Each conversion of a vacant slot is fresh.                              *)
LEMMA ConversionIsFresh ==
  ASSUME mappings \in OutputTypes \cup {<<>>}, NEW entry \in Entries, NEW i,
         NEW c \in Full, c = Empty \/ i \in residue
  PROVE  /\ kind \in {"noop", "field in"} => Fresh(c, entry, i)
         /\ kind = "JSON in" =>
              /\ Stored(c, entry) \in Full
              /\ Fresh(Stored(c, entry), entry, i)
         /\ kind \in {"JSON out", "field out"} =>
              /\ [c EXCEPT !["text"] = Text(entry)] \in Full
              /\ Fresh([c EXCEPT !["text"] = Text(entry)], entry, i)
<1>1. CASE kind \in {"noop", "field in"}
  <2>1. Given(entry) = Empty
    BY <1>1 DEF Given
  <2> QED BY <1>1, <2>1, SampleFacts DEF Fresh
<1>2. CASE kind = "JSON in"
  <2>1. Given(entry) = Stored(Empty, entry)
    BY <1>2 DEF Given
  <2>2. Stored(c, entry) \in Full
    BY StoredFacts
  <2>3. ASSUME NEW m \in Members
        PROVE  \/ Stored(c, entry)[m] = Stored(Empty, entry)[m]
               \/ Stored(c, entry)[m] = c[m] /\ Stored(Empty, entry)[m] = Nothing
    <3> DEFINE set == {j \in SetBy(entry.body) : mappings[j].name = m}
               cell == LET k == CHOOSE j \in set : TRUE
                       IN  [id |-> entry.id, value |-> MemberValue(mappings[k], entry.body.json[m])]
    <3>1. CASE set = {}
      BY <3>1, SampleFacts, StoredFacts
    <3>2. CASE set # {}
      <4>1. Stored(c, entry)[m] = cell /\ Stored(Empty, entry)[m] = cell
        BY <3>2 DEF Stored
      <4> QED BY <4>1
    <3> QED BY <3>1, <3>2
  <2>4. Fresh(Stored(c, entry), entry, i)
    <3>1. Stored(c, entry) # NoSample
      BY <2>2, SampleFacts
    <3> QED BY <2>1, <2>3, <3>1 DEF Fresh
  <2> QED BY <1>2, <2>2, <2>4
<1>3. CASE kind \in {"JSON out", "field out"}
  <2>1. Given(entry) = [Empty EXCEPT !["text"] = Text(entry)]
    BY <1>3 DEF Given
  <2>2. Text(entry) \in Cells
    BY EntryFacts DEF Text, Cells
  <2> DEFINE t == [c EXCEPT !["text"] = Text(entry)]
  <2>3. t \in Full
    BY <2>2, SampleFacts DEF Full
  <2>4. \A m \in Members : t[m] = IF m = "text" THEN Text(entry) ELSE c[m]
    BY DEF Full
  <2>5. \A m \in Members : Given(entry)[m] = IF m = "text" THEN Text(entry) ELSE Nothing
    BY <2>1, SampleFacts DEF Full
  <2> HIDE DEF t
  <2>6. Fresh(t, entry, i)
    BY <2>3, <2>4, <2>5, SampleFacts DEF Fresh
  <2> QED BY <1>3, <2>3, <2>6 DEF t
<1> QED BY <1>1, <1>2, <1>3

(* What leaves the calls and the samples alone.                            *)
LEMMA CallKept ==
  ASSUME CallInv,
         UNCHANGED <<use_mutex, kind, mappings, pc, batch, made, samples, loaned, residue, sent>>,
         lock' = lock \/ \A u \in Users : pc[u] # "work"
  PROVE  CallInv'
<1>1. CallTypes' /\ OneCall'
  BY DEF CallInv, CallTypes, OneCall
<1>2. SlotsInv'
  BY DEF CallInv, SlotsInv, Vacant, Empty, Members
<1>3. MadeInv'
  <2> SUFFICES ASSUME NEW u \in Users, pc[u] # "idle", NEW i \in 1 .. made
               PROVE  MadeWell(samples[i], batch[u][i], i)'
    BY DEF MadeInv
  <2>1. MadeWell(samples[i], batch[u][i], i)
    BY DEF CallInv, MadeInv
  <2>2. UNCHANGED <<kind, mappings, residue, samples, batch>>
    OBVIOUS
  <2> QED BY <2>1, <2>2, GivenKept DEF MadeWell, Fresh
<1> QED BY <1>1, <1>2, <1>3 DEF CallInv

(* The call that works, and the slot it works on.                          *)
LEMMA WorkFacts ==
  ASSUME CallInv, NEW u \in Users, pc[u] = "work"
  PROVE  /\ made + 1 \in 1 .. Len(batch[u]) /\ made + 1 \in 1 .. Len(samples)
         /\ Len(batch[u]) \in Nat /\ Len(samples) \in Nat /\ made \in Nat
         /\ Here(u) \in Entries
         /\ ~loaned /\ \A v \in Users : v # u => pc[v] = "idle"
         /\ Created \in Full /\ (Created = Empty \/ made + 1 \in residue)
         /\ mappings \in OutputTypes \cup {<<>>}
<1>1. /\ batch[u] \in Seq(Entries) /\ samples \in Seq(Full \cup {NoSample}) /\ made \in Nat
      /\ made < Len(batch[u]) /\ Len(batch[u]) <= Len(samples)
      /\ mappings \in OutputTypes \cup {<<>>}
  BY DEF CallInv, CallTypes, OneCall
<1>2. /\ \A v \in Users : v # u => pc[v] = "idle"
      /\ ~loaned
  BY DEF CallInv, OneCall, CallTypes
<1>3. made + 1 \in 1 .. Len(batch[u]) /\ made + 1 \in DOMAIN samples
      /\ Len(batch[u]) \in Nat /\ Len(samples) \in Nat
  BY <1>1
<1>4. Here(u) \in Entries
  BY <1>1, <1>3 DEF Here
<1>5. Vacant(made + 1)
  <2>1. made + 1 \notin 1 .. made
    BY <1>1
  <2> QED BY <1>3, <2>1 DEF CallInv, SlotsInv
<1>6. Created \in Full /\ (Created = Empty \/ made + 1 \in residue)
  <2>1. samples[made + 1] \in Full \cup {NoSample}
    BY <1>1, <1>3
  <2> QED BY <1>5, <2>1, SampleFacts DEF Created, Vacant
<1> QED BY <1>1, <1>2, <1>3, <1>4, <1>6

LEMMA Replaced ==
  ASSUME CallTypes, NEW k \in 1 .. Len(samples), NEW s \in Full,
         samples' = [samples EXCEPT ![k] = s]
  PROVE  /\ samples' \in Seq(Full \cup {NoSample}) /\ Len(samples') = Len(samples)
         /\ DOMAIN samples' = DOMAIN samples
         /\ \A i \in DOMAIN samples : samples'[i] = IF i = k THEN s ELSE samples[i]
  BY DEF CallTypes

LEMMA SucceedStep ==
  ASSUME CallInv, NEW u \in Users, pc[u] = "work", NEW s \in Full,
         MadeWell(s, Here(u), made + 1), Succeed(u, s), UNCHANGED <<use_mutex, kind, mappings, sent>>
  PROVE  CallInv'
<1> DEFINE k == made + 1
           last == k = Len(batch[u])
<1>1. /\ k \in 1 .. Len(batch[u]) /\ k \in 1 .. Len(samples)
      /\ Len(batch[u]) \in Nat /\ Len(samples) \in Nat /\ made \in Nat
      /\ ~loaned /\ \A v \in Users : v # u => pc[v] = "idle"
  BY WorkFacts
<1>a. loaned' <=> last
  BY Zenon DEF Succeed
<1>2. /\ samples' = [samples EXCEPT ![k] = s] /\ made' = k
      /\ pc' = [pc EXCEPT ![u] = IF last THEN "loan" ELSE "work"]
      /\ lock' = IF last THEN NoOne ELSE lock
      /\ UNCHANGED <<batch, residue>>
  BY DEF Succeed
<1>3. /\ samples' \in Seq(Full \cup {NoSample}) /\ Len(samples') = Len(samples)
      /\ DOMAIN samples' = DOMAIN samples /\ DOMAIN samples = 1 .. Len(samples)
      /\ \A i \in DOMAIN samples : samples'[i] = IF i = k THEN s ELSE samples[i]
  <2>1. CallTypes
    BY DEF CallInv
  <2>2. DOMAIN samples = 1 .. Len(samples)
    BY <2>1 DEF CallTypes
  <2> QED BY <1>1, <1>2, <2>1, <2>2, Replaced
<1>4. \A v \in Users : pc'[v] = IF v = u THEN (IF last THEN "loan" ELSE "work") ELSE "idle"
  BY <1>1, <1>2 DEF CallInv, CallTypes
<1>5. CallTypes'
  <2>1. /\ pc' \in [Users -> {"idle", "work", "loan"}] /\ made' \in Nat
        /\ batch' \in [Users -> Seq(Entries)] /\ sent' \in Nat
        /\ mappings' \in OutputTypes \cup {<<>>}
    BY <1>1, <1>2 DEF CallInv, CallTypes
  <2> QED BY <1>3, <2>1 DEF CallTypes
<1>6. OneCall'
  <2>1. \A v, w \in Users : pc'[v] # "idle" /\ pc'[w] # "idle" => v = w
    BY <1>4
  <2>2. loaned' <=> \E v \in Users : pc'[v] = "loan"
    BY <1>a, <1>4
  <2>3. ASSUME NEW v \in Users
        PROVE  /\ pc'[v] # "idle" => use_mutex' \/ v = FirstUser
               /\ pc'[v] = "work" => /\ use_mutex' => lock' = v
                                     /\ made' < Len(batch'[v])
               /\ pc'[v] = "loan" => made' = Len(batch'[v])
               /\ pc'[v] # "idle" => Len(batch'[v]) <= Len(samples')
    <3>1. CASE v = u
      BY <1>1, <1>2, <1>3, <1>4, <3>1 DEF CallInv, OneCall
    <3>2. CASE v # u
      BY <1>4, <3>2
    <3> QED BY <3>1, <3>2
  <2> QED BY <2>1, <2>2, <2>3 DEF OneCall
<1>7. SlotsInv'
  <2> SUFFICES ASSUME NEW i \in DOMAIN samples', i \notin 1 .. made'
               PROVE  Vacant(i)'
    BY <1>4 DEF SlotsInv
  <2>1. i \in DOMAIN samples /\ i \notin 1 .. made /\ i # k
    BY <1>1, <1>2, <1>3
  <2>2. Vacant(i)
    BY <2>1 DEF CallInv, SlotsInv
  <2> QED BY <1>2, <1>3, <2>1, <2>2 DEF Vacant, Empty, Members
<1>8. MadeInv'
  <2> SUFFICES ASSUME NEW i \in 1 .. made'
               PROVE  MadeWell(samples[i], batch[u][i], i)'
    BY <1>2, <1>4 DEF MadeInv
  <2>1. CASE i = k
    <3>1. samples'[i] = s /\ batch'[u][i] = Here(u)
      BY <1>1, <1>2, <1>3, <2>1 DEF Here
    <3> QED BY <1>2, <2>1, <3>1, GivenKept DEF MadeWell, Fresh
  <2>2. CASE i # k
    <3>1. i \in 1 .. made /\ i \in DOMAIN samples
      BY <1>1, <1>2, <1>3, <2>2
    <3>2. MadeWell(samples[i], batch[u][i], i)
      BY <3>1 DEF CallInv, MadeInv
    <3>3. samples'[i] = samples[i] /\ batch' = batch /\ residue' = residue
      BY <1>2, <1>3, <2>2, <3>1
    <3> QED BY <3>2, <3>3, GivenKept DEF MadeWell, Fresh
  <2> QED BY <2>1, <2>2
<1> QED BY <1>5, <1>6, <1>7, <1>8 DEF CallInv

LEMMA FailStep ==
  ASSUME CallInv, NEW u \in Users, pc[u] = "work", NEW s \in Full,
         Fail(u, s), UNCHANGED <<use_mutex, kind, mappings, sent>>
  PROVE  CallInv'
<1> DEFINE k == made + 1
<1>1. /\ k \in 1 .. Len(samples) /\ made \in Nat
      /\ ~loaned /\ \A v \in Users : v # u => pc[v] = "idle"
  BY WorkFacts
<1>2. /\ samples' = [samples EXCEPT ![k] = s]
      /\ residue' = residue \cup 1 .. k
      /\ batch' = [batch EXCEPT ![u] = <<>>]
      /\ pc' = [pc EXCEPT ![u] = "idle"]
      /\ made' = made
  BY DEF Fail
<1>a. loaned' = loaned
  BY DEF Fail
<1>3. /\ samples' \in Seq(Full \cup {NoSample})
      /\ DOMAIN samples' = DOMAIN samples
      /\ \A i \in DOMAIN samples : samples'[i] = IF i = k THEN s ELSE samples[i]
  <2>1. CallTypes
    BY DEF CallInv
  <2> QED BY <1>1, <1>2, <2>1, Replaced
<1>4. \A v \in Users : pc'[v] = "idle"
  BY <1>1, <1>2 DEF CallInv, CallTypes
<1>5. CallTypes'
  <2>2. batch' \in [Users -> Seq(Entries)]
    BY <1>2 DEF CallInv, CallTypes
  <2>3. pc' \in [Users -> {"idle", "work", "loan"}]
    BY <1>2 DEF CallInv, CallTypes
  <2>4. made' \in Nat /\ sent' \in Nat /\ mappings' \in OutputTypes \cup {<<>>}
    BY <1>2 DEF CallInv, CallTypes
  <2> QED BY <1>3, <2>2, <2>3, <2>4 DEF CallTypes
<1>6. OneCall' /\ MadeInv'
  BY <1>1, <1>a, <1>4 DEF OneCall, MadeInv
<1>7. SlotsInv'
  <2> SUFFICES ASSUME NEW i \in DOMAIN samples'
               PROVE  Vacant(i)'
    BY DEF SlotsInv
  <2>1. CASE i \in 1 .. k
    BY <1>2, <2>1 DEF Vacant
  <2>2. CASE i \notin 1 .. k
    <3>1. i \in DOMAIN samples /\ i \notin 1 .. made /\ i # k
      BY <1>1, <1>3, <2>2
    <3>2. Vacant(i)
      BY <3>1 DEF CallInv, SlotsInv
    <3> QED BY <1>2, <1>3, <3>1, <3>2 DEF Vacant, Empty, Members
  <2> QED BY <2>1, <2>2
<1> QED BY <1>5, <1>6, <1>7 DEF CallInv

(* A text that did not fit is tried again.                                 *)
LEMMA TryAgainStep ==
  ASSUME CallInv, NEW u \in Users, pc[u] = "work",
         samples' = [samples EXCEPT ![made + 1] = Created],
         UNCHANGED <<use_mutex, kind, mappings, sent, lock, pc, batch, made, loaned, residue>>
  PROVE  CallInv'
<1> DEFINE k == made + 1
<1>1. /\ k \in 1 .. Len(samples) /\ made \in Nat
      /\ Created \in Full /\ (Created = Empty \/ k \in residue)
  BY WorkFacts
<1>2. /\ samples' \in Seq(Full \cup {NoSample}) /\ Len(samples') = Len(samples)
      /\ DOMAIN samples' = DOMAIN samples
      /\ \A i \in DOMAIN samples : samples'[i] = IF i = k THEN Created ELSE samples[i]
  <2>1. CallTypes
    BY DEF CallInv
  <2> QED BY <1>1, <2>1, Replaced
<1>3. CallTypes'
  BY <1>2 DEF CallInv, CallTypes
<1>4. OneCall'
  BY <1>2 DEF CallInv, OneCall
<1>5. SlotsInv'
  <2> SUFFICES ASSUME NEW i \in DOMAIN samples', ~\E v \in Users : pc[v] # "idle" /\ i \in 1 .. made
               PROVE  Vacant(i)'
    BY DEF SlotsInv
  <2>1. Vacant(i)
    BY <1>2 DEF CallInv, SlotsInv
  <2> QED BY <1>1, <1>2, <2>1 DEF Vacant, Empty, Members
<1>6. MadeInv'
  <2> SUFFICES ASSUME NEW v \in Users, pc[v] # "idle", NEW i \in 1 .. made
               PROVE  MadeWell(samples[i], batch[v][i], i)'
    BY DEF MadeInv
  <2>1. MadeWell(samples[i], batch[v][i], i)
    BY DEF CallInv, MadeInv
  <2>2. samples'[i] = samples[i]
    <3>1. i # k /\ i \in DOMAIN samples
      <4>1. DOMAIN samples = 1 .. Len(samples) /\ Len(samples) \in Nat
        BY DEF CallInv, CallTypes
      <4> QED BY <1>1, <4>1
    <3> QED BY <1>2, <3>1
  <2>3. batch' = batch /\ residue' = residue /\ UNCHANGED <<kind, mappings>>
    OBVIOUS
  <2> QED BY <2>1, <2>2, <2>3, GivenKept DEF MadeWell, Fresh
<1> QED BY <1>3, <1>4, <1>5, <1>6 DEF CallInv

LEMMA TransformStep ==
  ASSUME CallInv, NEW u \in Users, NEW messages \in Batches, transform(u, messages)
  PROVE  CallInv'
<1>1. /\ pc[u] = "idle" /\ lock = NoOne /\ Enters(u)
      /\ UNCHANGED <<use_mutex, kind, mappings, loaned, residue>>
  BY DEF transform, pluginVars, configVars
<1>2. CASE loaned
  <2>1. UNCHANGED <<lock, pc, batch, made, samples, sent>>
    BY <1>2 DEF transform, AlreadyLoaned
  <2> QED BY <1>1, <2>1, CallKept
<1>3. CASE ~loaned
  <2> DEFINE n == Len(messages)
             m == Len(samples)
             big == IF n > m THEN n ELSE m
             entry(i) == [body |-> messages[i], id |-> sent + i]
  <2>1. /\ lock' = IF use_mutex THEN u ELSE NoOne
        /\ pc' = [pc EXCEPT ![u] = "work"]
        /\ batch' = [batch EXCEPT ![u] = [i \in DOMAIN messages |-> entry(i)]]
        /\ made' = 0 /\ samples' = Extended(n) /\ sent' = sent + n
    BY <1>3 DEF transform, AlreadyLoaned
  <2>2. /\ messages \in Seq(Messages) /\ n \in Nat /\ n > 0 /\ DOMAIN messages = 1 .. n
        /\ \A i \in 1 .. n : messages[i] \in Messages
    <3>1. messages \in Seq(ToSet(messages)) /\ messages # <<>>
      BY BatchesAssumption
    <3>2. \A i \in DOMAIN messages : messages[i] \in Messages
      BY DEF Messages, ToSet
    <3>3. n \in Nat /\ n # 0 /\ DOMAIN messages = 1 .. n
      BY <3>1, EmptySeq
    <3> QED BY <3>1, <3>2, <3>3
  <2>3. /\ samples \in Seq(Full \cup {NoSample}) /\ m \in Nat /\ DOMAIN samples = 1 .. m
        /\ sent \in Nat /\ batch \in [Users -> Seq(Entries)]
        /\ pc \in [Users -> {"idle", "work", "loan"}]
        /\ mappings \in OutputTypes \cup {<<>>}
    BY DEF CallInv, CallTypes
  <2>4. \A v \in Users : pc[v] = "idle"
    <3>1. \A v \in Users : pc[v] # "loan"
      BY <1>3 DEF CallInv, OneCall
    <3>2. ASSUME NEW v \in Users, pc[v] = "work" PROVE FALSE
      <4>1. use_mutex => lock = v
        BY <3>2 DEF CallInv, OneCall
      <4>2. ~use_mutex => v = FirstUser /\ u = FirstUser
        BY <1>1, <3>2 DEF CallInv, OneCall, Enters
      <4> QED BY <1>1, <3>2, <4>1, <4>2, ObservedAssumption
    <3> QED BY <2>3, <3>1, <3>2
  <2>5. [i \in DOMAIN messages |-> entry(i)] \in Seq(Entries)
        /\ Len([i \in DOMAIN messages |-> entry(i)]) = n
    <3>1. \A i \in 1 .. n : entry(i) \in Entries
      BY <2>2, <2>3 DEF Entries
    <3> HIDE DEF entry
    <3>2. [i \in 1 .. n |-> entry(i)] \in Seq(Entries) /\ Len([i \in 1 .. n |-> entry(i)]) = n
      BY <2>2, <3>1
    <3> QED BY <2>2, <3>2
  <2>6. /\ samples' \in Seq(Full \cup {NoSample}) /\ Len(samples') = big
        /\ DOMAIN samples' = 1 .. big
        /\ \A i \in 1 .. big : samples'[i] = IF i \in 1 .. m THEN samples[i] ELSE NoSample
    <3>1. samples' = [i \in 1 .. big |-> IF i \in 1 .. m THEN samples[i] ELSE NoSample]
      BY <2>1, <2>3 DEF Extended
    <3>2. \A i \in 1 .. big : (IF i \in 1 .. m THEN samples[i] ELSE NoSample) \in Full \cup {NoSample}
      BY <2>3
    <3>3. big \in Nat
      BY <2>2, <2>3
    <3> HIDE DEF big, m
    <3> QED BY <3>1, <3>2, <3>3
  <2>7. big \in Nat /\ n <= big /\ m <= big
    BY <2>2, <2>3
  <2> HIDE DEF big, entry, n, m
  <2>8. \A v \in Users : pc'[v] = IF v = u THEN "work" ELSE "idle"
    BY <2>1, <2>3, <2>4
  <2>9. batch' \in [Users -> Seq(Entries)] /\ Len(batch'[u]) = n
    BY <2>1, <2>3, <2>5
  <2>10. CallTypes'
    <3>1. pc' \in [Users -> {"idle", "work", "loan"}]
      BY <2>1, <2>3
    <3> QED BY <1>1, <2>1, <2>2, <2>3, <2>6, <2>9, <3>1 DEF CallTypes
  <2>11. OneCall'
    BY <1>1, <1>3, <2>1, <2>2, <2>6, <2>7, <2>8, <2>9 DEF OneCall, Enters
  <2>12. SlotsInv'
    <3> SUFFICES ASSUME NEW i \in 1 .. big PROVE Vacant(i)'
      BY <2>6 DEF SlotsInv
    <3>1. CASE i \in 1 .. m
      <4>1. Vacant(i)
        BY <2>3, <2>4, <3>1 DEF CallInv, SlotsInv
      <4> QED BY <1>1, <2>6, <3>1, <4>1 DEF Vacant, Empty, Members
    <3>2. CASE i \notin 1 .. m
      BY <2>6, <3>2 DEF Vacant
    <3> QED BY <3>1, <3>2
  <2>13. MadeInv'
    BY <2>1 DEF MadeInv
  <2> QED BY <2>10, <2>11, <2>12, <2>13 DEF CallInv
<1> QED BY <1>2, <1>3

LEMMA ReturnStep ==
  ASSUME CallInv, NEW u \in Users, return_loan(u)
  PROVE  CallInv'
<1>1. /\ pc[u] = "loan"
      /\ samples' = [i \in DOMAIN samples |-> IF i \in 1 .. Len(batch[u]) THEN Empty ELSE samples[i]]
      /\ residue' = residue \ (1 .. Len(batch[u]))
      /\ batch' = [batch EXCEPT ![u] = <<>>]
      /\ pc' = [pc EXCEPT ![u] = "idle"]
      /\ UNCHANGED <<mappings, made, sent>>
  BY DEF return_loan, Cleared, configVars
<1>a. loaned' = FALSE
  BY DEF return_loan
<1>2. /\ samples \in Seq(Full \cup {NoSample}) /\ Len(samples) \in Nat
      /\ DOMAIN samples = 1 .. Len(samples) /\ made = Len(batch[u])
      /\ \A v \in Users : v # u => pc[v] = "idle"
      /\ pc \in [Users -> {"idle", "work", "loan"}] /\ batch \in [Users -> Seq(Entries)]
  BY <1>1 DEF CallInv, CallTypes, OneCall
<1>3. \A v \in Users : pc'[v] = "idle"
  BY <1>1, <1>2
<1>4. /\ samples' \in Seq(Full \cup {NoSample}) /\ DOMAIN samples' = DOMAIN samples
      /\ \A i \in DOMAIN samples : samples'[i] = IF i \in 1 .. Len(batch[u]) THEN Empty ELSE samples[i]
  <2> DEFINE f(i) == IF i \in 1 .. Len(batch[u]) THEN Empty ELSE samples[i]
  <2>1. \A i \in 1 .. Len(samples) : f(i) \in Full \cup {NoSample}
    BY <1>2, SampleFacts
  <2>2. samples' = [i \in 1 .. Len(samples) |-> f(i)]
    BY <1>1, <1>2
  <2> HIDE DEF f
  <2>3. samples' \in Seq(Full \cup {NoSample})
    BY <1>2, <2>1, <2>2
  <2> QED BY <1>2, <2>2, <2>3 DEF f
<1>5. CallTypes'
  <2>1. batch' \in [Users -> Seq(Entries)] /\ pc' \in [Users -> {"idle", "work", "loan"}]
    BY <1>1, <1>2
  <2> QED BY <1>1, <1>4, <2>1 DEF CallInv, CallTypes
<1>6. OneCall' /\ MadeInv'
  BY <1>a, <1>3 DEF OneCall, MadeInv
<1>7. SlotsInv'
  <2> SUFFICES ASSUME NEW i \in DOMAIN samples' PROVE Vacant(i)'
    BY DEF SlotsInv
  <2>1. Empty' = Empty
    BY DEF Empty, Members
  <2>2. CASE i \in 1 .. Len(batch[u])
    BY <1>4, <2>1, <2>2 DEF Vacant
  <2>3. CASE i \notin 1 .. Len(batch[u])
    <3>1. Vacant(i)
      BY <1>2, <1>4, <2>3 DEF CallInv, SlotsInv
    <3> QED BY <1>1, <1>4, <2>1, <2>3, <3>1 DEF Vacant
  <2> QED BY <2>2, <2>3
<1> QED BY <1>5, <1>6, <1>7 DEF CallInv

LEMMA DeleteStep ==
  ASSUME CallInv, NEW t \in Transformations, Delete(t)
  PROVE  CallInv'
<1>1. UNCHANGED <<use_mutex, kind, mappings, lock, pc, batch, made, loaned, sent>>
  BY DEF Delete, delete_transformation, configVars
<1>2. CASE t # Observed
  <2>1. UNCHANGED <<samples, residue>>
    BY <1>2 DEF Delete
  <2> QED BY <1>1, <2>1, CallKept
<1>3. CASE t = Observed
  <2>1. (\A u \in Users : pc[u] = "idle") /\ samples' = <<>>
    BY <1>3 DEF Delete
  <2>2. <<>> \in Seq(Full \cup {NoSample}) /\ DOMAIN <<>> = {}
    OBVIOUS
  <2>3. CallTypes'
    BY <1>1, <2>1, <2>2 DEF CallInv, CallTypes
  <2>4. OneCall'
    BY <1>1, <2>1 DEF CallInv, OneCall
  <2>5. SlotsInv' /\ MadeInv'
    BY <1>1, <2>1, <2>2 DEF SlotsInv, MadeInv
  <2> QED BY <2>3, <2>4, <2>5 DEF CallInv
<1> QED BY <1>2, <1>3

LEMMA ConvertStep ==
  ASSUME CallInv, NEW u \in Users, Convert(u)
  PROVE  CallInv'
<1>1. pc[u] = "work" /\ UNCHANGED <<use_mutex, kind, mappings, sent>>
  BY DEF Convert, pluginVars, configVars
<1>2. /\ Here(u) \in Entries /\ Created \in Full /\ (Created = Empty \/ made + 1 \in residue)
      /\ mappings \in OutputTypes \cup {<<>>}
  BY <1>1, WorkFacts
<1> DEFINE k == made + 1
<1>3. ASSUME kind \in {"noop", "field in"}, Succeed(u, Created) PROVE CallInv'
  <2>1. MadeWell(Created, Here(u), k)
    BY <1>2, <1>3, ConversionIsFresh DEF MadeWell
  <2> QED BY <1>1, <1>2, <1>3, <2>1, SucceedStep
<1>4. ASSUME kind \in {"JSON out", "field out"}, NEW fits \in BOOLEAN, SetText(u, fits) PROVE CallInv'
  <2> DEFINE text == [Created EXCEPT !["text"] = Text(Here(u))]
  <2>1. MadeWell(text, Here(u), k) /\ text \in Full
    BY <1>2, <1>4, ConversionIsFresh DEF MadeWell
  <2>2. Succeed(u, text) \/ Fail(u, Created)
    BY <1>4 DEF SetText
  <2> HIDE DEF text
  <2> QED BY <1>1, <1>2, <2>1, <2>2, SucceedStep, FailStep
<1>5. CASE noop(u)
  BY <1>3, <1>5 DEF noop
<1>6. CASE JSON_deserialize(u)
  <2> DEFINE sample == Stored(Created, Here(u))
  <2>1. kind = "JSON in" /\ IF deserialize_ok(Here(u).body) THEN Succeed(u, sample) ELSE Fail(u, sample)
    BY <1>6 DEF JSON_deserialize
  <2>2. sample \in Full /\ Fresh(sample, Here(u), k)
    BY <1>2, <2>1, ConversionIsFresh
  <2> HIDE DEF sample
  <2>3. CASE deserialize_ok(Here(u).body)
    <3>1. MadeWell(sample, Here(u), k)
      BY <2>2, <2>3 DEF MadeWell
    <3> QED BY <1>1, <2>1, <2>2, <2>3, <3>1, SucceedStep
  <2>4. CASE ~deserialize_ok(Here(u).body)
    BY <1>1, <2>1, <2>2, <2>4, FailStep
  <2> QED BY <2>3, <2>4
<1>7. ASSUME NEW fits \in BOOLEAN, JSON_serialize(u, fits) PROVE CallInv'
  <2>1. \/ Fail(u, Created)
        \/ samples' = [samples EXCEPT ![made + 1] = Created]
           /\ UNCHANGED <<lock, pc, batch, made, loaned, residue>>
        \/ SetText(u, fits)
    BY <1>7 DEF JSON_serialize
  <2>2. kind = "JSON out"
    BY <1>7 DEF JSON_serialize
  <2> QED BY <1>1, <1>2, <1>4, <2>1, <2>2, FailStep, TryAgainStep
<1>8. ASSUME NEW fits \in BOOLEAN, field_serialize(u, fits) PROVE CallInv'
  <2>1. kind = "field out" /\ (SetText(u, fits) \/ Fail(u, Created))
    BY <1>8 DEF field_serialize
  <2> QED BY <1>1, <1>2, <1>4, <2>1, FailStep
<1>9. CASE field_deserialize(u)
  <2>1. kind = "field in" /\ (Succeed(u, Created) \/ Fail(u, Created))
    BY <1>9 DEF field_deserialize
  <2> QED BY <1>1, <1>2, <1>3, <2>1, FailStep
<1> QED BY <1>5, <1>6, <1>7, <1>8, <1>9 DEF Convert

LEMMA InitCallInv == Init => CallInv
<1> SUFFICES ASSUME Init PROVE CallInv
  OBVIOUS
<1>1. /\ pc = [u \in Users |-> "idle"] /\ batch = [u \in Users |-> <<>>] /\ made = 0
      /\ samples = <<>> /\ sent = 0 /\ mappings \in OutputTypes \cup {<<>>}
  BY DEF Init
<1>2. loaned = FALSE
  BY DEF Init
<1>3. <<>> \in Seq(Full \cup {NoSample}) /\ DOMAIN <<>> = {} /\ <<>> \in Seq(Entries)
  OBVIOUS
<1>4. CallTypes
  BY <1>1, <1>3 DEF CallTypes
<1> QED BY <1>1, <1>2, <1>3, <1>4 DEF CallInv, OneCall, SlotsInv, MadeInv

LEMMA CallStep == CallInv /\ [Next]_vars => CallInv'
<1> SUFFICES ASSUME CallInv, [Next]_vars PROVE CallInv'
  OBVIOUS
<1>1. CASE Build
  BY <1>1, CallKept DEF Build, PluginStep, TPlugin_new, TPlugin_delete, T_new, initialize_transformation,
       callVars, configVars, sampleVars
<1>2. CASE update
  <2>1. UNCHANGED <<use_mutex, kind, mappings, pc, batch, made, samples, loaned, residue, sent>>
        /\ use_mutex /\ lock = NoOne
    BY <1>2 DEF update, pluginVars, configVars, sampleVars
  <2>2. \A u \in Users : pc[u] # "work"
    BY <2>1, ObservedAssumption DEF CallInv, OneCall
  <2> QED BY <2>1, <2>2, CallKept
<1>3. CASE UNCHANGED vars
  BY <1>3, CallKept DEF vars, pluginVars, callVars, configVars, sampleVars
<1> QED BY <1>1, <1>2, <1>3, TransformStep, ConvertStep, ReturnStep, DeleteStep DEF Next

LEMMA CallInvariant == Spec => []CallInv
  BY InitCallInv, CallStep, PTL DEF Spec

(* A sample on loan has what its own message gives, and nothing of an      *)
(* earlier one but where a failed call had written (JSONTransformation.c,  *)
(* PrimitiveFieldTransformation.c: T_transform, T_return_loan).            *)
THEOREM LoanIsFreshTheorem == Spec => []LoanIsFresh
<1>1. CallInv => LoanIsFresh
  <2> SUFFICES ASSUME CallInv, NEW u \in Users, pc[u] = "loan",
                      NEW i \in DOMAIN batch[u], NEW m \in Members
               PROVE  \/ samples[i][m] = Given(batch[u][i])[m]
                      \/ i \in residue /\ Given(batch[u][i])[m] = Nothing
    BY DEF LoanIsFresh
  <2>1. i \in 1 .. made
    BY DEF CallInv, CallTypes, OneCall
  <2>2. MadeWell(samples[i], batch[u][i], i)
    BY <2>1 DEF CallInv, MadeInv
  <2> QED BY <2>2 DEF MadeWell, Fresh
<1> QED BY <1>1, CallInvariant, PTL

(* A message that is accepted sets the member of each name that it has.    *)
LEMMA MemberIsSet ==
  ASSUME mappings \in OutputTypes \cup {<<>>}, NEW entry \in Entries,
         deserialize_ok(entry.body), NEW m \in ToSet(mappings), m.name \in DOMAIN entry.body.json
  PROVE  Stored(Empty, entry)[m.name] =
           [id |-> entry.id, value |-> MemberValue(m, entry.body.json[m.name])]
<1>1. PICK j \in DOMAIN mappings : m = mappings[j]
  BY DEF ToSet
<1> DEFINE set == {i \in SetBy(entry.body) : mappings[i].name = m.name}
<1>2. j \in set
  <2>1. \A i \in DOMAIN mappings : ~FailsAt(entry.body, mappings[i])
    BY DEF deserialize_ok, ToSet
  <2>2. 1 .. j \subseteq DOMAIN mappings
    BY <1>1, MemberFacts
  <2>3. Reached(entry.body, j)
    BY <2>1, <2>2 DEF Reached, deserialize_ok
  <2> QED BY <1>1, <2>3 DEF SetBy, Missing
<1>3. m.name \in Members /\ \A i \in set : i = j
  <2>1. set \subseteq DOMAIN mappings
    BY DEF SetBy
  <2> QED BY <1>1, <2>1, MemberFacts
<1> HIDE DEF set
<1>4. \E i \in set : Stored(Empty, entry)[m.name] =
        [id |-> entry.id, value |-> MemberValue(mappings[i], entry.body.json[m.name])]
  BY <1>2, <1>3, StoredFacts, SampleFacts DEF set
<1> QED BY <1>1, <1>3, <1>4

(* A field that was set by the call under way.                             *)
KeptField(text, value) ==
  text.size = buffer_size /\ text.value \in Survivors(field_type) => value = text.value

FieldsInv ==
  kind = "field in" =>
    \A u \in Users : pc[u] # "idle" =>
      \A i \in 1 .. made : KeptField(batch[u][i].body, fields[i])

LEMMA DeserializeKeepsFields ==
  ASSUME CallInv, FieldsInv, NEW u \in Users, pc[u] = "work", field_deserialize(u),
         UNCHANGED <<kind, field_type>>
  PROVE  FieldsInv'
<1>1. /\ made + 1 \in 1 .. Len(batch[u]) /\ made \in Nat /\ Here(u) \in Entries
      /\ \A v \in Users : v # u => pc[v] = "idle"
  BY WorkFacts
<1>2. kind = "field in" /\ pc \in [Users -> {"idle", "work", "loan"}]
  BY DEF field_deserialize, CallInv, CallTypes
<1>3. CASE Fail(u, Created)
  <2>1. \A v \in Users : pc'[v] = "idle"
    BY <1>1, <1>2, <1>3 DEF Fail
  <2> QED BY <2>1 DEF FieldsInv
<1>4. CASE ~Fail(u, Created)
  <2> DEFINE text == Here(u).body
  <2>0. PICK n \in Payload(text) : \E value \in FieldValue(field_type, n) :
          /\ Succeed(u, Created) /\ buffer_size' = buffer_size
          /\ fields' = [i \in 1 .. made + 1 |-> IF i <= made THEN fields[i] ELSE value]
    BY <1>4 DEF field_deserialize
  <2>1. PICK value \in FieldValue(field_type, n) :
          /\ Succeed(u, Created) /\ buffer_size' = buffer_size
          /\ fields' = [i \in 1 .. made + 1 |-> IF i <= made THEN fields[i] ELSE value]
    BY <2>0
  <2>2. batch' = batch /\ made' = made + 1 /\ \A v \in Users : v # u => pc'[v] = "idle"
    BY <1>1, <1>2, <2>1 DEF Succeed
  <2>3. text.size \in Int
    BY <1>1, EntryFacts
  <2> SUFFICES ASSUME NEW i \in 1 .. made + 1
               PROVE  KeptField(batch[u][i].body, fields'[i])
    <3>1. \A t, v : KeptField(t, v)' = KeptField(t, v)
      BY <2>1 DEF KeptField
    <3> QED BY <2>2, <3>1 DEF FieldsInv
  <2>4. CASE i # made + 1
    <3>1. i \in 1 .. made /\ fields'[i] = fields[i]
      BY <1>1, <2>1, <2>4
    <3> QED BY <1>2, <3>1 DEF FieldsInv
  <2>5. CASE i = made + 1
    <3>1. fields'[i] = value /\ batch[u][i].body = text
      BY <1>1, <2>1, <2>5 DEF Here
    <3> HIDE DEF text
    <3>2. ASSUME text.size = buffer_size, text.value \in Survivors(field_type)
          PROVE  value = text.value
      <4>1. n = FieldText(field_type, text.value)
        BY <2>1, <2>3, <3>2 DEF Payload
      <4> QED BY <2>1, <3>2, <4>1, SurvivorIsRead
    <3> QED BY <3>1, <3>2 DEF KeptField
  <2> QED BY <2>4, <2>5
<1> QED BY <1>3, <1>4

LEMMA FieldsStep == CallInv /\ FieldsInv /\ [Next]_vars => FieldsInv'
<1> SUFFICES ASSUME CallInv, FieldsInv, [Next]_vars PROVE FieldsInv'
  OBVIOUS
<1>1. ASSUME UNCHANGED <<kind, field_type, pc, batch, made, fields, buffer_size>> PROVE FieldsInv'
  BY <1>1 DEF FieldsInv, KeptField
<1>2. ASSUME \A u \in Users : pc'[u] = "idle" PROVE FieldsInv'
  BY <1>2 DEF FieldsInv
<1>3. CASE Build \/ update \/ UNCHANGED vars
  BY <1>1, <1>3 DEF Build, update, vars, callVars, configVars, sampleVars, bufferVars
<1>4. ASSUME NEW u \in Users, NEW messages \in Batches, transform(u, messages) PROVE FieldsInv'
  <2>1. UNCHANGED <<kind, field_type, fields, buffer_size>>
    BY <1>4 DEF transform, configVars, bufferVars
  <2>2. CASE made' = 0
    <3>1. 1 .. made' = {}
      BY <2>2
    <3> QED BY <3>1 DEF FieldsInv
  <2>3. CASE UNCHANGED <<pc, batch, made>>
    BY <1>1, <2>1, <2>3
  <2> QED BY <1>4, <2>2, <2>3 DEF transform
<1>5. ASSUME NEW u \in Users, Convert(u) PROVE FieldsInv'
  <2>1. pc[u] = "work" /\ UNCHANGED <<kind, field_type>>
    BY <1>5 DEF Convert, configVars
  <2>2. CASE kind = "field in"
    <3>1. field_deserialize(u)
      BY <1>5, <2>2 DEF Convert, noop, JSON_deserialize, JSON_serialize, field_serialize
    <3> QED BY <2>1, <3>1, DeserializeKeepsFields
  <2>3. CASE kind # "field in"
    BY <2>1, <2>3 DEF FieldsInv
  <2> QED BY <2>2, <2>3
<1>6. ASSUME NEW u \in Users, return_loan(u) PROVE FieldsInv'
  <2>1. pc' = [pc EXCEPT ![u] = "idle"] /\ pc[u] = "loan"
    BY <1>6 DEF return_loan
  <2>2. \A v \in Users : v # u => pc[v] = "idle"
    BY <2>1 DEF CallInv, OneCall
  <2> QED BY <1>2, <2>1, <2>2 DEF CallInv, CallTypes
<1>7. ASSUME NEW t \in Transformations, Delete(t) PROVE FieldsInv'
  <2>1. UNCHANGED <<kind, field_type, pc, batch, made, fields>>
    BY <1>7 DEF Delete, configVars
  <2>2. CASE t = Observed
    BY <1>2, <1>7, <2>1, <2>2 DEF Delete
  <2>3. CASE t # Observed
    BY <1>1, <1>7, <2>1, <2>3 DEF Delete
  <2> QED BY <2>2, <2>3
<1> QED BY <1>3, <1>4, <1>5, <1>6, <1>7 DEF Next

LEMMA FieldsInvariant == Spec => []FieldsInv
<1>1. Init => FieldsInv
  BY DEF Init, FieldsInv
<1> QED BY <1>1, FieldsStep, CallInvariant, PTL DEF Spec

(* What a text says is what a sample has afterwards: a number of the       *)
(* member's type unchanged, any other reduced to the type; and a field, in *)
(* the sample that came in, the value that its text was written of, if     *)
(* that can be read and no text before was longer.                         *)
THEOREM ValuesAreKeptTheorem == Spec => []ValuesAreKept
<1>1. ASSUME CallInv, NEW u \in Users, pc[u] = "loan", kind = "JSON in",
             NEW i \in DOMAIN batch[u], NEW m \in ToSet(mappings),
             m.name \in DOMAIN batch[u][i].body.json, m.type \in IntegerTypes
      PROVE  LET json  == batch[u][i].body.json
                 value == samples[i][m.name].value IN
             /\ value \in Values(m.type)
             /\ json[m.name].value \in Values(m.type) => value = json[m.name].value
             /\ (json[m.name].value - value) % Modulus(m.type) = 0
  <2> DEFINE entry == batch[u][i]
             n == entry.body.json[m.name].value
  <2>1. i \in 1 .. made /\ entry \in Entries /\ mappings \in OutputTypes \cup {<<>>}
    <3>1. batch[u] \in Seq(Entries) /\ made = Len(batch[u]) /\ mappings \in OutputTypes \cup {<<>>}
      BY <1>1 DEF CallInv, CallTypes, OneCall
    <3>2. DOMAIN batch[u] = 1 .. Len(batch[u])
      BY <3>1
    <3>3. entry \in Entries
      BY <3>1
    <3> HIDE DEF entry
    <3> QED BY <3>1, <3>2, <3>3
  <2>2. MadeWell(samples[i], entry, i)
    BY <1>1, <2>1 DEF CallInv, MadeInv
  <2>3. deserialize_ok(entry.body) /\ Given(entry) = Stored(Empty, entry)
    BY <1>1, <2>2 DEF MadeWell, Given
  <2> HIDE DEF entry
  <2>4. m.name \in DOMAIN entry.body.json
    BY <1>1 DEF entry
  <2>5. Given(entry)[m.name] = [id |-> entry.id, value |-> MemberValue(m, entry.body.json[m.name])]
    BY <2>1, <2>3, <2>4, MemberIsSet
  <2>6. n \in Int /\ entry.id \in Nat \ {0}
    BY <2>1, <2>4, EntryFacts
  <2>7. MemberValue(m, entry.body.json[m.name]) = Cast(m.type, n)
    BY <1>1 DEF MemberValue
  <2>8. Given(entry)[m.name] # Nothing
    BY <2>5, <2>6 DEF Nothing
  <2>9. m.name \in Members
    <3>1. PICK j \in DOMAIN mappings : m = mappings[j]
      BY DEF ToSet
    <3> QED BY <2>1, <3>1, MemberFacts
  <2>10. samples[i][m.name] = Given(entry)[m.name]
    BY <2>2, <2>8, <2>9 DEF MadeWell, Fresh
  <2>11. samples[i][m.name].value = Cast(m.type, n)
    BY <2>5, <2>7, <2>10
  <2> HIDE DEF n
  <2>12. /\ Cast(m.type, n) \in Values(m.type)
         /\ n \in Values(m.type) => Cast(m.type, n) = n
         /\ (n - Cast(m.type, n)) % Modulus(m.type) = 0
    BY <1>1, <2>6, CastFacts
  <2> QED BY <2>11, <2>12 DEF n, entry
<1>2. CallInv => NumbersAreKept
  BY <1>1 DEF NumbersAreKept
<1>3. CallInv /\ FieldsInv => FieldsAreKept
  <2> SUFFICES ASSUME CallInv, FieldsInv, NEW u \in Users, pc[u] = "loan", kind = "field in",
                      NEW i \in DOMAIN batch[u]
               PROVE  KeptField(batch[u][i].body, fields[i])
    BY Zenon DEF FieldsAreKept, KeptField
  <2>1. batch[u] \in Seq(Entries) /\ made = Len(batch[u])
    BY DEF CallInv, CallTypes, OneCall
  <2>2. DOMAIN batch[u] = 1 .. Len(batch[u])
    BY <2>1, LenProperties
  <2>3. i \in 1 .. made
    BY <2>1, <2>2, Zenon
  <2> QED BY <2>3 DEF FieldsInv
<1> QED BY <1>2, <1>3, CallInvariant, FieldsInvariant, PTL DEF ValuesAreKept

-----------------------------------------------------------------------------

(* The buffer of JSON: its size is one that growing goes through, and a    *)
(* text that did not fit is the one that is tried again.                   *)
OnPath(size) == \E n \in Nat : size = sizes.min + n * sizes.incr

TriedAgain == \E u \in Users : pc[u] = "work" /\ Here(u).body.size > buffer_size

BufferInv ==
  kind = "JSON out" =>
    /\ sizes.min \in Nat /\ sizes.incr \in Nat /\ sizes.max \in Int
    /\ buffer_size \in Nat
    /\ has_buffer /\ buffer_size > 0 => OnPath(buffer_size) /\ ~TooLarge(buffer_size)
    /\ failed_serialization => TriedAgain

Judged == \A verdict \in judged : kind = "JSON out" /\ (verdict[2] <=> Fits(verdict[1]))

SizeInv == BufferInv /\ Judged

-----------------------------------------------------------------------------
LEMMA Steps ==
  ASSUME NEW n \in Nat, NEW k \in Nat, NEW d \in Nat
  PROVE  /\ n * d \in Nat
         /\ n <= k => n * d <= k * d
         /\ n * d > k * d => n * d >= k * d + d
         /\ k * d + d = (k + 1) * d
         /\ d > 0 => n * d >= n
<1>1. n * d \in Nat /\ k * d \in Nat /\ k * d + d = (k + 1) * d
  OBVIOUS
<1>2. ASSUME n <= k PROVE n * d <= k * d
  <2>1. (k - n) * d >= 0 /\ k - n \in Nat
    BY <1>2
  <2>2. (k - n) * d = k * d - n * d
    OBVIOUS
  <2> QED BY <1>1, <2>1, <2>2
<1>3. ASSUME n * d > k * d PROVE n * d >= k * d + d
  <2>1. CASE n <= k
    BY <1>1, <1>2, <1>3, <2>1
  <2>2. CASE n > k
    <3>1. n - (k + 1) \in Nat
      BY <2>2
    <3>2. (n - (k + 1)) * d >= 0
      BY <3>1
    <3>3. (n - (k + 1)) * d = n * d - (k + 1) * d
      OBVIOUS
    <3> QED BY <1>1, <3>2, <3>3
  <2> QED BY <2>1, <2>2
<1>4. ASSUME d > 0 PROVE n * d >= n
  <2>1. n * (d - 1) >= 0
    BY <1>4
  <2>2. n * (d - 1) = n * d - n
    OBVIOUS
  <2> QED BY <1>1, <2>1, <2>2
<1> QED BY <1>1, <1>2, <1>3, <1>4

(* A text that fits a size growing goes through is one that fits.          *)
LEMMA Accepted ==
  ASSUME sizes.min \in Nat, sizes.incr \in Nat, sizes.max \in Int, NEW size \in Nat \ {0},
         NEW room, OnPath(room), ~TooLarge(room), size <= room
  PROVE  Fits(size)
<1>1. PICK n \in Nat : room = sizes.min + n * sizes.incr
  BY DEF OnPath
<1> DEFINE a == sizes.min
           d == sizes.incr
<1>2. a \in Nat /\ d \in Nat /\ n * d \in Nat /\ size * d \in Nat
  BY Steps
<1> HIDE DEF a, d
<1>3. room = a + n * d
  BY <1>1 DEF a, d
<1>4. ASSUME NEW k \in 0 .. size, size <= a + k * d, a + k * d <= room, k * d \in Nat
      PROVE  Fits(size)
  <2> DEFINE grown == a + k * d
  <2>1. grown > 0 /\ size <= grown /\ grown <= room /\ room \in Nat
    BY <1>2, <1>3, <1>4
  <2> HIDE DEF grown
  <2>2. ~TooLarge(grown)
    BY <1>2, <1>4, <2>1 DEF TooLarge, grown
  <2> QED BY <1>4, <2>1, <2>2 DEF Fits, grown, a, d
<1>5. CASE n <= size
  <2>1. n \in 0 .. size
    BY <1>5
  <2> QED BY <1>2, <1>3, <1>4, <2>1
<1>6. CASE n > size /\ d > 0
  <2>1. size * d >= size /\ size * d <= n * d
    BY <1>2, <1>6, Steps
  <2>2. size \in 0 .. size
    OBVIOUS
  <2> QED BY <1>2, <1>3, <1>4, <2>1, <2>2
<1>7. CASE d = 0
  <2>1. 0 \in 0 .. size /\ 0 * d = 0 /\ n * d = 0
    BY <1>7
  <2> QED BY <1>2, <1>3, <1>4, <2>1
<1> QED BY <1>2, <1>5, <1>6, <1>7

(* A text that needs more than a size growing goes through does not fit if *)
(* the next size is too large; none does if the first one is.              *)
LEMMA Refused ==
  ASSUME sizes.min \in Nat, sizes.incr \in Nat, sizes.max \in Int, NEW size \in Nat \ {0}
  PROVE  /\ TooLarge(sizes.min) => ~Fits(size)
         /\ \A last \in Nat :
              OnPath(last) /\ size > last /\ TooLarge(last + sizes.incr) => ~Fits(size)
<1> DEFINE a == sizes.min
           d == sizes.incr
<1>1. ASSUME NEW n \in 0 .. size, NEW room \in Nat, TooLarge(room), a + n * d >= room
      PROVE  TooLarge(a + n * d)
  <2>1. n * d \in Nat
    BY Steps
  <2> QED BY <1>1, <2>1 DEF TooLarge
<1>2. ASSUME TooLarge(a) PROVE ~Fits(size)
  <2>1. \A n \in 0 .. size : n * d \in Nat
    BY Steps
  <2>2. \A n \in 0 .. size : TooLarge(a + n * d)
    BY <1>1, <1>2, <2>1
  <2> QED BY <2>2 DEF Fits
<1>3. ASSUME NEW last \in Nat, OnPath(last), size > last, TooLarge(last + d) PROVE ~Fits(size)
  <2>1. PICK k \in Nat : last = a + k * d
    BY <1>3 DEF OnPath
  <2>2. ASSUME NEW n \in 0 .. size, size <= a + n * d PROVE TooLarge(a + n * d)
    <3>1. n * d \in Nat /\ k * d \in Nat /\ (n * d > k * d => n * d >= k * d + d)
      <4>1. n \in Nat /\ d \in Nat
        OBVIOUS
      <4> HIDE DEF d
      <4> QED BY <4>1, Steps
    <3>2. a + n * d > a + k * d
      BY <1>3, <2>1, <2>2, <3>1
    <3>3. a + n * d >= last + d /\ last + d \in Nat
      BY <2>1, <3>1, <3>2
    <3> QED BY <1>1, <1>3, <3>3
  <2> QED BY <2>2 DEF Fits
<1> QED BY <1>2, <1>3

LEMMA SizesKept ==
  ASSUME UNCHANGED <<kind, sizes>>
  PROVE  /\ \A size : Fits(size)' = Fits(size)
         /\ \A size : TooLarge(size)' = TooLarge(size)
         /\ \A size : OnPath(size)' = OnPath(size)
  BY DEF Fits, TooLarge, OnPath

(* What leaves the buffer alone, when the text tried again stays or no     *)
(* text is.                                                                *)
LEMMA SizeKept ==
  ASSUME SizeInv, UNCHANGED <<kind, sizes, buffer_size, has_buffer, failed_serialization, judged>>,
         UNCHANGED <<pc, batch, made>> \/ ~failed_serialization \/ ~TriedAgain
  PROVE  SizeInv'
<1>1. Judged'
  BY SizesKept DEF SizeInv, Judged
<1>2. TriedAgain => TriedAgain' \/ ~failed_serialization
  BY DEF TriedAgain, Here
<1>3. BufferInv'
  BY <1>2, SizesKept DEF SizeInv, BufferInv
<1> QED BY <1>1, <1>3 DEF SizeInv

(* What happens to a transformation of another kind.                       *)
LEMMA SizeOther ==
  ASSUME SizeInv, kind # "JSON out", UNCHANGED <<kind, sizes, judged>>
  PROVE  SizeInv'
  BY DEF SizeInv, Judged, BufferInv

LEMMA NewVerdict ==
  ASSUME SizeInv, kind = "JSON out", UNCHANGED <<kind, sizes>>, NEW size, NEW accepted,
         judged' = judged \cup {<<size, accepted>>}, accepted <=> Fits(size)
  PROVE  Judged'
<1>1. kind' = kind /\ \A n : Fits(n)' = Fits(n)
  BY SizesKept
<1>2. ASSUME NEW verdict \in judged' PROVE verdict[2] <=> Fits(verdict[1])'
  <2>1. CASE verdict \in judged
    BY <1>1, <2>1, Zenon DEF SizeInv, Judged
  <2>2. CASE verdict = <<size, accepted>>
    <3>1. verdict[1] = size
      BY <2>2
    <3>2. verdict[2] = accepted
      BY <2>2
    <3> QED BY <1>1, <3>1, <3>2, Zenon
  <2> QED BY <1>2, <2>1, <2>2, Zenon
<1> QED BY <1>1, <1>2, Zenon DEF Judged

LEMMA SerializeStep ==
  ASSUME CallInv, SizeInv, NEW u \in Users, pc[u] = "work", UNCHANGED <<kind, sizes>>,
         NEW fits \in BOOLEAN, JSON_serialize(u, fits)
  PROVE  SizeInv'
<1> DEFINE size  == Here(u).body.size
           grows == failed_serialization \/ ~has_buffer \/ buffer_size = 0
           room  == IF grows THEN Grown ELSE buffer_size
<1>1. /\ kind = "JSON out" /\ size \in Nat \ {0}
      /\ \A v \in Users : pc[v] = "work" => v = u
  <2>1. Here(u) \in Entries /\ \A v \in Users : v # u => pc[v] = "idle"
    BY WorkFacts
  <2> QED BY <2>1, EntryFacts DEF JSON_serialize
<1>2. /\ sizes.min \in Nat /\ sizes.incr \in Nat /\ sizes.max \in Int /\ buffer_size \in Nat
      /\ has_buffer /\ buffer_size > 0 => OnPath(buffer_size) /\ ~TooLarge(buffer_size)
      /\ failed_serialization => size > buffer_size
  BY <1>1 DEF SizeInv, BufferInv, TriedAgain
<1>3. OnPath(sizes.min)
  <2>1. sizes.min = sizes.min + 0 * sizes.incr
    BY <1>2
  <2> QED BY <2>1 DEF OnPath
<1>4. \/ room = sizes.min
      \/ ~grows /\ room = buffer_size /\ OnPath(room) /\ ~TooLarge(room)
      \/ size > buffer_size /\ OnPath(buffer_size) /\ room = buffer_size + sizes.incr
  BY <1>2 DEF Grown
<1>5. room \in Nat /\ OnPath(room)
  <2>1. ASSUME OnPath(buffer_size) PROVE OnPath(buffer_size + sizes.incr)
    <3>1. PICK n \in Nat : buffer_size = sizes.min + n * sizes.incr
      BY <2>1 DEF OnPath
    <3>2. (n + 1) * sizes.incr = n * sizes.incr + sizes.incr /\ n * sizes.incr \in Nat /\ n + 1 \in Nat
      <4> DEFINE d == sizes.incr
      <4>1. d \in Nat /\ n + 1 \in Nat
        BY <1>2
      <4> HIDE DEF d
      <4>2. n * d \in Nat /\ n * d + d = (n + 1) * d
        BY <4>1, Steps
      <4> QED BY <4>1, <4>2 DEF d
    <3> QED BY <1>2, <3>1, <3>2 DEF OnPath
  <2> QED BY <1>2, <1>3, <1>4, <2>1
<1>6. CASE grows /\ TooLarge(room)
  <2>1. has_buffer' = FALSE /\ failed_serialization' = FALSE
    BY <1>6, Zenon DEF JSON_serialize
  <2>2. buffer_size' = buffer_size /\ judged' = judged \cup {<<size, FALSE>>}
    BY <1>6, Zenon DEF JSON_serialize
  <2>3. ~Fits(size)
    BY <1>1, <1>2, <1>4, <1>6, Refused
  <2>4. Judged'
    BY <1>1, <2>2, <2>3, NewVerdict
  <2>5. BufferInv'
    BY <1>2, <2>1, <2>2 DEF BufferInv
  <2> QED BY <2>4, <2>5 DEF SizeInv
<1>7. CASE ~(grows /\ TooLarge(room))
  <2>1. has_buffer' = TRUE /\ buffer_size' = room
    BY <1>7, Zenon DEF JSON_serialize
  <2>2. failed_serialization' = (size > room)
    BY <1>7, Zenon DEF JSON_serialize
  <2>3. ~TooLarge(room)
    <3>1. CASE grows
      BY <1>7, <3>1
    <3>2. CASE ~grows
      <4>1. room = buffer_size /\ has_buffer /\ buffer_size # 0
        BY <3>2
      <4>2. buffer_size > 0
        BY <1>2, <4>1
      <4>3. ~TooLarge(buffer_size)
        BY <1>2, <4>1, <4>2
      <4> QED BY <4>1, <4>3
    <3> QED BY <3>1, <3>2
  <2> HIDE DEF size, grows, room
  <2>4. CASE size > room
    <3>1. UNCHANGED <<pc, batch, made, judged>>
      BY <1>7, <2>4 DEF JSON_serialize, size, grows, room
    <3>2. TriedAgain'
      BY <2>1, <2>4, <3>1 DEF TriedAgain, Here, size
    <3>3. Judged'
      BY <3>1, SizesKept DEF SizeInv, Judged
    <3>4. BufferInv'
      BY <1>2, <1>5, <2>1, <2>3, <3>2, SizesKept DEF BufferInv
    <3> QED BY <3>3, <3>4 DEF SizeInv
  <2>5. CASE ~(size > room)
    <3>1. judged' = judged \cup {<<size, TRUE>>}
      BY <1>7, <2>5, Zenon DEF JSON_serialize, size, grows, room
    <3>2. size <= room
      <4>1. size \in Nat /\ room \in Nat
        BY <1>1, <1>5
      <4> QED BY <2>5, <4>1
    <3>3. Fits(size)
      BY <1>1, <1>2, <1>5, <2>3, <3>2, Accepted
    <3>4. Judged'
      BY <1>1, <3>1, <3>3, NewVerdict
    <3>5. ~failed_serialization'
      BY <2>2, <2>5
    <3>6. BufferInv'
      BY <1>2, <1>5, <2>1, <2>3, <3>5, SizesKept DEF BufferInv
    <3> QED BY <3>4, <3>6 DEF SizeInv
  <2> QED BY <2>4, <2>5
<1> QED BY <1>6, <1>7

LEMMA InitSizeInv == Init => SizeInv
<1> SUFFICES ASSUME Init PROVE SizeInv
  OBVIOUS
<1>1. failed_serialization = FALSE
  BY DEF Init
<1>2. buffer_size = 0 /\ judged = {}
  BY DEF Init
<1>3. ASSUME kind = "JSON out"
      PROVE  sizes.min \in Nat /\ sizes.incr \in Nat /\ sizes.max \in Int
  <2>1. PICK p \in Properties : sizes = JSON_config(p)
    BY <1>3 DEF Init, Config
  <2> QED BY <2>1, SizesAssumption DEF JSON_config, Or
<1>4. BufferInv
  <2>1. buffer_size \in Nat /\ ~(buffer_size > 0)
    BY <1>2
  <2> QED BY <1>1, <1>3, <2>1, Zenon DEF BufferInv
<1> QED BY <1>2, <1>4 DEF SizeInv, Judged

LEMMA SizeStep == CallInv /\ SizeInv /\ [Next]_vars => SizeInv'
<1> SUFFICES ASSUME CallInv, SizeInv, [Next]_vars PROVE SizeInv'
  OBVIOUS
<1>1. CASE Build
  BY <1>1, SizeKept DEF Build, callVars, configVars, sampleVars, bufferVars
<1>2. ASSUME NEW u \in Users, NEW messages \in Batches, transform(u, messages) PROVE SizeInv'
  <2>1. UNCHANGED <<kind, sizes, buffer_size, has_buffer, failed_serialization, judged>>
    BY <1>2 DEF transform, configVars, bufferVars
  <2>2. UNCHANGED <<pc, batch, made>> \/ ~TriedAgain
    <3>1. CASE loaned
      BY <1>2, <3>1 DEF transform, AlreadyLoaned
    <3>2. CASE ~loaned
      <4>1. ASSUME NEW v \in Users PROVE pc[v] # "work"
        <5>1. pc[u] = "idle" /\ lock = NoOne /\ (use_mutex \/ u = FirstUser)
          BY <1>2 DEF transform, Enters
        <5> QED BY <5>1, ObservedAssumption DEF CallInv, OneCall
      <4> QED BY <4>1 DEF TriedAgain
    <3> QED BY <3>1, <3>2
  <2> QED BY <2>1, <2>2, SizeKept
<1>3. ASSUME NEW u \in Users, Convert(u) PROVE SizeInv'
  <2>1. pc[u] = "work" /\ UNCHANGED <<kind, sizes>>
    BY <1>3 DEF Convert, configVars
  <2>2. ASSUME NEW fits \in BOOLEAN, JSON_serialize(u, fits) PROVE SizeInv'
    BY <2>1, <2>2, SerializeStep
  <2>3. CASE kind # "JSON out"
    <3>1. judged' = judged
      BY <1>3, <2>3 DEF Convert, noop, JSON_deserialize, JSON_serialize, field_serialize,
                       field_deserialize, bufferVars
    <3> QED BY <2>1, <2>3, <3>1, SizeOther
  <2>4. CASE kind = "JSON out"
    BY <1>3, <2>2, <2>4 DEF Convert, noop, JSON_deserialize, field_serialize, field_deserialize
  <2> QED BY <2>3, <2>4
<1>4. ASSUME NEW u \in Users, return_loan(u) PROVE SizeInv'
  <2>1. pc[u] = "loan"
        /\ UNCHANGED <<kind, sizes, buffer_size, has_buffer, failed_serialization, judged>>
    BY <1>4 DEF return_loan, configVars, bufferVars
  <2>2. ~TriedAgain
    BY <2>1 DEF CallInv, OneCall, TriedAgain
  <2> QED BY <2>1, <2>2, SizeKept
<1>5. CASE update
  BY <1>5, SizeKept DEF update, configVars, sampleVars, bufferVars
<1>6. ASSUME NEW t \in Transformations, Delete(t) PROVE SizeInv'
  <2>1. UNCHANGED <<kind, sizes, failed_serialization, judged, pc, batch, made>>
    BY <1>6 DEF Delete, configVars
  <2>2. CASE t # Observed
    <3>1. UNCHANGED <<has_buffer, buffer_size>>
      BY <1>6, <2>2 DEF Delete
    <3> QED BY <2>1, <3>1, SizeKept
  <2>3. CASE t = Observed
    <3>1. buffer_size' = 0
      BY <1>6, <2>3 DEF Delete
    <3>2. ~TriedAgain
      BY <1>6, <2>3 DEF Delete, TriedAgain
    <3>3. Judged'
      BY <2>1, SizesKept DEF SizeInv, Judged
    <3>4. BufferInv'
      <4>1. buffer_size' \in Nat /\ ~(buffer_size' > 0)
        BY <3>1
      <4>2. failed_serialization' => ~(kind = "JSON out")
        BY <2>1, <3>2 DEF SizeInv, BufferInv
      <4>3. kind = "JSON out" =>
              sizes'.min \in Nat /\ sizes'.incr \in Nat /\ sizes'.max \in Int
        BY <2>1 DEF SizeInv, BufferInv
      <4> QED BY <2>1, <4>1, <4>2, <4>3, Zenon DEF BufferInv
    <3> QED BY <3>3, <3>4 DEF SizeInv
  <2> QED BY <2>2, <2>3
<1>7. CASE UNCHANGED vars
  BY <1>7, SizeKept DEF vars, callVars, configVars, sampleVars, bufferVars
<1> QED BY <1>1, <1>2, <1>3, <1>4, <1>5, <1>6, <1>7 DEF Next

(* The size of a text and the configuration decide whether it is accepted, *)
(* and not the texts before it (JSONTransformation.c: RTI_TSFM_serialize,  *)
(* RTI_TSFM_realloc_buffer).                                               *)
THEOREM SizeDecidesTheorem == Spec => []SizeDecides
<1>1. CallInv /\ SizeInv /\ [Next]_vars => CallInv' /\ SizeInv'
  BY CallStep, SizeStep
<1>2. SizeInv => SizeDecides
  BY DEF SizeInv, Judged, SizeDecides
<1> QED BY <1>1, <1>2, InitCallInv, InitSizeInv, PTL DEF Spec
-----------------------------------------------------------------------------
(* How far a call is from its end: the messages it has not done, and what  *)
(* the buffer of JSON lacks for the text at hand.  A text that was not     *)
(* tried, or whose buffer is to be made anew, lacks more than its size.    *)
ToDo(u) == Len(batch[u]) - made

Lacking(u) ==
  LET size == Here(u).body.size IN
  IF failed_serialization /\ has_buffer /\ buffer_size > 0 THEN size - buffer_size ELSE size + 1

Nearer(u) ==
  \/ pc'[u] # "work"
  \/ ToDo(u)' < ToDo(u)
  \/ ToDo(u)' = ToDo(u) /\ Lacking(u)' < Lacking(u)

StuckAt(u) == kind = "JSON out" /\ Hopeless(Here(u).body.size)

progressVars(u) ==
  <<pc[u], batch[u], made, buffer_size, has_buffer, failed_serialization, kind, sizes>>

CallsComeNearer ==
  [][\A u \in Users : pc[u] = "work" =>
       /\ ToDo(u) \in Nat \ {0}
       /\ kind = "JSON out" => Lacking(u) \in Nat \ {0}
       /\ \/ Convert(u) /\ (StuckAt(u) \/ Nearer(u))
          \/ UNCHANGED progressVars(u)]_vars

LEMMA SucceedIsNearer ==
  ASSUME CallInv, NEW u \in Users, pc[u] = "work", NEW s, Succeed(u, s)
  PROVE  Nearer(u)
<1>1. /\ made \in Nat /\ made < Len(batch[u]) /\ Len(batch[u]) \in Nat /\ pc \in [Users -> {"idle", "work", "loan"}]
  BY WorkFacts DEF CallInv, CallTypes, OneCall
<1>2. made' = made + 1 /\ batch' = batch
  BY DEF Succeed
<1>3. ToDo(u)' < ToDo(u)
  BY <1>1, <1>2 DEF ToDo
<1> QED BY <1>3 DEF Nearer

LEMMA FailIsNearer ==
  ASSUME CallInv, NEW u \in Users, NEW s, Fail(u, s)
  PROVE  Nearer(u)
<1>1. pc \in [Users -> {"idle", "work", "loan"}]
  BY DEF CallInv, CallTypes
<1> QED BY <1>1 DEF Fail, Nearer

LEMMA LessIsLacking ==
  ASSUME NEW size \in Nat, NEW old \in Nat, NEW new \in Nat, new > 0
  PROVE  size - new < size + 1 /\ (new > old => size - new < size - old)
  OBVIOUS

(* A text that does not fit yet gets a larger buffer, or its first one;    *)
(* sizes that do not grow are those for which the call is stuck.           *)
LEMMA SerializeIsNearer ==
  ASSUME CallInv, SizeInv, NEW u \in Users, pc[u] = "work",
         NEW fits \in BOOLEAN, JSON_serialize(u, fits), ~StuckAt(u)
  PROVE  Nearer(u)
<1> DEFINE size  == Here(u).body.size
           grows == failed_serialization \/ ~has_buffer \/ buffer_size = 0
           room  == IF grows THEN Grown ELSE buffer_size
<1>1. kind = "JSON out" /\ size \in Nat \ {0}
  <2>1. Here(u) \in Entries
    BY WorkFacts
  <2> QED BY <2>1, EntryFacts DEF JSON_serialize
<1>2. /\ sizes.min \in Nat /\ sizes.incr \in Nat /\ sizes.max \in Int /\ buffer_size \in Nat
      /\ has_buffer /\ buffer_size > 0 => OnPath(buffer_size) /\ ~TooLarge(buffer_size)
      /\ failed_serialization => TriedAgain
  BY <1>1 DEF SizeInv, BufferInv
<1>3. failed_serialization => size > buffer_size
  <2>1. \A v \in Users : pc[v] = "work" => v = u
    BY WorkFacts
  <2> QED BY <1>2, <2>1 DEF TriedAgain
<1>4. ~Hopeless(size)
  BY <1>1 DEF StuckAt
<1>5. CASE grows /\ TooLarge(room)
  BY <1>5, FailIsNearer DEF JSON_serialize
<1>6. CASE ~(grows /\ TooLarge(room)) /\ ~(size > room)
  <2>1. SetText(u, fits)
    BY <1>6, Zenon DEF JSON_serialize
  <2> QED BY <2>1, SucceedIsNearer, FailIsNearer DEF SetText
<1>7. CASE ~(grows /\ TooLarge(room)) /\ size > room
  <2>1. /\ has_buffer' = TRUE /\ buffer_size' = room
        /\ failed_serialization' = (size > room)
    BY <1>7, Zenon DEF JSON_serialize
  <2>2. UNCHANGED <<batch, made>>
    BY <1>7 DEF JSON_serialize
  <2>3. Here(u)' = Here(u) /\ ToDo(u)' = ToDo(u)
    BY <2>2 DEF Here, ToDo
  <2>4. has_buffer' /\ failed_serialization' /\ buffer_size' = room
    BY <1>7, <2>1
  <2>5. room > 0 => Lacking(u)' = size - room
    BY <2>3, <2>4 DEF Lacking
  <2>6. CASE failed_serialization /\ has_buffer /\ buffer_size > 0
    <3>1. Lacking(u) = size - buffer_size
      BY <2>6 DEF Lacking
    <3>2. grows /\ Grown = buffer_size + sizes.incr
      BY <1>2, <2>6 DEF Grown
    <3>3. room = buffer_size + sizes.incr
      BY <3>2
    <3>4. sizes.incr > 0
      <4> SUFFICES ASSUME sizes.incr = 0 PROVE FALSE
        BY <1>2
      <4>1. PICK n \in Nat : buffer_size = sizes.min + n * sizes.incr
        BY <1>2, <2>6 DEF OnPath
      <4>2. buffer_size = sizes.min
        BY <1>2, <4>1
      <4>3. ~TooLarge(sizes.min) /\ size > sizes.min
        BY <1>2, <1>3, <2>6, <4>2
      <4> QED BY <1>4, <4>3 DEF Hopeless
    <3>5. room \in Nat /\ room > 0 /\ room > buffer_size
      BY <1>2, <2>6, <3>3, <3>4
    <3>6. size - room < size - buffer_size
      BY <1>1, <1>2, <3>5, LessIsLacking
    <3> QED BY <2>3, <2>5, <3>1, <3>5, <3>6 DEF Nearer
  <2>7. CASE ~(failed_serialization /\ has_buffer /\ buffer_size > 0)
    <3>1. Lacking(u) = size + 1
      BY <2>7 DEF Lacking
    <3>2. room > 0 /\ room \in Nat
      <4>1. CASE ~grows
        BY <1>2, <4>1
      <4>2. CASE grows
        <5>1. ~has_buffer \/ buffer_size = 0
          BY <1>2, <2>7, <4>2
        <5>2. room = sizes.min
          BY <4>2, <5>1 DEF Grown
        <5>3. ~TooLarge(sizes.min)
          BY <1>7, <4>2, <5>2
        <5> QED BY <1>2, <1>4, <5>2, <5>3 DEF Hopeless
      <4> QED BY <4>1, <4>2
    <3>3. size - room < size + 1
      BY <1>1, <3>2, LessIsLacking
    <3> QED BY <2>3, <2>5, <3>1, <3>2, <3>3 DEF Nearer
  <2> QED BY <2>6, <2>7
<1> QED BY <1>5, <1>6, <1>7

LEMMA ConvertIsNearer ==
  ASSUME CallInv, SizeInv, NEW u \in Users, Convert(u), ~StuckAt(u)
  PROVE  Nearer(u)
<1>1. pc[u] = "work"
  BY DEF Convert
<1>2. ASSUME NEW fits \in BOOLEAN, SetText(u, fits) PROVE Nearer(u)
  BY <1>1, <1>2, SucceedIsNearer, FailIsNearer DEF SetText
<1>3. ASSUME NEW fits \in BOOLEAN, JSON_serialize(u, fits) PROVE Nearer(u)
  BY <1>1, <1>3, SerializeIsNearer
<1>4. ASSUME NEW fits \in BOOLEAN, field_serialize(u, fits) PROVE Nearer(u)
  BY <1>2, <1>4, FailIsNearer DEF field_serialize
<1>5. CASE noop(u)
  BY <1>1, <1>5, SucceedIsNearer DEF noop
<1>6. CASE JSON_deserialize(u)
  BY <1>1, <1>6, SucceedIsNearer, FailIsNearer DEF JSON_deserialize
<1>7. CASE field_deserialize(u)
  BY <1>1, <1>7, SucceedIsNearer, FailIsNearer DEF field_deserialize
<1> QED BY <1>3, <1>4, <1>5, <1>6, <1>7 DEF Convert

(* Nothing else touches a call under way: its lock keeps every other user  *)
(* and update() out, and no transformation is deleted in use.              *)
LEMMA OthersKeepACall ==
  ASSUME CallInv, NEW u \in Users, pc[u] = "work", [Next]_vars, ~Convert(u)
  PROVE  UNCHANGED progressVars(u)
<1>1. /\ \A v \in Users : v # u => pc[v] = "idle"
      /\ ~loaned /\ (use_mutex \/ u = FirstUser) /\ (use_mutex => lock = u)
  BY WorkFacts DEF CallInv, OneCall
<1>2. CASE Build
  BY <1>2 DEF Build, callVars, configVars, sampleVars, bufferVars, progressVars
<1>3. ASSUME NEW v \in Users, NEW messages \in Batches, transform(v, messages)
      PROVE  FALSE
  <2>1. v # u /\ (use_mutex \/ v = FirstUser) /\ lock = NoOne
    BY <1>3 DEF transform, Enters
  <2> QED BY <1>1, <2>1, ObservedAssumption DEF CallInv, OneCall
<1>4. ASSUME NEW v \in Users, Convert(v) \/ return_loan(v) PROVE FALSE
  <2>1. (pc[v] = "work" /\ v # u) \/ pc[v] = "loan"
    BY <1>4 DEF Convert, return_loan
  <2> QED BY <1>1, <2>1
<1>5. CASE update
  BY <1>5 DEF update, configVars, sampleVars, bufferVars, progressVars
<1>6. ASSUME NEW t \in Transformations, Delete(t) PROVE UNCHANGED progressVars(u)
  <2>1. t # Observed
    BY <1>6 DEF Delete
  <2> QED BY <1>6, <2>1 DEF Delete, configVars, progressVars
<1>7. CASE UNCHANGED vars
  BY <1>7 DEF vars, callVars, configVars, sampleVars, bufferVars, progressVars
<1> QED BY <1>2, <1>3, <1>4, <1>5, <1>6, <1>7 DEF Next

(* While a call is under way only its own steps change what it works on,   *)
(* and each of them brings its end nearer unless the text cannot fit a     *)
(* buffer that does not grow: it ends the call, finishes a message or      *)
(* makes the buffer lack less (Transformation.c: T_transform,              *)
(* FlatTypeTransformation.c:1033).                                         *)
THEOREM CallsComeNearerTheorem == Spec => CallsComeNearer
<1>1. ASSUME CallInv, SizeInv, [Next]_vars, NEW u \in Users, pc[u] = "work"
      PROVE  /\ ToDo(u) \in Nat \ {0}
             /\ kind = "JSON out" => Lacking(u) \in Nat \ {0}
             /\ \/ Convert(u) /\ (StuckAt(u) \/ Nearer(u))
                \/ UNCHANGED progressVars(u)
  <2>1. ToDo(u) \in Nat \ {0}
    BY <1>1, WorkFacts DEF ToDo
  <2>2. ASSUME kind = "JSON out" PROVE Lacking(u) \in Nat \ {0}
    <3>1. Here(u).body.size \in Nat \ {0} /\ \A v \in Users : pc[v] = "work" => v = u
      BY <1>1, WorkFacts, EntryFacts
    <3>2. buffer_size \in Nat /\ (failed_serialization => Here(u).body.size > buffer_size)
      BY <1>1, <2>2, <3>1 DEF SizeInv, BufferInv, TriedAgain
    <3> QED BY <3>1, <3>2 DEF Lacking
  <2>3. CASE Convert(u)
    BY <1>1, <2>1, <2>2, <2>3, ConvertIsNearer
  <2>4. CASE ~Convert(u)
    BY <1>1, <2>1, <2>2, <2>4, OthersKeepACall
  <2> QED BY <2>1, <2>2, <2>3, <2>4
<1> DEFINE Counts ==
      \A u \in Users : pc[u] = "work" =>
        /\ ToDo(u) \in Nat \ {0}
        /\ kind = "JSON out" => Lacking(u) \in Nat \ {0}
        /\ \/ Convert(u) /\ (StuckAt(u) \/ Nearer(u))
           \/ UNCHANGED progressVars(u)
<1>2. CallInv /\ SizeInv /\ [Next]_vars => [Counts]_vars
  BY <1>1
<1> HIDE DEF Counts
<1>3. CallInv /\ SizeInv /\ [Next]_vars => CallInv' /\ SizeInv'
  BY CallStep, SizeStep
<1>4. Spec => [][Counts]_vars
  BY <1>2, <1>3, InitCallInv, InitSizeInv, PTL DEF Spec
<1> QED BY <1>4 DEF Counts, CallsComeNearer
=============================================================================
