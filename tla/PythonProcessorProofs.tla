------------------------ MODULE PythonProcessorProofs ------------------------
(***************************************************************************)
(* The three properties of the Python processor, for any number of         *)
(* sessions, outputs and samples and any script:                           *)
(*   - a thread that runs Python holds the interpreter lock unless its     *)
(*     event did not ask for it (RunsWithTheLock), because an event takes  *)
(*     the lock exactly if its swap returned nothing (LockIsAsked);        *)
(*   - a reference is counted for each owner of the wrapper of a port, and *)
(*     the route owns one of each port it has enabled (OwnersCounted);     *)
(*   - therefore a careful script finds every wrapper it looks up alive.   *)
(***************************************************************************)
EXTENDS PythonProcessor, FiniteSetTheorems, TLAPS

-----------------------------------------------------------------------------
(* The interpreter lock.                                                   *)

ThreadTypes ==
  /\ {gil, tstate} \subseteq Threads \cup {NoThread}
  /\ pc \in [Threads -> {"idle", "swapped", "waiting", "python", "native", "stopping"}]
  /\ saved \in [Sessions -> Threads \cup {NoThread}]
  /\ needs_gil \in [Sessions -> BOOLEAN]

(* A session that holds the lock or waits for it will release it. *)
LockIsReleased ==
  from_service => \A s \in Sessions : pc[s] = "waiting" \/ gil = s => needs_gil[s] = TRUE

(* An event in Python asked for the lock if its swap returned nothing. *)
LockIsAsked ==
  from_service =>
    \A s \in Sessions : pc[s] \in {"waiting", "python"} /\ saved[s] = NoThread => needs_gil[s] = TRUE

(* An event that asked for the lock and runs Python has it. *)
AskedIsHeld == \A s \in Sessions : InPython(s) /\ needs_gil[s] => gil = s

(* So has the program, also while it stops the service. *)
MainHolds == pc[Main] \in {"python", "stopping"} => gil = Main

(* A service that loads Python asks nothing, and its thread has the lock. *)
NothingAsked ==
  ~from_service =>
    /\ gil = Main /\ pc[Main] = "native"
    /\ \A s \in Sessions : pc[s] \in {"idle", "python"} /\ needs_gil[s] = FALSE

LockInv ==
  /\ ThreadTypes
  /\ NothingAsked
  /\ HolderRuns
  /\ LockIsReleased
  /\ LockIsAsked
  /\ AskedIsHeld
  /\ MainHolds

LEMMA LockInvInit == Init => LockInv
BY ThreadsAssumption
   DEF Init, LockInv, ThreadTypes, NothingAsked, HolderRuns, LockIsReleased, LockIsAsked,
       AskedIsHeld, MainHolds, InPython, Threads

(* An event ends with the lock exactly if it took it. *)
LEMMA LeaveKeepsLock ==
  ASSUME LockInv, NEW s \in Sessions, InCallback(s), Leave(s)
  PROVE  LockInv'
<1> USE ThreadsAssumption DEF LockInv, ThreadTypes, Leave, Move, Threads, InCallback, InPython
<1>1. ThreadTypes'
  OBVIOUS
<1>2. from_service => (gil = s <=> needs_gil[s])
  BY DEF LockIsReleased
<1>3. NothingAsked'
  BY DEF NothingAsked
<1>4. HolderRuns'
  BY <1>2 DEF HolderRuns, NothingAsked
<1>5. LockIsReleased'
  BY DEF LockIsReleased
<1>6. LockIsAsked'
  BY DEF LockIsAsked
<1>7. AskedIsHeld'
  BY DEF AskedIsHeld
<1>8. MainHolds'
  BY DEF MainHolds
<1> QED BY <1>1, <1>3, <1>4, <1>5, <1>6, <1>7, <1>8

LEMMA EnterKeepsLock ==
  ASSUME LockInv, NEW s \in Sessions, SwapOut(s) \/ SwapBack(s)
  PROVE  LockInv'
<1> USE ThreadsAssumption DEF LockInv, ThreadTypes, Threads, InPython
<1>1. CASE SwapOut(s)
  <2> USE <1>1 DEF SwapOut, Move
  <2>1. ThreadTypes'
    OBVIOUS
  <2>2. NothingAsked'
    BY DEF NothingAsked
  <2>3. HolderRuns'
    BY DEF HolderRuns
  <2>4. LockIsReleased'
    BY DEF LockIsReleased
  <2>5. LockIsAsked'
    BY DEF LockIsAsked
  <2>6. AskedIsHeld'
    BY DEF AskedIsHeld, NothingAsked
  <2>7. MainHolds'
    BY DEF MainHolds
  <2> QED BY <2>1, <2>2, <2>3, <2>4, <2>5, <2>6, <2>7
<1>2. CASE SwapBack(s)
  <2> USE <1>2 DEF SwapBack, Move, NeedsLock
  <2>1. ThreadTypes'
    OBVIOUS
  <2>2. NothingAsked'
    BY DEF NothingAsked
  <2>3. HolderRuns'
    BY DEF HolderRuns
  <2>4. gil # s
    BY DEF HolderRuns
  <2>5. LockIsReleased'
    BY <2>4 DEF LockIsReleased
  <2>6. LockIsAsked'
    BY DEF LockIsAsked
  <2>7. AskedIsHeld'
    BY DEF AskedIsHeld
  <2>8. MainHolds'
    BY DEF MainHolds
  <2> QED BY <2>1, <2>2, <2>3, <2>5, <2>6, <2>7, <2>8
<1> QED BY <1>1, <1>2

LEMMA SwitchKeepsLock ==
  ASSUME LockInv, NEW t \in Threads, TakeLock(t) \/ DropLock(t)
  PROVE  LockInv'
<1> USE ThreadsAssumption
    DEF LockInv, ThreadTypes, Threads, TakeLock, DropLock, Move, InPython
<1>1. ThreadTypes'
  OBVIOUS
<1>2. NothingAsked'
  BY DEF NothingAsked
<1>3. HolderRuns'
  BY DEF HolderRuns
<1>4. LockIsReleased'
  BY DEF LockIsReleased
<1>5. LockIsAsked'
  BY DEF LockIsAsked
<1>6. AskedIsHeld'
  BY DEF AskedIsHeld
<1>7. MainHolds'
  BY DEF MainHolds
<1> QED BY <1>1, <1>2, <1>3, <1>4, <1>5, <1>6, <1>7

LEMMA StopKeepsLock ==
  ASSUME LockInv, BeginStop \/ EndStop
  PROVE  LockInv'
<1> USE ThreadsAssumption
    DEF LockInv, ThreadTypes, Threads, BeginStop, EndStop, Move, InPython
<1>1. ThreadTypes'
  OBVIOUS
<1>2. NothingAsked'
  BY DEF NothingAsked
<1>3. HolderRuns'
  BY DEF HolderRuns
<1>4. LockIsReleased'
  BY DEF LockIsReleased
<1>5. LockIsAsked'
  BY DEF LockIsAsked
<1>6. AskedIsHeld'
  BY DEF AskedIsHeld
<1>7. MainHolds'
  BY DEF MainHolds
<1> QED BY <1>1, <1>2, <1>3, <1>4, <1>5, <1>6, <1>7

(* Who runs Python without the lock did not ask for it. *)
LEMMA LockIsHeld == LockInv => RunsWithTheLock
<1> SUFFICES ASSUME LockInv, NEW t \in Threads, InPython(t), ~Unlocked(t)
             PROVE  gil = t
  BY DEF RunsWithTheLock
<1>1. CASE t = Main
  BY <1>1 DEF LockInv, MainHolds, InPython
<1>2. CASE t \in Sessions
  <2>1. from_service /\ saved[t] = NoThread
    BY <1>2 DEF Unlocked
  <2>2. needs_gil[t]
    BY <1>2, <2>1 DEF LockInv, LockIsAsked, InPython
  <2> QED BY <1>2, <2>2 DEF LockInv, AskedIsHeld
<1> QED BY <1>1, <1>2 DEF Threads

-----------------------------------------------------------------------------
(* The wrappers of the ports.                                              *)

Kinds == {"none", "enabled", "disabled", "data", "state"}

PortTypes ==
  /\ event \in Kinds \X (Ports \cup {NoOutput})
  /\ enabled \subseteq Ports /\ user_data \subseteq Ports
  /\ refs \in [Ports -> Int]
  /\ owners \in [Ports -> SUBSET {"route", "call", "script"}]

(* A reference is counted for each owner. *)
OwnersCounted == \A p \in Ports : refs[p] = Cardinality(owners[p])

(* The route owns one of each port it has enabled or is about to enable. *)
RouteOwns ==
  \A p \in Ports :
    p \in enabled \/ event = <<"enabled", p>> => "route" \in owners[p] /\ p \in user_data

(* A port is enabled once. *)
EnabledOnce == \A p \in Ports : event = <<"enabled", p>> => p \notin enabled

(* An event of a port names one. *)
EventNamesPort == event[1] = "enabled" => event[2] \in Ports

PortInv == PortTypes /\ OwnersCounted /\ RouteOwns /\ EnabledOnce /\ EventNamesPort

LEMMA OwnersAreFinite ==
  ASSUME NEW S \in SUBSET {"route", "call", "script"}
  PROVE  IsFiniteSet(S) /\ Cardinality(S) \in Nat
<1>1. IsFiniteSet({} \cup {"route"} \cup {"call"} \cup {"script"})
  BY FS_EmptySet, FS_AddElement
<1>2. S \subseteq {} \cup {"route"} \cup {"call"} \cup {"script"}
  OBVIOUS
<1>3. IsFiniteSet(S)
  BY <1>1, <1>2, FS_Subset
<1> QED BY <1>3, FS_CardinalityType

LEMMA PortInvInit == Init => PortInv
<1> SUFFICES ASSUME Init PROVE PortInv
  OBVIOUS
<1>1. PortTypes
  BY DEF Init, PortTypes, Kinds, NoEvent, Ports
<1>2. OwnersCounted
  BY FS_EmptySet DEF Init, OwnersCounted, Ports
<1>3. RouteOwns /\ EnabledOnce /\ EventNamesPort
  BY DEF Init, RouteOwns, EnabledOnce, EventNamesPort, NoEvent
<1> QED BY <1>1, <1>2, <1>3 DEF PortInv

LEMMA GainKeepsPorts ==
  ASSUME PortInv, NEW p \in Ports, NEW who \in {"call", "script"}, who \notin owners[p],
         Gain(p, who), UNCHANGED <<event, enabled, user_data>>
  PROVE  PortInv'
<1>1. PortTypes'
  BY DEF PortInv, PortTypes, Gain
<1>2. OwnersCounted'
  <2> SUFFICES ASSUME NEW q \in Ports
               PROVE  refs'[q] = Cardinality(owners'[q])
    BY DEF OwnersCounted
  <2>1. refs[q] = Cardinality(owners[q])
    BY DEF PortInv, OwnersCounted
  <2>2. CASE q = p
    <3>1. refs'[p] = refs[p] + 1 /\ owners'[p] = owners[p] \cup {who}
      BY DEF Gain, PortInv, PortTypes
    <3>2. IsFiniteSet(owners[p])
      BY OwnersAreFinite DEF PortInv, PortTypes
    <3>3. Cardinality(owners[p] \cup {who}) = Cardinality(owners[p]) + 1
      BY <3>2, FS_AddElement
    <3> QED BY <2>1, <2>2, <3>1, <3>3
  <2>3. CASE q # p
    BY <2>1, <2>3 DEF Gain, PortInv, PortTypes
  <2> QED BY <2>2, <2>3
<1>3. RouteOwns'
  <2> SUFFICES ASSUME NEW q \in Ports, q \in enabled \/ event = <<"enabled", q>>
               PROVE  "route" \in owners'[q] /\ q \in user_data
    BY DEF RouteOwns
  <2>1. "route" \in owners[q] /\ q \in user_data
    BY DEF PortInv, RouteOwns
  <2> QED BY <2>1 DEF Gain, PortInv, PortTypes
<1>4. EnabledOnce' /\ EventNamesPort'
  BY DEF PortInv, EnabledOnce, EventNamesPort
<1> QED BY <1>1, <1>2, <1>3, <1>4 DEF PortInv

LEMMA EnabledKeepsPorts ==
  ASSUME PortInv, NEW p \in Ports, OnEnabled(p)
  PROVE  PortInv'
<1> USE DEF PortInv, PortTypes
<1>1. /\ event' = <<"enabled", p>> /\ enabled' = enabled
      /\ user_data' = user_data \cup {p}
      /\ refs' = [refs EXCEPT ![p] = 1]
      /\ owners' = [owners EXCEPT ![p] = {"route"}]
      /\ p \notin enabled
  BY DEF OnEnabled
<1>2. PortTypes'
  BY <1>1 DEF Kinds
<1>3. OwnersCounted'
  BY <1>1, FS_Singleton DEF OwnersCounted
<1>4. RouteOwns'
  <2> SUFFICES ASSUME NEW q \in Ports, q \in enabled \/ event' = <<"enabled", q>>
               PROVE  "route" \in owners'[q] /\ q \in user_data'
    BY <1>1 DEF RouteOwns
  <2>1. CASE q = p
    BY <1>1, <2>1
  <2>2. CASE q # p
    <3>1. q \in enabled
      BY <1>1, <2>2
    <3>2. "route" \in owners[q] /\ q \in user_data
      BY <3>1 DEF RouteOwns
    <3> QED BY <1>1, <2>2, <3>2
  <2> QED BY <2>1, <2>2
<1>5. EnabledOnce' /\ EventNamesPort'
  BY <1>1 DEF EnabledOnce, EventNamesPort
<1> QED BY <1>2, <1>3, <1>4, <1>5

LEMMA OtherEventsKeepPorts ==
  ASSUME PortInv, UNCHANGED portVars,
         NEW kind \in Kinds \ {"enabled"}, NEW p \in Ports \cup {NoOutput}, event' = <<kind, p>>
  PROVE  PortInv'
<1> USE DEF portVars
<1>1. PortTypes'
  BY DEF PortInv, PortTypes
<1>2. OwnersCounted'
  BY DEF PortInv, OwnersCounted
<1>3. \A q : event' # <<"enabled", q>>
  OBVIOUS
<1>4. RouteOwns' /\ EnabledOnce' /\ EventNamesPort'
  BY <1>3 DEF PortInv, RouteOwns, EnabledOnce, EventNamesPort
<1> QED BY <1>1, <1>2, <1>4 DEF PortInv

LEMMA SameEventKeepsPorts ==
  ASSUME PortInv, UNCHANGED portVars, UNCHANGED event
  PROVE  PortInv'
BY DEF portVars, PortInv, PortTypes, OwnersCounted, RouteOwns, EnabledOnce, EventNamesPort

LEMMA ForgetKeepsPorts ==
  ASSUME PortInv, NEW p \in Ports, ForgetPort(p)
  PROVE  PortInv'
<1>1. /\ UNCHANGED <<event, enabled, user_data>>
      /\ "script" \in owners[p]
      /\ refs' = [refs EXCEPT ![p] = @ - 1]
      /\ owners' = [owners EXCEPT ![p] = @ \ {"script"}]
  BY DEF ForgetPort
<1>2. PortTypes'
  BY <1>1 DEF PortInv, PortTypes
<1>3. OwnersCounted'
  <2> SUFFICES ASSUME NEW q \in Ports
               PROVE  refs'[q] = Cardinality(owners'[q])
    BY DEF OwnersCounted
  <2>1. refs[q] = Cardinality(owners[q])
    BY DEF PortInv, OwnersCounted
  <2>2. CASE q = p
    <3>1. refs'[p] = refs[p] - 1 /\ owners'[p] = owners[p] \ {"script"}
      BY <1>1 DEF PortInv, PortTypes
    <3>2. IsFiniteSet(owners[p])
      BY OwnersAreFinite DEF PortInv, PortTypes
    <3>3. Cardinality(owners[p] \ {"script"}) = Cardinality(owners[p]) - 1
      BY <1>1, <3>2, FS_RemoveElement
    <3> QED BY <2>1, <2>2, <3>1, <3>3
  <2>3. CASE q # p
    BY <1>1, <2>1, <2>3 DEF PortInv, PortTypes
  <2> QED BY <2>2, <2>3
<1>4. RouteOwns'
  BY <1>1 DEF PortInv, PortTypes, RouteOwns
<1>5. EnabledOnce' /\ EventNamesPort'
  BY <1>1 DEF PortInv, EnabledOnce, EventNamesPort
<1> QED BY <1>2, <1>3, <1>4, <1>5 DEF PortInv

(* A callback gives up its own reference, and the route that of a port it  *)
(* disables or could not enable.                                           *)
LEMMA ReturnKeepsPorts ==
  ASSUME PortInv, NEW raises \in BOOLEAN, Returns(raises)
  PROVE  PortInv'
<1> USE DEF PortInv, PortTypes
<1>1. /\ event' = NoEvent
      /\ refs' = [p \in Ports |-> refs[p] - Cardinality(Lost(p, raises))]
      /\ owners' = [p \in Ports |-> owners[p] \ Lost(p, raises)]
      /\ enabled' = CASE event[1] = "enabled" /\ ~raises -> enabled \cup {event[2]}
                      [] event[1] = "disabled" /\ ~raises -> enabled \ {event[2]}
                      [] OTHER -> enabled
      /\ user_data' = IF raises THEN user_data ELSE user_data \ LetGo(FALSE)
  BY DEF Returns
<1>2. ASSUME NEW p \in Ports
      PROVE  /\ IsFiniteSet(owners[p])
             /\ Cardinality(Lost(p, raises)) \in Nat
             /\ owners[p] \cap Lost(p, raises) = Lost(p, raises)
  <2>1. Lost(p, raises) \subseteq owners[p] /\ owners[p] \in SUBSET {"route", "call", "script"}
    BY DEF Lost
  <2> QED BY <2>1, OwnersAreFinite
<1>3. enabled' \subseteq Ports
  BY <1>1 DEF EventNamesPort
<1>4. PortTypes'
  <2>1. refs' \in [Ports -> Int]
    BY <1>1, <1>2
  <2>2. owners' \in [Ports -> SUBSET {"route", "call", "script"}]
    BY <1>1
  <2>3. event' \in Kinds \X (Ports \cup {NoOutput}) /\ user_data' \subseteq Ports
    BY <1>1 DEF NoEvent, Kinds
  <2> QED BY <1>3, <2>1, <2>2, <2>3
<1>5. OwnersCounted'
  <2> SUFFICES ASSUME NEW p \in Ports
               PROVE  refs'[p] = Cardinality(owners'[p])
    BY DEF OwnersCounted
  <2>1. refs[p] = Cardinality(owners[p])
    BY DEF OwnersCounted
  <2>2. Cardinality(owners[p] \ Lost(p, raises))
          = Cardinality(owners[p]) - Cardinality(Lost(p, raises))
    BY <1>2, FS_Difference
  <2> QED BY <1>1, <2>1, <2>2
<1>6. RouteOwns'
  <2> SUFFICES ASSUME NEW p \in Ports, p \in enabled'
               PROVE  "route" \in owners'[p] /\ p \in user_data'
    BY <1>1 DEF RouteOwns, NoEvent
  <2>1. /\ p \in enabled \/ event = <<"enabled", p>>
        /\ ~raises => event # <<"disabled", p>>
        /\ raises => p \in enabled
    BY <1>1
  <2>2. "route" \in owners[p] /\ p \in user_data
    BY <2>1 DEF RouteOwns
  <2>3. p \notin LetGo(raises)
    BY <2>1 DEF LetGo, EnabledOnce
  <2>4. "route" \notin Lost(p, raises)
    BY <2>3 DEF Lost
  <2>5. ~raises => p \notin LetGo(FALSE)
    BY <2>3
  <2> QED BY <1>1, <2>2, <2>4, <2>5
<1>7. EnabledOnce' /\ EventNamesPort'
  BY <1>1 DEF EnabledOnce, EventNamesPort, NoEvent
<1> QED BY <1>4, <1>5, <1>6, <1>7

LEMMA EnabledPortIsAlive ==
  ASSUME PortInv, NEW p \in Ports, p \in enabled \/ event = <<"enabled", p>>
  PROVE  refs[p] > 0 /\ refs[p] # 0
<1>1. "route" \in owners[p] /\ refs[p] = Cardinality(owners[p])
  BY DEF PortInv, RouteOwns, OwnersCounted
<1>2. IsFiniteSet(owners[p]) /\ Cardinality(owners[p]) \in Nat
  BY OwnersAreFinite DEF PortInv, PortTypes
<1>3. Cardinality(owners[p]) # 0
  BY <1>1, <1>2, FS_EmptySet
<1> QED BY <1>1, <1>2, <1>3

-----------------------------------------------------------------------------
(* What a careful script relies on beside the wrappers: samples are lent   *)
(* by an enabled input.                                                    *)

CarefulInv ==
  /\ CarefulScriptIsSafe
  /\ script = "careful" => (loan = "held" => Input \in enabled)

LEMMA EventsKeepCare ==
  ASSUME PortInv, CarefulInv, undefined = "no",
         \/ \E p \in Ports :
              \/ OnEnabled(p) \/ OnDisabled(p)
              \/ FindPort(p) \/ KeepPort(p) \/ ForgetPort(p)
         \/ \E kind \in {"data", "state"} : OnRoute(kind),
         UNCHANGED script
  PROVE  CarefulInv'
<1>1. UNCHANGED <<enabled, loan>>
  BY DEF OnEnabled, OnDisabled, FindPort, KeepPort, ForgetPort, OnRoute, Gain, portVars, sampleVars
<1>2. UNCHANGED undefined
  <2>1. ASSUME NEW p \in Ports, FindPort(p) PROVE UNCHANGED undefined
    <3>1. refs[p] # 0
      BY <2>1, EnabledPortIsAlive DEF FindPort
    <3> QED BY <2>1, <3>1 DEF FindPort
  <2> QED BY <2>1 DEF OnEnabled, OnDisabled, KeepPort, ForgetPort, OnRoute
<1> QED BY <1>1, <1>2 DEF CarefulInv, CarefulScriptIsSafe

LEMMA SamplesKeepCare ==
  ASSUME CarefulInv, undefined = "no",
         Take \/ DropSamples \/ \E s \in Samples : Data(s) \/ Item(s),
         UNCHANGED script
  PROVE  CarefulInv'
<1> SUFFICES ASSUME script = "careful"
             PROVE  undefined' = "no" /\ (loan' = "held" => Input \in enabled')
  BY DEF CarefulInv, CarefulScriptIsSafe
<1>1. loan = "held" => Input \in enabled
  BY DEF CarefulInv
<1>2. UNCHANGED enabled
  BY DEF Take, DropSamples, Data, Item, portVars
<1>3. CASE Take
  BY <1>1, <1>2, <1>3 DEF Take, Careful, sampleVars
<1>4. CASE DropSamples
  BY <1>1, <1>2, <1>4 DEF DropSamples
<1>5. ASSUME NEW s \in Samples, Data(s) \/ Item(s)
      PROVE  undefined' = "no" /\ (loan' = "held" => Input \in enabled')
  BY <1>1, <1>2, <1>5 DEF Data, Item, Careful
<1> QED BY <1>3, <1>4, <1>5

(* The buffer that a write hands over is gone only if its output is not    *)
(* enabled: those that are enabled are alive.                              *)
LEMMA WritesKeepCare ==
  ASSUME PortInv, CarefulInv, undefined = "no", UNCHANGED script, NEW o \in Outputs,
         WriteDict(o) \/ \E s \in Samples : WriteSample(o, s)
  PROVE  CarefulInv'
<1> SUFFICES ASSUME script = "careful"
             PROVE  /\ undefined' = "no" \/ (undefined' = "freed output" /\ static_output' \notin enabled')
                    /\ loan' = "held" => Input \in enabled'
  BY DEF CarefulInv, CarefulScriptIsSafe
<1>1. loan = "held" => Input \in enabled
  BY DEF CarefulInv
<1>2. UNCHANGED <<enabled, loan>>
  BY DEF WriteDict, WriteSample, portVars, sampleVars
<1>3. o \in enabled /\ static_output' = First(o) /\ Write(o)
  BY DEF WriteDict, WriteSample, Careful
<1>4. ASSUME First(o) \in enabled PROVE Intact(o)
  <2>1. First(o) \in Ports
    BY <1>4 DEF PortInv, PortTypes
  <2>2. refs[First(o)] > 0
    BY <1>4, <2>1, EnabledPortIsAlive
  <2> QED BY <2>1, <2>2, PortsAssumption DEF Intact
<1>5. undefined' = "no" \/ (undefined' = "freed output" /\ First(o) \notin enabled)
  BY <1>3, <1>4 DEF Write, Fails
<1> QED BY <1>1, <1>2, <1>3, <1>5

(* Two threads in Python: one of them has no lock. *)
LEMMA RaceKeepsCare ==
  ASSUME LockInv, CarefulInv, Race, UNCHANGED <<threadVars, script>>
  PROVE  CarefulInv'
<1>1. PICK t \in Threads \ {Session} : InPython(t)
  BY DEF Race
<1>2. gil # t \/ gil # Session
  OBVIOUS
<1>3. InPython(Session) /\ Session \in Threads
  BY ThreadsAssumption DEF Race, Ready, InCallback, Threads
<1>4. Unlocked(t) \/ Unlocked(Session)
  BY <1>1, <1>2, <1>3, LockIsHeld DEF RunsWithTheLock
<1>5. (\E u \in Sessions : Unlocked(u))'
  BY <1>4 DEF Unlocked, InPython, threadVars
<1>6. undefined' = "race" /\ UNCHANGED <<loan, enabled, script>>
  BY DEF Race, Fails, sampleVars, portVars
<1> QED BY <1>5, <1>6 DEF CarefulInv, CarefulScriptIsSafe

LEMMA ReturnKeepsCare ==
  ASSUME CarefulInv, undefined = "no", NEW raises \in BOOLEAN, Returns(raises)
  PROVE  CarefulInv'
<1>1. UNCHANGED <<script, undefined, loan>>
  BY DEF Returns, sampleVars
<1>2. script = "careful" => loan # "held"
  BY DEF Returns, Careful
<1> QED BY <1>1, <1>2 DEF CarefulInv, CarefulScriptIsSafe

-----------------------------------------------------------------------------
(* All of it.                                                              *)

IInv == LockInv /\ PortInv /\ CarefulInv

LEMMA InvInit == Init => IInv
<1>1. Init => CarefulInv
  BY DEF Init, CarefulInv, CarefulScriptIsSafe
<1> QED BY <1>1, LockInvInit, PortInvInit DEF IInv

LEMMA OthersKeepLock == LockInv /\ UNCHANGED threadVars => LockInv'
BY DEF threadVars, LockInv, ThreadTypes, NothingAsked, HolderRuns, LockIsReleased, LockIsAsked,
       AskedIsHeld, MainHolds, InPython

LEMMA ThreadStepKeepsInv == IInv /\ undefined = "no" /\ ThreadStep => IInv'
<1> SUFFICES ASSUME IInv, undefined = "no", ThreadStep PROVE IInv'
  OBVIOUS
<1>1. LockInv'
  <2>1. ASSUME NEW s \in Sessions, ReturnOther(s) PROVE LockInv'
    BY <2>1, LeaveKeepsLock DEF IInv, ReturnOther
  <2>2. ASSUME NEW s \in Sessions, Enter(s) PROVE LockInv'
    BY <2>2, EnterKeepsLock, SwitchKeepsLock DEF IInv, Enter, Threads
  <2> QED BY <2>1, <2>2, SwitchKeepsLock, StopKeepsLock DEF IInv, ThreadStep, Threads
<1>2. UNCHANGED <<event, portVars, loan, enabled, undefined, script>>
  BY DEF ThreadStep, objectVars, sampleVars, portVars
<1>3. PortInv'
  BY <1>2, SameEventKeepsPorts DEF IInv
<1>4. CarefulInv'
  BY <1>2 DEF IInv, CarefulInv, CarefulScriptIsSafe
<1> QED BY <1>1, <1>3, <1>4 DEF IInv

LEMMA ReturnKeepsInv ==
  \A raises \in BOOLEAN : IInv /\ undefined = "no" /\ Returns(raises) => IInv'
<1> SUFFICES ASSUME NEW raises \in BOOLEAN, IInv, undefined = "no", Returns(raises) PROVE IInv'
  OBVIOUS
<1>1. LockInv'
  BY LeaveKeepsLock, ThreadsAssumption DEF IInv, Returns, Ready
<1> QED BY <1>1, ReturnKeepsPorts, ReturnKeepsCare DEF IInv

LEMMA ScriptKeepsPorts == PortInv /\ ScriptStep => PortInv'
<1> SUFFICES ASSUME PortInv, ScriptStep PROVE PortInv'
  OBVIOUS
<1>1. ASSUME NEW p \in Ports, FindPort(p) PROVE PortInv'
  <2>1. refs[p] # 0
    BY <1>1, EnabledPortIsAlive DEF FindPort
  <2> QED BY <1>1, <2>1, GainKeepsPorts DEF FindPort
<1>2. ASSUME NEW p \in Ports, KeepPort(p) PROVE PortInv'
  BY <1>2, GainKeepsPorts DEF KeepPort
<1>3. ASSUME NEW p \in Ports, OnDisabled(p) PROVE PortInv'
  BY <1>3, OtherEventsKeepPorts DEF OnDisabled, Kinds
<1>4. ASSUME NEW kind \in {"data", "state"}, OnRoute(kind) PROVE PortInv'
  BY <1>4, OtherEventsKeepPorts DEF OnRoute, Kinds
<1>5. ASSUME Take \/ DropSamples \/ Race \/ \E s \in Samples : Data(s) \/ Item(s) PROVE PortInv'
  BY <1>5, SameEventKeepsPorts DEF Take, DropSamples, Race, Data, Item
<1>6. ASSUME NEW o \in Outputs, WriteDict(o) \/ \E s \in Samples : WriteSample(o, s)
      PROVE  PortInv'
  BY <1>6, SameEventKeepsPorts DEF WriteDict, WriteSample
<1> QED BY <1>1, <1>2, <1>3, <1>4, <1>5, <1>6, EnabledKeepsPorts, ForgetKeepsPorts DEF ScriptStep

(* Another route may own the output that is written, or free it: the       *)
(* careful script notices it when it writes.                               *)
LEMMA OthersKeepInv ==
  ASSUME IInv, undefined = "no", NEW s \in Sessions, OtherWrites(s) \/ OtherFrees(s)
  PROVE  IInv'
<1>1. UNCHANGED <<threadVars, event, portVars, loan, enabled, undefined, script>>
  BY DEF OtherWrites, OtherFrees, OtherStatic, sampleVars, portVars
<1>2. LockInv' /\ PortInv'
  BY <1>1, OthersKeepLock, SameEventKeepsPorts DEF IInv
<1>3. CarefulInv'
  BY <1>1 DEF IInv, CarefulInv, CarefulScriptIsSafe
<1> QED BY <1>2, <1>3 DEF IInv

LEMMA InvNext == IInv /\ [Next]_vars => IInv'
<1> SUFFICES ASSUME IInv, [Next]_vars PROVE IInv'
  OBVIOUS
<1>1. CASE undefined = "no" /\ ScriptStep
  <2>1. LockInv'
    BY <1>1, OthersKeepLock DEF IInv, ScriptStep
  <2>2. UNCHANGED <<threadVars, script>>
    BY <1>1 DEF ScriptStep
  <2>3. CarefulInv'
    BY <1>1, <2>2, EventsKeepCare, SamplesKeepCare, WritesKeepCare, RaceKeepsCare
       DEF IInv, ScriptStep
  <2> QED BY <1>1, <2>1, <2>3, ScriptKeepsPorts DEF IInv
<1>2. CASE UNCHANGED vars
  <2>1. UNCHANGED <<threadVars, event, portVars, loan, enabled, undefined, static_output, script>>
    BY <1>2 DEF vars, objectVars, sampleVars, portVars
  <2>2. LockInv' /\ PortInv'
    BY <2>1, OthersKeepLock, SameEventKeepsPorts DEF IInv
  <2>3. CarefulInv'
    BY <2>1 DEF IInv, CarefulInv, CarefulScriptIsSafe, Unlocked, InPython, threadVars
  <2> QED BY <2>2, <2>3 DEF IInv
<1> QED BY <1>1, <1>2, ThreadStepKeepsInv, ReturnKeepsInv, OthersKeepInv DEF Next

(* Each state of the route satisfies the invariant. *)
THEOREM PythonInvariant == Spec => []IInv
BY InvInit, InvNext, PTL DEF Spec

(* LockGuardsPython for any sessions: whoever runs Python holds the lock   *)
(* unless the service loaded Python itself or the event found the thread   *)
(* state of another thread, and the holder of the lock runs                *)
(* (forward_on_route_event).                                               *)
THEOREM LockGuards == Spec => []LockGuardsPython
<1>1. IInv => LockGuardsPython
  BY LockIsHeld DEF IInv, LockInv, LockGuardsPython
<1> QED BY <1>1, PythonInvariant, PTL

(* ReferencesCounted for any ports: references are counted as owned,       *)
(* through events that are rejected and look-ups in any order.             *)
THEOREM ReferencesAreCounted == Spec => []ReferencesCounted
<1>1. IInv => ReferencesCounted
  BY DEF IInv, PortInv, OwnersCounted, RouteOwns, ReferencesCounted
<1> QED BY <1>1, PythonInvariant, PTL

(* CarefulScriptIsSafe for any script that is careful: it meets freed      *)
(* memory only beside an event without the lock, or because the output     *)
(* that wrote first in the process is not there any more.                  *)
THEOREM CareIsEnough == Spec => []CarefulScriptIsSafe
<1>1. IInv => CarefulScriptIsSafe
  BY DEF IInv, CarefulInv
<1> QED BY <1>1, PythonInvariant, PTL
=============================================================================
