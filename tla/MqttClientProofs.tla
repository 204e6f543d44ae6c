--------------------------- MODULE MqttClientProofs ---------------------------
(***************************************************************************)
(* The client for any number of applications, subscriptions, calls and     *)
(* lost connections.                                                       *)
(*                                                                         *)
(* Two theorems are about every behaviour.  A thread writes the state      *)
(* after it tested it, when it begins an operation, or without a look at   *)
(* it: of two operations at once, one was under way when another thread    *)
(* wrote (OneOperation).  Until that lets a second one in, the thread that *)
(* operates is the only one to wait for a session, so what an answer says  *)
(* of the connection holds until the caller acts on it, or the thread that *)
(* will notice the loss is still ahead (ConnectedHasLink).                 *)
(*                                                                         *)
(* The other two are about callers without timeouts while no connection is *)
(* lost and no message fails to be stored.  Whoever asked waits, and is    *)
(* the only one to wait on its condition: an answer that is stored is read *)
(* by the caller it is meant for (AnswersAreAwaited), and what it says of  *)
(* the subscriptions is still true when the caller acts on it              *)
(* (SubscriptionsOnBroker).                                                *)
(***************************************************************************)
EXTENDS MqttClient, TLAPS

LEMMA PhasesDiffer ==
  /\ \A k, w : Ask(k) # Wait(w) /\ Ask(k) # Do(w) /\ Wait(k) # Do(w)
  /\ \A k : Idle # Ask(k) /\ Idle # Wait(k) /\ Idle # Do(k)
  /\ \A k, w : /\ Ask(k) = Ask(w) => k = w
               /\ Wait(k) = Wait(w) => k = w
               /\ Do(k) = Do(w) => k = w
BY DEF Idle, Ask, Wait, Do

LEMMA AppIsThread == \A t \in Apps : t \in Threads /\ t \notin Losses
BY ThreadsAssumption DEF Threads

-----------------------------------------------------------------------------
(* Every behaviour: connections lost, messages that fail and timeouts.     *)

LossPhases == {Do("set_error"), Do("renew_client"), Do("fail_commands"), Do("check_state"),
               Do("reconnect")}

PhaseInv ==
  /\ pc \in [Threads -> Phases]
  /\ \A t \in Apps : pc[t] \notin LossPhases
  /\ budget \in BudgetType
  /\ \A t \in budget.losses : pc[t] = Idle

LEMMA PhasesOfThreads ==
  /\ Idle \in Phases
  /\ \A k \in Kinds : Ask(k) \in Phases /\ Wait(k) \in Phases
  /\ \A what \in {"copy_submit", "copy_cancel", "set_connected", "set_disconnected",
                  "set_error", "forget", "undo", "renew_client", "fail_commands",
                  "check_state", "reconnect"} : Do(what) \in Phases
BY DEF Phases, Idle, Ask, Wait, Do

(* A thread goes on with what it does, ... *)
GoesOn(t) ==
  /\ UNCHANGED <<state, history>>
  /\ Connecting(t)' => Connecting(t)
  /\ Disconnecting(t)' => Disconnecting(t)

(* ... writes the state without a look at it, ... *)
Writes(t) ==
  /\ \E new \in States : WriteState(t, new)
  /\ ~Operating(t)'
  /\ state' = "CONNECTED" => pc[t] = Do("set_connected")

(* ... or tests it and begins connect() or disconnect(). *)
Enters(t) ==
  /\ ~Refusing
  /\ \/ EnterState(t, "CONNECTING") /\ Connecting(t)' /\ ~Disconnecting(t)'
     \/ EnterState(t, "DISCONNECTING") /\ Disconnecting(t)' /\ ~Connecting(t)'

(* A step of one thread t, or of none. *)
StepOf(t) ==
  /\ \A u \in Threads \ {t} : pc'[u] = pc[u]
  /\ PhaseInv'
  /\ \/ t \in Threads /\ (GoesOn(t) \/ Writes(t) \/ Enters(t))
     \/ t = NoThread /\ (UNCHANGED <<state, history>> \/ WriteState(NoThread, "ERROR"))

LEMMA MovesAreSteps ==
  ASSUME PhaseInv, NEW t \in Threads, NEW where \in Phases, pc' = [pc EXCEPT ![t] = where],
         UNCHANGED budget, t \notin budget.losses, t \in Apps => where \notin LossPhases
  PROVE  PhaseInv' /\ pc'[t] = where /\ \A u \in Threads \ {t} : pc'[u] = pc[u]
<1>1. pc'[t] = where /\ \A u \in Threads \ {t} : pc'[u] = pc[u]
  BY DEF PhaseInv
<1>2. budget.losses \subseteq Threads
  BY DEF PhaseInv, BudgetType, Threads
<1>3. pc' \in [Threads -> Phases] /\ \A u \in Apps : pc'[u] \notin LossPhases
  BY <1>1, AppIsThread DEF PhaseInv
<1> QED BY <1>1, <1>2, <1>3 DEF PhaseInv, LossPhases

LEMMA BusyIsSpent ==
  ASSUME PhaseInv, NEW t \in Threads, pc[t] # Idle PROVE t \notin budget.losses
BY DEF PhaseInv

LEMMA SequelPhases ==
  ASSUME NEW k \in Kinds, NEW t \in Threads
  PROVE  /\ AfterSuccess(k) \in Phases \ LossPhases
         /\ AfterFailure(k, t) \in Phases
         /\ t \in Apps => AfterFailure(k, t) \notin LossPhases
BY PhasesOfThreads, PhasesDiffer, AppIsThread
   DEF AfterSuccess, AfterFailure, Sequel, Kinds, LossPhases

(* The beginning of connect(), by an application or by a lost connection. *)
LEMMA BeginConnectLeads ==
  ASSUME PhaseInv, NEW t \in Threads, BeginConnect(t), pc[t] \in {Idle, Do("reconnect")}
  PROVE  \E where \in {Idle, Ask("connect"), Do("set_error")} :
           /\ pc' = [pc EXCEPT ![t] = where]
           /\ where = Do("set_error") => t \in Losses
           /\ GoesOn(t) \/ Enters(t)
<1>1. CASE state = "CONNECTED" \/ Refusing
  <2>1. PICK where \in {Idle, Do("set_error")} :
          pc' = [pc EXCEPT ![t] = where] /\ (where = Do("set_error") => t \in Losses)
    BY <1>1, PhasesDiffer DEF BeginConnect, Goto
  <2>2. pc'[t] = where
    BY <2>1 DEF PhaseInv
  <2>3. GoesOn(t)
    BY <1>1, <2>2, PhasesDiffer DEF GoesOn, BeginConnect, Connecting, Disconnecting
  <2> QED BY <2>1, <2>3
<1>2. CASE ~(state = "CONNECTED" \/ Refusing)
  <2>1. pc' = [pc EXCEPT ![t] = Ask("connect")] /\ EnterState(t, "CONNECTING")
    BY <1>2 DEF BeginConnect, Goto
  <2>2. pc'[t] = Ask("connect")
    BY <2>1 DEF PhaseInv
  <2>3. Connecting(t)' /\ ~Disconnecting(t)'
    BY <2>2, PhasesDiffer DEF Connecting, Disconnecting
  <2> QED BY <1>2, <2>1, <2>3, PhasesDiffer DEF Enters
<1> QED BY <1>1, <1>2

LEMMA BeginIsStep ==
  ASSUME PhaseInv, NEW t \in Threads, Begin(t)
  PROVE  StepOf(t)
<1>1. t \in Apps /\ pc[t] = Idle
  BY DEF Begin, PhaseInv, BudgetType
<1>2. t \notin budget.losses
  BY <1>1, AppIsThread DEF PhaseInv, BudgetType
<1>3. budget' \in BudgetType /\ budget'.losses = budget.losses
  <2>1. \/ UNCHANGED budget
        \/ budget.connects > 0 /\ budget' = [budget EXCEPT !.connects = @ - 1]
        \/ budget.disconnects > 0 /\ budget' = [budget EXCEPT !.disconnects = @ - 1]
    BY DEF Begin, BeginDisconnect, BeginSubscribe, BeginUnsubscribe
  <2> QED BY <2>1 DEF PhaseInv, BudgetType
<1>4. ASSUME NEW where \in Phases \ LossPhases, pc' = [pc EXCEPT ![t] = where]
      PROVE  PhaseInv' /\ \A u \in Threads \ {t} : pc'[u] = pc[u]
  <2>1. pc'[t] = where /\ \A u \in Threads \ {t} : pc'[u] = pc[u]
    BY <1>4 DEF PhaseInv
  <2>2. \A u \in budget.losses : pc'[u] = Idle
    BY <1>2, <2>1 DEF PhaseInv, BudgetType, Threads
  <2>3. pc' \in [Threads -> Phases] /\ \A u \in Apps : pc'[u] \notin LossPhases
    BY <1>4, <2>1, AppIsThread DEF PhaseInv
  <2> QED BY <1>3, <2>1, <2>2, <2>3 DEF PhaseInv, LossPhases
<1>5. CASE BeginConnect(t)
  <2>1. PICK where \in {Idle, Ask("connect"), Do("set_error")} :
          /\ pc' = [pc EXCEPT ![t] = where]
          /\ where = Do("set_error") => t \in Losses
          /\ GoesOn(t) \/ Enters(t)
    BY <1>1, <1>5, BeginConnectLeads
  <2>2. where \in Phases \ LossPhases
    BY <1>1, <2>1, AppIsThread, PhasesOfThreads, PhasesDiffer DEF LossPhases, Kinds
  <2> QED BY <1>4, <2>1, <2>2 DEF StepOf
<1>6. CASE BeginDisconnect(t)
  <2>1. PICK where \in {Do("copy_cancel"), Ask("disconnect")} : pc' = [pc EXCEPT ![t] = where]
    BY <1>6 DEF BeginDisconnect, Goto
  <2>2. where \in Phases \ LossPhases
    BY <2>1, PhasesOfThreads, PhasesDiffer DEF LossPhases, Kinds
  <2>3. pc'[t] = where
    BY <2>1 DEF PhaseInv
  <2>4. Disconnecting(t)' /\ ~Connecting(t)'
    BY <2>3, PhasesDiffer DEF Connecting, Disconnecting
  <2>5. Enters(t)
    BY <1>6, <2>4 DEF Enters, BeginDisconnect
  <2> QED BY <1>4, <2>1, <2>2, <2>5 DEF StepOf
<1>7. CASE BeginSubscribe(t) \/ BeginUnsubscribe(t)
  <2>1. PICK where \in {Ask("submit"), Ask("cancel")} : pc' = [pc EXCEPT ![t] = where]
    BY <1>7 DEF BeginSubscribe, BeginUnsubscribe, Goto
  <2>2. where \in Phases \ LossPhases
    BY <2>1, PhasesOfThreads, PhasesDiffer DEF LossPhases, Kinds
  <2>3. pc'[t] = where
    BY <2>1 DEF PhaseInv
  <2>4. GoesOn(t)
    BY <1>7, <2>3, PhasesDiffer
       DEF GoesOn, BeginSubscribe, BeginUnsubscribe, client, Connecting, Disconnecting
  <2> QED BY <1>4, <2>1, <2>2, <2>4 DEF StepOf
<1> QED BY <1>5, <1>6, <1>7 DEF Begin

LEMMA ExchangeIsStep ==
  ASSUME PhaseInv, NEW t \in Threads, NEW k \in Kinds, Submit(t, k) \/ Awake(t, k) \/ GiveUp(t, k)
  PROVE  StepOf(t)
<1>1. PICK where \in {Wait(k), AfterSuccess(k), AfterFailure(k, t)} : pc' = [pc EXCEPT ![t] = where]
  BY DEF Submit, Awake, GiveUp, Goto
<1>2. pc[t] \in {Ask(k), Wait(k)} /\ UNCHANGED <<state, history, budget>>
  BY DEF Submit, Awake, GiveUp, client
<1>3. where \in Phases /\ (t \in Apps => where \notin LossPhases)
  BY SequelPhases, PhasesOfThreads, PhasesDiffer DEF LossPhases
<1>4. pc'[t] = where /\ PhaseInv' /\ \A u \in Threads \ {t} : pc'[u] = pc[u]
  BY <1>1, <1>2, <1>3, MovesAreSteps, BusyIsSpent, PhasesDiffer
<1>5. /\ Connecting(t)' => Connecting(t)
      /\ Disconnecting(t)' => Disconnecting(t)
  BY <1>2, <1>4, PhasesDiffer, AppIsThread
     DEF Connecting, Disconnecting, AfterSuccess, AfterFailure, Sequel, Kinds
<1> QED BY <1>2, <1>4, <1>5 DEF StepOf, GoesOn

LEMMA CopyIsStep ==
  ASSUME PhaseInv, NEW t \in Threads,
         \/ CopyAll(t, "copy_submit", "submit_all")
         \/ CopyAll(t, "copy_cancel", "cancel_all")
  PROVE  StepOf(t)
<1>1. PICK k \in {"submit_all", "cancel_all"} :
        CopyAll(t, IF k = "submit_all" THEN "copy_submit" ELSE "copy_cancel", k)
  OBVIOUS
<1>2. PICK where \in {AfterSuccess(k), Ask(k)} : pc' = [pc EXCEPT ![t] = where]
  BY <1>1 DEF CopyAll, Goto
<1>3. /\ pc[t] = Do(IF k = "submit_all" THEN "copy_submit" ELSE "copy_cancel")
      /\ UNCHANGED <<state, history, budget>>
  BY <1>1 DEF CopyAll, client
<1>4. where \in Phases /\ where \notin LossPhases
  BY SequelPhases, PhasesOfThreads, PhasesDiffer DEF LossPhases, AfterSuccess, Sequel, Kinds
<1>5. pc'[t] = where /\ PhaseInv' /\ \A u \in Threads \ {t} : pc'[u] = pc[u]
  BY <1>2, <1>3, <1>4, MovesAreSteps, BusyIsSpent, PhasesDiffer
<1>6. /\ Connecting(t)' => Connecting(t)
      /\ Disconnecting(t)' => Disconnecting(t)
  BY <1>3, <1>5, PhasesDiffer DEF Connecting, Disconnecting, AfterSuccess, Sequel
<1> QED BY <1>3, <1>5, <1>6 DEF StepOf, GoesOn

LEMMA WriteIsStep ==
  ASSUME PhaseInv, NEW t \in Threads,
         \/ SetState(t, "set_connected", "CONNECTED")
         \/ t \in Apps /\ SetState(t, "set_disconnected", "DISCONNECTED")
         \/ SetState(t, "set_error", "ERROR")
         \/ LostConnection(t)
  PROVE  StepOf(t)
<1>1. PICK where \in {Idle, Do("reconnect")} :
        pc' = [pc EXCEPT ![t] = where] /\ (t \in Apps => where = Idle)
  BY AppIsThread DEF SetState, LostConnection, Goto
<1>2. /\ pc[t] # Idle /\ UNCHANGED budget
      /\ \E new \in States : WriteState(t, new)
      /\ state' = "CONNECTED" => pc[t] = Do("set_connected")
  BY PhasesDiffer DEF SetState, LostConnection, WriteState, States
<1>3. where \in Phases /\ (t \in Apps => where \notin LossPhases)
  BY <1>1, PhasesOfThreads, PhasesDiffer DEF LossPhases
<1>4. pc'[t] = where /\ PhaseInv' /\ \A u \in Threads \ {t} : pc'[u] = pc[u]
  BY <1>1, <1>2, <1>3, MovesAreSteps, BusyIsSpent
<1>5. ~Operating(t)'
  BY <1>4, PhasesDiffer DEF Operating, Connecting, Disconnecting
<1> QED BY <1>2, <1>4, <1>5 DEF StepOf, Writes

LEMMA PlainIsStep ==
  ASSUME PhaseInv, NEW t \in Threads,
         \/ Forget(t)
         \/ LockLibrary(t) \/ FailCommand(t) \/ RenewClient(t) \/ CheckState(t)
  PROVE  StepOf(t)
<1>1. /\ pc[t] # Idle /\ UNCHANGED <<state, history, budget>>
      /\ pc[t] \in LossPhases \/ Forget(t)
  BY PhasesDiffer
     DEF Forget, LockLibrary, FailCommand, RenewClient, CheckState, client, library, LossPhases
<1>2. \E where \in {Idle, Do("fail_commands"), Do("check_state"), Do("set_disconnected"), pc[t]} :
        pc' = [pc EXCEPT ![t] = where] /\ (Forget(t) => where = Idle)
  <2>1. CASE FailCommand(t)
    <3>1. pc' = [pc EXCEPT ![t] = pc[t]]
      BY <2>1 DEF FailCommand, PhaseInv
    <3> QED BY <2>1, <3>1, PhasesDiffer DEF FailCommand, Forget
  <2>2. CASE Forget(t)
    BY <2>2 DEF Forget, Goto
  <2>3. CASE ~Forget(t) /\ ~FailCommand(t)
    BY <2>3 DEF LockLibrary, RenewClient, CheckState, Goto
  <2> QED BY <2>1, <2>2, <2>3
<1>3. PICK where \in {Idle, Do("fail_commands"), Do("check_state"), Do("set_disconnected"), pc[t]} :
        pc' = [pc EXCEPT ![t] = where] /\ (Forget(t) => where = Idle)
  BY <1>2
<1>4. t \in Apps => Forget(t)
  BY <1>1 DEF PhaseInv
<1>5. where \in Phases /\ (t \in Apps => where \notin LossPhases)
  BY <1>3, <1>4, PhasesOfThreads, PhasesDiffer DEF LossPhases, PhaseInv
<1>6. pc'[t] = where /\ PhaseInv' /\ \A u \in Threads \ {t} : pc'[u] = pc[u]
  BY <1>1, <1>3, <1>5, MovesAreSteps, BusyIsSpent
<1>7. /\ Connecting(t)' => Connecting(t)
      /\ Disconnecting(t)' => Disconnecting(t)
  BY <1>3, <1>4, <1>6, PhasesDiffer DEF Connecting, Disconnecting
<1> QED BY <1>1, <1>6, <1>7 DEF StepOf, GoesOn

LEMMA ReconnectIsStep ==
  ASSUME PhaseInv, NEW t \in Threads, Reconnects(t)
  PROVE  StepOf(t)
<1>1. pc[t] = Do("reconnect") /\ pc[t] # Idle /\ UNCHANGED budget
  BY PhasesDiffer DEF Reconnects
<1>2. t \notin Apps
  BY <1>1 DEF PhaseInv, LossPhases
<1>3. PICK where \in {Idle, Ask("connect"), Do("set_error")} :
        pc' = [pc EXCEPT ![t] = where] /\ (GoesOn(t) \/ Enters(t))
  BY <1>1, BeginConnectLeads DEF Reconnects
<1>4. where \in Phases
  BY <1>3, PhasesOfThreads DEF Kinds
<1>5. PhaseInv' /\ \A u \in Threads \ {t} : pc'[u] = pc[u]
  BY <1>1, <1>2, <1>3, <1>4, MovesAreSteps, BusyIsSpent
<1> QED BY <1>3, <1>5 DEF StepOf

LEMMA LoseIsStep ==
  ASSUME PhaseInv, NEW t \in Losses, Lose(t)
  PROVE  StepOf(t)
<1>1. t \in Threads /\ t \notin Apps
  BY ThreadsAssumption DEF Threads
<1>2. pc' = [pc EXCEPT ![t] = Do("renew_client")] /\ UNCHANGED <<state, history>>
  BY DEF Lose, Goto, client
<1>3. pc'[t] = Do("renew_client") /\ \A u \in Threads \ {t} : pc'[u] = pc[u]
  BY <1>1, <1>2 DEF PhaseInv
<1>4. budget' \in BudgetType /\ budget'.losses = budget.losses \ {t}
  BY DEF Lose, PhaseInv, BudgetType
<1>5. \A u \in budget'.losses : pc'[u] = Idle
  BY <1>3, <1>4 DEF PhaseInv, BudgetType, Threads
<1>6. pc' \in [Threads -> Phases] /\ \A u \in Apps : pc'[u] \notin LossPhases
  BY <1>1, <1>2, <1>3, AppIsThread, PhasesOfThreads DEF PhaseInv
<1>7. PhaseInv'
  BY <1>4, <1>5, <1>6 DEF PhaseInv, LossPhases
<1>8. ~Connecting(t)' /\ ~Disconnecting(t)'
  BY <1>3, PhasesDiffer DEF Connecting, Disconnecting
<1> QED BY <1>1, <1>2, <1>3, <1>7, <1>8 DEF StepOf, GoesOn

LEMMA EnvironmentIsStep ==
  ASSUME PhaseInv,
         \/ \E c \in inflight : Serve(c) \/ Answer(c, TRUE) \/ Answer(c, FALSE)
         \/ MessageFails
         \/ UNCHANGED vars
  PROVE  StepOf(NoThread)
<1>1. UNCHANGED pc /\ (UNCHANGED <<state, history>> \/ WriteState(NoThread, "ERROR"))
  BY DEF Serve, Answer, MessageFails, client, vars
<1>2. budget' \in BudgetType /\ budget'.losses = budget.losses
  <2>1. CASE MessageFails
    BY <2>1 DEF MessageFails, PhaseInv, BudgetType
  <2>2. CASE UNCHANGED budget
    BY <2>2 DEF PhaseInv
  <2> QED BY <2>1, <2>2 DEF Serve, Answer, vars
<1>3. PhaseInv'
  BY <1>1, <1>2 DEF PhaseInv, LossPhases
<1> QED BY <1>1, <1>3 DEF StepOf

LEMMA NextIsStep ==
  ASSUME PhaseInv, [Next]_vars PROVE \E t \in Threads \cup {NoThread} : StepOf(t)
<1>1. \A t \in Losses : t \in Threads
  BY DEF Threads
<1>2. ASSUME NEW t \in Threads, Continue(t) PROVE StepOf(t)
  BY <1>2, ExchangeIsStep, CopyIsStep, WriteIsStep, PlainIsStep, ReconnectIsStep DEF Continue
<1> QED BY <1>1, <1>2, BeginIsStep, LoseIsStep, EnvironmentIsStep DEF Next

LEMMA PhaseInvInit == Init => PhaseInv
<1> SUFFICES ASSUME Init PROVE PhaseInv
  OBVIOUS
<1>1. budget \in BudgetType
  BY OptionsAssumption DEF Init
<1>2. pc = [t \in Threads |-> Idle]
  BY DEF Init
<1> QED BY <1>1, <1>2, PhasesOfThreads, PhasesDiffer, AppIsThread
        DEF PhaseInv, LossPhases, BudgetType, Threads

(* What the state tells of a thread, unless another has overwritten it. *)
StateTold ==
  \A t \in Threads \ overwritten :
    /\ Connecting(t) => state = "CONNECTING"
    /\ Disconnecting(t) => state = "DISCONNECTING"

LEMMA SamePhase ==
  ASSUME NEW t \in Threads, pc'[t] = pc[t]
  PROVE  (Connecting(t)' <=> Connecting(t)) /\ (Disconnecting(t)' <=> Disconnecting(t))
BY DEF Connecting, Disconnecting

LEMMA StepKeepsOneOperation ==
  ASSUME StateTold, OneOperation, NEW t, StepOf(t)
  PROVE  StateTold' /\ OneOperation'
<1>1. \A u \in Threads \ {t} : /\ Connecting(u)' <=> Connecting(u)
                               /\ Disconnecting(u)' <=> Disconnecting(u)
  BY SamePhase DEF StepOf
<1>2. CASE /\ \A u \in Threads : /\ Connecting(u)' => Connecting(u)
                                 /\ Disconnecting(u)' => Disconnecting(u)
           /\ UNCHANGED <<state, history>>
  BY <1>2 DEF StateTold, OneOperation, Operating, history
<1>3. ASSUME NEW new, WriteState(t, new), t \in Threads => ~Operating(t)'
      PROVE  StateTold' /\ OneOperation'
  <2>1. \A u \in Threads : Operating(u)' => u \in overwritten'
    BY <1>1, <1>3 DEF WriteState, Beside, Operating
  <2> QED BY <2>1 DEF StateTold, OneOperation, Operating
<1>4. CASE t \in Threads /\ Enters(t)
  <2>1. \A u \in Threads : Operating(u) => u \in overwritten
    BY <1>4 DEF Enters, Refusing, StateTold, Operating
  <2>2. \A u \in Threads \ {t} : Operating(u)' => u \in overwritten'
    BY <1>1, <1>4, <2>1 DEF Enters, EnterState, Beside, Operating
  <2>3. StateTold'
    BY <1>4, <2>2 DEF StateTold, Enters, EnterState, Operating
  <2>4. OneOperation'
    BY <2>2 DEF OneOperation
  <2> QED BY <2>3, <2>4
<1>5. CASE t \in Threads /\ GoesOn(t)
  BY <1>1, <1>2, <1>5 DEF GoesOn
<1>6. CASE t = NoThread /\ UNCHANGED <<state, history>>
  BY <1>1, <1>2, <1>6, ThreadsAssumption
<1> QED BY <1>3, <1>4, <1>5, <1>6, ThreadsAssumption DEF StepOf, Writes

(* OneOperation in every behaviour. *)
THEOREM OneOperationTheorem == Spec => []OneOperation
<1> DEFINE Inv == PhaseInv /\ StateTold /\ OneOperation
<1>1. Init => Inv
  <2> SUFFICES ASSUME Init PROVE Inv
    OBVIOUS
  <2>1. \A t \in Threads : ~Operating(t)
    BY PhasesDiffer DEF Init, Operating, Connecting, Disconnecting
  <2> QED BY <2>1, PhaseInvInit DEF StateTold, OneOperation, Operating
<1>2. Inv /\ [Next]_vars => Inv'
  <2> SUFFICES ASSUME Inv, [Next]_vars PROVE Inv'
    OBVIOUS
  <2>1. PICK t \in Threads \cup {NoThread} : StepOf(t)
    BY NextIsStep
  <2> QED BY <2>1, StepKeepsOneOperation DEF StepOf
<1> QED BY <1>1, <1>2, PTL DEF Spec

-----------------------------------------------------------------------------
(* The connection, in every behaviour of patient callers until two         *)
(* operations were under way at once.                                      *)

LEMMA PatienceLasts ==
  ASSUME PhaseInv, NEW t, StepOf(t), [Next]_vars
  PROVE  /\ mingled => mingled'
         /\ budget'.impatient = budget.impatient
<1>1. mingled => mingled'
  BY DEF StepOf, GoesOn, Writes, Enters, WriteState, EnterState, history
<1>2. \/ UNCHANGED budget
      \/ \E x : \/ budget' = [budget EXCEPT !.connects = x]
                \/ budget' = [budget EXCEPT !.disconnects = x]
                \/ budget' = [budget EXCEPT !.losses = x]
                \/ budget' = [budget EXCEPT !.failures = x]
  <2>1. ASSUME NEW u \in Threads, Begin(u) PROVE <1>2!:
    BY <2>1 DEF Begin, BeginDisconnect, BeginSubscribe, BeginUnsubscribe
  <2>2. ASSUME NEW u \in Threads, Continue(u) PROVE UNCHANGED budget
    BY <2>2 DEF Continue, CopyAll, Submit, Awake, GiveUp, SetState, Forget, LockLibrary,
                FailCommand, RenewClient, CheckState, LostConnection, Reconnects
  <2>3. ASSUME NEW c \in inflight, Serve(c) \/ Answer(c, TRUE) \/ Answer(c, FALSE)
        PROVE  UNCHANGED budget
    BY <2>3 DEF Serve, Answer
  <2>4. ASSUME NEW u \in Losses, Lose(u) PROVE <1>2!:
    BY <2>4 DEF Lose
  <2>5. MessageFails => <1>2!:
    BY DEF MessageFails
  <2>6. UNCHANGED vars => UNCHANGED budget
    BY DEF vars
  <2> QED BY <2>1, <2>2, <2>3, <2>4, <2>5, <2>6 DEF Next
<1>3. budget \in BudgetType
  BY DEF PhaseInv
<1>4. budget'.impatient = budget.impatient
  BY <1>2, <1>3 DEF BudgetType
<1> QED BY <1>1, <1>4

Alone == \A t, u \in Threads : Operating(t) /\ Operating(u) => t = u
QuietWhenConnected == state = "CONNECTED" => \A t \in Threads : ~Operating(t)

LEMMA StepKeepsAlone ==
  ASSUME StateTold, Alone, QuietWhenConnected, NEW t, StepOf(t), ~mingled'
  PROVE  Alone' /\ QuietWhenConnected'
<1>1. \A u \in Threads \ {t} : Operating(u)' <=> Operating(u)
  BY SamePhase DEF StepOf, Operating
<1>2. CASE UNCHANGED state /\ \A u \in Threads : Operating(u)' => Operating(u)
  BY <1>2 DEF Alone, QuietWhenConnected
<1>3. CASE t \in Threads /\ GoesOn(t)
  BY <1>1, <1>2, <1>3 DEF GoesOn, Operating
<1>4. CASE t \in Threads /\ Writes(t)
  <2>1. \A u \in Threads : Operating(u)' => u # t /\ Operating(u)
    BY <1>1, <1>4 DEF Writes
  <2>2. state' = "CONNECTED" => Operating(t)
    BY <1>4 DEF Writes, Operating, Connecting
  <2> QED BY <1>4, <2>1, <2>2 DEF Alone, QuietWhenConnected
<1>5. CASE t \in Threads /\ Enters(t)
  <2>1. \A u \in Threads : Operating(u) => u \in overwritten
    BY <1>5 DEF Enters, Refusing, StateTold, Operating
  <2>2. \A u \in Threads \ {t} : ~Operating(u)
    BY <1>5, <2>1 DEF Enters, EnterState, Beside
  <2>3. state' # "CONNECTED"
    BY <1>5 DEF Enters, EnterState
  <2> QED BY <1>1, <2>2, <2>3 DEF Alone, QuietWhenConnected
<1>6. CASE t = NoThread
  <2>1. \A u \in Threads : Operating(u)' <=> Operating(u)
    BY <1>1, <1>6, ThreadsAssumption
  <2>2. UNCHANGED state \/ state' = "ERROR"
    BY <1>6, ThreadsAssumption DEF StepOf, WriteState
  <2> QED BY <2>1, <2>2 DEF Alone, QuietWhenConnected
<1> QED BY <1>3, <1>4, <1>5, <1>6 DEF StepOf

(* The two commands whose requests belong to the client. *)
Sessions == {"connect", "disconnect"}
Shared(k) == <<k, NoThread>>

ExchangeTypes ==
  /\ \A c \in inflight :
       c \in [id : {c.id}, kind : Kinds, by : Threads, subs : {c.subs}, served : {c.served}]
  /\ result \in [Cells -> BOOLEAN]

(* Whoever asked for a session waits, and nobody else for the same one.    *)
SessionsAwaited ==
  \A c \in inflight : c.kind \in Sessions =>
    /\ pc[c.by] = Wait(c.kind) /\ Shared(c.kind) \notin triggered
    /\ \A d \in inflight : d.kind \in Sessions => d = c
SessionsHeard ==
  \A k \in Sessions : Shared(k) \in triggered => \E t \in Threads : pc[t] = Wait(k)

(* t is in a connect() whose connection was made. *)
Founded(t) ==
  pc[t] \in {Do("copy_submit"), Ask("submit_all"), Wait("submit_all"), Do("set_connected")}
Established(t) ==
  \/ Founded(t)
  \/ /\ pc[t] = Wait("connect")
     /\ \/ Shared("connect") \in triggered /\ result[Shared("connect")]
        \/ \E c \in inflight : c.kind = "connect" /\ c.by = t /\ c.served

LossAhead ==
  \E t \in Losses : pc[t] \in {Do("renew_client"), Do("fail_commands"), Do("check_state")}
LinkKnown ==
  /\ (\E t \in Threads : Established(t)) => link \/ overlooked \/ LossAhead
  /\ state = "CONNECTED" => link \/ overlooked \/ LossUnnoticed

SessionInv == Alone /\ QuietWhenConnected /\ SessionsAwaited /\ SessionsHeard /\ LinkKnown

LEMMA SharedRequests ==
  \A k \in Kinds, t \in Threads :
    /\ k \in Sessions => Condition(k, t) = Shared(k) /\ Cell(k, t) = Shared(k)
    /\ k \notin Sessions =>
         \A j \in Sessions : Cell(k, t) # Shared(j) /\ Condition(k, t) # Shared(j)
    /\ Cell(k, t) \in Cells
<1>1. \A t \in Threads : t # NoThread
  BY ThreadsAssumption
<1> QED BY <1>1 DEF Condition, Cell, Cells, Shared, Sessions, Kinds

LEMMA SharedApart == \A j, k : Shared(j) = Shared(k) => j = k
BY DEF Shared

LEMMA SessionsWaiting ==
  ASSUME NEW t \in Threads, NEW k \in Sessions, pc[t] \in {Ask(k), Wait(k)}
  PROVE  Operating(t) /\ ~Founded(t)
BY PhasesDiffer DEF Sessions, Operating, Connecting, Disconnecting, Founded

LEMMA EstablishedOperates ==
  ASSUME NEW t \in Threads, Established(t) PROVE Operating(t) /\ ~Disconnecting(t)
BY PhasesDiffer DEF Established, Founded, Operating, Connecting, Disconnecting

(* A step that changes nothing about sessions. *)
Quiet ==
  /\ ExchangeTypes'
  /\ \A u \in Threads, k \in Sessions : pc'[u] = Wait(k) <=> pc[u] = Wait(k)
  /\ \A u \in Threads : Founded(u)' => Founded(u)
  /\ \A c : c.kind \in Sessions => (c \in inflight' <=> c \in inflight)
  /\ \A k \in Sessions : /\ Shared(k) \in triggered' => Shared(k) \in triggered
                         /\ result'[Shared(k)] = result[Shared(k)]

SessionsKept ==
  /\ ExchangeTypes' /\ SessionsAwaited' /\ SessionsHeard'
  /\ \A u \in Threads : Established(u)' => Established(u)

LEMMA QuietKeepsSessions ==
  ASSUME ExchangeTypes, SessionsAwaited, SessionsHeard, Quiet
  PROVE  SessionsKept
<1>1. SessionsAwaited'
  BY DEF Quiet, SessionsAwaited, ExchangeTypes
<1>2. SessionsHeard'
  BY DEF Quiet, SessionsHeard
<1>3. \A u \in Threads : Established(u)' => Established(u)
  BY DEF Quiet, Established, Sessions
<1> QED BY <1>1, <1>2, <1>3 DEF SessionsKept, Quiet

LEMMA QuietMove ==
  ASSUME ExchangeTypes, NEW t \in Threads, \A u \in Threads \ {t} : pc'[u] = pc[u],
         \A k \in Sessions : pc[t] # Wait(k) /\ pc'[t] # Wait(k),
         Founded(t)' => Founded(t),
         UNCHANGED inflight,
         triggered' \subseteq triggered,
         \/ UNCHANGED result
         \/ \E k \in {"submit_all", "cancel_all"} : result' = [result EXCEPT ![<<k, t>>] = FALSE]
         \/ result' = [result EXCEPT ![<<"submit", t>>] = FALSE, ![<<"cancel", t>>] = FALSE]
  PROVE  Quiet
<1>1. \A k \in {"submit", "cancel", "submit_all", "cancel_all"}, j \in Sessions :
        <<k, t>> # Shared(j)
  BY DEF Shared, Sessions
<1>2. \A j \in Sessions : Shared(j) \in Cells
  BY DEF Shared, Sessions, Cells, Kinds
<1>3. result' \in [Cells -> BOOLEAN] /\ \A j \in Sessions : result'[Shared(j)] = result[Shared(j)]
  BY <1>1, <1>2 DEF ExchangeTypes
<1>4. ExchangeTypes'
  BY <1>3 DEF ExchangeTypes
<1>5. \A u \in Threads, k \in Sessions : pc'[u] = Wait(k) <=> pc[u] = Wait(k)
  OBVIOUS
<1>6. \A u \in Threads : Founded(u)' => Founded(u)
  BY DEF Founded
<1> QED BY <1>3, <1>4, <1>5, <1>6 DEF Quiet

LEMMA BeginIsQuiet ==
  ASSUME PhaseInv, ExchangeTypes, NEW t \in Threads,
         \/ pc[t] = Idle /\ BeginConnect(t)
         \/ pc[t] = Idle /\ BeginDisconnect(t)
         \/ pc[t] = Idle /\ BeginSubscribe(t)
         \/ pc[t] = Idle /\ BeginUnsubscribe(t)
         \/ pc[t] = Do("reconnect") /\ BeginConnect(t)
  PROVE  Quiet
<1>1. PICK where \in {Idle, Ask("connect"), Do("set_error"), Do("copy_cancel"), Ask("disconnect"),
                     Ask("submit"), Ask("cancel")} :
        pc' = [pc EXCEPT ![t] = where]
  BY DEF BeginConnect, BeginDisconnect, BeginSubscribe, BeginUnsubscribe, Goto
<1>2. pc'[t] = where /\ \A u \in Threads \ {t} : pc'[u] = pc[u]
  BY <1>1 DEF PhaseInv
<1>3. ~Founded(t)' /\ \A k \in Sessions : pc[t] # Wait(k) /\ pc'[t] # Wait(k)
  BY <1>2, PhasesDiffer DEF Founded
<1>4. /\ UNCHANGED inflight /\ triggered' \subseteq triggered
      /\ \/ UNCHANGED result
         \/ result' = [result EXCEPT ![<<"submit", t>>] = FALSE, ![<<"cancel", t>>] = FALSE]
  BY DEF BeginConnect, BeginDisconnect, BeginSubscribe, BeginUnsubscribe, library, requests
<1> QED BY <1>2, <1>3, <1>4, QuietMove

LEMMA CopyIsQuiet ==
  ASSUME PhaseInv, ExchangeTypes, NEW t \in Threads,
         \/ CopyAll(t, "copy_submit", "submit_all")
         \/ CopyAll(t, "copy_cancel", "cancel_all")
  PROVE  Quiet
<1>1. PICK k \in {"submit_all", "cancel_all"} :
        CopyAll(t, IF k = "submit_all" THEN "copy_submit" ELSE "copy_cancel", k)
  OBVIOUS
<1>2. PICK where \in {AfterSuccess(k), Ask(k)} : pc' = [pc EXCEPT ![t] = where]
  BY <1>1 DEF CopyAll, Goto
<1>3. /\ pc[t] = Do(IF k = "submit_all" THEN "copy_submit" ELSE "copy_cancel")
      /\ UNCHANGED <<inflight, triggered>>
      /\ result' = [result EXCEPT ![<<k, t>>] = FALSE]
  BY <1>1 DEF CopyAll, library
<1>4. pc'[t] = where /\ \A u \in Threads \ {t} : pc'[u] = pc[u]
  BY <1>2 DEF PhaseInv
<1>5. /\ Founded(t)' => Founded(t)
      /\ \A j \in Sessions : pc[t] # Wait(j) /\ pc'[t] # Wait(j)
  BY <1>3, <1>4, PhasesDiffer DEF Founded, AfterSuccess, Sequel, Sessions
<1> QED BY <1>3, <1>4, <1>5, QuietMove

LEMMA OtherExchangeIsQuiet ==
  ASSUME PhaseInv, ExchangeTypes, NEW t \in Threads, NEW k \in Kinds \ Sessions, Awake(t, k)
  PROVE  Quiet
<1>1. PICK where \in {AfterSuccess(k), AfterFailure(k, t)} : pc' = [pc EXCEPT ![t] = where]
  BY DEF Awake, Goto
<1>2. pc[t] = Wait(k) /\ UNCHANGED <<inflight, result>> /\ triggered' \subseteq triggered
  BY DEF Awake, library
<1>3. pc'[t] = where /\ \A u \in Threads \ {t} : pc'[u] = pc[u]
  BY <1>1 DEF PhaseInv
<1>4. /\ Founded(t)' => Founded(t)
      /\ \A j \in Sessions : pc[t] # Wait(j) /\ pc'[t] # Wait(j)
  BY <1>2, <1>3, PhasesDiffer DEF Founded, AfterSuccess, AfterFailure, Sequel, Sessions, Kinds
<1> QED BY <1>2, <1>3, <1>4, QuietMove

LEMMA PlainIsQuiet ==
  ASSUME PhaseInv, ExchangeTypes, NEW t \in Threads,
         \/ \E at \in {"set_connected", "set_disconnected", "set_error"}, new \in States :
              SetState(t, at, new)
         \/ Forget(t) \/ LockLibrary(t) \/ RenewClient(t) \/ CheckState(t) \/ LostConnection(t)
         \/ t \in Losses /\ Lose(t)
  PROVE  Quiet
<1>1. PICK where \in {Idle, Do("renew_client"), Do("fail_commands"), Do("check_state"),
                     Do("set_disconnected"), Do("reconnect")} :
        pc' = [pc EXCEPT ![t] = where]
  BY DEF SetState, Forget, LockLibrary, RenewClient, CheckState, LostConnection, Lose, Goto
<1>2. pc'[t] = where /\ \A u \in Threads \ {t} : pc'[u] = pc[u]
  BY <1>1 DEF PhaseInv
<1>3. \A k \in Sessions : pc[t] # Wait(k)
  <2>1. pc[t] = Idle \/ \E what : pc[t] = Do(what)
    BY DEF SetState, Forget, LockLibrary, RenewClient, CheckState, LostConnection, Lose, PhaseInv
  <2> QED BY <2>1, PhasesDiffer
<1>4. ~Founded(t)' /\ \A k \in Sessions : pc'[t] # Wait(k)
  BY <1>2, PhasesDiffer DEF Founded
<1>5. UNCHANGED <<inflight, triggered, result>>
  BY DEF SetState, Forget, LockLibrary, RenewClient, CheckState, LostConnection, Lose,
         library, requests
<1> QED BY <1>2, <1>3, <1>4, <1>5, QuietMove

(* The library takes a command, or refuses it. *)
LEMMA SubmitKeepsSessions ==
  ASSUME PhaseInv, ExchangeTypes, SessionsAwaited, SessionsHeard, Alone,
         NEW t \in Threads, NEW k \in Kinds, Submit(t, k)
  PROVE  SessionsKept
<1>1. pc[t] = Ask(k) /\ UNCHANGED <<triggered, result>>
  BY DEF Submit, requests
<1>2. ASSUME UNCHANGED inflight, pc' = [pc EXCEPT ![t] = AfterFailure(k, t)] PROVE SessionsKept
  <2>1. pc'[t] = AfterFailure(k, t) /\ \A u \in Threads \ {t} : pc'[u] = pc[u]
    BY <1>2 DEF PhaseInv
  <2>2. ~Founded(t)' /\ \A j \in Sessions : pc[t] # Wait(j) /\ pc'[t] # Wait(j)
    BY <1>1, <2>1, PhasesDiffer DEF Founded, AfterFailure, Kinds
  <2> QED BY <1>1, <1>2, <2>1, <2>2, QuietMove, QuietKeepsSessions
<1>3. ASSUME NEW c, inflight' = inflight \cup {c}, pc' = [pc EXCEPT ![t] = Wait(k)],
             c = [id |-> c.id, kind |-> k, by |-> t, subs |-> c.subs, served |-> FALSE]
      PROVE  SessionsKept
  <2>1. pc'[t] = Wait(k) /\ \A u \in Threads \ {t} : pc'[u] = pc[u]
    BY <1>3 DEF PhaseInv
  <2>2. c.kind = k /\ c.by = t /\ ~c.served
    BY <1>3
  <2>3. ExchangeTypes'
    <3>1. c \in [id : {c.id}, kind : Kinds, by : Threads, subs : {c.subs}, served : {c.served}]
      BY <1>3
    <3> QED BY <1>1, <1>3, <3>1 DEF ExchangeTypes
  <2>4. \A u \in Threads : Founded(u)' => Founded(u)
    BY <1>1, <2>1, PhasesDiffer DEF Founded
  <2>5. CASE k \notin Sessions
    <3>1. \A u \in Threads, j \in Sessions : pc'[u] = Wait(j) <=> pc[u] = Wait(j)
      BY <1>1, <2>1, <2>5, PhasesDiffer
    <3>2. \A d : d.kind \in Sessions => (d \in inflight' <=> d \in inflight)
      BY <1>3, <2>2, <2>5
    <3>3. Quiet
      BY <1>1, <2>3, <2>4, <3>1, <3>2 DEF Quiet
    <3> QED BY <3>3, QuietKeepsSessions
  <2>6. CASE k \in Sessions
    <3>1. Operating(t) /\ \A j : pc[t] # Wait(j)
      BY <1>1, <2>6, SessionsWaiting, PhasesDiffer
    <3>2. \A d \in inflight : d.kind \notin Sessions
      BY <3>1, SessionsWaiting DEF SessionsAwaited, ExchangeTypes, Alone
    <3>3. \A j \in Sessions : Shared(j) \notin triggered
      BY <3>1, SessionsWaiting DEF SessionsHeard, Alone
    <3>4. SessionsAwaited'
      BY <1>1, <1>3, <2>1, <2>2, <2>6, <3>2, <3>3 DEF SessionsAwaited
    <3>5. SessionsHeard'
      BY <1>1, <3>3 DEF SessionsHeard
    <3>6. \A u \in Threads : Established(u)' => Established(u)
      BY <1>1, <1>3, <2>2, <2>4, <3>2, <3>3 DEF Established, Sessions
    <3> QED BY <2>3, <3>4, <3>5, <3>6 DEF SessionsKept
  <2> QED BY <2>5, <2>6
<1>4. \/ UNCHANGED inflight /\ pc' = [pc EXCEPT ![t] = AfterFailure(k, t)]
      \/ \E c : /\ inflight' = inflight \cup {c} /\ pc' = [pc EXCEPT ![t] = Wait(k)]
               /\ c = [id |-> c.id, kind |-> k, by |-> t, subs |-> c.subs, served |-> FALSE]
  <2>1. CASE ~(UNCHANGED inflight /\ pc' = [pc EXCEPT ![t] = AfterFailure(k, t)])
    <3> DEFINE c == [id |-> CHOOSE n \in Free : \A m \in Free : n <= m,
                     kind |-> k, by |-> t, subs |-> copied[t], served |-> FALSE]
    <3>1. inflight' = inflight \cup {c} /\ pc' = [pc EXCEPT ![t] = Wait(k)]
      BY <2>1 DEF Submit, Goto
    <3>2. c = [id |-> c.id, kind |-> k, by |-> t, subs |-> c.subs, served |-> FALSE]
      OBVIOUS
    <3> QED BY <3>1, <3>2
  <2> QED BY <2>1
<1> QED BY <1>2, <1>3, <1>4

(* The caller reads the answer. *)
LEMMA AwakeKeepsSessions ==
  ASSUME PhaseInv, ExchangeTypes, SessionsAwaited, SessionsHeard, Alone,
         NEW t \in Threads, NEW k \in Sessions, Awake(t, k)
  PROVE  SessionsKept
<1>1. /\ pc[t] = Wait(k) /\ Shared(k) \in triggered
      /\ triggered' = triggered \ {Shared(k)} /\ UNCHANGED <<inflight, result>>
      /\ pc' = [pc EXCEPT ![t] = IF result[Shared(k)] THEN AfterSuccess(k) ELSE AfterFailure(k, t)]
      /\ k \in Kinds
  BY SharedRequests DEF Awake, Goto, library, Sessions, Kinds
<1>2. /\ pc'[t] = IF result[Shared(k)] THEN AfterSuccess(k) ELSE AfterFailure(k, t)
      /\ \A u \in Threads \ {t} : pc'[u] = pc[u]
  BY <1>1 DEF PhaseInv
<1>3. \A c \in inflight : c.kind \notin Sessions
  <2> SUFFICES ASSUME NEW c \in inflight, c.kind \in Sessions PROVE FALSE
    OBVIOUS
  <2>1. pc[c.by] = Wait(c.kind) /\ Shared(c.kind) \notin triggered /\ c.by \in Threads
    BY DEF SessionsAwaited, ExchangeTypes
  <2>2. c.by = t
    BY <1>1, <2>1, SessionsWaiting DEF Alone
  <2> QED BY <1>1, <2>1, <2>2, PhasesDiffer
<1>4. \A j \in Sessions : Shared(j) \notin triggered'
  <2> SUFFICES ASSUME NEW j \in Sessions, Shared(j) \in triggered, j # k PROVE FALSE
    BY <1>1
  <2>1. PICK u \in Threads : pc[u] = Wait(j)
    BY DEF SessionsHeard
  <2>2. u = t
    BY <1>1, <2>1, SessionsWaiting DEF Alone
  <2> QED BY <1>1, <2>1, <2>2, PhasesDiffer
<1>5. ASSUME NEW u \in Threads, Established(u)' PROVE Established(u)
  <2>1. Founded(u)'
    BY <1>1, <1>3, <1>4, <1>5 DEF Established, Sessions
  <2>2. CASE u # t
    BY <1>2, <2>1, <2>2 DEF Founded, Established
  <2>3. CASE u = t
    <3>1. k = "connect" /\ result[Shared(k)]
      BY <1>2, <2>1, <2>3, PhasesDiffer DEF Founded, AfterSuccess, AfterFailure, Sequel, Sessions
    <3> QED BY <1>1, <2>3, <3>1 DEF Established
  <2> QED BY <2>2, <2>3
<1>6. ExchangeTypes'
  BY <1>1 DEF ExchangeTypes
<1> QED BY <1>1, <1>3, <1>4, <1>5, <1>6 DEF SessionsKept, SessionsAwaited, SessionsHeard

(* The broker carries out a command. *)
LEMMA ServeKeepsSessions ==
  ASSUME ExchangeTypes, SessionsAwaited, SessionsHeard, NEW c \in inflight, Serve(c)
  PROVE  /\ ExchangeTypes' /\ SessionsAwaited' /\ SessionsHeard'
         /\ c.kind # "connect" => \A u \in Threads : Established(u)' => Established(u)
<1> DEFINE d == [c EXCEPT !.served = TRUE]
<1>1. /\ inflight' = (inflight \ {c}) \cup {d}
      /\ UNCHANGED <<pc, triggered, result>>
  BY DEF Serve, requests
<1>2. d.kind = c.kind /\ d.by = c.by
  BY DEF ExchangeTypes
<1>3. ExchangeTypes'
  <2>1. d \in [id : {d.id}, kind : Kinds, by : Threads, subs : {d.subs}, served : {d.served}]
    BY DEF ExchangeTypes
  <2> HIDE DEF d
  <2> QED BY <1>1, <2>1 DEF ExchangeTypes
<1> HIDE DEF d
<1>4. SessionsAwaited' /\ SessionsHeard'
  BY <1>1, <1>2 DEF SessionsAwaited, SessionsHeard
<1>5. ASSUME c.kind # "connect", NEW u \in Threads, Established(u)' PROVE Established(u)
  BY <1>1, <1>2, <1>5 DEF Established, Founded
<1> QED BY <1>3, <1>4, <1>5

(* An answer arrives. *)
LEMMA HandleKeepsSessions ==
  ASSUME ExchangeTypes, SessionsAwaited, SessionsHeard, Alone,
         NEW c \in inflight, NEW ok \in BOOLEAN,
         HandleRequestResult(c, ok), UNCHANGED pc, ok => c.served
  PROVE  SessionsKept
<1>1. c.kind \in Kinds /\ c.by \in Threads /\ Cell(c.kind, c.by) \in Cells
  BY SharedRequests DEF ExchangeTypes
<1>2. inflight' = inflight \ {c}
  BY DEF HandleRequestResult
<1>3. \/ UNCHANGED <<triggered, result>> /\ c.kind \notin Sessions
      \/ /\ result' = [result EXCEPT ![Cell(c.kind, c.by)] = ok]
         /\ triggered' = triggered \cup {Condition(c.kind, c.by)}
  BY DEF HandleRequestResult, requests, Exists, Sessions
<1>4. ExchangeTypes'
  BY <1>1, <1>2, <1>3 DEF ExchangeTypes
<1>5. \A j \in Sessions : Shared(j) \in Cells
  BY DEF Shared, Sessions, Cells, Kinds
<1>6. CASE c.kind \notin Sessions
  <2>1. \A j \in Sessions : /\ Shared(j) \in triggered' => Shared(j) \in triggered
                           /\ result'[Shared(j)] = result[Shared(j)]
    BY <1>1, <1>3, <1>5, <1>6, SharedRequests DEF ExchangeTypes
  <2>2. Quiet
    BY <1>2, <1>4, <1>6, <2>1 DEF Quiet, Founded
  <2> QED BY <2>2, QuietKeepsSessions
<1>7. CASE c.kind \in Sessions
  <2>1. /\ result' = [result EXCEPT ![Shared(c.kind)] = ok]
        /\ triggered' = triggered \cup {Shared(c.kind)}
    BY <1>1, <1>3, <1>7, SharedRequests
  <2>2. pc[c.by] = Wait(c.kind) /\ \A d \in inflight : d.kind \in Sessions => d = c
    BY <1>7 DEF SessionsAwaited
  <2>3. SessionsAwaited'
    BY <1>2, <2>2 DEF SessionsAwaited
  <2>4. SessionsHeard'
    BY <1>1, <2>1, <2>2, SharedApart DEF SessionsHeard
  <2>5. ASSUME NEW u \in Threads, Established(u)' PROVE Established(u)
    <3>1. ASSUME pc[u] = Wait("connect"), Shared("connect") \in triggered', result'[Shared("connect")]
          PROVE  Established(u)
      <4>1. CASE c.kind = "connect"
        <5>1. ok /\ c.served
          BY <1>5, <2>1, <3>1, <4>1 DEF Sessions, ExchangeTypes
        <5>2. u = c.by
          BY <1>1, <2>2, <3>1, <4>1, SessionsWaiting DEF Alone, Sessions
        <5> QED BY <3>1, <4>1, <5>1, <5>2 DEF Established
      <4>2. CASE c.kind # "connect"
        <5>1. Shared("connect") # Shared(c.kind)
          BY <4>2, SharedApart
        <5>2. Shared("connect") \in triggered /\ result[Shared("connect")]
          BY <1>5, <2>1, <3>1, <5>1 DEF Sessions, ExchangeTypes
        <5> QED BY <3>1, <5>2 DEF Established
      <4> QED BY <4>1, <4>2
    <3> QED BY <1>2, <2>2, <2>5, <3>1 DEF Established, Founded, Sessions
  <2> QED BY <1>4, <2>3, <2>4, <2>5 DEF SessionsKept
<1> QED BY <1>6, <1>7

(* What every step but a session's service leaves of a connection, and of  *)
(* the threads that notice its loss.                                       *)
LossStaysNoticed ==
  /\ overlooked => overlooked'
  /\ link => link' \/ overlooked' \/ LossAhead'
  /\ \A l \in Losses :
       /\ pc[l] \in {Do("renew_client"), Do("fail_commands"), Do("check_state")} =>
            \/ pc'[l] \in {Do("renew_client"), Do("fail_commands"), Do("check_state")}
            \/ overlooked' \/ link'
            \/ state = "CONNECTED" /\ pc'[l] = Do("set_disconnected")
       /\ pc[l] = Do("set_disconnected") =>
            pc'[l] = Do("set_disconnected") \/ state' = "DISCONNECTED"

LossDuties == {Do("renew_client"), Do("fail_commands"), Do("check_state"), Do("set_disconnected")}

LEMMA OtherDutiesStay ==
  ASSUME NEW t, \A u \in Threads \ {t} : pc'[u] = pc[u],
         t \in Losses => pc[t] \notin LossDuties,
         UNCHANGED <<link, overlooked>>
  PROVE  LossStaysNoticed
<1>1. \A l \in Losses : pc[l] \in LossDuties => pc'[l] = pc[l]
  BY DEF Threads
<1> QED BY <1>1 DEF LossStaysNoticed, LossDuties

LEMMA ContinueStaysNoticed ==
  ASSUME PhaseInv, NEW t \in Threads, Continue(t)
  PROVE  LossStaysNoticed
<1>1. \A u \in Threads \ {t} : pc'[u] = pc[u]
  <2>1. \E where : pc' = [pc EXCEPT ![t] = where]
    <3>1. FailCommand(t) => pc' = [pc EXCEPT ![t] = pc[t]]
      BY DEF FailCommand, PhaseInv
    <3>2. BeginConnect(t) => \E where : pc' = [pc EXCEPT ![t] = where]
      BY DEF BeginConnect, Goto
    <3> QED BY <3>1, <3>2 DEF Continue, CopyAll, Submit, Awake, GiveUp, SetState, Forget, LockLibrary,
                 RenewClient, CheckState, LostConnection, Reconnects, Goto
  <2> QED BY <2>1 DEF PhaseInv
<1>2. \A u \in Losses : u \in Threads /\ u \notin Apps
  BY ThreadsAssumption DEF Threads
<1>3. CASE /\ ~LockLibrary(t) /\ ~FailCommand(t) /\ ~RenewClient(t) /\ ~CheckState(t)
           /\ ~LostConnection(t)
  <2>1. UNCHANGED <<link, overlooked>>
    BY <1>3 DEF Continue, CopyAll, Submit, Awake, GiveUp, SetState, Forget, Reconnects,
                BeginConnect, library
  <2>2. ASSUME t \in Losses PROVE pc[t] \notin LossDuties
    <3>1. \/ \E what \in {"copy_submit", "copy_cancel", "set_connected", "set_error", "forget",
                         "undo", "reconnect"} : pc[t] = Do(what)
          \/ \E k \in Kinds : pc[t] \in {Ask(k), Wait(k)}
      <4>1. ~(t \in Apps /\ SetState(t, "set_disconnected", "DISCONNECTED"))
        BY <1>2, <2>2
      <4>2. ASSUME NEW k \in Kinds, Submit(t, k) \/ Awake(t, k) \/ GiveUp(t, k)
            PROVE  pc[t] \in {Ask(k), Wait(k)}
        BY <4>2 DEF Submit, Awake, GiveUp
      <4>3. CASE \A k \in Kinds : ~(Submit(t, k) \/ Awake(t, k) \/ GiveUp(t, k))
        BY <1>3, <4>1, <4>3 DEF Continue, CopyAll, SetState, Forget, Reconnects
      <4> QED BY <4>2, <4>3
    <3> QED BY <3>1, PhasesDiffer DEF LossDuties
  <2> QED BY <1>1, <2>1, <2>2, OtherDutiesStay
<1>4. CASE LockLibrary(t) \/ FailCommand(t)
  <2>1. pc'[t] = Do("fail_commands") /\ UNCHANGED <<link, overlooked>>
    <3>1. CASE LockLibrary(t)
      BY <3>1 DEF LockLibrary, Goto, library, PhaseInv
    <3>2. CASE FailCommand(t)
      BY <3>2 DEF FailCommand
    <3> QED BY <1>4, <3>1, <3>2
  <2>2. \A l \in Losses :
          \/ pc'[l] = pc[l]
          \/ l = t /\ pc'[l] = Do("fail_commands") /\ pc[l] # Do("set_disconnected")
    <3>1. pc[t] # Do("set_disconnected")
      BY <1>4, PhasesDiffer DEF LockLibrary, FailCommand
    <3>2. \A l \in Losses : l # t => pc'[l] = pc[l]
      BY <1>1, <1>2
    <3> QED BY <2>1, <3>1, <3>2
  <2> QED BY <2>1, <2>2 DEF LossStaysNoticed
<1>5. CASE RenewClient(t)
  <2>1. pc[t] = Do("fail_commands") /\ t \notin Apps
    BY <1>5 DEF RenewClient, PhaseInv, LossPhases
  <2>2. t \in Losses
    BY <2>1 DEF Threads
  <2>3. overlooked' \/ (pc'[t] = Do("check_state") /\ overlooked' = overlooked)
    BY <1>5 DEF RenewClient, Goto, PhaseInv
  <2> QED BY <1>1, <1>2, <2>1, <2>2, <2>3, PhasesDiffer DEF LossStaysNoticed, LossAhead
<1>6. CASE CheckState(t)
  <2>1. /\ pc[t] = Do("check_state") /\ link' = link
        /\ overlooked' = (overlooked \/ (state # "CONNECTED" /\ ~link))
        /\ state = "CONNECTED" => pc'[t] = Do("set_disconnected")
    BY <1>6 DEF CheckState, Goto, PhaseInv
  <2> QED BY <1>1, <1>2, <2>1, PhasesDiffer DEF LossStaysNoticed
<1>7. CASE LostConnection(t)
  <2>1. /\ pc[t] = Do("set_disconnected") /\ state' = "DISCONNECTED"
        /\ UNCHANGED <<link, overlooked>>
    BY <1>7 DEF LostConnection, WriteState, library
  <2> QED BY <1>1, <1>2, <2>1, PhasesDiffer DEF LossStaysNoticed
<1> QED BY <1>3, <1>4, <1>5, <1>6, <1>7

LEMMA BeginStaysNoticed ==
  ASSUME PhaseInv, NEW t \in Threads, Begin(t)
  PROVE  LossStaysNoticed
<1>1. pc[t] = Idle /\ \E where : pc' = [pc EXCEPT ![t] = where]
  BY DEF Begin, BeginConnect, BeginDisconnect, BeginSubscribe, BeginUnsubscribe, Goto
<1>2. \A u \in Threads \ {t} : pc'[u] = pc[u]
  BY <1>1 DEF PhaseInv
<1>3. UNCHANGED <<link, overlooked>>
  BY DEF Begin, BeginConnect, BeginDisconnect, BeginSubscribe, BeginUnsubscribe, library
<1> QED BY <1>1, <1>2, <1>3, OtherDutiesStay, PhasesDiffer DEF LossDuties

LEMMA EnvironmentStaysNoticed ==
  ASSUME PhaseInv, ExchangeTypes,
         \/ \E c \in inflight : c.kind \notin Sessions /\ Serve(c)
         \/ \E c \in inflight, ok \in BOOLEAN : Answer(c, ok)
         \/ \E t \in Losses : Lose(t)
         \/ MessageFails
         \/ UNCHANGED vars
  PROVE  LossStaysNoticed
<1>1. CASE UNCHANGED <<pc, link, overlooked>>
  BY <1>1, OtherDutiesStay, ThreadsAssumption DEF LossStaysNoticed
<1>2. ASSUME NEW t \in Losses, Lose(t) PROVE LossStaysNoticed
  <2>1. t \in Threads /\ pc' = [pc EXCEPT ![t] = Do("renew_client")] /\ pc[t] = Idle
        /\ UNCHANGED overlooked
    BY <1>2 DEF Lose, Goto, PhaseInv, Threads
  <2>2. pc'[t] = Do("renew_client") /\ \A u \in Threads \ {t} : pc'[u] = pc[u]
    BY <2>1 DEF PhaseInv
  <2> QED BY <2>1, <2>2, PhasesDiffer DEF LossStaysNoticed, LossAhead, Threads
<1>3. ASSUME NEW c \in inflight, c.kind \notin Sessions, Serve(c)
      PROVE  UNCHANGED <<pc, link, overlooked>>
  <2>1. c.kind \in {"submit", "submit_all", "cancel", "cancel_all"}
    BY <1>3 DEF ExchangeTypes, Kinds, Sessions
  <2> QED BY <1>3, <2>1 DEF Serve
<1>4. ASSUME \/ \E c \in inflight, ok \in BOOLEAN : Answer(c, ok)
             \/ MessageFails
             \/ UNCHANGED vars
      PROVE  UNCHANGED <<pc, link, overlooked>>
  BY <1>4 DEF Answer, MessageFails, vars, library
<1> QED BY <1>1, <1>2, <1>3, <1>4

LEMMA SessionsStep ==
  ASSUME PhaseInv, ExchangeTypes, SessionsAwaited, SessionsHeard, Alone, [Next]_vars,
         ~budget.impatient,
         \A c \in inflight : Serve(c) => c.kind \notin Sessions
  PROVE  SessionsKept /\ LossStaysNoticed
<1>1. ASSUME NEW t \in Threads, Continue(t) PROVE SessionsKept
  <2>1. CASE \E k \in Kinds : Submit(t, k) \/ Awake(t, k) \/ GiveUp(t, k)
    BY <2>1, SubmitKeepsSessions, AwakeKeepsSessions, OtherExchangeIsQuiet, QuietKeepsSessions
       DEF GiveUp
  <2>2. CASE CopyAll(t, "copy_submit", "submit_all") \/ CopyAll(t, "copy_cancel", "cancel_all")
    BY <2>2, CopyIsQuiet, QuietKeepsSessions
  <2>3. CASE FailCommand(t)
    BY <2>3, HandleKeepsSessions DEF FailCommand
  <2>4. CASE Reconnects(t)
    BY <2>4, BeginIsQuiet, QuietKeepsSessions DEF Reconnects
  <2>5. CASE \/ SetState(t, "set_connected", "CONNECTED")
             \/ SetState(t, "set_disconnected", "DISCONNECTED")
             \/ SetState(t, "set_error", "ERROR")
             \/ Forget(t) \/ LockLibrary(t) \/ RenewClient(t) \/ CheckState(t)
             \/ LostConnection(t)
    BY <2>5, PlainIsQuiet, QuietKeepsSessions DEF States
  <2> QED BY <1>1, <2>1, <2>2, <2>3, <2>4, <2>5 DEF Continue
<1>2. ASSUME NEW t \in Threads, Begin(t) PROVE SessionsKept
  BY <1>2, BeginIsQuiet, QuietKeepsSessions DEF Begin
<1>3. ASSUME NEW c \in inflight, Answer(c, TRUE) \/ Answer(c, FALSE) PROVE SessionsKept
  BY <1>3, HandleKeepsSessions DEF Answer
<1>4. ASSUME NEW c \in inflight, Serve(c) PROVE SessionsKept
  <2>1. c.kind # "connect"
    BY <1>4 DEF Sessions
  <2> QED BY <1>4, <2>1, ServeKeepsSessions DEF SessionsKept
<1>5. ASSUME NEW t \in Losses, Lose(t) PROVE SessionsKept
  BY <1>5, PlainIsQuiet, QuietKeepsSessions DEF Threads
<1>6. ASSUME MessageFails \/ UNCHANGED vars PROVE SessionsKept
  <2>1. UNCHANGED <<pc, inflight, triggered, result>>
    BY <1>6 DEF MessageFails, vars, library, requests
  <2>2. Quiet
    BY <2>1 DEF Quiet, Founded, ExchangeTypes
  <2> QED BY <2>2, QuietKeepsSessions
<1>7. LossStaysNoticed
  BY ContinueStaysNoticed, BeginStaysNoticed, EnvironmentStaysNoticed DEF Next
<1> QED BY <1>1, <1>2, <1>3, <1>4, <1>5, <1>6, <1>7 DEF Next

(* Only a connect() whose connection was made ends with CONNECTED. *)
LEMMA ConnectedByFounded ==
  ASSUME PhaseInv, NEW t, StepOf(t), state' = "CONNECTED"
  PROVE  \/ state = "CONNECTED"
         \/ t \in Threads /\ Founded(t) /\ \A l \in LossDuties : pc[t] # l
<1>1. CASE t \in Threads /\ Writes(t)
  BY <1>1, PhasesDiffer DEF Writes, Founded, LossDuties
<1>2. CASE t \in Threads /\ (GoesOn(t) \/ Enters(t))
  BY <1>2 DEF GoesOn, Enters, EnterState
<1>3. CASE t = NoThread
  BY <1>3, ThreadsAssumption DEF StepOf, WriteState
<1> QED BY <1>1, <1>2, <1>3 DEF StepOf

LEMMA LinkStaysKnown ==
  ASSUME PhaseInv, QuietWhenConnected, LinkKnown, NEW t, StepOf(t), LossStaysNoticed,
         \A u \in Threads : Established(u)' => Established(u)
  PROVE  LinkKnown'
<1>1. ASSUME NEW u \in Threads, Established(u) PROVE link' \/ overlooked' \/ LossAhead'
  <2>1. state # "CONNECTED"
    BY <1>1, EstablishedOperates DEF QuietWhenConnected
  <2>2. link \/ overlooked \/ LossAhead
    BY <1>1 DEF LinkKnown
  <2> QED BY <2>1, <2>2 DEF LossStaysNoticed, LossAhead
<1>2. LossAhead' => LossUnnoticed'
  BY DEF LossAhead, LossUnnoticed
<1>3. ASSUME state' = "CONNECTED" PROVE link' \/ overlooked' \/ LossUnnoticed'
  <2>1. CASE state = "CONNECTED"
    <3>1. link \/ overlooked \/ LossUnnoticed
      BY <2>1 DEF LinkKnown
    <3> QED BY <1>2, <1>3, <3>1 DEF LossStaysNoticed, LossUnnoticed
  <2>2. CASE t \in Threads /\ Founded(t)
    BY <1>1, <1>2, <2>2 DEF Established
  <2> QED BY <1>3, <2>1, <2>2, ConnectedByFounded
<1> QED BY <1>1, <1>3 DEF LinkKnown

LEMMA SessionServed ==
  ASSUME PhaseInv, ExchangeTypes, SessionInv, NEW c \in inflight, c.kind \in Sessions, Serve(c)
  PROVE  ExchangeTypes' /\ SessionsAwaited' /\ SessionsHeard' /\ LinkKnown'
<1>1. ExchangeTypes' /\ SessionsAwaited' /\ SessionsHeard'
  BY ServeKeepsSessions DEF SessionInv
<1>2. CASE c.kind = "connect"
  BY <1>1, <1>2 DEF Serve, LinkKnown
<1>3. CASE c.kind = "disconnect"
  <2>1. c.by \in Threads /\ pc[c.by] = Wait("disconnect")
    BY <1>3 DEF SessionInv, SessionsAwaited, ExchangeTypes, Sessions
  <2>2. Operating(c.by) /\ Disconnecting(c.by)
    BY <2>1 DEF Operating, Disconnecting
  <2>3. state' # "CONNECTED"
    BY <2>1, <2>2 DEF SessionInv, QuietWhenConnected, Serve, client
  <2>4. \A u \in Threads : ~Established(u)'
    BY <1>3, <2>1, <2>2, ServeKeepsSessions, EstablishedOperates DEF SessionInv, Alone
  <2> QED BY <1>1, <2>3, <2>4 DEF LinkKnown
<1> QED BY <1>1, <1>2, <1>3 DEF Sessions

LinkInv == ~mingled /\ ~budget.impatient => ExchangeTypes /\ SessionInv

LEMMA LinkInvNext ==
  ASSUME PhaseInv, StateTold, LinkInv, [Next]_vars PROVE LinkInv'
<1> SUFFICES ASSUME ~mingled', ~budget'.impatient PROVE ExchangeTypes' /\ SessionInv'
  BY DEF LinkInv
<1>1. PICK t \in Threads \cup {NoThread} : StepOf(t)
  BY NextIsStep
<1>2. ~mingled /\ ~budget.impatient /\ ExchangeTypes /\ SessionInv
  BY <1>1, PatienceLasts DEF LinkInv
<1>3. Alone' /\ QuietWhenConnected'
  BY <1>1, <1>2, StepKeepsAlone DEF SessionInv
<1>4. CASE \E c \in inflight : c.kind \in Sessions /\ Serve(c)
  BY <1>2, <1>3, <1>4, SessionServed DEF SessionInv
<1>5. CASE \A c \in inflight : Serve(c) => c.kind \notin Sessions
  <2>1. SessionsKept /\ LossStaysNoticed
    BY <1>2, <1>5, SessionsStep, Zenon DEF SessionInv
  <2>2. LinkKnown'
    BY <1>1, <1>2, <2>1, LinkStaysKnown DEF SessionInv, SessionsKept
  <2> QED BY <1>3, <2>1, <2>2 DEF SessionInv, SessionsKept
<1> QED BY <1>4, <1>5

(* ConnectedHasLink in every behaviour: a client that says CONNECTED has   *)
(* its connection or a thread that will notice the loss, however many      *)
(* connections are lost, messages fail, and library clients can't be       *)
(* created again; what may have gone wrong instead is in its exceptions.   *)
THEOREM ConnectedHasLinkTheorem == Spec => []ConnectedHasLink
<1> DEFINE Inv == PhaseInv /\ StateTold /\ OneOperation /\ LinkInv
<1>1. Init => Inv
  <2> SUFFICES ASSUME Init PROVE Inv
    OBVIOUS
  <2>1. \A t \in Threads : ~Operating(t) /\ ~Established(t)
    BY PhasesDiffer DEF Init, Operating, Connecting, Disconnecting, Established, Founded
  <2>2. ExchangeTypes
    BY DEF Init, ExchangeTypes
  <2>3. SessionInv
    BY <2>1 DEF Init, SessionInv, Alone, QuietWhenConnected, SessionsAwaited, SessionsHeard,
                LinkKnown
  <2> QED BY <2>1, <2>2, <2>3, PhaseInvInit DEF StateTold, OneOperation, Operating, LinkInv
<1>2. Inv /\ [Next]_vars => Inv'
  <2> SUFFICES ASSUME Inv, [Next]_vars PROVE Inv'
    OBVIOUS
  <2>1. PICK t \in Threads \cup {NoThread} : StepOf(t)
    BY NextIsStep
  <2> QED BY <2>1, StepKeepsOneOperation, LinkInvNext DEF StepOf
<1>3. Inv => ConnectedHasLink
  BY DEF LinkInv, SessionInv, LinkKnown, ConnectedHasLink
<1> QED BY <1>1, <1>2, <1>3, PTL DEF Spec

-----------------------------------------------------------------------------
(* Patient callers while no connection is lost and no message fails to be  *)
(* stored.                                                                 *)
Patient == \A b \in Budgets : ~b.impatient /\ b.losses = {} /\ b.failures = 0

AppPhases == {Idle} \cup ({"ask", "wait"} \X Kinds) \cup
  ({"do"} \X {"copy_submit", "copy_cancel", "set_connected", "set_disconnected",
              "forget", "undo"})

(* Nothing happens to the client but what applications do. *)
Calm ==
  /\ budget \in BudgetType
  /\ budget.losses = {} /\ budget.failures = 0 /\ ~budget.impatient

PhaseTypes ==
  /\ params \subseteq Apps
  /\ mqtt_lock = NoThread
  /\ Calm
  /\ pc \in [Threads -> AppPhases]
  /\ \A t \in Losses : pc[t] = Idle

(* What the state tells of a thread. *)
StateTells ==
  \A t \in Threads :
    /\ Connecting(t) => state = "CONNECTING"
    /\ Disconnecting(t) => state = "DISCONNECTING"

StateInv == PhaseTypes /\ StateTells /\ Alone

AppStep(t) ==
  \/ Begin(t)
  \/ CopyAll(t, "copy_submit", "submit_all")
  \/ CopyAll(t, "copy_cancel", "cancel_all")
  \/ \E k \in Kinds : Submit(t, k) \/ Awake(t, k)
  \/ SetState(t, "set_connected", "CONNECTED")
  \/ SetState(t, "set_disconnected", "DISCONNECTED")
  \/ Forget(t)

LibraryStep == \E c \in inflight : Serve(c) \/ Answer(c, TRUE) \/ Answer(c, FALSE)

LEMMA PhasesOfApps ==
  /\ Idle \in AppPhases
  /\ \A k \in Kinds : Ask(k) \in AppPhases /\ Wait(k) \in AppPhases
  /\ \A what : Do(what) \in AppPhases <=>
       what \in {"copy_submit", "copy_cancel", "set_connected", "set_disconnected",
                "forget", "undo"}
BY DEF AppPhases, Idle, Ask, Wait, Do

(* Only applications and the library take steps. *)
LEMMA StepsTaken ==
  ASSUME PhaseTypes, Next
  PROVE  (\E t \in Apps : AppStep(t)) \/ LibraryStep
<1>1. ASSUME NEW t \in Threads, Continue(t)
      PROVE  t \in Apps /\ AppStep(t)
  <2>1. pc[t] # Idle
    <3>1. ASSUME NEW k \in Kinds, Submit(t, k) \/ Awake(t, k) \/ GiveUp(t, k)
          PROVE  pc[t] # Idle
      BY <3>1, PhasesDiffer DEF Submit, Awake, GiveUp
    <3>2. ASSUME NEW what, pc[t] = Do(what) PROVE pc[t] # Idle
      BY <3>2, PhasesDiffer
    <3>3. CASE \A what : pc[t] # Do(what)
      BY <1>1, <3>1, <3>3
         DEF Continue, CopyAll, SetState, Forget, LockLibrary, FailCommand, RenewClient,
             CheckState, LostConnection, Reconnects
    <3> QED BY <3>2, <3>3
  <2>2. t \in Apps
    BY <2>1 DEF PhaseTypes, Threads
  <2>3. \A what \in {"set_error", "renew_client", "fail_commands", "check_state", "reconnect"} :
          pc[t] # Do(what)
    BY PhasesOfApps DEF PhaseTypes
  <2>4. t \notin Losses
    BY <2>2, ThreadsAssumption
  <2>5. AppStep(t)
    BY <1>1, <2>3, <2>4
       DEF Continue, AppStep, GiveUp, PhaseTypes, Calm, SetState, LockLibrary, FailCommand,
           RenewClient, CheckState, LostConnection, Reconnects
  <2> QED BY <2>2, <2>5
<1>2. ASSUME NEW t \in Threads, Begin(t)
      PROVE  t \in Apps /\ AppStep(t)
  BY <1>2 DEF Begin, AppStep, PhaseTypes, Calm, BudgetType
<1>3. \A t \in Losses : ~Lose(t)
  BY DEF Lose, PhaseTypes, Calm
<1>4. ~MessageFails
  BY DEF MessageFails, PhaseTypes, Calm
<1> QED BY <1>1, <1>2, <1>3, <1>4 DEF Next, LibraryStep

LEMMA StateInvInit == Patient /\ Init => StateInv
<1> SUFFICES ASSUME Patient, Init PROVE StateInv
  OBVIOUS
<1>1. PhaseTypes
  BY PhasesOfApps, OptionsAssumption DEF Init, Patient, PhaseTypes, Calm, Threads
<1>2. \A t \in Threads : ~Operating(t)
  BY DEF Init, Operating, Connecting, Disconnecting, Idle, Ask, Wait, Do
<1> QED BY <1>1, <1>2 DEF StateInv, StateTells, Alone, Operating

(* A thread that only goes on with what it does. *)
Proceeds(t, where) ==
  /\ pc' = [pc EXCEPT ![t] = where]
  /\ state' = state
  /\ Connecting(t)' => Connecting(t)
  /\ Disconnecting(t)' => Disconnecting(t)

LEMMA GoingOnKeepsState ==
  ASSUME StateInv, NEW t \in Apps, NEW where \in AppPhases, Proceeds(t, where),
         params' \subseteq Apps, mqtt_lock' = mqtt_lock, Calm'
  PROVE  StateInv'
<1>1. PhaseTypes'
  BY ThreadsAssumption DEF StateInv, PhaseTypes, Proceeds, Threads
<1>2. \A u \in Threads :
        (Connecting(u)' => Connecting(u)) /\ (Disconnecting(u)' => Disconnecting(u))
  <2> SUFFICES ASSUME NEW u \in Threads, u # t
               PROVE  (Connecting(u)' <=> Connecting(u)) /\ (Disconnecting(u)' <=> Disconnecting(u))
    BY DEF Proceeds
  <2>1. pc'[u] = pc[u]
    BY DEF Proceeds, StateInv, PhaseTypes
  <2> QED BY <2>1 DEF Connecting, Disconnecting
<1>3. StateTells' /\ Alone'
  BY <1>2 DEF StateInv, StateTells, Alone, Operating, Proceeds
<1> QED BY <1>1, <1>3 DEF StateInv

(* A call begins when no other operates. *)
LEMMA BeginKeepsState ==
  ASSUME StateInv, NEW t \in Apps, Begin(t)
  PROVE  StateInv'
<1> DEFINE Begun(where, new) == pc' = [pc EXCEPT ![t] = where] /\ state' = new
<1> USE AppIsThread
<1>1. pc[t] = Idle
  BY DEF Begin
<1>2. UNCHANGED mqtt_lock /\ Calm'
  <2>1. UNCHANGED mqtt_lock
    BY DEF Begin, BeginConnect, BeginDisconnect, BeginSubscribe, BeginUnsubscribe, client
  <2>2. \/ UNCHANGED budget
        \/ budget.connects > 0 /\ budget' = [budget EXCEPT !.connects = @ - 1]
        \/ budget.disconnects > 0 /\ budget' = [budget EXCEPT !.disconnects = @ - 1]
    BY DEF Begin, BeginDisconnect, BeginSubscribe, BeginUnsubscribe
  <2> QED BY <2>1, <2>2 DEF StateInv, PhaseTypes, Calm, BudgetType
<1>3. params' \subseteq Apps
  BY DEF Begin, BeginConnect, BeginDisconnect, BeginSubscribe, BeginUnsubscribe, client,
         StateInv, PhaseTypes
<1>4. \/ \E where \in {Idle, Ask("submit"), Ask("cancel")} : Begun(where, state)
      \/ ~Refusing /\ Begun(Ask("connect"), "CONNECTING")
      \/ ~Refusing /\ \E where \in {Do("copy_cancel"), Ask("disconnect")} :
                        Begun(where, "DISCONNECTING")
  BY DEF Begin, BeginConnect, BeginDisconnect, BeginSubscribe, BeginUnsubscribe, client,
         EnterState, Goto, Refusing
<1>5. ASSUME NEW where \in {Idle, Ask("submit"), Ask("cancel")}, Begun(where, state)
      PROVE  StateInv'
  <2>1. where \in AppPhases
    BY PhasesOfApps DEF Kinds
  <2>2. pc'[t] = where
    BY <1>5 DEF StateInv, PhaseTypes
  <2>3. ~Connecting(t)' /\ ~Disconnecting(t)'
    BY <2>2, PhasesDiffer DEF Connecting, Disconnecting
  <2> QED BY <1>2, <1>3, <1>5, <2>1, <2>3, GoingOnKeepsState DEF Proceeds
<1>6. ASSUME ~Refusing, NEW where, NEW new,
             \/ where = Ask("connect") /\ new = "CONNECTING"
             \/ where \in {Do("copy_cancel"), Ask("disconnect")} /\ new = "DISCONNECTING",
             Begun(where, new)
      PROVE  StateInv'
  <2>1. where \in AppPhases
    BY <1>6, PhasesOfApps DEF Kinds
  <2>2. PhaseTypes'
    BY <1>2, <1>3, <1>6, <2>1 DEF StateInv, PhaseTypes
  <2>3. \A u \in Threads : ~Operating(u)
    BY <1>6 DEF StateInv, StateTells, Operating, Refusing
  <2>4. \A u \in Threads \ {t} : ~Operating(u)'
    <3> SUFFICES ASSUME NEW u \in Threads, u # t PROVE ~Operating(u)'
      OBVIOUS
    <3>1. pc'[u] = pc[u]
      BY <1>6 DEF StateInv, PhaseTypes
    <3> QED BY <2>3, <3>1 DEF Operating, Connecting, Disconnecting
  <2>5. pc'[t] = where
    BY <1>6 DEF StateInv, PhaseTypes
  <2>6. /\ Connecting(t)' => state' = "CONNECTING"
        /\ Disconnecting(t)' => state' = "DISCONNECTING"
    BY <1>6, <2>5, PhasesDiffer DEF Connecting, Disconnecting
  <2>7. StateTells'
    BY <2>4, <2>6 DEF StateTells, Operating
  <2>8. Alone'
    BY <2>4 DEF Alone
  <2> QED BY <2>2, <2>7, <2>8 DEF StateInv
<1> QED BY <1>4, <1>5, <1>6

(* Where an exchange leads. *)
LEMMA SequelKeepsState ==
  ASSUME StateInv, NEW t \in Apps, NEW k \in Kinds, pc[t] \in {Ask(k), Wait(k)},
         NEW where \in {Wait(k), AfterSuccess(k), AfterFailure(k, t)},
         pc' = [pc EXCEPT ![t] = where], UNCHANGED client, UNCHANGED budget
  PROVE  StateInv'
<1> USE AppIsThread
<1>1. where \in AppPhases
  BY PhasesOfApps DEF AfterSuccess, AfterFailure, Sequel, Kinds
<1>2. pc'[t] = where
  BY DEF StateInv, PhaseTypes
<1>3. /\ Connecting(t)' => Connecting(t)
      /\ Disconnecting(t)' => Disconnecting(t)
  BY <1>2, PhasesDiffer DEF Connecting, Disconnecting, AfterSuccess, AfterFailure, Sequel, Kinds
<1> QED BY <1>1, <1>3, GoingOnKeepsState DEF Proceeds, client, StateInv, PhaseTypes, Calm

(* A call ends. *)
LEMMA SetStateKeepsState ==
  ASSUME StateInv, NEW t \in Apps,
         \/ SetState(t, "set_connected", "CONNECTED")
         \/ SetState(t, "set_disconnected", "DISCONNECTED")
  PROVE  StateInv'
<1> USE AppIsThread
<1>1. /\ pc' = [pc EXCEPT ![t] = Idle]
      /\ UNCHANGED <<params, mqtt_lock, budget>>
      /\ Operating(t)
  BY DEF SetState, Goto, Operating, Connecting, Disconnecting
<1>2. PhaseTypes'
  BY <1>1, PhasesOfApps DEF StateInv, PhaseTypes, Calm
<1>3. \A u \in Threads : ~Operating(u)'
  <2> SUFFICES ASSUME NEW u \in Threads PROVE ~Operating(u)'
    OBVIOUS
  <2>1. CASE u = t
    <3>1. pc'[u] = Idle
      BY <1>1, <2>1 DEF StateInv, PhaseTypes
    <3> QED BY <3>1, PhasesDiffer DEF Operating, Connecting, Disconnecting
  <2>2. CASE u # t
    <3>1. pc'[u] = pc[u] /\ ~Operating(u)
      BY <1>1, <2>2 DEF StateInv, PhaseTypes, Alone
    <3> QED BY <3>1 DEF Operating, Connecting, Disconnecting
  <2> QED BY <2>1, <2>2
<1> QED BY <1>2, <1>3 DEF StateInv, StateTells, Alone, Operating

LEMMA AppKeepsState ==
  ASSUME StateInv, NEW t \in Apps, AppStep(t)
  PROVE  StateInv'
<1> USE AppIsThread
<1>1. ASSUME NEW k \in {"submit_all", "cancel_all"},
             CopyAll(t, IF k = "submit_all" THEN "copy_submit" ELSE "copy_cancel", k)
      PROVE  StateInv'
  <2> DEFINE from == IF k = "submit_all" THEN "copy_submit" ELSE "copy_cancel"
  <2>1. PICK where \in {AfterSuccess(k), Ask(k)} : pc' = [pc EXCEPT ![t] = where]
    BY <1>1 DEF CopyAll, Goto
  <2>2. where \in AppPhases
    BY PhasesOfApps DEF AfterSuccess, Sequel, Kinds
  <2>3. pc'[t] = where /\ pc[t] = Do(from)
    BY <1>1, <2>1 DEF CopyAll, StateInv, PhaseTypes
  <2>4. /\ Connecting(t)' => Connecting(t)
        /\ Disconnecting(t)' => Disconnecting(t)
    BY <1>1, <2>3, PhasesDiffer DEF Connecting, Disconnecting, AfterSuccess, Sequel
  <2> QED BY <1>1, <2>1, <2>2, <2>4, GoingOnKeepsState
          DEF Proceeds, CopyAll, client, StateInv, PhaseTypes, Calm
<1>2. ASSUME NEW k \in Kinds, Submit(t, k) \/ Awake(t, k)
      PROVE  StateInv'
  <2>1. \E where \in {Wait(k), AfterSuccess(k), AfterFailure(k, t)} :
          pc' = [pc EXCEPT ![t] = where]
    BY <1>2 DEF Submit, Awake, Goto
  <2> QED BY <1>2, <2>1, SequelKeepsState DEF Submit, Awake
<1>3. ASSUME Forget(t) PROVE StateInv'
  <2>1. pc' = [pc EXCEPT ![t] = Idle] /\ pc'[t] = Idle
    BY <1>3 DEF Forget, Goto, StateInv, PhaseTypes
  <2>2. ~Connecting(t)' /\ ~Disconnecting(t)'
    BY <2>1, PhasesDiffer DEF Connecting, Disconnecting
  <2>3. Proceeds(t, Idle) /\ UNCHANGED <<mqtt_lock, budget>>
    BY <1>3, <2>1, <2>2 DEF Proceeds, Forget
  <2>4. params' \subseteq Apps
    BY <1>3 DEF Forget, StateInv, PhaseTypes
  <2>5. Idle \in AppPhases
    BY PhasesOfApps
  <2> QED BY <2>3, <2>4, <2>5, GoingOnKeepsState DEF StateInv, PhaseTypes, Calm
<1>4. ASSUME \/ CopyAll(t, "copy_submit", "submit_all")
             \/ CopyAll(t, "copy_cancel", "cancel_all")
      PROVE  StateInv'
  BY <1>1, <1>4
<1> QED BY <1>2, <1>3, <1>4, BeginKeepsState, SetStateKeepsState DEF AppStep

LEMMA SamePhasesKeepState == StateInv /\ UNCHANGED <<client, pc, budget>> => StateInv'
BY DEF client, StateInv, PhaseTypes, Calm, StateTells, Alone, Operating, Connecting, Disconnecting

LEMMA StateInvNext == StateInv /\ [Next]_vars => StateInv'
<1> SUFFICES ASSUME StateInv, [Next]_vars PROVE StateInv'
  OBVIOUS
<1>1. CASE LibraryStep
  BY <1>1, SamePhasesKeepState DEF LibraryStep, Serve, Answer
<1>2. CASE UNCHANGED vars
  BY <1>2, SamePhasesKeepState DEF vars
<1> QED BY <1>1, <1>2, StepsTaken, AppKeepsState DEF StateInv

-----------------------------------------------------------------------------
(* Whoever asked waits for the answer, as long as no call times out.       *)

CommandTypes ==
  /\ \A c \in inflight :
       c \in [id : {c.id}, kind : Kinds, by : Threads, subs : SUBSET Apps, served : BOOLEAN]
  /\ copied \in [Threads -> SUBSET Apps]
  /\ result \in [Cells -> BOOLEAN]

OneCommand == \A c, d \in inflight : c.by = d.by => c = d

(* No condition is set before its answer comes... *)
NoEcho == \A c \in inflight : Condition(c.kind, c.by) \notin triggered

(* ... and one that is set has somebody to reset it. *)
Awaited ==
  \A x \in triggered : \E t \in Threads, k \in Kinds : pc[t] = Wait(k) /\ x = Condition(k, t)

(* The requests of a subscription last as long as they are used. *)
UsesRequests(t) ==
  pc[t] \in {Ask("submit"), Wait("submit"), Ask("cancel"), Wait("cancel"),
             Do("forget"), Do("undo")}
RequestsExist == \A t \in Threads : UsesRequests(t) => t \in params

(* Whoever asked waits. *)
AllAwaited == \A c \in inflight : pc[c.by] = Wait(c.kind)

AnswerInv ==
  /\ CommandTypes /\ AllAwaited /\ OneCommand /\ NoEcho /\ Awaited /\ RequestsExist
  /\ ~crashed

LEMMA AnswerInvInit == Init => AnswerInv
<1> SUFFICES ASSUME Init PROVE AnswerInv
  OBVIOUS
<1>1. CommandTypes
  BY DEF Init, CommandTypes
<1>2. RequestsExist
  BY PhasesDiffer DEF Init, RequestsExist, UsesRequests
<1> QED BY <1>1, <1>2 DEF Init, AnswerInv, AllAwaited, OneCommand, NoEcho, Awaited

(* A condition has one thread that asks or waits. *)
LEMMA ConditionsApart ==
  ASSUME StateInv, NEW t \in Threads, NEW u \in Threads, NEW k \in Kinds, NEW j \in Kinds,
         pc[t] \in {Ask(k), Wait(k)}, pc[u] \in {Ask(j), Wait(j)},
         Condition(k, t) = Condition(j, u)
  PROVE  t = u /\ j = k
<1>1. j = k
  BY DEF Condition
<1>2. CASE k \in {"submit", "cancel"}
  BY <1>1, <1>2 DEF Condition
<1>3. CASE k \notin {"submit", "cancel"}
  <2>1. \A w \in Threads : pc[w] \in {Ask(k), Wait(k)} => Operating(w)
    BY <1>3 DEF Operating, Connecting, Disconnecting, Kinds
  <2> QED BY <1>1, <2>1 DEF StateInv, Alone
<1> QED BY <1>1, <1>2, <1>3

(* A step of a thread that neither waits nor hands over a command. *)
LocalStep(t) ==
  /\ \A k : pc[t] # Wait(k)
  /\ \E where : pc' = [pc EXCEPT ![t] = where]
  /\ inflight' = inflight
  /\ triggered' \subseteq triggered
  /\ crashed' = crashed
  /\ copied' \in [Threads -> SUBSET Apps]
  /\ result' \in [Cells -> BOOLEAN]
  /\ params \subseteq params' \cup {t}
  /\ UsesRequests(t)' => t \in params'

LEMMA LocalKeepsAnswers ==
  ASSUME StateInv, AnswerInv, NEW t \in Apps, LocalStep(t)
  PROVE  AnswerInv'
<1> USE AppIsThread
<1>1. \A u \in Threads : u # t => pc'[u] = pc[u]
  BY DEF LocalStep, StateInv, PhaseTypes
<1>2. \A u \in Threads : \A k : pc[u] = Wait(k) => pc'[u] = Wait(k)
  BY <1>1 DEF LocalStep
<1>3. CommandTypes'
  BY DEF LocalStep, AnswerInv, CommandTypes
<1>4. AllAwaited'
  BY <1>2 DEF LocalStep, AnswerInv, AllAwaited, CommandTypes
<1>5. OneCommand' /\ NoEcho' /\ ~crashed'
  BY DEF LocalStep, AnswerInv, OneCommand, NoEcho
<1>6. Awaited'
  BY <1>2 DEF LocalStep, AnswerInv, Awaited
<1>7. RequestsExist'
  BY <1>1 DEF LocalStep, AnswerInv, RequestsExist, UsesRequests
<1> QED BY <1>3, <1>4, <1>5, <1>6, <1>7 DEF AnswerInv

LEMMA BeginIsLocal ==
  ASSUME StateInv, AnswerInv, NEW t \in Apps, Begin(t)
  PROVE  LocalStep(t)
<1> USE AppIsThread
<1>1. \A k : pc[t] # Wait(k)
  BY PhasesDiffer DEF Begin
<1>2. /\ \E where : pc' = [pc EXCEPT ![t] = where]
      /\ inflight' = inflight
      /\ triggered' \subseteq triggered
      /\ crashed' = crashed
      /\ params \subseteq params' \cup {t}
  BY DEF Begin, BeginConnect, BeginDisconnect, BeginSubscribe, BeginUnsubscribe, Goto,
         library, requests, client
<1>3. copied' \in [Threads -> SUBSET Apps] /\ result' \in [Cells -> BOOLEAN]
  <2>1. copied \in [Threads -> SUBSET Apps] /\ result \in [Cells -> BOOLEAN]
    BY DEF AnswerInv, CommandTypes
  <2>2. CASE BeginSubscribe(t)
    <3>1. {t} \in SUBSET Apps
      OBVIOUS
    <3> QED BY <2>1, <2>2, <3>1 DEF BeginSubscribe
  <2>3. CASE BeginUnsubscribe(t)
    <3>1. {t} \in SUBSET Apps
      OBVIOUS
    <3> QED BY <2>1, <2>3, <3>1 DEF BeginUnsubscribe, requests
  <2>4. CASE BeginConnect(t) \/ BeginDisconnect(t)
    BY <2>1, <2>4 DEF BeginConnect, BeginDisconnect, requests
  <2> QED BY <2>2, <2>3, <2>4 DEF Begin
<1>4. UsesRequests(t)' => t \in params'
  <2>1. CASE BeginSubscribe(t)
    BY <2>1 DEF BeginSubscribe
  <2>2. CASE BeginUnsubscribe(t)
    BY <2>2 DEF BeginUnsubscribe, client
  <2>3. CASE BeginConnect(t) \/ BeginDisconnect(t)
    <3>1. pc'[t] \in {Idle, Ask("connect"), Do("copy_cancel"), Ask("disconnect")}
      BY <2>3 DEF BeginConnect, BeginDisconnect, Goto, StateInv, PhaseTypes
    <3> QED BY <3>1, PhasesDiffer DEF UsesRequests
  <2> QED BY <2>1, <2>2, <2>3 DEF Begin
<1> QED BY <1>1, <1>2, <1>3, <1>4 DEF LocalStep

LEMMA CopyIsLocal ==
  ASSUME StateInv, AnswerInv, NEW t \in Apps, NEW k \in {"submit_all", "cancel_all"}, NEW from,
         CopyAll(t, from, k)
  PROVE  LocalStep(t)
<1> USE AppIsThread
<1>1. PICK where \in {AfterSuccess(k), Ask(k)} : pc' = [pc EXCEPT ![t] = where]
  BY DEF CopyAll, Goto
<1>2. pc'[t] = where
  BY <1>1 DEF StateInv, PhaseTypes
<1>3. ~UsesRequests(t)'
  BY <1>2, PhasesDiffer DEF UsesRequests, AfterSuccess, Sequel
<1>4. copied' \in [Threads -> SUBSET Apps] /\ result' \in [Cells -> BOOLEAN]
  <2>1. copied \in [Threads -> SUBSET Apps] /\ result \in [Cells -> BOOLEAN]
    BY DEF AnswerInv, CommandTypes
  <2>2. params \in SUBSET Apps
    BY DEF StateInv, PhaseTypes
  <2> QED BY <2>1, <2>2 DEF CopyAll
<1>5. \A j : pc[t] # Wait(j)
  BY PhasesDiffer DEF CopyAll
<1> QED BY <1>1, <1>3, <1>4, <1>5 DEF LocalStep, CopyAll, client, library

LEMMA EndIsLocal ==
  ASSUME StateInv, AnswerInv, NEW t \in Apps,
         Forget(t) \/ \E at, new : SetState(t, at, new)
  PROVE  LocalStep(t)
<1> USE AppIsThread
<1>1. /\ pc' = [pc EXCEPT ![t] = Idle]
      /\ UNCHANGED <<inflight, triggered, crashed, copied, result>>
      /\ params \subseteq params' \cup {t}
  BY DEF Forget, SetState, Goto, library, requests
<1>2. pc'[t] = Idle
  BY <1>1 DEF StateInv, PhaseTypes
<1>3. ~UsesRequests(t)'
  BY <1>2, PhasesDiffer DEF UsesRequests
<1>4. \A j : pc[t] # Wait(j)
  BY PhasesDiffer DEF Forget, SetState
<1> QED BY <1>1, <1>3, <1>4 DEF LocalStep, AnswerInv, CommandTypes

LEMMA RefusedIsLocal ==
  ASSUME StateInv, AnswerInv, NEW t \in Apps, NEW k \in Kinds, Submit(t, k), inflight' = inflight,
         pc' = [pc EXCEPT ![t] = AfterFailure(k, t)]
  PROVE  LocalStep(t)
<1> USE AppIsThread
<1>1. pc'[t] = AfterFailure(k, t) /\ pc[t] = Ask(k) /\ t \notin Losses
  BY DEF Submit, StateInv, PhaseTypes
<1>2. UsesRequests(t)' => UsesRequests(t)
  BY <1>1, PhasesDiffer DEF UsesRequests, AfterFailure, Kinds
<1>3. UsesRequests(t)' => t \in params'
  BY <1>2 DEF AnswerInv, RequestsExist, Submit, client
<1>4. copied' \in [Threads -> SUBSET Apps]
  BY DEF Submit, AnswerInv, CommandTypes
<1> QED BY <1>1, <1>3, <1>4, PhasesDiffer
        DEF LocalStep, Submit, client, requests, AnswerInv, CommandTypes

(* The command that a thread hands over. *)
Command(t, k) ==
  [id |-> CHOOSE n \in Free : \A m \in Free : n <= m,
   kind |-> k, by |-> t, subs |-> copied[t], served |-> FALSE]

LEMMA SubmitKeepsAnswers ==
  ASSUME StateInv, AnswerInv, NEW t \in Apps, NEW k \in Kinds, Submit(t, k)
  PROVE  AnswerInv'
<1> USE AppIsThread
<1>1. CASE inflight' = inflight /\ pc' = [pc EXCEPT ![t] = AfterFailure(k, t)]
  BY <1>1, RefusedIsLocal, LocalKeepsAnswers
<1>2. CASE /\ Free # {}
           /\ inflight' = inflight \cup {Command(t, k)}
           /\ pc' = [pc EXCEPT ![t] = Wait(k)]
  <2> DEFINE c == Command(t, k)
  <2>1. c.kind = k /\ c.by = t /\ c.subs = copied[t] /\ c.served = FALSE
    BY DEF Command
  <2>2. /\ pc[t] = Ask(k) /\ pc'[t] = Wait(k)
        /\ \A u \in Threads : u # t => pc'[u] = pc[u]
        /\ UNCHANGED <<params, triggered, result, crashed>>
    BY <1>2 DEF Submit, StateInv, PhaseTypes, client, requests
  <2>3. \A d \in inflight : d.by \in Threads /\ d.kind \in Kinds /\ d.by # t
    BY <2>2, PhasesDiffer DEF AnswerInv, AllAwaited, CommandTypes
  <2>4. CommandTypes'
    <3>1. copied[t] \in SUBSET Apps
      BY DEF AnswerInv, CommandTypes
    <3>2. c \in [id : {c.id}, kind : Kinds, by : Threads, subs : SUBSET Apps, served : BOOLEAN]
      BY <3>1 DEF Command
    <3>4. copied' \in [Threads -> SUBSET Apps]
      BY DEF Submit, AnswerInv, CommandTypes
    <3> QED BY <1>2, <2>1, <2>2, <3>1, <3>2, <3>4 DEF AnswerInv, CommandTypes
  <2>5. AllAwaited'
    BY <1>2, <2>1, <2>2, <2>3 DEF AnswerInv, AllAwaited
  <2>6. OneCommand'
    BY <1>2, <2>1, <2>3 DEF AnswerInv, OneCommand
  <2>7. Condition(k, t) \notin triggered
    <3>1. ASSUME NEW u \in Threads, NEW j \in Kinds, pc[u] = Wait(j),
                 Condition(k, t) = Condition(j, u)
          PROVE  FALSE
      <4>1. t = u
        BY <2>2, <3>1, ConditionsApart
      <4> QED BY <2>2, <3>1, <4>1, PhasesDiffer
    <3> QED BY <3>1 DEF AnswerInv, Awaited
  <2>8. NoEcho'
    BY <1>2, <2>1, <2>2, <2>7 DEF AnswerInv, NoEcho
  <2>9. Awaited'
    <3>1. \A u \in Threads : \A j : pc[u] = Wait(j) => pc'[u] = Wait(j)
      BY <2>2, PhasesDiffer
    <3> QED BY <2>2, <3>1 DEF AnswerInv, Awaited
  <2>10. RequestsExist'
    <3>1. UsesRequests(t)' => UsesRequests(t)
      BY <2>2, PhasesDiffer DEF UsesRequests
    <3> QED BY <2>2, <3>1 DEF AnswerInv, RequestsExist, UsesRequests
  <2> QED BY <2>2, <2>4, <2>5, <2>6, <2>8, <2>9, <2>10 DEF AnswerInv
<1> QED BY <1>1, <1>2 DEF Submit, Goto, Command

LEMMA AwakeKeepsAnswers ==
  ASSUME StateInv, AnswerInv, NEW t \in Apps, NEW k \in Kinds, Awake(t, k)
  PROVE  AnswerInv'
<1> USE AppIsThread
<1>1. PICK where \in {AfterSuccess(k), AfterFailure(k, t)} : pc' = [pc EXCEPT ![t] = where]
  BY DEF Awake, Goto
<1>2. /\ pc[t] = Wait(k) /\ pc'[t] = where
      /\ \A u \in Threads : u # t => pc'[u] = pc[u]
      /\ Condition(k, t) \in triggered
      /\ triggered' = triggered \ {Condition(k, t)}
      /\ UNCHANGED <<params, inflight, result, copied, crashed>>
  BY <1>1 DEF Awake, StateInv, PhaseTypes, client, library
<1>3. \A c \in inflight : c.by \in Threads /\ c.kind \in Kinds /\ c.by # t
  <2> SUFFICES ASSUME NEW c \in inflight, c.by = t PROVE FALSE
    BY DEF AnswerInv, CommandTypes
  <2>1. c.kind = k
    BY <1>2, PhasesDiffer DEF AnswerInv, AllAwaited
  <2> QED BY <1>2, <2>1 DEF AnswerInv, NoEcho
<1>4. CommandTypes' /\ OneCommand' /\ NoEcho' /\ ~crashed'
  BY <1>2 DEF AnswerInv, CommandTypes, OneCommand, NoEcho
<1>5. AllAwaited'
  BY <1>2, <1>3 DEF AnswerInv, AllAwaited
<1>6. Awaited'
  <2> SUFFICES ASSUME NEW x \in triggered, x # Condition(k, t)
               PROVE  \E u \in Threads, j \in Kinds : pc'[u] = Wait(j) /\ x = Condition(j, u)
    BY <1>2 DEF Awaited
  <2>1. PICK u \in Threads, j \in Kinds : pc[u] = Wait(j) /\ x = Condition(j, u)
    BY DEF AnswerInv, Awaited
  <2>2. u # t
    BY <1>2, <2>1, PhasesDiffer
  <2> QED BY <1>2, <2>1, <2>2
<1>7. RequestsExist'
  <2>1. UsesRequests(t)' => UsesRequests(t)
    BY <1>2, PhasesDiffer DEF UsesRequests, AfterSuccess, AfterFailure, Sequel, Kinds
  <2> QED BY <1>2, <2>1 DEF AnswerInv, RequestsExist, UsesRequests
<1> QED BY <1>4, <1>5, <1>6, <1>7 DEF AnswerInv

(* What the broker carries out. *)
Served(c) == [c EXCEPT !.served = TRUE]

LEMMA ServedCommand ==
  ASSUME AnswerInv, NEW c \in inflight
  PROVE  /\ Served(c) \in [id : {c.id}, kind : Kinds, by : Threads, subs : SUBSET Apps,
                           served : BOOLEAN]
         /\ Served(c).id = c.id /\ Served(c).kind = c.kind /\ Served(c).by = c.by
         /\ Served(c).subs = c.subs /\ Served(c).served = TRUE
BY DEF AnswerInv, CommandTypes, Served

LEMMA ServeKeepsAnswers ==
  ASSUME AnswerInv, NEW c \in inflight, Serve(c)
  PROVE  AnswerInv'
<1> DEFINE d == Served(c)
<1>1. /\ inflight' = (inflight \ {c}) \cup {d}
      /\ UNCHANGED <<params, pc, triggered, result, copied, crashed>>
  BY DEF Serve, Served, client, requests
<1>2. /\ d \in [id : {d.id}, kind : Kinds, by : Threads, subs : SUBSET Apps, served : BOOLEAN]
      /\ d.kind = c.kind /\ d.by = c.by
  BY ServedCommand
<1> HIDE DEF d
<1>3. CommandTypes'
  BY <1>1, <1>2 DEF AnswerInv, CommandTypes
<1>4. AllAwaited' /\ OneCommand' /\ NoEcho'
  BY <1>1, <1>2 DEF AnswerInv, AllAwaited, OneCommand, NoEcho
<1>5. Awaited' /\ RequestsExist' /\ ~crashed'
  BY <1>1 DEF AnswerInv, Awaited, RequestsExist, UsesRequests
<1> QED BY <1>3, <1>4, <1>5 DEF AnswerInv

(* An answer reaches a request that exists. *)
LEMMA AnswerIsStored ==
  ASSUME AnswerInv, NEW c \in inflight, NEW ok \in BOOLEAN, Answer(c, ok)
  PROVE  /\ inflight' = inflight \ {c}
         /\ result' = [result EXCEPT ![Cell(c.kind, c.by)] = ok]
         /\ triggered' = triggered \cup {Condition(c.kind, c.by)}
         /\ UNCHANGED <<client, link, broker, pc, copied, crashed>>
<1>1. /\ c.kind \in Kinds /\ c.by \in Threads /\ pc[c.by] = Wait(c.kind)
  BY DEF AnswerInv, CommandTypes, AllAwaited
<1>2. c.kind \in {"submit", "cancel"} => c.by \in params
  BY <1>1 DEF AnswerInv, RequestsExist, UsesRequests
<1>3. Exists(c)
  BY <1>1, <1>2 DEF Exists, Kinds
<1> QED BY <1>3 DEF Answer, HandleRequestResult

LEMMA CellsExist == \A k \in Kinds, t \in Threads : Cell(k, t) \in Cells
BY DEF Cell, Cells

LEMMA AnswerKeepsAnswers ==
  ASSUME StateInv, AnswerInv, NEW c \in inflight, NEW ok \in BOOLEAN, Answer(c, ok)
  PROVE  AnswerInv'
<1>1. /\ inflight' = inflight \ {c}
      /\ result' = [result EXCEPT ![Cell(c.kind, c.by)] = ok]
      /\ triggered' = triggered \cup {Condition(c.kind, c.by)}
      /\ UNCHANGED <<params, pc, copied, crashed>>
  BY AnswerIsStored DEF client
<1>2. c.kind \in Kinds /\ c.by \in Threads /\ pc[c.by] = Wait(c.kind)
  BY DEF AnswerInv, CommandTypes, AllAwaited
<1>3. CommandTypes'
  BY <1>1, <1>2, CellsExist DEF AnswerInv, CommandTypes
<1>4. AllAwaited' /\ OneCommand' /\ ~crashed' /\ RequestsExist'
  BY <1>1 DEF AnswerInv, AllAwaited, OneCommand, RequestsExist, UsesRequests
<1>5. NoEcho'
  <2> SUFFICES ASSUME NEW d \in inflight, d # c, Condition(d.kind, d.by) = Condition(c.kind, c.by)
               PROVE  FALSE
    BY <1>1 DEF AnswerInv, NoEcho
  <2>1. d.kind \in Kinds /\ d.by \in Threads /\ pc[d.by] = Wait(d.kind)
    BY DEF AnswerInv, CommandTypes, AllAwaited
  <2>2. d.by = c.by
    BY <1>2, <2>1, ConditionsApart
  <2> QED BY <2>2 DEF AnswerInv, OneCommand
<1>6. Awaited'
  BY <1>1, <1>2 DEF AnswerInv, Awaited
<1> QED BY <1>3, <1>4, <1>5, <1>6 DEF AnswerInv

LEMMA AppKeepsAnswers ==
  ASSUME StateInv, AnswerInv, NEW t \in Apps, AppStep(t)
  PROVE  AnswerInv'
<1>1. ASSUME \/ CopyAll(t, "copy_submit", "submit_all")
             \/ CopyAll(t, "copy_cancel", "cancel_all")
      PROVE  AnswerInv'
  BY <1>1, CopyIsLocal, LocalKeepsAnswers
<1>2. ASSUME \/ SetState(t, "set_connected", "CONNECTED")
             \/ SetState(t, "set_disconnected", "DISCONNECTED")
             \/ Forget(t)
      PROVE  AnswerInv'
  BY <1>2, EndIsLocal, LocalKeepsAnswers
<1>3. ASSUME NEW k \in Kinds, Submit(t, k) \/ Awake(t, k)
      PROVE  AnswerInv'
  BY <1>3, SubmitKeepsAnswers, AwakeKeepsAnswers 
<1>4. CASE Begin(t)
  BY <1>4, BeginIsLocal, LocalKeepsAnswers
<1> QED BY <1>1, <1>2, <1>3, <1>4 DEF AppStep

LEMMA AnswerInvNext == StateInv /\ AnswerInv /\ [Next]_vars => AnswerInv'
<1> SUFFICES ASSUME StateInv, AnswerInv, [Next]_vars PROVE AnswerInv'
  OBVIOUS
<1>1. CASE LibraryStep
  BY <1>1, ServeKeepsAnswers, AnswerKeepsAnswers DEF LibraryStep
<1>2. CASE UNCHANGED vars
  BY <1>2 DEF vars, client, requests, library, AnswerInv, CommandTypes, AllAwaited,
              OneCommand, NoEcho, Awaited, RequestsExist, UsesRequests
<1>3. CASE Next
  BY <1>1, <1>3, StepsTaken, AppKeepsAnswers DEF StateInv
<1> QED BY <1>2, <1>3

(* AnswersAreAwaited for any number of applications: without timeouts no   *)
(* command outlives the request that its answer is stored in.              *)
THEOREM AnswersAreAwaitedTheorem ==
  ASSUME Patient
  PROVE  Spec => []AnswersAreAwaited
<1>1. StateInv /\ AnswerInv => AnswersAreAwaited
  BY DEF AnswerInv, AllAwaited, AnswersAreAwaited
<1>2. Init => StateInv /\ AnswerInv
  BY StateInvInit, AnswerInvInit
<1>3. StateInv /\ AnswerInv /\ [Next]_vars => (StateInv /\ AnswerInv)'
  BY StateInvNext, AnswerInvNext
<1> QED BY <1>1, <1>2, <1>3, PTL DEF Spec

-----------------------------------------------------------------------------
(* What the broker knows of the subscriptions.                             *)

(* While one thread disconnects nothing relies on the connection. *)
LEMMA DisconnectingAlone ==
  ASSUME StateInv, AnswerInv, NEW t \in Threads, Disconnecting(t)
  PROVE  /\ state = "DISCONNECTING"
         /\ \A u \in Threads : ~Connecting(u)
         /\ \A c \in inflight : c.kind \notin {"connect", "submit_all"}
<1>1. state = "DISCONNECTING" /\ \A u \in Threads : ~Connecting(u)
  BY DEF StateInv, StateTells
<1>2. ASSUME NEW c \in inflight, c.kind \in {"connect", "submit_all"}
      PROVE  FALSE
  BY <1>1, <1>2 DEF AnswerInv, CommandTypes, AllAwaited, Connecting
<1> QED BY <1>1, <1>2

LEMMA AwaitsItsCommand ==
  ASSUME AnswerInv, NEW c \in inflight
  PROVE  /\ c.kind \in Kinds /\ c.by \in Threads /\ pc[c.by] = Wait(c.kind)
         /\ Condition(c.kind, c.by) \notin triggered
         /\ c.subs \subseteq Apps /\ c.served \in BOOLEAN
BY DEF AnswerInv, CommandTypes, AllAwaited, NoEcho

(* The answer to t is OK and waits to be read. *)
Told(k, t) == pc[t] = Wait(k) /\ Condition(k, t) \in triggered /\ result[Cell(k, t)]

(* A subscription that its application holds, or is about to.              *)
SubmitDone(t) ==
  \/ pc[t] = Wait("submit") /\ \E c \in inflight : c.by = t /\ c.served
  \/ Told("submit", t)
Needs(t) == Holds(t) \/ SubmitDone(t)

(* A connect() that will not submit the subscription of t any more.        *)
Assumes(u, t) ==
  \/ pc[u] = Do("set_connected")
  \/ pc[u] = Ask("submit_all") /\ t \notin copied[u]
  \/ pc[u] = Wait("submit_all") /\ \E c \in inflight : c.by = u /\ (c.served \/ t \notin c.subs)
  \/ Told("submit_all", u)
Relies(t) == state = "CONNECTED" \/ \E u \in Threads : Assumes(u, t)

(* A subscription's own requests submit and cancel only it. *)
OwnRequests ==
  /\ \A t \in Threads : pc[t] \in {Ask("submit"), Ask("cancel")} => copied[t] = {t}
  /\ \A c \in inflight : c.kind \in {"submit", "cancel"} => c.subs = {c.by}

BrokerKnows == \A t \in Apps : Needs(t) /\ Relies(t) => t \in broker

SubsInv == OwnRequests /\ BrokerKnows

LEMMA SubsInvInit == Init => SubsInv
BY PhasesDiffer DEF Init, SubsInv, OwnRequests, BrokerKnows, Holds, Needs, SubmitDone, Told

LEMMA AskingIsNotTriggered ==
  ASSUME StateInv, AnswerInv, NEW t \in Threads, NEW k \in Kinds, pc[t] = Ask(k)
  PROVE  Condition(k, t) \notin triggered
<1>1. ASSUME NEW u \in Threads, NEW j \in Kinds, pc[u] = Wait(j),
             Condition(k, t) = Condition(j, u)
      PROVE  FALSE
  <2>1. t = u
    BY <1>1, ConditionsApart
  <2> QED BY <1>1, <2>1, PhasesDiffer
<1> QED BY <1>1 DEF AnswerInv, Awaited

(* The broker's steps. *)
LEMMA ServeKeepsSubs ==
  ASSUME StateInv, AnswerInv, SubsInv, NEW c \in inflight, Serve(c)
  PROVE  SubsInv'
<1> DEFINE d == Served(c)
<1>1. /\ inflight' = (inflight \ {c}) \cup {d}
      /\ UNCHANGED <<state, params, pc, triggered, result, copied>>
  BY DEF Serve, Served, client, requests
<1>2. d.kind = c.kind /\ d.by = c.by /\ d.subs = c.subs /\ d.served = TRUE
  BY ServedCommand
<1> HIDE DEF d
<1>3. c.kind \in Kinds /\ c.by \in Threads /\ pc[c.by] = Wait(c.kind)
  BY AwaitsItsCommand
<1>4. OwnRequests'
  BY <1>1, <1>2 DEF SubsInv, OwnRequests
<1>5. \A k, u : Told(k, u)' <=> Told(k, u)
  BY <1>1 DEF Told
<1>6. \A t : Holds(t)' <=> Holds(t)
  BY <1>1 DEF Holds
<1>7. \A t : Relies(t)' =>
        state = "CONNECTED" \/ \E u \in Threads : Connecting(u) /\ pc[u] # Wait("connect")
  <2>1. ASSUME NEW t, NEW u \in Threads, Assumes(u, t)'
        PROVE  Connecting(u) /\ pc[u] # Wait("connect")
    <3>1. pc[u] \in {Do("set_connected"), Ask("submit_all"), Wait("submit_all")}
      BY <1>1, <2>1 DEF Assumes, Told
    <3> QED BY <3>1, PhasesDiffer DEF Connecting
  <2> QED BY <1>1, <2>1 DEF Relies
<1>8. CASE c.kind \in {"connect", "disconnect", "cancel_all"}
  <2>1. CASE c.kind = "connect"
    <3>1. Connecting(c.by) /\ pc[c.by] = Wait("connect")
      BY <1>3, <2>1 DEF Connecting
    <3>2. state = "CONNECTING" /\ \A u \in Threads : Connecting(u) => u = c.by
      BY <1>3, <3>1 DEF StateInv, StateTells, Alone, Operating
    <3> QED BY <1>4, <1>7, <3>1, <3>2 DEF SubsInv, BrokerKnows
  <2>2. CASE c.kind \in {"disconnect", "cancel_all"}
    <3>1. Disconnecting(c.by)
      BY <1>3, <2>2 DEF Disconnecting
    <3> QED BY <1>3, <1>4, <1>7, <3>1, DisconnectingAlone DEF SubsInv, BrokerKnows
  <2> QED BY <1>8, <2>1, <2>2
<1>9. ASSUME NEW t \in Apps, Needs(t)', Relies(t)',
             c.kind \in {"submit", "submit_all", "cancel"},
             ~(c.kind = "submit" /\ t = c.by), ~(c.kind = "submit_all" /\ t \in c.subs)
      PROVE  Needs(t) /\ Relies(t)
  <2>1. Needs(t)
    BY <1>1, <1>2, <1>3, <1>5, <1>6, <1>9, PhasesDiffer DEF Needs, SubmitDone
  <2>2. ASSUME NEW u \in Threads, Assumes(u, t)' PROVE Assumes(u, t)
    BY <1>1, <1>2, <1>3, <1>5, <1>9, <2>2, PhasesDiffer DEF Assumes
  <2> QED BY <1>1, <1>9, <2>1, <2>2 DEF Relies
<1>10. CASE c.kind \in {"submit", "submit_all"}
  <2>1. broker' = broker \cup c.subs
    BY <1>10 DEF Serve
  <2>2. c.kind = "submit" => c.subs = {c.by}
    BY DEF SubsInv, OwnRequests
  <2> QED BY <1>4, <1>9, <1>10, <2>1, <2>2 DEF SubsInv, BrokerKnows
<1>11. CASE c.kind = "cancel"
  <2>1. broker' = broker \ {c.by}
    BY <1>11 DEF Serve, SubsInv, OwnRequests
  <2>2. ~Needs(c.by)'
    <3>1. pc'[c.by] = Wait("cancel")
      BY <1>1, <1>3, <1>11
    <3> QED BY <3>1, PhasesDiffer DEF Needs, Holds, SubmitDone, Told
  <2> QED BY <1>4, <1>9, <1>11, <2>1, <2>2 DEF SubsInv, BrokerKnows
<1> QED BY <1>3, <1>8, <1>10, <1>11 DEF Kinds

(* An answer tells no more than what was done. *)
LEMMA AnswerTells ==
  ASSUME StateInv, AnswerInv, NEW c \in inflight, NEW ok \in BOOLEAN, Answer(c, ok),
         NEW k \in Kinds, NEW t \in Threads, Told(k, t)'
  PROVE  Told(k, t) \/ (t = c.by /\ k = c.kind /\ c.served)
<1>1. /\ result' = [result EXCEPT ![Cell(c.kind, c.by)] = ok]
      /\ triggered' = triggered \cup {Condition(c.kind, c.by)}
      /\ pc' = pc
      /\ ok => c.served
  BY AnswerIsStored DEF client, Answer
<1>2. c.kind \in Kinds /\ c.by \in Threads /\ pc[c.by] = Wait(c.kind)
  BY AwaitsItsCommand
<1>3. pc[t] = Wait(k) /\ Condition(k, t) \in triggered' /\ result'[Cell(k, t)]
  BY <1>1 DEF Told
<1>4. CASE Condition(k, t) = Condition(c.kind, c.by)
  <2>1. t = c.by /\ k = c.kind
    BY <1>2, <1>3, <1>4, ConditionsApart
  <2>2. result'[Cell(k, t)] = ok
    BY <1>1, <1>2, <2>1, CellsExist DEF AnswerInv, CommandTypes
  <2> QED BY <1>1, <1>3, <2>1, <2>2
<1>5. CASE Condition(k, t) # Condition(c.kind, c.by)
  <2>1. Cell(k, t) # Cell(c.kind, c.by)
    BY <1>5 DEF Cell, Condition
  <2>2. result'[Cell(k, t)] = result[Cell(k, t)]
    BY <1>1, <1>2, <2>1, CellsExist DEF AnswerInv, CommandTypes
  <2>3. result[Cell(k, t)]
    BY <1>3, <2>2
  <2>4. Condition(k, t) \in triggered
    BY <1>1, <1>3, <1>5
  <2> QED BY <1>3, <2>3, <2>4 DEF Told
<1> QED BY <1>4, <1>5

LEMMA AnswerKeepsSubs ==
  ASSUME StateInv, AnswerInv, SubsInv, NEW c \in inflight, NEW ok \in BOOLEAN, Answer(c, ok)
  PROVE  SubsInv'
<1>1. /\ inflight' = inflight \ {c}
      /\ UNCHANGED <<state, params, pc, copied, broker>>
  BY AnswerIsStored DEF client
<1>2. OwnRequests'
  BY <1>1 DEF SubsInv, OwnRequests
<1>3. pc[c.by] = Wait(c.kind) /\ c.by \in Threads
  BY AwaitsItsCommand
<1>4. ASSUME NEW t \in Apps, Needs(t)' PROVE Needs(t)
  <2>1. t \in Threads /\ "submit" \in Kinds
    BY AppIsThread DEF Kinds
  <2>2. Told("submit", t)' => SubmitDone(t)
    BY <1>3, <2>1, AnswerTells DEF SubmitDone
  <2> QED BY <1>1, <1>4, <2>2 DEF Needs, Holds, SubmitDone
<1>5. ASSUME NEW t, NEW u \in Threads, Assumes(u, t)' PROVE Assumes(u, t)
  <2>1. "submit_all" \in Kinds
    BY DEF Kinds
  <2>2. Told("submit_all", u)' => Assumes(u, t)
    BY <1>3, <2>1, AnswerTells DEF Assumes
  <2> QED BY <1>1, <1>5, <2>2 DEF Assumes
<1>6. BrokerKnows'
  BY <1>1, <1>4, <1>5 DEF SubsInv, BrokerKnows, Relies
<1> QED BY <1>2, <1>6 DEF SubsInv

(* What an application's step leaves alone. *)
LEMMA AppFrame ==
  ASSUME StateInv, AnswerInv, NEW t \in Apps, AppStep(t)
  PROVE  /\ broker' = broker
         /\ \A u \in Threads : u # t => pc'[u] = pc[u] /\ copied'[u] = copied[u]
         /\ \A u \in Threads : u # t => (u \in params' <=> u \in params)
         /\ triggered' \subseteq triggered
         /\ \A d \in inflight' :
              d \in inflight \/ \E k \in Kinds : Submit(t, k) /\ d = Command(t, k)
<1> USE AppIsThread
<1>1. broker' = broker /\ triggered' \subseteq triggered
  BY DEF AppStep, Begin, BeginConnect, BeginDisconnect, BeginSubscribe, BeginUnsubscribe,
         CopyAll, Submit, Awake, SetState, Forget, library, requests
<1>2. \E where : pc' = [pc EXCEPT ![t] = where]
  BY DEF AppStep, Begin, BeginConnect, BeginDisconnect, BeginSubscribe, BeginUnsubscribe,
         CopyAll, Submit, Awake, SetState, Forget, Goto
<1>3. copied' = copied \/ \E subs : copied' = [copied EXCEPT ![t] = subs]
  BY DEF AppStep, Begin, BeginConnect, BeginDisconnect, BeginSubscribe, BeginUnsubscribe,
         CopyAll, Submit, Awake, SetState, Forget
<1>4. params' \in {params, params \cup {t}, params \ {t}}
  BY DEF AppStep, Begin, BeginConnect, BeginDisconnect, BeginSubscribe, BeginUnsubscribe,
         CopyAll, Submit, Awake, SetState, Forget, client
<1>5. ASSUME NEW k \in Kinds, Submit(t, k)
      PROVE  inflight' \subseteq inflight \cup {Command(t, k)}
  BY <1>5 DEF Submit, Command
<1>6. inflight' = inflight \/ \E k \in Kinds : Submit(t, k)
  BY DEF AppStep, Begin, BeginConnect, BeginDisconnect, BeginSubscribe, BeginUnsubscribe,
         CopyAll, Awake, SetState, Forget, library
<1>7. \A u \in Threads : u # t => pc'[u] = pc[u] /\ copied'[u] = copied[u]
  BY <1>2, <1>3 DEF StateInv, PhaseTypes, AnswerInv, CommandTypes
<1> QED BY <1>1, <1>4, <1>5, <1>6, <1>7

LEMMA CellOfCommands ==
  \A k \in {"submit", "submit_all"}, t \in Threads :
    Cell(k, t) = <<k, t>> /\ Cell(k, t) \in Cells /\ k \in Kinds
BY DEF Cell, Cells, Kinds

(* Where an application stands tells what it did. *)
LEMMA Origins ==
  ASSUME StateInv, NEW t \in Apps, AppStep(t)
  PROVE  /\ \A k \in Kinds : pc'[t] = Wait(k) => Submit(t, k)
         /\ pc'[t] = Ask("submit_all") => CopyAll(t, "copy_submit", "submit_all")
         /\ pc'[t] = Do("set_connected") =>
              \/ CopyAll(t, "copy_submit", "submit_all")
              \/ Awake(t, "submit_all")
<1> USE AppIsThread
<1>1. CASE Begin(t)
  <2>1. pc'[t] \in {Idle, Ask("connect"), Do("copy_cancel"), Ask("disconnect"), Ask("submit"),
                    Ask("cancel")}
    BY <1>1 DEF Begin, BeginConnect, BeginDisconnect, BeginSubscribe, BeginUnsubscribe, Goto,
                StateInv, PhaseTypes
  <2> QED BY <2>1, PhasesDiffer
<1>2. CASE CopyAll(t, "copy_submit", "submit_all")
  <2>1. pc'[t] \in {Ask("submit_all"), Do("set_connected")}
    BY <1>2 DEF CopyAll, Goto, AfterSuccess, Sequel, StateInv, PhaseTypes
  <2> QED BY <1>2, <2>1, PhasesDiffer
<1>3. CASE CopyAll(t, "copy_cancel", "cancel_all")
  <2>1. pc'[t] \in {Ask("cancel_all"), Ask("disconnect")}
    BY <1>3 DEF CopyAll, Goto, AfterSuccess, Sequel, StateInv, PhaseTypes
  <2> QED BY <2>1, PhasesDiffer
<1>4. CASE \E j \in Kinds : Submit(t, j)
  <2>1. PICK j \in Kinds : Submit(t, j)
    BY <1>4
  <2>2. pc'[t] \in {Wait(j), AfterFailure(j, t)}
    BY <2>1 DEF Submit, Goto, StateInv, PhaseTypes
  <2>3. AfterFailure(j, t) \in {Idle, Do("undo"), Do("forget")}
    BY DEF AfterFailure, Kinds
  <2> QED BY <2>1, <2>2, <2>3, PhasesDiffer
<1>5. CASE \E j \in Kinds : Awake(t, j)
  <2>1. PICK j \in Kinds : Awake(t, j)
    BY <1>5
  <2>2. pc'[t] \in {AfterSuccess(j), AfterFailure(j, t)}
    BY <2>1 DEF Awake, Goto, StateInv, PhaseTypes
  <2>3. AfterFailure(j, t) \in {Idle, Do("undo"), Do("forget")}
    BY DEF AfterFailure, Kinds
  <2>4. /\ AfterSuccess(j) \in {Idle, Do("copy_submit"), Do("set_connected"), Ask("disconnect"),
                                Do("set_disconnected"), Do("forget")}
        /\ AfterSuccess(j) = Do("set_connected") => j = "submit_all"
    BY PhasesDiffer DEF AfterSuccess, Sequel, Kinds
  <2> QED BY <2>1, <2>2, <2>3, <2>4, PhasesDiffer
<1>6. CASE \/ SetState(t, "set_connected", "CONNECTED")
           \/ SetState(t, "set_disconnected", "DISCONNECTED")
           \/ Forget(t)
  <2>1. pc'[t] = Idle
    BY <1>6 DEF SetState, Forget, Goto, StateInv, PhaseTypes
  <2> QED BY <2>1, PhasesDiffer
<1> QED BY <1>1, <1>2, <1>3, <1>4, <1>5, <1>6 DEF AppStep

(* No application's step puts an answer where it is read. *)
LEMMA AppTells ==
  ASSUME StateInv, AnswerInv, NEW t \in Apps, AppStep(t),
         NEW k \in {"submit", "submit_all"}, NEW u \in Threads, Told(k, u)'
  PROVE  Told(k, u)
<1> USE AppIsThread, CellOfCommands
<1>1. pc'[u] = Wait(k) /\ Condition(k, u) \in triggered' /\ result'[<<k, u>>]
  BY DEF Told
<1>2. Condition(k, u) \in triggered
  BY <1>1, AppFrame
<1>3. result \in [Cells -> BOOLEAN] /\ <<k, u>> \in Cells
  BY DEF AnswerInv, CommandTypes
<1>4. ASSUME result'[<<k, u>>] = result[<<k, u>>], pc[u] = Wait(k) PROVE Told(k, u)
  BY <1>1, <1>2, <1>4 DEF Told
<1>5. CASE u # t
  <2>1. pc[u] = Wait(k)
    BY <1>1, <1>5, AppFrame
  <2>2. \/ UNCHANGED result
        \/ result' = [result EXCEPT ![<<"submit", t>>] = FALSE, ![<<"cancel", t>>] = FALSE]
        \/ \E j : result' = [result EXCEPT ![<<j, t>>] = FALSE]
    BY DEF AppStep, Begin, BeginConnect, BeginDisconnect, BeginSubscribe, BeginUnsubscribe,
           CopyAll, Submit, Awake, SetState, Forget, requests
  <2>3. \A j : <<j, t>> # <<k, u>>
    BY <1>5
  <2>4. result'[<<k, u>>] = result[<<k, u>>]
    BY <1>3, <2>2, <2>3
  <2> QED BY <1>4, <2>1, <2>4
<1>6. CASE u = t
  <2>1. Submit(t, k)
    BY <1>1, <1>6, Origins
  <2> QED BY <1>2, <1>6, <2>1, AskingIsNotTriggered DEF Submit
<1> QED BY <1>5, <1>6

LEMMA NeedsIsListed == StateInv /\ AnswerInv => \A t \in Apps : Needs(t) => t \in params
BY AppIsThread DEF Needs, Holds, SubmitDone, Told, AnswerInv, RequestsExist, UsesRequests

(* Only an answer that is OK makes a subscription needed. *)
LEMMA AppNeedsNoMore ==
  ASSUME StateInv, AnswerInv, NEW t \in Apps, AppStep(t), NEW w \in Apps, Needs(w)'
  PROVE  Needs(w)
<1> USE AppIsThread
<1>1. ASSUME SubmitDone(w)' PROVE SubmitDone(w)
  <2>1. Told("submit", w)' => SubmitDone(w)
    BY AppTells DEF SubmitDone
  <2>2. ASSUME pc'[w] = Wait("submit"), NEW d \in inflight', d.by = w, d.served
        PROVE  SubmitDone(w)
    <3>1. d \in inflight
      BY <2>2, AppFrame DEF Command
    <3>2. pc[w] = Wait(d.kind)
      BY <2>2, <3>1, AwaitsItsCommand
    <3>3. w # t
      <4>1. w = t => pc[t] = Ask("submit")
        BY <2>2, Origins DEF Submit, Kinds
      <4> QED BY <3>2, <4>1, PhasesDiffer
    <3> QED BY <2>2, <3>1, <3>3, AppFrame DEF SubmitDone
  <2> QED BY <1>1, <2>1, <2>2 DEF SubmitDone
<1>2. CASE w # t
  <2>1. Holds(w)' => Holds(w)
    BY <1>2, AppFrame DEF Holds
  <2> QED BY <1>1, <2>1 DEF Needs
<1>3. ASSUME w = t, Holds(t)' PROVE Needs(t)
  <2> DEFINE own == {Ask("submit"), Wait("submit"), Ask("cancel"), Wait("cancel"),
                     Do("undo"), Do("forget")}
  <2>1. t \in params' /\ pc'[t] \notin own
    BY <1>3 DEF Holds
  <2>2. CASE Begin(t)
    <3>1. pc[t] \notin own
      BY <2>2, PhasesDiffer DEF Begin
    <3>2. ~BeginSubscribe(t)
      BY <2>1 DEF BeginSubscribe, Goto, StateInv, PhaseTypes
    <3>3. params' = params
      BY <2>2, <3>2 DEF Begin, BeginConnect, BeginDisconnect, BeginUnsubscribe, client
    <3> QED BY <2>1, <3>1, <3>3 DEF Needs, Holds
  <2>3. ASSUME NEW from \in {"copy_submit", "copy_cancel"}, NEW k, CopyAll(t, from, k)
        PROVE  Needs(t)
    <3>1. pc[t] \notin own
      BY <2>3, PhasesDiffer DEF CopyAll
    <3> QED BY <2>1, <2>3, <3>1 DEF Needs, Holds, CopyAll, client
  <2>4. ASSUME NEW k \in Kinds, Submit(t, k) PROVE Needs(t)
    <3>1. pc[t] = Ask(k) /\ pc'[t] \in {Wait(k), AfterFailure(k, t)} /\ params' = params
      BY <2>4 DEF Submit, Goto, StateInv, PhaseTypes, client
    <3>2. k \notin {"submit", "cancel"}
      BY <2>1, <3>1 DEF AfterFailure
    <3>3. pc[t] \notin own
      BY <3>1, <3>2, PhasesDiffer
    <3> QED BY <2>1, <3>1, <3>3 DEF Needs, Holds
  <2>5. ASSUME NEW k \in Kinds, Awake(t, k) PROVE Needs(t)
    <3>1. /\ pc[t] = Wait(k) /\ params' = params /\ Condition(k, t) \in triggered
          /\ pc'[t] = IF result[Cell(k, t)] THEN AfterSuccess(k) ELSE AfterFailure(k, t)
      BY <2>5 DEF Awake, Goto, StateInv, PhaseTypes, client
    <3>2. CASE k = "submit"
      BY <2>1, <3>1, <3>2 DEF AfterFailure, Needs, SubmitDone, Told
    <3>3. CASE k = "cancel"
      BY <2>1, <3>1, <3>3 DEF AfterFailure, AfterSuccess, Sequel
    <3>4. CASE k \notin {"submit", "cancel"}
      <4>1. pc[t] \notin own
        BY <3>1, <3>4, PhasesDiffer
      <4> QED BY <2>1, <3>1, <4>1 DEF Needs, Holds
    <3> QED BY <3>2, <3>3, <3>4
  <2>6. ASSUME \/ SetState(t, "set_connected", "CONNECTED")
               \/ SetState(t, "set_disconnected", "DISCONNECTED")
        PROVE  Needs(t)
    <3>1. pc[t] \notin own
      BY <2>6, PhasesDiffer DEF SetState
    <3> QED BY <2>1, <2>6, <3>1 DEF Needs, Holds, SetState
  <2>7. ~Forget(t)
    BY <2>1 DEF Forget
  <2> QED BY <2>2, <2>3, <2>4, <2>5, <2>6, <2>7 DEF AppStep
<1> QED BY <1>1, <1>2, <1>3 DEF Needs

(* A connect() that submits again copies each subscription that is needed. *)
LEMMA AppReliesNoMore ==
  ASSUME StateInv, AnswerInv, NEW t \in Apps, AppStep(t), NEW w \in Apps,
         Needs(w), Relies(w)'
  PROVE  Relies(w)
<1> USE AppIsThread
<1>1. w \in params
  BY NeedsIsListed
<1>2. ASSUME NEW u \in Threads, Assumes(u, w)', u # t PROVE Relies(w)
  <2>1. pc'[u] = pc[u] /\ copied'[u] = copied[u]
    BY <1>2, AppFrame
  <2>2. \A d \in inflight' : d.by = u => d \in inflight
    BY <1>2, AppFrame DEF Command
  <2>3. Told("submit_all", u)' => Told("submit_all", u)
    BY AppTells
  <2>4. Assumes(u, w)
    BY <1>2, <2>1, <2>2, <2>3 DEF Assumes
  <2> QED BY <2>4 DEF Relies
<1>3. ASSUME Assumes(t, w)' PROVE Relies(w)
  <2>1. CASE pc'[t] = Do("set_connected")
    <3>1. CASE CopyAll(t, "copy_submit", "submit_all")
      <4>1. pc'[t] = Ask("submit_all")
        BY <1>1, <3>1 DEF CopyAll, Goto, StateInv, PhaseTypes
      <4> QED BY <2>1, <4>1, PhasesDiffer
    <3>2. CASE Awake(t, "submit_all")
      <4>1. /\ pc[t] = Wait("submit_all") /\ Condition("submit_all", t) \in triggered
            /\ ~result[Cell("submit_all", t)] => pc'[t] = Idle
        BY <3>2 DEF Awake, Goto, AfterFailure, StateInv, PhaseTypes
      <4>2. result[Cell("submit_all", t)]
        BY <2>1, <4>1, PhasesDiffer
      <4> QED BY <4>1, <4>2 DEF Relies, Assumes, Told
    <3> QED BY <2>1, <3>1, <3>2, Origins
  <2>2. CASE pc'[t] = Ask("submit_all") /\ w \notin copied'[t]
    <3>1. CopyAll(t, "copy_submit", "submit_all")
      BY <2>2, Origins
    <3>2. copied'[t] = params
      BY <3>1 DEF CopyAll, AnswerInv, CommandTypes
    <3> QED BY <1>1, <2>2, <3>2
  <2>3. ASSUME pc'[t] = Wait("submit_all"), NEW d \in inflight', d.by = t,
               d.served \/ w \notin d.subs
        PROVE  Relies(w)
    <3>1. Submit(t, "submit_all") /\ pc[t] = Ask("submit_all")
      BY <2>3, Origins DEF Submit, Kinds
    <3>2. d \notin inflight
      BY <2>3, <3>1, AwaitsItsCommand, PhasesDiffer
    <3>3. PICK k \in Kinds : d = Command(t, k)
      BY <3>2, AppFrame
    <3>4. w \notin copied[t]
      BY <2>3, <3>3 DEF Command
    <3> QED BY <3>1, <3>4 DEF Relies, Assumes
  <2>4. CASE Told("submit_all", t)'
    BY <2>4, AppTells DEF Relies, Assumes
  <2> QED BY <1>3, <2>1, <2>2, <2>3, <2>4 DEF Assumes
<1>4. ASSUME state' = "CONNECTED" PROVE Relies(w)
  <2>1. CASE SetState(t, "set_connected", "CONNECTED")
    BY <2>1 DEF SetState, Relies, Assumes
  <2>2. CASE SetState(t, "set_disconnected", "DISCONNECTED")
    BY <1>4, <2>2 DEF SetState, WriteState
  <2>3. CASE Begin(t)
    BY <1>4, <2>3 DEF Begin, BeginConnect, BeginDisconnect, BeginSubscribe, BeginUnsubscribe,
                      EnterState, client, Relies
  <2>4. CASE UNCHANGED state
    BY <1>4, <2>4 DEF Relies
  <2> QED BY <2>1, <2>2, <2>3, <2>4 DEF AppStep, CopyAll, Submit, Awake, Forget, client
<1> QED BY <1>2, <1>3, <1>4 DEF Relies

LEMMA AppKeepsOwnRequests ==
  ASSUME StateInv, AnswerInv, SubsInv, NEW t \in Apps, AppStep(t)
  PROVE  OwnRequests'
<1> USE AppIsThread
<1>1. ASSUME NEW u \in Threads, pc'[u] \in {Ask("submit"), Ask("cancel")}
      PROVE  copied'[u] = {u}
  <2>1. CASE u # t
    BY <1>1, <2>1, AppFrame DEF SubsInv, OwnRequests
  <2>2. CASE u = t
    <3>1. CASE BeginSubscribe(t) \/ BeginUnsubscribe(t)
      BY <2>2, <3>1 DEF BeginSubscribe, BeginUnsubscribe, AnswerInv, CommandTypes
    <3>2. CASE BeginConnect(t) \/ BeginDisconnect(t)
      <4>1. pc'[t] \in {Idle, Ask("connect"), Do("copy_cancel"), Ask("disconnect")}
        BY <3>2 DEF BeginConnect, BeginDisconnect, Goto, StateInv, PhaseTypes
      <4> QED BY <1>1, <2>2, <4>1, PhasesDiffer
    <3>3. ASSUME NEW k \in Kinds, Submit(t, k) \/ Awake(t, k) PROVE FALSE
      <4>1. pc'[t] \in {Wait(k), AfterSuccess(k), AfterFailure(k, t)}
        BY <3>3 DEF Submit, Awake, Goto, StateInv, PhaseTypes
      <4> QED BY <1>1, <2>2, <4>1, PhasesDiffer DEF AfterSuccess, AfterFailure, Sequel, Kinds
    <3>4. ASSUME \/ CopyAll(t, "copy_submit", "submit_all")
                 \/ CopyAll(t, "copy_cancel", "cancel_all")
          PROVE  FALSE
      <4>1. pc'[t] \in {Ask("submit_all"), Do("set_connected"), Ask("cancel_all"), Ask("disconnect")}
        BY <3>4 DEF CopyAll, Goto, AfterSuccess, Sequel, StateInv, PhaseTypes
      <4> QED BY <1>1, <2>2, <4>1, PhasesDiffer
    <3>5. ASSUME \/ SetState(t, "set_connected", "CONNECTED")
                 \/ SetState(t, "set_disconnected", "DISCONNECTED")
                 \/ Forget(t)
          PROVE  FALSE
      <4>1. pc'[t] = Idle
        BY <3>5 DEF SetState, Forget, Goto, StateInv, PhaseTypes
      <4> QED BY <1>1, <2>2, <4>1, PhasesDiffer
    <3> QED BY <3>1, <3>2, <3>3, <3>4, <3>5 DEF AppStep, Begin
  <2> QED BY <2>1, <2>2
<1>2. ASSUME NEW d \in inflight', d.kind \in {"submit", "cancel"}
      PROVE  d.subs = {d.by}
  <2>1. CASE d \in inflight
    BY <1>2, <2>1 DEF SubsInv, OwnRequests
  <2>2. ASSUME NEW k \in Kinds, Submit(t, k), d = Command(t, k) PROVE d.subs = {d.by}
    <3>1. d.kind = k /\ d.by = t /\ d.subs = copied[t]
      BY <2>2 DEF Command
    <3> QED BY <1>2, <2>2, <3>1 DEF SubsInv, OwnRequests, Submit
  <2> QED BY <2>1, <2>2, AppFrame
<1> QED BY <1>1, <1>2 DEF OwnRequests

LEMMA SubsInvNext ==
  StateInv /\ AnswerInv /\ SubsInv /\ [Next]_vars => SubsInv'
<1> SUFFICES ASSUME StateInv, AnswerInv, SubsInv, [Next]_vars PROVE SubsInv'
  OBVIOUS
<1>1. CASE LibraryStep
  BY <1>1, ServeKeepsSubs, AnswerKeepsSubs DEF LibraryStep
<1>2. CASE UNCHANGED vars
  BY <1>2 DEF vars, client, requests, library, SubsInv, OwnRequests, BrokerKnows, Needs, Holds,
              SubmitDone, Relies, Assumes, Told
<1>3. ASSUME NEW t \in Apps, AppStep(t) PROVE SubsInv'
  <2>1. broker' = broker
    BY <1>3, AppFrame
  <2>2. BrokerKnows'
    BY <1>3, <2>1, AppNeedsNoMore, AppReliesNoMore DEF SubsInv, BrokerKnows
  <2> QED BY <1>3, <2>2, AppKeepsOwnRequests DEF SubsInv
<1>4. CASE Next
  BY <1>1, <1>3, <1>4, StepsTaken DEF StateInv
<1> QED BY <1>2, <1>4

(* SubscriptionsOnBroker for any number of applications: whatever a broker *)
(* forgets with a new session, connect() has submitted again before the    *)
(* client says CONNECTED.                                                  *)
THEOREM SubscriptionsOnBrokerTheorem ==
  ASSUME Patient
  PROVE  Spec => []SubscriptionsOnBroker
<1>1. StateInv /\ AnswerInv /\ SubsInv => SubscriptionsOnBroker
  BY DEF SubsInv, BrokerKnows, Needs, Relies, SubscriptionsOnBroker
<1>2. Init => StateInv /\ AnswerInv /\ SubsInv
  BY StateInvInit, AnswerInvInit, SubsInvInit
<1>3. StateInv /\ AnswerInv /\ SubsInv /\ [Next]_vars => (StateInv /\ AnswerInv /\ SubsInv)'
  BY StateInvNext, AnswerInvNext, SubsInvNext
<1> QED BY <1>1, <1>2, <1>3, PTL DEF Spec
=============================================================================
