-------------------------- MODULE PythonProcessor ---------------------------
(***************************************************************************)
(* A route of Routing Service whose processor is a Python class.  Two      *)
(* things can go wrong beneath a script that is right: how the threads of  *)
(* the service get into the interpreter, and who owns the objects that     *)
(* wrap ports, loans and samples.                                          *)
(*                                                                         *)
(* Threads.  An event of a route reaches forward_on_route_event on the     *)
(* thread of its session.  When the service was loaded by a Python program *)
(* it asks, by swapping the current thread state for NULL and back,        *)
(* whether Python runs already, and takes the interpreter lock (GIL) only  *)
(* if it does not.  The thread state is one variable of the process.  A    *)
(* service that loads Python itself never asks and takes no lock at all.   *)
(*                                                                         *)
(* Objects.  The events of the first session belong to the observed route. *)
(* Their callbacks are any sequence of the calls a script can make.  Of    *)
(* the other routes only what they share with it is modelled: the lock,    *)
(* and the one output whose buffer the whole process writes.               *)
(***************************************************************************)
EXTENDS Naturals, FiniteSets

CONSTANTS
  Main,         (* the thread that loaded the service, or the interpreter *)
  Sessions,     (* threads of the service                                 *)
  Session,      (* the session of the observed route                      *)
  NoThread,
  Input,        (* the ports of the observed route                        *)
  Outputs,
  NoOutput,
  Foreign,      (* an output of another route                             *)
  Gone,         (* the address of an output that was freed                *)
  Samples,      (* what one read or take returns                          *)
  Budgets       (* bounds the model: events of each session and how often *)
                (* the script takes samples or writes, in a service that  *)
                (* Python loaded or not                                   *)

Ports == {Input} \cup Outputs
Threads == {Main} \cup Sessions

ASSUME ThreadsAssumption ==
  /\ Session \in Sessions
  /\ Main \notin Sessions /\ NoThread \notin Threads
ASSUME PortsAssumption ==
  /\ Input \notin Outputs /\ {NoOutput, Foreign, Gone} \cap Ports = {}
  /\ NoOutput \notin {Foreign, Gone} /\ Foreign # Gone
  /\ Budgets \subseteq [from_service : BOOLEAN, events : [Sessions -> Nat], calls : Nat]

VARIABLES
  from_service, (* PyServiceGlobals::service_initd_                       *)
  gil,          (* the thread that holds the interpreter lock             *)
  tstate,       (* the current thread state, by its thread                *)
  pc,           (* where each thread stands                               *)
  saved,        (* what the swap of a session returned                    *)
  needs_gil,    (* of each session's event                                *)
  events        (* events each session may still have                     *)

VARIABLES
  script,       (* "careful" or "any": which calls the script makes       *)
  event,        (* of the observed route: <<kind, port>>                  *)
  enabled,      (* ports the route has enabled                            *)
  user_data,    (* ports whose user data points to a wrapper              *)
  refs,         (* reference count of that wrapper                        *)
  owners,       (* history: who owns a reference to it                    *)
  loan,         (* "none", "held" by a LoanedSamples object, "returned"   *)
  cached,       (* samples with a data_ dictionary                        *)
  released,     (* samples that lost the reference to a value of theirs   *)
  static_output,(* the output whose buffer PyOutput::write hands over, in *)
                (* the whole process                                      *)
  calls,        (* calls the script may still make                        *)
  undefined     (* why the behaviour of the process is undefined          *)

threadVars == <<from_service, gil, tstate, pc, saved, needs_gil, events>>
portVars == <<enabled, user_data, refs, owners>>
sampleVars == <<loan, cached, released>>
objectVars == <<event, portVars, sampleVars, static_output, calls, undefined>>
vars == <<threadVars, objectVars, script>>

-----------------------------------------------------------------------------
NoEvent == <<"none", NoOutput>>

Init ==
  /\ \E budget \in Budgets :
       /\ from_service = budget.from_service
       /\ events = budget.events
       /\ calls = budget.calls
  /\ gil = Main /\ tstate = Main
  /\ pc = [t \in Threads |-> IF t = Main THEN (IF from_service THEN "python" ELSE "native")
                                         ELSE "idle"]
  /\ saved = [s \in Sessions |-> NoThread]
  /\ needs_gil = [s \in Sessions |-> FALSE]
  /\ script \in {"careful", "any"}
  /\ event = NoEvent
  /\ enabled = {} /\ user_data = {}
  /\ refs = [p \in Ports |-> 0]
  /\ owners = [p \in Ports |-> {}]
  /\ loan = "none" /\ cached = {} /\ released = {}
  /\ static_output = NoOutput
  /\ undefined = "no"

-----------------------------------------------------------------------------
(* Getting into the interpreter.                                           *)

Move(t, where) == pc' = [pc EXCEPT ![t] = where]

(* PyThreadState_Swap(NULL), in a service loaded by a Python program.      *)
(* stop() raises events too: those of ports and routes that are disabled.  *)
SwapOut(s) ==
  /\ events[s] > 0
  /\ pc[s] = "idle"
  /\ events' = [events EXCEPT ![s] = @ - 1]
  /\ IF from_service
     THEN /\ saved' = [saved EXCEPT ![s] = tstate]
          /\ tstate' = NoThread
          /\ Move(s, "swapped")
     ELSE /\ Move(s, "python")
          /\ UNCHANGED <<saved, tstate>>
  /\ UNCHANGED <<from_service, gil, needs_gil>>

NeedsLock(s) == saved[s] = NoThread

SwapBack(s) ==
  /\ pc[s] = "swapped"
  /\ needs_gil' = [needs_gil EXCEPT ![s] = NeedsLock(s)]
  /\ IF NeedsLock(s)
     THEN Move(s, "waiting") /\ UNCHANGED tstate
     ELSE Move(s, "python") /\ tstate' = saved[s]
  /\ UNCHANGED <<from_service, gil, saved, events>>

(* PyGILState_Ensure, and the interpreter's own switch between threads. *)
TakeLock(t) ==
  /\ pc[t] = "waiting"
  /\ gil = NoThread
  /\ gil' = t /\ tstate' = t
  /\ Move(t, "python")
  /\ UNCHANGED <<from_service, saved, needs_gil, events>>

DropLock(t) ==
  /\ pc[t] = "python"
  /\ gil = t
  /\ gil' = NoThread /\ tstate' = NoThread
  /\ Move(t, "waiting")
  /\ UNCHANGED <<from_service, saved, needs_gil, events>>

(* The end of forward_on_route_event: PyGILState_Release. *)
LockKept(s) ==
  /\ Move(s, "idle")
  /\ UNCHANGED <<from_service, gil, tstate, saved, needs_gil, events>>

Leave(s) ==
  /\ Move(s, "idle")
  /\ IF needs_gil[s]
     THEN gil' = NoThread /\ tstate' = NoThread
     ELSE UNCHANGED <<gil, tstate>>
  /\ UNCHANGED <<from_service, saved, needs_gil, events>>

InPython(t) == pc[t] = "python"
InCallback(s) == InPython(s) /\ (needs_gil[s] => gil = s)

ReturnOther(s) ==
  /\ s # Session
  /\ InCallback(s)
  /\ Leave(s)

(* The program calls stop(), which waits for the sessions with the lock    *)
(* held.                                                                   *)
BeginStop ==
  /\ from_service
  /\ pc[Main] = "python" /\ gil = Main
  /\ Move(Main, "stopping")
  /\ UNCHANGED <<from_service, gil, tstate, saved, needs_gil, events>>

EndStop ==
  /\ pc[Main] = "stopping"
  /\ \A s \in Sessions : pc[s] = "idle"
  /\ events' = [s \in Sessions |-> 0]
  /\ Move(Main, "python")
  /\ UNCHANGED <<from_service, gil, tstate, saved, needs_gil>>

Enter(s) == SwapOut(s) \/ SwapBack(s) \/ TakeLock(s) \/ DropLock(s)

ThreadStep ==
  /\ \/ \E s \in Sessions : Enter(s) \/ ReturnOther(s)
     \/ TakeLock(Main) \/ DropLock(Main) \/ BeginStop \/ EndStop
  /\ UNCHANGED <<objectVars, script>>

-----------------------------------------------------------------------------
(* The event of the observed route, once its thread runs Python.           *)

In(kind) == InCallback(Session) /\ event[1] = kind
Ready == InCallback(Session) /\ event[1] # "none"

Careful == script = "careful"

(* References to the wrapper of a port; the last one frees it. *)
NotCounted(p, who) ==
  /\ owners' = [owners EXCEPT ![p] = @ \cup {who}]
  /\ UNCHANGED refs
Gain(p, who) ==
  /\ refs' = [refs EXCEPT ![p] = @ + 1]
  /\ owners' = [owners EXCEPT ![p] = @ \cup {who}]

Fails(why) == undefined' = why

(* INPUT_ENABLED, OUTPUT_ENABLED: a new wrapper becomes the user data.     *)
(* The model follows the newest wrapper of a port, so the script has let   *)
(* go of the one before.  PyOutput::write never forgets the old address.   *)
OnEnabled(p) ==
  /\ In("none")
  /\ p \notin enabled /\ owners[p] \subseteq {"route"}
  /\ event' = <<"enabled", p>>
  /\ user_data' = user_data \cup {p}
  /\ refs' = [refs EXCEPT ![p] = 1]
  /\ owners' = [owners EXCEPT ![p] = {"route"}]
  /\ static_output' = IF static_output = p THEN Gone ELSE static_output
  /\ UNCHANGED <<enabled, sampleVars, calls, undefined>>

(* INPUT_DISABLED, OUTPUT_DISABLED: the event borrows the reference of the *)
(* user data.                                                              *)
OnDisabled(p) ==
  /\ In("none")
  /\ p \in enabled
  /\ event' = <<"disabled", p>>
  /\ UNCHANGED <<portVars, sampleVars, static_output, calls, undefined>>

(* DATA_ON_INPUTS and PERIODIC_ACTION while the route runs, and the events *)
(* of the state of the route.                                              *)
OnRoute(kind) ==
  /\ In("none")
  /\ kind = "data" => enabled = Ports
  /\ event' = <<kind, NoOutput>>
  /\ UNCHANGED <<portVars, sampleVars, static_output, calls, undefined>>

(* The callback returns, or raises and the event is rejected; its local    *)
(* references end with it.  The route lets go of a port that could not be  *)
(* enabled or that was disabled.                                           *)
LetGo(raises) ==
  {p \in Ports : event = <<IF raises THEN "enabled" ELSE "disabled", p>>}

Lost(p, raises) ==
  owners[p] \cap (IF p \in LetGo(raises) THEN {"call", "route"} ELSE {"call"})

Returns(raises) ==
  /\ Ready
  /\ Careful => loan # "held" /\ (event[1] = "enabled" => ~raises)
  /\ event' = NoEvent
  /\ Leave(Session)
  /\ refs' = [p \in Ports |-> refs[p] - Cardinality(Lost(p, raises))]
  /\ owners' = [p \in Ports |-> owners[p] \ Lost(p, raises)]
  /\ enabled' = CASE event[1] = "enabled" /\ ~raises -> enabled \cup {event[2]}
                   [] event[1] = "disabled" /\ ~raises -> enabled \ {event[2]}
                   [] OTHER -> enabled
  /\ user_data' = IF raises THEN user_data ELSE user_data \ LetGo(FALSE)
  /\ UNCHANGED <<sampleVars, static_output, calls, undefined, script>>

-----------------------------------------------------------------------------
(* What the callback may do.                                               *)

(* route.inputs[...], route.outputs[...], route[...], and an iterator over *)
(* them: a port of the route, looked up by its user data.                  *)
FindPort(p) ==
  /\ Ready
  /\ p \in enabled \/ event = <<"enabled", p>>
  /\ "call" \notin owners[p]
  /\ IF refs[p] = 0
     THEN Fails("freed port") /\ UNCHANGED portVars
     ELSE Gain(p, "call") /\ UNCHANGED <<enabled, user_data, undefined>>
  /\ UNCHANGED <<event, sampleVars, static_output, calls>>

(* A script may keep the port in an attribute, even when it is disabled.   *)
KeepPort(p) ==
  /\ Ready
  /\ "call" \in owners[p] /\ "script" \notin owners[p]
  /\ Gain(p, "script")
  /\ UNCHANGED <<event, enabled, user_data, sampleVars, static_output, calls, undefined>>

ForgetPort(p) ==
  /\ Ready
  /\ "script" \in owners[p]
  /\ refs' = [refs EXCEPT ![p] = @ - 1]
  /\ owners' = [owners EXCEPT ![p] = @ \ {"script"}]
  /\ UNCHANGED <<event, enabled, user_data, sampleVars, static_output, calls, undefined>>

Holding(p) == owners[p] \cap {"call", "script"} # {}
Call == calls > 0 /\ calls' = calls - 1

(* read and take, which may raise; the wrapper of a disabled port calls a  *)
(* deleted reader.                                                         *)
Take ==
  /\ Ready /\ Call
  /\ Holding(Input)
  /\ loan # "held"
  /\ Careful => Input \in enabled
  /\ IF Input \in enabled
     THEN /\ \/ loan' = "held" /\ cached' = {} /\ released' = {}
             \/ UNCHANGED sampleVars
          /\ UNCHANGED undefined
     ELSE Fails("disabled port") /\ UNCHANGED sampleVars
  /\ UNCHANGED <<event, portVars, static_output>>

(* The last reference to the LoanedSamples goes: the loan is returned, the *)
(* list and the samples in it stay.                                        *)
DropSamples ==
  /\ Ready
  /\ loan = "held"
  /\ IF Input \in enabled
     THEN loan' = "returned" /\ UNCHANGED undefined
     ELSE Fails("disabled port") /\ UNCHANGED loan
  /\ UNCHANGED <<event, portVars, cached, released, static_output, calls>>

(* sample.data *)
Cached(s) == cached' = cached \cup {s}

Data(s) ==
  /\ Ready
  /\ loan # "none"
  /\ Careful => loan = "held"
  /\ IF s \in cached \/ loan = "held"
     THEN Cached(s) /\ UNCHANGED undefined
     ELSE Fails("stale sample") /\ UNCHANGED cached
  /\ UNCHANGED <<event, portVars, loan, released, static_output, calls>>

(* sample[name] returns a value without a reference of its own; when the   *)
(* caller drops it the dictionary is left with a freed one.                *)
Item(s) ==
  /\ Ready
  /\ loan # "none"
  /\ Careful => s \in cached /\ s \notin released
  /\ IF s \in cached /\ s \notin released
     THEN released' = released \cup {s} /\ UNCHANGED undefined
     ELSE Fails(IF s \in cached THEN "freed value" ELSE "no dictionary") /\ UNCHANGED released
  /\ UNCHANGED <<event, portVars, loan, cached, static_output, calls>>

(* PyOutput::write copies the dictionary into the buffer of this output    *)
(* and hands the writer the buffer of the first output that called write.  *)
(* A value that cannot be converted, a boolean say, makes it raise before  *)
(* the writer is called.                                                   *)
First(o) == IF static_output = NoOutput THEN o ELSE static_output

(* The wrapper whose buffer is handed over still exists. *)
Intact(o) == First(o) # Gone /\ (First(o) \in Outputs => refs[First(o)] > 0)

Write(o) ==
  \/ UNCHANGED undefined
  \/ o \notin enabled /\ Fails("disabled port")
  \/ o \in enabled /\ ~Intact(o) /\ Fails("freed output")

WriteDict(o) ==
  /\ Ready /\ Call
  /\ Holding(o)
  /\ Careful => o \in enabled
  /\ static_output' = First(o)
  /\ Write(o)
  /\ UNCHANGED <<event, portVars, sampleVars>>

WriteSample(o, s) ==
  /\ Ready /\ Call
  /\ Holding(o)
  /\ loan # "none"
  /\ Careful => s \in cached /\ s \notin released /\ o \in enabled
  /\ static_output' = First(o)
  /\ IF s \in cached /\ s \notin released
     THEN Write(o)
     ELSE Fails(IF s \in cached THEN "freed value" ELSE "no dictionary")
  /\ UNCHANGED <<event, portVars, sampleVars>>

(* Another thread runs Python beside the callback: objects, counts and the *)
(* interpreter itself are read and written without the lock.               *)
Race ==
  /\ Ready
  /\ \E t \in Threads \ {Session} : InPython(t)
  /\ Fails("race")
  /\ UNCHANGED <<event, portVars, sampleVars, static_output, calls>>

ScriptStep ==
  /\ \/ \E p \in Ports :
          \/ OnEnabled(p) \/ OnDisabled(p)
          \/ FindPort(p) \/ KeepPort(p) \/ ForgetPort(p)
     \/ \E kind \in {"data", "state"} : OnRoute(kind)
     \/ Take \/ DropSamples
     \/ \E s \in Samples : Data(s) \/ Item(s)
     \/ \E o \in Outputs :
          \/ \E s \in Samples : WriteSample(o, s)
          \/ WriteDict(o)
     \/ Race
  /\ UNCHANGED <<threadVars, script>>

(* The script of another route writes for the first time in the process,   *)
(* and that output is freed.                                               *)
OtherStatic(s, old, new) ==
  /\ s # Session /\ InCallback(s)
  /\ static_output = old /\ static_output' = new
  /\ UNCHANGED <<threadVars, script, event, portVars, sampleVars, calls, undefined>>

OtherWrites(s) == OtherStatic(s, NoOutput, Foreign)
OtherFrees(s) == OtherStatic(s, Foreign, Gone)

Next ==
  /\ undefined = "no"
  /\ \/ ThreadStep
     \/ ScriptStep
     \/ \E raises \in BOOLEAN : Returns(raises)
     \/ \E s \in Sessions : OtherWrites(s) \/ OtherFrees(s)

Spec == Init /\ [][Next]_vars

-----------------------------------------------------------------------------
(* The variables hold the values their declarations promise. *)
TypeOK ==
  /\ from_service \in BOOLEAN
  /\ {gil, tstate} \subseteq Threads \cup {NoThread}
  /\ pc \in [Threads -> {"idle", "swapped", "waiting", "python", "native", "stopping"}]
  /\ saved \in [Sessions -> Threads \cup {NoThread}]
  /\ needs_gil \in [Sessions -> BOOLEAN]
  /\ events \in [Sessions -> Nat]
  /\ script \in {"careful", "any"}
  /\ event \in {"none", "enabled", "disabled", "data", "state"} \X (Ports \cup {NoOutput})
  /\ enabled \subseteq Ports /\ user_data \subseteq Ports
  /\ refs \in [Ports -> Nat]
  /\ owners \in [Ports -> SUBSET {"route", "call", "script"}]
  /\ loan \in {"none", "held", "returned"}
  /\ cached \subseteq Samples /\ released \subseteq Samples
  /\ static_output \in Outputs \cup {NoOutput, Foreign, Gone}
  /\ calls \in Nat

(* A session in Python that did not take the lock: the service loaded      *)
(* Python itself, or its swap returned the thread state of another thread. *)
Unlocked(t) == t \in Sessions /\ InPython(t) /\ (from_service => saved[t] # NoThread)

(* A thread that runs Python holds the interpreter lock, but for two kinds *)
(* of event: every one of a service that loads Python itself, which takes  *)
(* no lock at all, and one that found the state of another thread current  *)
(* when it was swapped out.  Of two threads in Python at once, then, one   *)
(* is of such an event.                                                    *)
RunsWithTheLock == \A t \in Threads : InPython(t) => gil = t \/ Unlocked(t)

(* Whoever holds the interpreter lock runs Python, and so will give it     *)
(* back: no event returns with it, however the swap was answered.  The     *)
(* exceptions are the thread of a program that stops the service, and that *)
(* of a service that loaded Python, which keeps the lock for good.         *)
HolderRuns ==
  gil # NoThread => InPython(gil) \/ (gil = Main /\ pc[Main] \in {"stopping", "native"})

(* The lock is held where the code asks for it, and is given back. *)
LockGuardsPython == RunsWithTheLock /\ HolderRuns

(* The reference count of the wrapper of a port is the number of its       *)
(* owners, through any sequence of events, look-ups and callbacks that     *)
(* raise, and the route's own reference is what its user data points to.   *)
ReferencesCounted ==
  \A p \in Ports :
    /\ refs[p] = Cardinality(owners[p])
    /\ p \in enabled => "route" \in owners[p] /\ p \in user_data

(* A script that reads .data before it indexes a sample, indexes it once,  *)
(* drops its samples within the callback and leaves disabled ports alone   *)
(* meets freed memory in two ways only, neither its own: an event without  *)
(* the lock ran beside it, or the output that wrote first in the process,  *)
(* perhaps of another route, is no longer there (PyOutput::write).         *)
CarefulScriptIsSafe ==
  script = "careful" =>
    \/ undefined = "no"
    \/ undefined = "race" /\ \E t \in Sessions : Unlocked(t)
    \/ undefined = "freed output" /\ static_output \notin enabled

=============================================================================
