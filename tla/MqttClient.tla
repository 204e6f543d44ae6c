----------------------------- MODULE MqttClient -----------------------------
(***************************************************************************)
(* An RTI_MQTT_Client: the state machine behind connect(), disconnect(),   *)
(* subscribe() and unsubscribe(), the pending requests its callers wait    *)
(* on, and the thread that a lost connection starts.                       *)
(*                                                                         *)
(* Every call is a chain of exchanges with the MQTT library (Paho): submit *)
(* a command under mqtt_lock, then wait for its answer on the guard        *)
(* condition of a request.  A step here is one critical section, one       *)
(* submission or one wake-up; everything else interleaves.  A caller that  *)
(* gives up waiting leaves its command behind, and the answer may still    *)
(* come: it sets the trigger of the same request.                          *)
(*                                                                         *)
(* The library and the broker are external: `link', `broker' and the       *)
(* commands in flight are what the client can observe of them.             *)
(***************************************************************************)
EXTENDS Naturals, FiniteSets

CONSTANTS
  Apps,            (* threads that call the API; each owns at most one     *)
                   (* subscription, on a topic of its own, named after it  *)
  Losses,          (* the threads spawned when the connection is lost      *)
  NoThread,
  Reconnect,       (* config->reconnect                                    *)
  UnsubscribeOnDisconnect,  (* config->unsubscribe_on_disconnect           *)
  Budgets          (* bound the model: who calls in a behaviour, how often *)
                   (* connect() and disconnect(), the losses and the       *)
                   (* messages that can't be stored, how many commands the *)
                   (* library holds, and whether the callers are impatient *)
                   (* (timeouts of 0 wait forever)                         *)

Threads == Apps \cup Losses

ASSUME ThreadsAssumption == Apps \cap Losses = {} /\ NoThread \notin Threads

BudgetType == [callers : SUBSET Apps, losses : SUBSET Losses, connects : Nat,
               disconnects : Nat, failures : Nat, commands : Nat, impatient : BOOLEAN]
ASSUME OptionsAssumption ==
  /\ {Reconnect, UnsubscribeOnDisconnect} \subseteq BOOLEAN
  /\ Budgets \subseteq BudgetType

VARIABLES
  state,       (* self->data->state                                       *)
  params,      (* the subscriptions listed in self->req_ctx_sub.params    *)
  mqtt_lock,   (* who holds self->mqtt_lock across steps                  *)
  triggered,   (* the conditions whose trigger value is TRUE              *)
  result,      (* req->result of each request, and of each stack copy     *)
  pc,          (* where each thread stands: <<phase, command>>            *)
  copied,      (* the parameters a thread copied for its next command     *)
  inflight,    (* commands the library holds, not answered yet            *)
  created,     (* self->client # NULL: the library's client exists        *)
  link,        (* whether the library is connected to the broker          *)
  broker,      (* subscriptions the broker knows of                       *)
  overlooked,  (* history: a loss whose thread ended without a look at    *)
               (* the state or did not find it CONNECTED, and no new      *)
               (* connection since                                        *)
  overwritten, (* history: threads in the middle of a connect() or        *)
               (* disconnect() since whose beginning another thread wrote *)
               (* the state by set_state, without a test                  *)
  mingled,     (* history: a connect() or disconnect() began beside one   *)
               (* that is overwritten                                     *)
  budget,      (* what is left of the budget                              *)
  crashed      (* a result was stored in a request that no longer exists  *)

client == <<state, params, mqtt_lock>>
requests == <<triggered, result>>
library == <<inflight, created, link, broker, overlooked>>
history == <<overwritten, mingled>>
vars == <<client, requests, library, pc, copied, history, budget, crashed>>

-----------------------------------------------------------------------------
States == {"DISCONNECTED", "CONNECTING", "CONNECTED", "DISCONNECTING", "ERROR"}
Kinds == {"connect", "disconnect", "submit_all", "cancel_all", "submit", "cancel"}

Idle == <<"idle", "">>
Ask(k) == <<"ask", k>>       \* about to submit k to the library
Wait(k) == <<"wait", k>>     \* in wait_for_request
Do(what) == <<"do", what>>   \* a step that involves only the client

(* The guard condition that k waits on: one per client, or one per         *)
(* subscription for the two commands of subscribe() and unsubscribe().     *)
Condition(k, t) == IF k \in {"submit", "cancel"} THEN <<k, t>> ELSE <<k, NoThread>>

(* Where its answer is stored: submit_all and cancel_all use a copy of the *)
(* request on the stack of the caller.                                     *)
Cell(k, t) == IF k \in {"connect", "disconnect"} THEN <<k, NoThread>> ELSE <<k, t>>
Cells == Kinds \X (Threads \cup {NoThread})

(* The request of command c exists while its caller is in the exchange; a  *)
(* subscription's until its requests are deleted, the client's always.     *)
Exists(c) ==
  CASE c.kind \in {"connect", "disconnect"} -> TRUE
    [] c.kind \in {"submit_all", "cancel_all"} -> pc[c.by] = Wait(c.kind)
    [] c.kind \in {"submit", "cancel"} -> c.by \in params

(* Where an exchange goes when its answer is OK (connect() always submits  *)
(* the subscriptions again), and otherwise.                                *)
Sequel(k, connected) ==
  CASE k = "connect"    -> connected
    [] k = "submit_all" -> Do("set_connected")
    [] k = "cancel_all" -> Ask("disconnect")
    [] k = "disconnect" -> Do("set_disconnected")
    [] k = "submit"     -> Idle
    [] k = "cancel"     -> Do("forget")
ConnectedAtOnce(k) == Sequel(k, Do("set_connected"))
AfterSuccess(k) == Sequel(k, Do("copy_submit"))

FailureIgnored(k, t) == AfterSuccess(k)
AfterFailure(k, t) ==
  CASE k \in {"connect", "submit_all"} -> IF t \in Losses THEN Do("set_error") ELSE Idle
    [] k \in {"cancel_all", "disconnect"} -> Idle
    [] k = "submit" -> Do("undo")
    [] k = "cancel" -> Do("forget")

Goto(t, where) == pc' = [pc EXCEPT ![t] = where]

(* Who is in the middle of connect() and of disconnect(). *)
Connecting(t) ==
  pc[t] \in {Ask("connect"), Wait("connect"), Do("copy_submit"),
             Ask("submit_all"), Wait("submit_all"), Do("set_connected")}
Disconnecting(t) ==
  \/ pc[t] \in {Do("copy_cancel"), Ask("cancel_all"), Wait("cancel_all"),
                Ask("disconnect"), Wait("disconnect")}
  \/ t \in Apps /\ pc[t] = Do("set_disconnected")
Operating(t) == Connecting(t) \/ Disconnecting(t)
Beside(t) == {u \in Threads \ {t} : Operating(u)}

-----------------------------------------------------------------------------
Init ==
  /\ state = "DISCONNECTED"
  /\ params = {}
  /\ mqtt_lock = NoThread
  /\ triggered = {}
  /\ result = [c \in Cells |-> FALSE]
  /\ pc = [t \in Threads |-> Idle]
  /\ copied = [t \in Threads |-> {}]
  /\ inflight = {}
  /\ created = TRUE
  /\ link = FALSE
  /\ broker = {}
  /\ overlooked = FALSE
  /\ overwritten = {}
  /\ mingled = FALSE
  /\ budget \in Budgets
  /\ crashed = FALSE

(* set_state(), which looks neither at the state nor at who is at work. *)
WriteState(t, new) ==
  /\ state' = new
  /\ overwritten' = Beside(t)
  /\ UNCHANGED mingled

(* connect() or disconnect() sets the state to begin. *)
EnterState(t, new) ==
  /\ state' = new
  /\ overwritten' = overwritten \cap Beside(t)
  /\ mingled' = (mingled \/ overwritten' # {})

(* The first critical section of connect(). *)
RefusingNever == FALSE
Refusing == state \in {"CONNECTING", "DISCONNECTING"}

BeginConnect(t) ==
  /\ UNCHANGED <<params, mqtt_lock, requests, library, copied, crashed>>
  /\ IF state = "CONNECTED" \/ Refusing
     THEN /\ Goto(t, IF state # "CONNECTED" /\ t \in Losses THEN Do("set_error") ELSE Idle)
          /\ UNCHANGED <<state, history>>
     ELSE EnterState(t, "CONNECTING") /\ Goto(t, Ask("connect"))

BeginDisconnect(t) ==
  /\ budget.disconnects > 0
  /\ budget' = [budget EXCEPT !.disconnects = @ - 1]
  /\ state # "DISCONNECTED"
  /\ ~Refusing
  /\ EnterState(t, "DISCONNECTING")
  /\ Goto(t, IF UnsubscribeOnDisconnect THEN Do("copy_cancel") ELSE Ask("disconnect"))
  /\ UNCHANGED <<params, mqtt_lock, requests, library, copied, crashed>>

(* subscribe() registers the subscription and creates its requests. *)
BeginSubscribe(t) ==
  /\ t \notin params
  /\ params' = params \cup {t}
  /\ copied' = [copied EXCEPT ![t] = {t}]
  /\ triggered' = triggered \ {<<"submit", t>>, <<"cancel", t>>}
  /\ result' = [result EXCEPT ![<<"submit", t>>] = FALSE, ![<<"cancel", t>>] = FALSE]
  /\ Goto(t, Ask("submit"))
  /\ UNCHANGED <<state, mqtt_lock, library, history, budget, crashed>>

BeginUnsubscribe(t) ==
  /\ t \in params
  /\ copied' = [copied EXCEPT ![t] = {t}]
  /\ Goto(t, Ask("cancel"))
  /\ UNCHANGED <<client, requests, library, history, budget, crashed>>

Begin(t) ==
  /\ pc[t] = Idle
  /\ t \in budget.callers
  /\ \/ /\ budget.connects > 0
        /\ budget' = [budget EXCEPT !.connects = @ - 1]
        /\ BeginConnect(t)
     \/ BeginDisconnect(t)
     \/ BeginSubscribe(t)
     \/ BeginUnsubscribe(t)

(* submit_all_subscriptions and cancel_all_subscriptions copy the request  *)
(* and its parameters under sub_lock; nothing to submit is a success.      *)
CopyAll(t, from, k) ==
  /\ pc[t] = Do(from)
  /\ IF params = {} THEN Goto(t, AfterSuccess(k)) ELSE Goto(t, Ask(k))
  /\ copied' = [copied EXCEPT ![t] = params]
  /\ result' = [result EXCEPT ![<<k, t>>] = FALSE]
  /\ UNCHANGED <<client, triggered, library, history, budget, crashed>>

(* The library takes a command or refuses it; it refuses all but a connect *)
(* when there is no connection, and everything without its client.         *)
Free == {n \in 1..budget.commands : \A c \in inflight : c.id # n}

Submit(t, k) ==
  /\ pc[t] = Ask(k)
  /\ mqtt_lock = NoThread
  /\ \/ /\ created
        /\ link \/ k = "connect"
        /\ Free # {}
        /\ inflight' = inflight \cup
             {[id |-> CHOOSE n \in Free : \A m \in Free : n <= m,
               kind |-> k, by |-> t, subs |-> copied[t], served |-> FALSE]}
        /\ Goto(t, Wait(k))
     \/ /\ Goto(t, AfterFailure(k, t))
        /\ UNCHANGED inflight
  /\ copied' = [copied EXCEPT ![t] = {}]
  /\ UNCHANGED <<client, requests, created, link, broker, overlooked, history, budget,
                 crashed>>

(* wait_for_request: the trigger is reset and the result read. *)
Awake(t, k) ==
  /\ pc[t] = Wait(k)
  /\ Condition(k, t) \in triggered
  /\ triggered' = triggered \ {Condition(k, t)}
  /\ Goto(t, IF result[Cell(k, t)] THEN AfterSuccess(k) ELSE AfterFailure(k, t))
  /\ UNCHANGED <<client, result, library, copied, history, budget, crashed>>

GiveUp(t, k) ==
  /\ budget.impatient
  /\ pc[t] = Wait(k)
  /\ Goto(t, AfterFailure(k, t))
  /\ UNCHANGED <<client, requests, library, copied, history, budget, crashed>>

(* connect() and disconnect() end. *)
SetState(t, at, new) ==
  /\ pc[t] = Do(at)
  /\ WriteState(t, new)
  /\ Goto(t, Idle)
  /\ UNCHANGED <<params, mqtt_lock, requests, library, copied, budget, crashed>>

(* unsubscribe(), or a subscribe() that failed, deletes the subscription   *)
(* and its requests.                                                       *)
Forget(t) ==
  /\ pc[t] \in {Do("forget"), Do("undo")}
  /\ params' = params \ {t}
  /\ Goto(t, Idle)
  /\ UNCHANGED <<state, mqtt_lock, requests, library, copied, history, budget, crashed>>

-----------------------------------------------------------------------------
(* The library and the broker.                                             *)

(* The broker carries out a command.  A new session may know nothing of    *)
(* the subscriptions of the one before.                                    *)
Serve(c) ==
  /\ ~c.served
  /\ link \/ c.kind = "connect"
  /\ inflight' = (inflight \ {c}) \cup {[c EXCEPT !.served = TRUE]}
  /\ CASE c.kind = "connect" ->
            /\ link' = TRUE /\ overlooked' = FALSE
            /\ IF link THEN UNCHANGED broker ELSE broker' \in {broker, {}}
       [] c.kind = "disconnect" -> link' = FALSE /\ UNCHANGED <<broker, overlooked>>
       [] c.kind \in {"submit", "submit_all"} ->
            broker' = broker \cup c.subs /\ UNCHANGED <<link, overlooked>>
       [] c.kind \in {"cancel", "cancel_all"} ->
            broker' = broker \ c.subs /\ UNCHANGED <<link, overlooked>>
  /\ UNCHANGED <<client, requests, created, pc, copied, history, budget, crashed>>

(* on_success and on_failure: handle_request_result of the request.        *)
HandleRequestResult(c, ok) ==
  /\ inflight' = inflight \ {c}
  /\ IF Exists(c)
     THEN /\ result' = [result EXCEPT ![Cell(c.kind, c.by)] = ok]
          /\ triggered' = triggered \cup {Condition(c.kind, c.by)}
          /\ UNCHANGED crashed
     ELSE /\ crashed' = TRUE
          /\ UNCHANGED requests

(* Answers come while the connection is up; a connect may fail without one *)
(* and the answer to a disconnect ends it.                                 *)
Answer(c, ok) ==
  /\ link \/ c.kind \in {"connect", "disconnect"}
  /\ ok => c.served
  /\ HandleRequestResult(c, ok)
  /\ UNCHANGED <<client, created, link, broker, overlooked, pc, copied, history, budget>>

(* on_connection_lost spawns a thread. *)
Lose(t) ==
  /\ link
  /\ t \in budget.losses
  /\ link' = FALSE
  /\ budget' = [budget EXCEPT !.losses = @ \ {t}]
  /\ Goto(t, Do("renew_client"))
  /\ UNCHANGED <<client, requests, inflight, created, broker, overlooked, copied, history,
                 crashed>>

(* A message that can't be stored puts the client in ERROR. *)
MessageFails ==
  /\ link
  /\ budget.failures > 0
  /\ budget' = [budget EXCEPT !.failures = @ - 1]
  /\ WriteState(NoThread, "ERROR")
  /\ UNCHANGED <<params, mqtt_lock, requests, library, pc, copied, crashed>>

-----------------------------------------------------------------------------
(* The thread of a lost connection: delete and create the library's client *)
(* under mqtt_lock, which fails every command it still holds; then, if the *)
(* client thinks it is connected, reconnect...                             *)
LockLibrary(t) ==
  /\ pc[t] = Do("renew_client")
  /\ mqtt_lock = NoThread
  /\ mqtt_lock' = t
  /\ Goto(t, Do("fail_commands"))
  /\ UNCHANGED <<state, params, requests, library, copied, history, budget, crashed>>

FailCommand(t) ==
  /\ pc[t] = Do("fail_commands")
  /\ \E c \in inflight : HandleRequestResult(c, FALSE)
  /\ UNCHANGED <<client, created, link, broker, overlooked, pc, copied, history, budget>>

LockKept(t) ==
  /\ pc[t] = Do("fail_commands")
  /\ inflight = {}
  /\ link' = FALSE
  /\ Goto(t, Do("check_state"))
  /\ UNCHANGED <<client, requests, inflight, created, broker, overlooked, copied, history,
                 budget, crashed>>

(* ... a client that can't be created again ends the thread. *)
RenewClient(t) ==
  /\ pc[t] = Do("fail_commands")
  /\ inflight = {}
  /\ link' = FALSE
  /\ mqtt_lock' = NoThread
  /\ \/ Goto(t, Do("check_state")) /\ UNCHANGED <<created, overlooked>>
     \/ Goto(t, Idle) /\ created' = FALSE /\ overlooked' = TRUE
  /\ UNCHANGED <<state, params, requests, inflight, broker, copied, history, budget, crashed>>

(* Client_on_connection_lost reads the state in one critical section...    *)
CheckState(t) ==
  /\ pc[t] = Do("check_state")
  /\ Goto(t, IF state = "CONNECTED" THEN Do("set_disconnected") ELSE Idle)
  /\ overlooked' = (overlooked \/ (state # "CONNECTED" /\ ~link))
  /\ UNCHANGED <<client, requests, inflight, created, link, broker, copied, history, budget,
                 crashed>>

(* ... and writes it in another. *)
LostConnection(t) ==
  /\ t \in Losses
  /\ pc[t] = Do("set_disconnected")
  /\ WriteState(t, "DISCONNECTED")
  /\ Goto(t, IF Reconnect THEN Do("reconnect") ELSE Idle)
  /\ UNCHANGED <<params, mqtt_lock, requests, library, copied, budget, crashed>>

Reconnects(t) ==
  /\ pc[t] = Do("reconnect")
  /\ BeginConnect(t)
  /\ UNCHANGED budget

-----------------------------------------------------------------------------
(* What thread t does once it has begun a call or was spawned. *)
Continue(t) ==
  \/ CopyAll(t, "copy_submit", "submit_all")
  \/ CopyAll(t, "copy_cancel", "cancel_all")
  \/ \E k \in Kinds : Submit(t, k) \/ Awake(t, k) \/ GiveUp(t, k)
  \/ SetState(t, "set_connected", "CONNECTED")
  \/ t \in Apps /\ SetState(t, "set_disconnected", "DISCONNECTED")
  \/ SetState(t, "set_error", "ERROR")
  \/ Forget(t)
  \/ LockLibrary(t) \/ FailCommand(t) \/ RenewClient(t)
  \/ CheckState(t) \/ LostConnection(t) \/ Reconnects(t)

Next ==
  /\ ~crashed
  /\ \/ \E t \in Threads : Begin(t) \/ Continue(t)
     \/ \E c \in inflight : Serve(c) \/ Answer(c, TRUE) \/ Answer(c, FALSE)
     \/ \E t \in Losses : Lose(t)
     \/ MessageFails

Spec == Init /\ [][Next]_vars

(* Threads are scheduled; the broker promises nothing.  Callers without a  *)
(* timeout wait for it, so fairness is asked of impatient ones only.       *)
Fairness == \A t \in Threads : WF_vars(~crashed /\ budget.impatient /\ Continue(t))
FairSpec == Spec /\ Fairness

-----------------------------------------------------------------------------
Phases == {Idle} \cup ({"ask", "wait"} \X Kinds) \cup
  ({"do"} \X {"copy_submit", "copy_cancel", "set_connected", "set_disconnected",
              "set_error", "forget", "undo", "renew_client", "fail_commands",
              "check_state", "reconnect"})

(* Every variable stays within its type, and only the thread that renews   *)
(* the library's client holds mqtt_lock across steps.                      *)
TypeOK ==
  /\ state \in States
  /\ params \in SUBSET Apps
  /\ mqtt_lock \in Losses \cup {NoThread}
  /\ \A t \in Losses : mqtt_lock = t <=> pc[t] = Do("fail_commands")
  /\ triggered \subseteq Cells
  /\ result \in [Cells -> BOOLEAN]
  /\ pc \in [Threads -> Phases]
  /\ copied \in [Threads -> SUBSET Apps]
  /\ inflight \subseteq [id : 1..budget.commands, kind : Kinds, by : Threads,
                         subs : SUBSET Apps, served : BOOLEAN]
  /\ {created, link, overlooked, mingled} \subseteq BOOLEAN
  /\ broker \in SUBSET Apps
  /\ overwritten \in SUBSET Threads
  /\ budget \in BudgetType
  /\ crashed \in BOOLEAN

(* Of two threads that are in the middle of connect() or disconnect() at   *)
(* the same time, one is in an operation whose state was overwritten: by a *)
(* thread of a lost connection, which writes the state after it looked at  *)
(* it, by a message that could not be stored, or by the end of such an     *)
(* operation.  They share req_connect, req_disconnect and the conditions   *)
(* of req_sub and req_unsub, and only the state each one tests when it     *)
(* begins keeps them apart.                                                *)
OneOperation ==
  \A t, u \in Threads :
    Operating(t) /\ Operating(u) /\ t # u => {t, u} \cap overwritten # {}

(* Until two of them were under way at once, and among patient callers, an *)
(* answer finds the caller that asked waiting for it, losses or not: no    *)
(* command outlives the request whose address the library holds, so no     *)
(* answer is stored in memory that was freed and none is taken for         *)
(* another's.                                                              *)
AnswersAreAwaited ==
  mingled \/ budget.impatient \/ \A c \in inflight : pc[c.by] = Wait(c.kind)

(* While the client says CONNECTED there is a connection, or the thread    *)
(* that will notice the loss is on its way.  The exceptions are a loss     *)
(* whose thread looked at the state before connect() had set CONNECTED, or *)
(* ended because the library's client could not be created again           *)
(* (ClientApiPaho.c:612), two operations at once, and the late answers of  *)
(* calls that timed out.                                                   *)
LossUnnoticed ==
  \E t \in Losses :
    pc[t] \in {Do("renew_client"), Do("fail_commands"), Do("check_state"),
               Do("set_disconnected")}
ConnectedHasLink ==
  state = "CONNECTED" =>
    link \/ LossUnnoticed \/ overlooked \/ mingled \/ budget.impatient

(* "We always resubmit current subscriptions to make sure they exist on    *)
(* the broker": whatever the broker forgot, each subscription an           *)
(* application holds is known to it whenever the client is CONNECTED, with *)
(* the exceptions of AnswersAreAwaited.                                    *)
Holds(t) ==
  /\ t \in params
  /\ pc[t] \notin {Ask("submit"), Wait("submit"), Ask("cancel"), Wait("cancel"),
                   Do("undo"), Do("forget")}
SubscriptionsOnBroker ==
  state = "CONNECTED" /\ link /\ ~mingled /\ ~budget.impatient =>
    \A t \in Apps : Holds(t) => t \in broker

(* connect() that fails leaves the client DISCONNECTED, disconnect() too:  *)
(* a client nobody is operating on is not in a transient state.            *)
NoTransientStateLeft ==
  state \in {"CONNECTING", "DISCONNECTING"} => \E t \in Threads : Operating(t)

(* A call with a timeout returns even if the broker never answers, and so  *)
(* does the thread of a lost connection.                                   *)
CallsReturn ==
  \A t \in Threads : []<>(pc[t] = Idle \/ crashed \/ ~budget.impatient)
=============================================================================
