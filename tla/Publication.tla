---------------------------- MODULE Publication -----------------------------
(***************************************************************************)
(* An RTI_MQTT_Publication: write(), the answers of the MQTT library to    *)
(* the messages written, and the counters that record them.                *)
(*                                                                         *)
(* One thread writes, as the stream writer of a route does.  The library   *)
(* answers on a thread of its own, one callback at a time: on_write_result *)
(* and, for QoS 2, on_write_delivery_result right after it.  No lock       *)
(* covers what the two threads share: the request (one for all messages),  *)
(* last_write_qos and pending_count, whose updates are a load and a store. *)
(*                                                                         *)
(* The library is external: a message it took is answered at most once,    *)
(* with OK only if it was published.                                       *)
(***************************************************************************)
EXTENDS Naturals, FiniteSets

CONSTANTS
  CounterModulus,  (* the counters wrap: 2^32 in the code                  *)
  MaxWrites        (* bounds the model: number of messages written         *)

ASSUME BoundsAssumption == MaxWrites \in Nat /\ CounterModulus \in Nat \ {0, 1}

VARIABLES
  pc,              (* where the writer is in write_w_params                *)
  loaded,          (* pending_count as the writer loaded it                *)
  message,         (* the number of the message it wrote last              *)
  last_write_qos,  (* req_ctx.last_write_qos                               *)
  sent_count, pending_count, ok_count, error_count,  (* message_status     *)
  triggered,       (* the trigger of the request's condition               *)
  result,          (* req->result = DDS_RETCODE_OK                         *)
  inflight,        (* messages the library has not answered                *)
  callback,        (* the callback that runs, or NoCallback                *)
  published,       (* history: messages answered with OK                   *)
  returned,        (* history: what became of write() for each message     *)
  qos2_used        (* history: some message was of QoS 2                   *)

writer == <<pc, loaded, message, last_write_qos>>
message_status == <<sent_count, pending_count, ok_count, error_count>>
req == <<triggered, result>>
history == <<published, returned, qos2_used>>
vars == <<writer, message_status, req, inflight, callback, history>>

-----------------------------------------------------------------------------
NoCallback == [at |-> "none"]
MinusOne(n) == (n + CounterModulus - 1) % CounterModulus
PlusOne(n) == (n + 1) % CounterModulus
Goto(where) == pc' = where
Proceed(where) == callback' = [callback EXCEPT !.at = where]

Init ==
  /\ pc = "idle" /\ loaded = 0 /\ message = 0 /\ last_write_qos = 0
  /\ sent_count = 0 /\ pending_count = 0 /\ ok_count = 0 /\ error_count = 0
  /\ triggered = FALSE
  /\ result = FALSE
  /\ inflight = {}
  /\ callback = NoCallback
  /\ published = {}
  /\ returned = [m \in 1..MaxWrites |-> "none"]
  /\ qos2_used = FALSE

-----------------------------------------------------------------------------
(* The writer. *)

BeginWrite(qos) ==
  /\ pc = "idle"
  /\ message < MaxWrites
  /\ message' = message + 1
  /\ last_write_qos' = qos
  /\ qos2_used' = (qos2_used \/ qos = 2)
  /\ loaded' = pending_count
  /\ Goto("count")
  /\ UNCHANGED <<message_status, req, inflight, callback, published, returned>>

CountPending ==
  /\ pc = "count"
  /\ pending_count' = PlusOne(loaded)
  /\ Goto("send")
  /\ UNCHANGED <<loaded, message, last_write_qos, sent_count, ok_count, error_count,
                 req, inflight, callback, history>>

Send ==
  /\ pc = "send"
  /\ \/ inflight' = inflight \cup {message} /\ Goto("sent") /\ UNCHANGED loaded
     \/ loaded' = pending_count /\ Goto("refused") /\ UNCHANGED inflight
  /\ UNCHANGED <<message, last_write_qos, message_status, req, callback, history>>

Return(what) ==
  /\ Goto("idle")
  /\ returned' = [returned EXCEPT ![message] = what]
  /\ UNCHANGED <<published, qos2_used>>

Refused ==
  /\ pc = "refused"
  /\ pending_count' = MinusOne(loaded)
  /\ Return("ERROR")
  /\ UNCHANGED <<loaded, message, last_write_qos, sent_count, ok_count, error_count,
                 req, inflight, callback>>

CountSent ==
  /\ pc = "sent"
  /\ sent_count' = PlusOne(sent_count)
  /\ Goto("wait")
  /\ UNCHANGED <<loaded, message, last_write_qos, pending_count, ok_count, error_count,
                 req, inflight, callback, history>>

(* wait_for_request resets the trigger and reads the result, or times out. *)
TriggerKept ==
  /\ pc = "wait"
  /\ triggered
  /\ Return(IF result THEN "OK" ELSE "ERROR")
  /\ UNCHANGED <<loaded, message, last_write_qos, message_status, req, inflight,
                 callback>>

Awake ==
  /\ pc = "wait"
  /\ triggered
  /\ triggered' = FALSE
  /\ Return(IF result THEN "OK" ELSE "ERROR")
  /\ UNCHANGED <<loaded, message, last_write_qos, message_status, result, inflight,
                 callback>>

GiveUp ==
  /\ pc = "wait"
  /\ Return("TIMEOUT")
  /\ UNCHANGED <<loaded, message, last_write_qos, message_status, req, inflight,
                 callback>>

-----------------------------------------------------------------------------
(* The library's thread.  A callback remembers its verdict, which becomes  *)
(* the result of the request, and the QoS that Client_on_write_result read *)
(* when it started: the publication reads last_write_qos again.            *)

Answer(m, ok) ==
  /\ callback = NoCallback
  /\ inflight' = inflight \ {m}
  /\ published' = IF ok THEN published \cup {m} ELSE published
  /\ callback' = [at |-> "on_write_result", ok |-> ok, qos |-> last_write_qos, seen |-> 0]
  /\ UNCHANGED <<writer, message_status, req, returned, qos2_used>>

(* on_write_result settles a message of QoS 0 or 1, and a failed one of    *)
(* QoS 2; it leaves the others to the delivery.                            *)
SettledFailures == ~callback.ok
Settled == last_write_qos \in {0, 1} \/ ~callback.ok

OnWriteResult ==
  /\ callback.at = "on_write_result"
  /\ callback' = [callback EXCEPT
       !.at = IF Settled THEN "count_result"
              ELSE IF callback.qos = 2 THEN "on_write_delivery_result" ELSE "handle",
       !.seen = pending_count]
  /\ UNCHANGED <<writer, message_status, req, inflight, history>>

CountOutcome ==
  /\ ok_count' = IF callback.ok THEN PlusOne(ok_count) ELSE ok_count
  /\ error_count' = IF callback.ok THEN error_count ELSE PlusOne(error_count)
  /\ pending_count' = MinusOne(callback.seen)
  /\ UNCHANGED sent_count

CountResult ==
  /\ callback.at = "count_result"
  /\ CountOutcome
  /\ Proceed(IF callback.qos = 2 THEN "on_write_delivery_result" ELSE "handle")
  /\ UNCHANGED <<writer, req, inflight, history>>

(* on_write_delivery_result refuses a delivery while no message pends: a   *)
(* failed one was settled just before.  What it refuses fails.             *)
DeliveryAlways == last_write_qos = 2
Delivery == last_write_qos = 2 /\ pending_count # 0

OnWriteDeliveryResult ==
  /\ callback.at = "on_write_delivery_result"
  /\ IF Delivery
     THEN callback' = [callback EXCEPT !.at = "count_delivery", !.seen = pending_count]
     ELSE callback' = [callback EXCEPT !.at = "handle", !.ok = FALSE]
  /\ UNCHANGED <<writer, message_status, req, inflight, history>>

CountDelivery ==
  /\ callback.at = "count_delivery"
  /\ CountOutcome
  /\ Proceed("handle")
  /\ UNCHANGED <<writer, req, inflight, history>>

(* handle_request_result. *)
HandleRequestResult ==
  /\ callback.at = "handle"
  /\ result' = callback.ok
  /\ triggered' = TRUE
  /\ callback' = NoCallback
  /\ UNCHANGED <<writer, message_status, inflight, history>>

-----------------------------------------------------------------------------
Write == \/ \E qos \in 0..2 : BeginWrite(qos)
         \/ CountPending \/ Send \/ Refused \/ CountSent \/ Awake \/ GiveUp
Callback == \/ \E m \in inflight : Answer(m, TRUE) \/ Answer(m, FALSE)
            \/ OnWriteResult \/ CountResult
            \/ OnWriteDeliveryResult \/ CountDelivery \/ HandleRequestResult

Next == Write \/ Callback
Spec == Init /\ [][Next]_vars

-----------------------------------------------------------------------------
Counts == 0..(CounterModulus - 1)
Quiet == pc = "idle" /\ callback = NoCallback
Patient == \A m \in 1..MaxWrites : returned[m] # "TIMEOUT"

TypeOK ==
  /\ pc \in {"idle", "count", "send", "refused", "sent", "wait"}
  /\ message \in 0..MaxWrites
  /\ last_write_qos \in 0..2
  /\ {loaded, sent_count, pending_count, ok_count, error_count} \subseteq Counts
  /\ {triggered, result, qos2_used} \subseteq BOOLEAN
  /\ inflight \in SUBSET (1..MaxWrites)
  /\ published \in SUBSET (1..MaxWrites)
  /\ callback = NoCallback \/ callback.seen \in Counts
  /\ returned \in [1..MaxWrites -> {"none", "OK", "ERROR", "TIMEOUT"}]

(* Until a write times out the counters agree between two writes: nothing  *)
(* is pending and every message sent succeeded or failed, once.            *)
CountsSettle ==
  Quiet /\ Patient =>
    pending_count = 0 /\ sent_count = (ok_count + error_count) % CounterModulus

(* Nor has write() lied until then: it returned OK for exactly the         *)
(* messages that were published, although all share one request.           *)
WriteTellsTheTruth ==
  Patient => \A m \in 1..MaxWrites :
    returned[m] # "none" => (returned[m] = "OK" <=> m \in published)

(* For QoS 0 and 1, whatever times out and however late the answers, each  *)
(* message sent is counted as a success, as a failure, or is unanswered.   *)
EveryAnswerCounted ==
  Quiet /\ ~qos2_used =>
    sent_count = (ok_count + error_count + Cardinality(inflight)) % CounterModulus
=============================================================================
