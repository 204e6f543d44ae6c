-------------------------- MODULE PublicationProofs --------------------------
(***************************************************************************)
(* What a publication promises until a write times out, for any number of  *)
(* messages and counters of any width: the counters settle, write() tells  *)
(* the truth, a batch returns the count of its published samples, and the  *)
(* library finds the publication of every message it answers.              *)
(*                                                                         *)
(* The argument: a writer that does not time out waits for the answer to   *)
(* each message, so that at most one is in flight or in a callback         *)
(* (InStep), and neither last_write_qos nor pending_count, which no lock   *)
(* protects, changes between a load and its store.                         *)
(***************************************************************************)
EXTENDS StreamWriter, SequenceTheorems, FiniteSetTheorems, TLAPS

-----------------------------------------------------------------------------
(* Counters that wrap. *)
LEMMA PlusOneValue ==
  ASSUME NEW n \in Counts
  PROVE  /\ PlusOne(n) = IF n + 1 = CounterModulus THEN 0 ELSE n + 1
         /\ PlusOne(n) \in Counts
<1>1. CASE n + 1 = CounterModulus
  BY <1>1, BoundsAssumption DEF PlusOne, Counts
<1>2. CASE n + 1 < CounterModulus
  BY <1>2, BoundsAssumption DEF PlusOne, Counts
<1> QED BY <1>1, <1>2, BoundsAssumption DEF Counts

LEMMA MinusOneValue ==
  ASSUME NEW n \in Counts
  PROVE  /\ MinusOne(n) = IF n = 0 THEN CounterModulus - 1 ELSE n - 1
         /\ MinusOne(n) \in Counts
<1>1. CASE n = 0
  BY <1>1, BoundsAssumption DEF MinusOne, Counts
<1>2. CASE n > 0
  BY <1>2, BoundsAssumption DEF MinusOne, Counts
<1> QED BY <1>1, <1>2, BoundsAssumption DEF Counts

LEMMA OneIsACount == PlusOne(0) = 1 /\ MinusOne(1) = 0 /\ {0, 1} \subseteq Counts
<1>1. {0, 1} \subseteq Counts
  BY BoundsAssumption DEF Counts
<1> QED BY <1>1, PlusOneValue, MinusOneValue, BoundsAssumption

Sum(a, b) == (a + b) % CounterModulus

LEMMA SumValue ==
  ASSUME NEW a \in Counts, NEW b \in Counts
  PROVE  /\ Sum(a, b) = IF a + b < CounterModulus THEN a + b ELSE a + b - CounterModulus
         /\ Sum(a, b) \in Counts
<1>1. CASE a + b < CounterModulus
  BY <1>1, BoundsAssumption DEF Sum, Counts
<1>2. CASE a + b >= CounterModulus
  BY <1>2, BoundsAssumption DEF Sum, Counts
<1> QED BY <1>1, <1>2, BoundsAssumption DEF Counts

LEMMA SumPlusOne ==
  ASSUME NEW a \in Counts, NEW b \in Counts
  PROVE  Sum(PlusOne(a), b) = PlusOne(Sum(a, b)) /\ Sum(a, PlusOne(b)) = PlusOne(Sum(a, b))
<1> DEFINE p == PlusOne(a)  q == PlusOne(b)  s == Sum(a, b)
<1>1. /\ p \in Counts /\ p = IF a + 1 = CounterModulus THEN 0 ELSE a + 1
      /\ q \in Counts /\ q = IF b + 1 = CounterModulus THEN 0 ELSE b + 1
  BY PlusOneValue
<1>2. /\ s \in Counts
      /\ s = IF a + b < CounterModulus THEN a + b ELSE a + b - CounterModulus
  BY SumValue
<1>3. PlusOne(s) = IF s + 1 = CounterModulus THEN 0 ELSE s + 1
  BY <1>2, PlusOneValue
<1>4. /\ Sum(p, b) = IF p + b < CounterModulus THEN p + b ELSE p + b - CounterModulus
      /\ Sum(a, q) = IF a + q < CounterModulus THEN a + q ELSE a + q - CounterModulus
  BY <1>1, SumValue
<1> HIDE DEF p, q, s
<1>5. Sum(p, b) = PlusOne(s) /\ Sum(a, q) = PlusOne(s)
  BY <1>1, <1>2, <1>3, <1>4, BoundsAssumption DEF Counts
<1> QED BY <1>5 DEF p, q, s

-----------------------------------------------------------------------------
Places == {"on_write_result", "count_result", "on_write_delivery_result",
           "count_delivery", "handle"}
Callbacks == [at : Places, ok : BOOLEAN, qos : 0..2, seen : Counts]

Typed == TypeOK /\ (callback = NoCallback \/ callback \in Callbacks)

(* Messages have their numbers in the order of the writes. *)
Numbered ==
  /\ inflight \subseteq 1..message /\ published \subseteq 1..message
  /\ \A m \in inflight : m \notin published
  /\ \A m \in 1..MaxWrites : m > message => returned[m] = "none"
  /\ pc # "idle" => message \in 1..MaxWrites /\ returned[message] = "none"
  /\ pc \in {"count", "send", "refused"} => message \notin inflight \cup published

(* Writer and library in step: what each has done for the last message.    *)
Still == inflight = {} /\ callback = NoCallback /\ ~triggered

Answering ==
  /\ callback # NoCallback /\ inflight = {} /\ ~triggered
  /\ callback.ok = (message \in published)
  /\ callback.qos = last_write_qos
  /\ \/ callback.at = "on_write_result" /\ pending_count = 1
     \/ callback.at = "count_result" /\ pending_count = 1 /\ callback.seen = 1 /\ Settled
     \/ /\ callback.at = "on_write_delivery_result" /\ last_write_qos = 2
        /\ pending_count = IF callback.ok THEN 1 ELSE 0
     \/ /\ callback.at = "count_delivery" /\ last_write_qos = 2 /\ callback.ok
        /\ pending_count = 1 /\ callback.seen = 1
     \/ callback.at = "handle" /\ pending_count = 0

Answered ==
  /\ inflight = {} /\ callback = NoCallback /\ triggered
  /\ pending_count = 0 /\ result = (message \in published)

InStep ==
  /\ pc \in {"idle", "count"} => Still /\ pending_count = 0
  /\ pc = "count" => loaded = 0
  /\ pc \in {"send", "refused"} => Still /\ pending_count = 1
  /\ pc = "refused" => loaded = 1
  /\ pc \in {"sent", "wait"} =>
       \/ inflight = {message} /\ callback = NoCallback /\ ~triggered /\ pending_count = 1
       \/ Answering
       \/ Answered

(* What was sent is a success, a failure or the one message that pends.    *)
Pends == pc \in {"sent", "wait"} /\ pending_count = 1
Outcomes == Sum(ok_count, error_count)
Balanced ==
  (IF pc = "sent" THEN PlusOne(sent_count) ELSE sent_count)
    = IF Pends THEN PlusOne(Outcomes) ELSE Outcomes

Truthful ==
  \A m \in 1..MaxWrites : returned[m] # "none" => (returned[m] = "OK" <=> m \in published)

IInv == Typed /\ Numbered /\ (Patient => InStep /\ Balanced /\ Truthful)

-----------------------------------------------------------------------------
LEMMA InitIInv == Init => IInv
<1> SUFFICES ASSUME Init PROVE IInv
  OBVIOUS
<1>1. Typed
  <2>1. {triggered, result, qos2_used} \subseteq BOOLEAN
    BY Zenon DEF Init
  <2>2. {loaded, sent_count, pending_count, ok_count, error_count} \subseteq Counts
    BY OneIsACount DEF Init
  <2>3. returned \in [1..MaxWrites -> {"none", "OK", "ERROR", "TIMEOUT"}]
    BY DEF Init
  <2> QED BY <2>1, <2>2, <2>3, BoundsAssumption DEF Init, Typed, TypeOK
<1>2. Numbered
  BY BoundsAssumption DEF Init, Numbered
<1>3. InStep
  BY DEF Init, InStep, Still
<1>4. Balanced
  <2>1. Outcomes = 0
    BY OneIsACount, SumValue, BoundsAssumption DEF Init, Outcomes
  <2> QED BY <2>1 DEF Init, Balanced, Pends
<1>5. Truthful
  BY DEF Init, Truthful
<1> QED BY <1>1, <1>2, <1>3, <1>4, <1>5 DEF IInv

(* A write that timed out is not forgotten. *)
LEMMA PatienceEnds == IInv /\ [Next]_vars /\ Patient' => Patient
<1> SUFFICES ASSUME IInv, [Next]_vars, Patient' PROVE Patient
  OBVIOUS
<1>1. \/ returned' = returned
      \/ /\ pc # "idle"
         /\ \E what : returned' = [returned EXCEPT ![message] = what]
  BY DEF Next, Write, Callback, vars, writer, history, BeginWrite, CountPending, Send, Refused,
     CountSent, Awake, GiveUp, Return, Answer, OnWriteResult, CountResult,
     OnWriteDeliveryResult, CountDelivery, HandleRequestResult
<1> QED BY <1>1 DEF IInv, Numbered, Patient, Typed, TypeOK

LEMMA TypeStep == IInv /\ [Next]_vars => Typed'
<1> SUFFICES ASSUME IInv, [Next]_vars PROVE Typed'
  OBVIOUS
<1> USE DEF IInv, Typed, TypeOK
<1>1. ASSUME NEW qos \in 0..2, BeginWrite(qos) PROVE Typed'
  BY <1>1, BoundsAssumption DEF BeginWrite, Goto, message_status, req
<1>2. CASE CountPending
  BY <1>2, PlusOneValue DEF CountPending, Goto, req, history
<1>3. CASE Send
  BY <1>3, BoundsAssumption DEF Send, Goto, Numbered, message_status, req, history
<1>4. CASE Refused
  BY <1>4, MinusOneValue DEF Refused, Return, Goto, req
<1>5. CASE CountSent
  BY <1>5, PlusOneValue DEF CountSent, Goto, req, history
<1>6. CASE Awake
  BY <1>6 DEF Awake, Return, Goto, message_status
<1>7. CASE GiveUp
  BY <1>7 DEF GiveUp, Return, Goto, message_status, req
<1>8. ASSUME NEW m \in inflight, NEW ok \in BOOLEAN, Answer(m, ok) PROVE Typed'
  <2>1. callback' \in Callbacks
    BY <1>8, OneIsACount DEF Answer, Callbacks, Places
  <2> QED BY <1>8, <2>1, OneIsACount DEF Answer, Callbacks, writer, message_status, req
<1>9. CASE OnWriteResult
  <2>1. callback \in Callbacks
    BY <1>9 DEF OnWriteResult, NoCallback
  <2>2. callback' \in Callbacks
    BY <1>9, <2>1 DEF OnWriteResult, Callbacks, Places
  <2> QED BY <1>9, <2>2 DEF OnWriteResult, Callbacks, writer, message_status, req, history
<1>10. CASE CountResult
  <2>1. callback \in Callbacks
    BY <1>10 DEF CountResult, NoCallback
  <2>2. callback' \in Callbacks
    BY <1>10, <2>1 DEF CountResult, Proceed, Callbacks, Places
  <2>3. {ok_count', error_count', pending_count', sent_count'} \subseteq Counts
    BY <1>10, <2>1, PlusOneValue, MinusOneValue DEF CountResult, CountOutcome, Callbacks
  <2> QED BY <1>10, <2>2, <2>3 DEF CountResult, Callbacks, writer, req, history
<1>11. CASE OnWriteDeliveryResult
  <2>1. callback \in Callbacks
    BY <1>11 DEF OnWriteDeliveryResult, NoCallback
  <2>2. callback' \in Callbacks
    BY <1>11, <2>1 DEF OnWriteDeliveryResult, Callbacks, Places
  <2> QED BY <1>11, <2>2 DEF OnWriteDeliveryResult, Callbacks, writer, message_status, req, history
<1>12. CASE CountDelivery
  <2>1. callback \in Callbacks
    BY <1>12 DEF CountDelivery, NoCallback
  <2>2. callback' \in Callbacks
    BY <1>12, <2>1 DEF CountDelivery, Proceed, Callbacks, Places
  <2>3. {ok_count', error_count', pending_count', sent_count'} \subseteq Counts
    BY <1>12, <2>1, PlusOneValue, MinusOneValue DEF CountDelivery, CountOutcome, Callbacks
  <2> QED BY <1>12, <2>2, <2>3 DEF CountDelivery, Callbacks, writer, req, history
<1>13. CASE HandleRequestResult
  BY <1>13 DEF HandleRequestResult, Callbacks, NoCallback, writer, message_status, history
<1>14. CASE UNCHANGED vars
  BY <1>14 DEF vars, writer, message_status, req, history, Counts
<1> QED
  BY <1>1, <1>2, <1>3, <1>4, <1>5, <1>6, <1>7, <1>8, <1>9, <1>10, <1>11, <1>12, <1>13, <1>14
  DEF Next, Write, Callback

LEMMA NumberStep == IInv /\ [Next]_vars => Numbered'
<1> SUFFICES ASSUME IInv, [Next]_vars PROVE Numbered'
  OBVIOUS
<1> USE DEF IInv, Typed, TypeOK, Numbered
<1>1. ASSUME NEW qos \in 0..2, BeginWrite(qos) PROVE Numbered'
  BY <1>1, BoundsAssumption DEF BeginWrite, Goto, message_status, req
<1>2. CASE CountPending
  BY <1>2 DEF CountPending, Goto, req, history
<1>3. CASE Send
  <2>1. /\ pc = "send" /\ pc' \in {"sent", "refused"}
        /\ pc' = "sent" => inflight' = inflight \cup {message}
        /\ pc' = "refused" => inflight' = inflight
        /\ UNCHANGED <<message, history>>
        /\ message \in 1..message /\ message \notin published
    BY <1>3 DEF Send, Goto
  <2>2. CASE pc' = "sent"
    BY <2>1, <2>2 DEF history
  <2>3. CASE pc' = "refused"
    BY <2>1, <2>3 DEF history
  <2> QED BY <2>1, <2>2, <2>3
<1>4. CASE Refused
  BY <1>4 DEF Refused, Return, Goto, req
<1>5. CASE CountSent
  BY <1>5 DEF CountSent, Goto, req, history
<1>6. CASE Awake
  BY <1>6 DEF Awake, Return, Goto, message_status
<1>7. CASE GiveUp
  BY <1>7 DEF GiveUp, Return, Goto, message_status, req
<1>8. ASSUME NEW m \in inflight, NEW ok \in BOOLEAN, Answer(m, ok) PROVE Numbered'
  BY <1>8 DEF Answer, writer, message_status, req
<1>9. CASE UNCHANGED <<writer, inflight, history>>
  BY <1>9 DEF writer, history
<1> QED
  BY <1>1, <1>2, <1>3, <1>4, <1>5, <1>6, <1>7, <1>8, <1>9
  DEF Next, Write, Callback, vars, OnWriteResult, CountResult, OnWriteDeliveryResult,
      CountDelivery, HandleRequestResult

(* The steps of a patient writer and of the library.                       *)
LEMMA InStepStep == IInv /\ InStep /\ Patient' /\ [Next]_vars => InStep'
<1> SUFFICES ASSUME IInv, InStep, Patient', [Next]_vars PROVE InStep'
  OBVIOUS
<1> USE DEF IInv, Typed, TypeOK, Numbered, InStep, Still
<1>1. ASSUME NEW qos \in 0..2, BeginWrite(qos) PROVE InStep'
  BY <1>1, BoundsAssumption DEF BeginWrite, Goto, message_status, req
<1>2. CASE CountPending
  BY <1>2, OneIsACount DEF CountPending, Goto, req, history
<1>3. CASE Send
  BY <1>3 DEF Send, Goto, message_status, req, history
<1>4. CASE Refused
  BY <1>4, OneIsACount DEF Refused, Return, Goto, req
<1>5. CASE CountSent
  BY <1>5 DEF CountSent, Goto, req, history, Answering, Answered, Settled
<1>6. CASE Awake
  BY <1>6 DEF Awake, Return, Goto, message_status, Answering, Answered
<1>7. CASE GiveUp
  BY <1>7 DEF GiveUp, Return, Goto, message_status, req, Patient
<1>8. ASSUME NEW m \in inflight, NEW ok \in BOOLEAN, Answer(m, ok) PROVE InStep'
  <2>1. pc \in {"sent", "wait"} /\ m = message /\ pending_count = 1 /\ ~triggered
    BY <1>8 DEF Answer, Answering, Answered
  <2>2. inflight' = {} /\ published' = IF ok THEN published \cup {message} ELSE published
    BY <1>8, <2>1 DEF Answer, Answering, Answered
  <2>3. ok = (message \in published')
    BY <1>8, <2>1, <2>2
  <2>4. /\ callback' = [at |-> "on_write_result", ok |-> ok, qos |-> last_write_qos, seen |-> 0]
        /\ UNCHANGED <<writer, message_status, req>>
    BY <1>8 DEF Answer
  <2>5. Answering'
    BY <2>1, <2>2, <2>3, <2>4 DEF Answering, NoCallback, writer, message_status, req
  <2> QED BY <2>1, <2>4, <2>5 DEF writer
<1>9. ASSUME callback # NoCallback, NEW where \in Places, callback.at = where,
             Answering => (Answering' \/ Answered'), UNCHANGED writer
      PROVE  InStep'
  BY <1>9 DEF writer, Answered
<1>10. CASE OnWriteResult
  <2>1. callback \in Callbacks
    BY <1>10 DEF OnWriteResult, NoCallback
  <2>2. ASSUME Answering PROVE Answering'
    <3>1. callback.at = "on_write_result" /\ pending_count = 1
      BY <1>10, <2>2 DEF OnWriteResult, Answering
    <3> DEFINE next == IF Settled THEN "count_result"
                       ELSE IF callback.qos = 2 THEN "on_write_delivery_result"
                       ELSE "handle"
    <3>a. /\ callback' = [callback EXCEPT !.at = next, !.seen = pending_count]
          /\ UNCHANGED <<writer, message_status, req, inflight, history>>
      BY <1>10 DEF OnWriteResult
    <3>b. next \in Places
      BY DEF Places
    <3> HIDE DEF next
    <3>2. /\ callback'.ok = callback.ok /\ callback'.qos = callback.qos
          /\ callback'.seen = pending_count /\ callback'.at = next
          /\ callback' # NoCallback
      <4>1. callback' = [at |-> next, ok |-> callback.ok, qos |-> callback.qos,
                         seen |-> pending_count]
        BY <3>a, <2>1 DEF Callbacks
      <4>2. next # "none"
        BY <3>b DEF Places
      <4> QED BY <4>1, <4>2 DEF NoCallback
    <3> USE DEF next
    <3>3. CASE Settled
      BY <2>2, <3>1, <3>2, <3>a, <3>3 DEF Answering, Settled, writer, message_status, req, history
    <3>4. CASE ~Settled
      BY <2>2, <3>1, <3>2, <3>a, <3>4 DEF Answering, Settled, writer, message_status, req, history
    <3> QED BY <3>3, <3>4
  <2> QED BY <1>9, <1>10, <2>1, <2>2 DEF OnWriteResult, NoCallback, Places
<1>11. CASE CountResult
  <2>1. callback \in Callbacks
    BY <1>11 DEF CountResult, NoCallback
  <2>2. ASSUME Answering PROVE Answering'
    <3>1. pending_count = 1 /\ callback.seen = 1 /\ Settled
      BY <1>11, <2>2 DEF CountResult, Answering
    <3>2. /\ callback'.ok = callback.ok /\ callback'.qos = callback.qos
          /\ callback'.at = IF callback.qos = 2 THEN "on_write_delivery_result" ELSE "handle"
          /\ callback' # NoCallback
          /\ UNCHANGED <<writer, req, inflight, history>>
      BY <1>11, <2>1 DEF CountResult, Proceed, Callbacks, NoCallback
    <3>3. pending_count' = 0
      BY <1>11, <3>1, OneIsACount DEF CountResult, CountOutcome
    <3> QED BY <2>2, <3>1, <3>2, <3>3 DEF Answering, Settled, writer, req, history
  <2> QED BY <1>9, <1>11, <2>1, <2>2 DEF CountResult, NoCallback, Places
<1>12. CASE OnWriteDeliveryResult
  <2>1. callback \in Callbacks
    BY <1>12 DEF OnWriteDeliveryResult, NoCallback
  <2>2. ASSUME Answering PROVE Answering'
    <3>1. last_write_qos = 2 /\ pending_count = IF callback.ok THEN 1 ELSE 0
      BY <1>12, <2>2 DEF OnWriteDeliveryResult, Answering
    <3>2. UNCHANGED <<writer, message_status, req, inflight, history>>
      BY <1>12 DEF OnWriteDeliveryResult
    <3>3. CASE callback.ok
      <4>1. callback' = [callback EXCEPT !.at = "count_delivery", !.seen = pending_count]
        BY <1>12, <3>1, <3>3 DEF OnWriteDeliveryResult, Delivery
      <4> QED BY <2>1, <2>2, <3>1, <3>2, <3>3, <4>1
          DEF Answering, Callbacks, NoCallback, writer, message_status, req, history
    <3>4. CASE ~callback.ok
      <4>1. callback' = [callback EXCEPT !.at = "handle", !.ok = FALSE]
        BY <1>12, <3>1, <3>4 DEF OnWriteDeliveryResult, Delivery
      <4> QED BY <2>1, <2>2, <3>1, <3>2, <3>4, <4>1
          DEF Answering, Callbacks, NoCallback, writer, message_status, req, history
    <3> QED BY <3>3, <3>4
  <2> QED BY <1>9, <1>12, <2>1, <2>2 DEF OnWriteDeliveryResult, NoCallback, Places
<1>13. CASE CountDelivery
  <2>1. callback \in Callbacks
    BY <1>13 DEF CountDelivery, NoCallback
  <2>2. ASSUME Answering PROVE Answering'
    BY <1>13, <2>1, <2>2, OneIsACount
    DEF CountDelivery, CountOutcome, Proceed, Answering, Callbacks, NoCallback, writer, req, history
  <2> QED BY <1>9, <1>13, <2>1, <2>2 DEF CountDelivery, NoCallback, Places
<1>14. CASE HandleRequestResult
  <2>1. ASSUME Answering PROVE Answered'
    BY <1>14, <2>1
    DEF HandleRequestResult, Answering, Answered, writer, message_status, history
  <2> QED BY <1>9, <1>14, <2>1 DEF HandleRequestResult, NoCallback, Places
<1>15. CASE UNCHANGED vars
  BY <1>15 DEF vars, writer, message_status, req, history, Answering, Answered, Settled
<1> QED
  BY <1>1, <1>2, <1>3, <1>4, <1>5, <1>6, <1>7, <1>8, <1>10, <1>11, <1>12, <1>13, <1>14, <1>15
  DEF Next, Write, Callback

(* The counters: a message that pends is settled once.                     *)
LEMMA BalancedStep == IInv /\ Patient /\ Patient' /\ [Next]_vars => Balanced'
<1> SUFFICES ASSUME IInv, Patient, Patient', [Next]_vars PROVE Balanced'
  OBVIOUS
<1>a. InStep /\ Balanced /\ Typed
  BY DEF IInv
<1>b. {ok_count, error_count, sent_count, pending_count} \subseteq Counts
  BY <1>a DEF Typed, TypeOK
<1> DEFINE counters == <<sent_count, pending_count, ok_count, error_count>>
<1>1. ASSUME NEW qos \in 0..2, BeginWrite(qos) PROVE Balanced'
  BY <1>1, <1>a DEF BeginWrite, Goto, message_status, Balanced, Pends, Outcomes
<1>2. CASE CountPending
  BY <1>2, <1>a DEF CountPending, Goto, Balanced, Pends, Outcomes
<1>3. CASE Send
  <2>1. pending_count = 1
    BY <1>3, <1>a DEF Send, InStep
  <2>2. pc = "send" /\ pc' \in {"sent", "refused"} /\ UNCHANGED message_status
    BY <1>3 DEF Send, Goto
  <2> QED BY <1>a, <2>1, <2>2 DEF Balanced, Pends, Outcomes, message_status
<1>4. CASE Refused
  BY <1>4, <1>a DEF Refused, Return, Goto, Balanced, Pends, Outcomes
<1>5. CASE CountSent
  BY <1>5, <1>a DEF CountSent, Goto, Balanced, Pends, Outcomes
<1>6. CASE Awake
  <2>1. pending_count = 0
    BY <1>6, <1>a DEF Awake, InStep, Answering, Answered
  <2> QED BY <1>6, <1>a, <2>1
      DEF Awake, Return, Goto, message_status, Balanced, Pends, Outcomes
<1>7. CASE GiveUp
  BY <1>7, <1>a DEF GiveUp, Return, Goto, Patient, IInv, Numbered, Typed, TypeOK
<1>8. CASE UNCHANGED <<pc, sent_count, pending_count, ok_count, error_count>>
  BY <1>8, <1>a DEF Balanced, Pends, Outcomes
<1>9. ASSUME CountOutcome, UNCHANGED pc, pc \in {"sent", "wait"},
             pending_count = 1, callback.seen = 1
      PROVE  Balanced'
  <2>1. pending_count' = 0 /\ Pends /\ ~Pends'
    BY <1>9, OneIsACount DEF CountOutcome, Pends
  <2>2. Outcomes' = PlusOne(Outcomes)
    BY <1>b, <1>9, SumPlusOne DEF CountOutcome, Outcomes
  <2> QED BY <1>9, <1>a, <2>1, <2>2 DEF CountOutcome, Balanced
<1>10. CASE CountResult
  BY <1>9, <1>10, <1>a
  DEF CountResult, InStep, Still, Answering, Answered, NoCallback, writer, Typed, TypeOK
<1>11. CASE CountDelivery
  BY <1>9, <1>11, <1>a
  DEF CountDelivery, InStep, Still, Answering, Answered, NoCallback, writer, Typed, TypeOK
<1> QED
  BY <1>1, <1>2, <1>3, <1>4, <1>5, <1>6, <1>7, <1>8, <1>10, <1>11
  DEF Next, Write, Callback, vars, writer, message_status, Answer, OnWriteResult,
      OnWriteDeliveryResult, HandleRequestResult

(* What write() returns. *)
LEMMA TruthfulStep == IInv /\ Patient /\ Patient' /\ [Next]_vars => Truthful'
<1> SUFFICES ASSUME IInv, Patient, Patient', [Next]_vars PROVE Truthful'
  OBVIOUS
<1>a. InStep /\ Truthful /\ Typed /\ Numbered
  BY DEF IInv
<1> USE DEF Truthful, Typed, TypeOK, Numbered
<1>1. ASSUME NEW m \in inflight, NEW ok \in BOOLEAN, Answer(m, ok) PROVE Truthful'
  <2>1. returned[m] = "none"
    BY <1>a, <1>1 DEF Answer, InStep, Still, Answering, Answered
  <2> QED BY <1>a, <1>1, <2>1 DEF Answer
<1>2. CASE Refused
  BY <1>2, <1>a DEF Refused, Return
<1>3. CASE Awake
  <2>1. result = (message \in published)
    BY <1>3, <1>a DEF Awake, InStep, Answering, Answered
  <2> QED BY <1>3, <1>a, <2>1 DEF Awake, Return
<1>4. CASE GiveUp
  BY <1>4, <1>a DEF GiveUp, Return, Patient
<1>5. CASE UNCHANGED <<published, returned>>
  BY <1>5, <1>a
<1> QED
  BY <1>1, <1>2, <1>3, <1>4, <1>5
  DEF Next, Write, Callback, vars, history, BeginWrite, CountPending, Send, CountSent,
      OnWriteResult, CountResult, OnWriteDeliveryResult, CountDelivery, HandleRequestResult

LEMMA NextStep == IInv /\ [Next]_vars => IInv'
<1> SUFFICES ASSUME IInv, [Next]_vars PROVE IInv'
  OBVIOUS
<1>1. Typed' /\ Numbered'
  BY TypeStep, NumberStep
<1>2. ASSUME Patient' PROVE InStep' /\ Balanced' /\ Truthful'
  <2>1. Patient /\ InStep
    BY <1>2, PatienceEnds DEF IInv
  <2> QED BY <1>2, <2>1, InStepStep, BalancedStep, TruthfulStep
<1> QED BY <1>1, <1>2 DEF IInv

-----------------------------------------------------------------------------
(* The composed module only surrounds the steps of the publication.        *)
LEMMA StreamStep == [StreamNext]_allVars => [Next]_vars
<1> SUFFICES ASSUME [StreamNext]_allVars PROVE [Next]_vars
  OBVIOUS
<1>1. CASE UNCHANGED vars
  BY <1>1
<1>2. CASE WriteSample
  BY <1>2 DEF WriteSample, Next, Write
<1>3. CASE SampleDone
  BY <1>3 DEF SampleDone, Next, Write
<1>4. CASE AnswerInTime
  BY <1>4 DEF AnswerInTime, Answers, Next
<1> QED
  BY <1>1, <1>2, <1>3, <1>4
  DEF StreamNext, allVars, BrokerConnection_new, BrokerConnection_delete, create_stream_writer,
      delete_stream_writer, BeginCall, RejectSample, AnswerTooLate

(* A stream writer, with whatever constructors fail around it, implements  *)
(* the publication.                                                        *)
THEOREM StreamImplementsPublication == StreamSpec => Spec
<1>1. StreamInit => Init
  BY DEF StreamInit
<1> QED BY <1>1, StreamStep, PTL DEF StreamSpec, Spec

(* The invariant of the counters holds within a stream writer, since it    *)
(* takes the publication's steps only.                                     *)
THEOREM PublicationInvariant == StreamSpec => []IInv
<1>1. Spec => []IInv
  BY InitIInv, NextStep, PTL DEF Spec
<1> QED BY <1>1, StreamImplementsPublication, PTL

(* Until a write times out the counters settle between two writes, for any *)
(* number of messages and counters of any width.                           *)
THEOREM CountersSettle == StreamSpec => []CountsSettle
<1>1. IInv => CountsSettle
  BY DEF IInv, InStep, Balanced, Pends, Outcomes, Sum, CountsSettle, Quiet
<1> QED BY <1>1, PublicationInvariant, PTL

(* Until a write times out write() returns OK for exactly the messages     *)
(* that were published.                                                    *)
THEOREM WritesAreTruthful == StreamSpec => []WriteTellsTheTruth
<1>1. IInv => WriteTellsTheTruth
  BY DEF IInv, Truthful, WriteTellsTheTruth
<1> QED BY <1>1, PublicationInvariant, PTL

-----------------------------------------------------------------------------
(* Around the writes: a call works on the messages from first on, of which *)
(* the first written_messages returned OK; the publication of a call lives.*)
CallTyped ==
  /\ batch \in Nat /\ written_messages \in Nat /\ first \in Nat \ {0}
  /\ ended \in [first : Nat \ {0}, last : Nat, count : Nat]
  /\ publication \in [Writers -> {"none", "alive", Free}]

CallLives ==
  /\ batch = 0 => pc = "idle"
  /\ publication[Observed] # "alive" => batch = 0

CallUnderWay ==
  batch > 0 =>
    /\ message = first + written_messages - (IF pc = "idle" THEN 1 ELSE 0)
    /\ \A m \in first .. first + written_messages - 1 : returned[m] = "OK"

CallEnded ==
  \A m \in ended.first .. ended.last :
    /\ m <= message /\ returned[m] # "none"
    /\ returned[m] = "OK" <=> m < ended.first + ended.count

SInv == CallTyped /\ CallLives /\ CallUnderWay /\ CallEnded /\ AnswersFindTheirPublication

LEMMA InitSInv == StreamInit => SInv
  BY ObservedAssumption
  DEF StreamInit, Init, SInv, CallTyped, CallLives, CallUnderWay, CallEnded,
      AnswersFindTheirPublication

(* Steps that leave the call and the writer alone.                         *)
LEMMA OutsideCall ==
  ASSUME SInv, UNCHANGED <<call, pc, message, returned>>, CallTyped',
         publication'[Observed] = publication[Observed] \/ batch = 0,
         AnswersFindTheirPublication'
  PROVE  SInv'
<1>1. CallLives' /\ CallUnderWay' /\ CallEnded'
  BY DEF SInv, CallLives, CallUnderWay, CallEnded, call
<1> QED BY <1>1 DEF SInv

(* The writer's own steps, from one message to the next.                   *)
LEMMA WriteSampleStep == IInv /\ SInv /\ WriteSample => SInv'
<1> SUFFICES ASSUME IInv, SInv, WriteSample PROVE SInv'
  OBVIOUS
<1>1. /\ batch > 0 /\ UNCHANGED <<lifecycle, call, undefined, returned>>
      /\ \/ pc = "idle" /\ pc' # "idle" /\ message' = message + 1
         \/ pc # "idle" /\ pc' # "idle" /\ message' = message
  BY DEF WriteSample, BeginWrite, CountPending, Send, CountSent, Goto, history
<1>2. CallTyped' /\ CallLives' /\ CallUnderWay' /\ message' >= message
  BY <1>1 DEF SInv, CallTyped, CallLives, CallUnderWay, call, lifecycle, IInv, Typed, TypeOK
<1>3. CallEnded'
  BY <1>1, <1>2 DEF SInv, CallEnded, CallTyped, call, IInv, Typed, TypeOK
<1>4. AnswersFindTheirPublication'
  BY <1>1 DEF SInv, AnswersFindTheirPublication, Patient
<1> QED BY <1>2, <1>3, <1>4 DEF SInv

(* A call that has ended is that of the messages from first to the last.   *)
LEMMA SampleDoneStep == IInv /\ SInv /\ SampleDone => SInv'
<1> SUFFICES ASSUME IInv, SInv, SampleDone PROVE SInv'
  OBVIOUS
<1> DEFINE ok == returned'[message] = "OK"
           count == written_messages + IF ok THEN 1 ELSE 0
<1>1. /\ pc # "idle" /\ pc' = "idle" /\ UNCHANGED <<message, lifecycle, undefined>>
      /\ \E what \in {"OK", "ERROR", "TIMEOUT"} :
           returned' = [returned EXCEPT ![message] = what]
  BY DEF SampleDone, Awake, GiveUp, Refused, Return, Goto
<1>2. /\ message \in 1 .. MaxWrites /\ returned[message] = "none"
      /\ returned'[message] # "none"
      /\ \A m \in 1 .. MaxWrites : m # message => returned'[m] = returned[m]
  BY <1>1 DEF IInv, Numbered, Typed, TypeOK
<1>3. /\ batch > 0 /\ message = first + written_messages
      /\ \A m \in first .. message - 1 : returned'[m] = "OK"
  BY <1>1, <1>2, BoundsAssumption DEF SInv, CallLives, CallUnderWay, CallTyped
<1>4. AnswersFindTheirPublication'
  BY <1>1, <1>2 DEF SInv, AnswersFindTheirPublication, Patient
<1>5. \A m \in ended.first .. ended.last :
        m <= message /\ returned'[m] # "none" /\ returned'[m] = returned[m]
  BY <1>2, BoundsAssumption DEF SInv, CallEnded, CallTyped
<1>6. CASE GoesOn /\ written_messages' = count /\ UNCHANGED <<batch, first, ended>>
  <2>1. ok
    BY <1>6 DEF GoesOn
  <2>2. CallTyped' /\ CallLives'
    BY <1>1, <1>3, <1>6 DEF SInv, CallTyped, CallLives, lifecycle
  <2>3. CallUnderWay'
    BY <1>1, <1>3, <1>6, <2>1 DEF SInv, CallUnderWay, CallTyped
  <2>4. CallEnded'
    BY <1>1, <1>5, <1>6 DEF SInv, CallEnded
  <2> QED BY <1>4, <2>2, <2>3, <2>4 DEF SInv
<1>7. CASE EndCall(message, count)
  <2>1. count \in Nat
    BY DEF SInv, CallTyped
  <2> HIDE DEF count
  <2>2. CallTyped' /\ CallLives' /\ CallUnderWay'
    BY <1>1, <1>2, <1>7, <2>1 DEF EndCall, SInv, CallTyped, CallLives, CallUnderWay, lifecycle
  <2>3. \A m \in first .. message : returned'[m] # "none" /\ (returned'[m] = "OK" <=> m < first + count)
    BY <1>2, <1>3 DEF count, SInv, CallTyped
  <2>4. CallEnded'
    BY <1>1, <1>2, <1>7, <2>3 DEF EndCall, CallEnded, SInv, CallTyped
  <2> QED BY <1>4, <2>2, <2>4 DEF SInv
<1> QED BY <1>6, <1>7 DEF SampleDone

LEMMA SInvStep == IInv /\ SInv /\ [StreamNext]_allVars => SInv'
<1> SUFFICES ASSUME IInv, SInv, [StreamNext]_allVars PROVE SInv'
  OBVIOUS
<1>a. CallTyped /\ CallLives /\ AnswersFindTheirPublication
  BY DEF SInv
<1> DEFINE Same == UNCHANGED <<call, pc, message, returned>>
<1>1. ASSUME NEW fails, BrokerConnection_new(fails) PROVE SInv'
  <2>1. Same /\ CallTyped' /\ publication' = publication
    BY <1>1, <1>a DEF BrokerConnection_new, call, vars, writer, history, CallTyped
  <2>2. AnswersFindTheirPublication'
    BY <1>1, <2>1, <1>a
    DEF BrokerConnection_new, BeforeLists, Runs, AnswersFindTheirPublication, Patient
  <2> QED BY <2>1, <2>2, OutsideCall
<1>2. CASE BrokerConnection_delete
  <2>1. Same /\ CallTyped' /\ batch = 0
    BY <1>2, <1>a
    DEF BrokerConnection_delete, Between, Finalized, call, vars, writer, history, CallTyped
  <2>2. AnswersFindTheirPublication'
    BY <1>2, <1>a, <2>1 DEF BrokerConnection_delete, AnswersFindTheirPublication, Patient
  <2> QED BY <2>1, <2>2, OutsideCall
<1>3. ASSUME NEW w \in Writers,
             NEW fails \in {"nothing", "stream", "config", "publication", "client list",
                            "request", "writer list"},
             create_stream_writer(w, fails)
      PROVE  SInv'
  <2>1. Same /\ batch = 0 /\ Runs
    BY <1>3 DEF create_stream_writer, Between, call, vars, writer, history
  <2>2. /\ \/ publication' = publication
           \/ publication' = [publication EXCEPT ![w] = "alive"]
           \/ publication' = [publication EXCEPT ![w] = Free]
        /\ undefined' \in {undefined, "request of no publication"}
    <3>1. CASE fails = "nothing"
      BY <1>3, <3>1 DEF create_stream_writer
    <3>2. CASE fails = "publication"
      BY <1>3, <3>2 DEF create_stream_writer
    <3>3. CASE fails \in {"stream", "config"}
      BY <1>3, <3>3 DEF create_stream_writer
    <3>4. CASE fails \in {"client list", "request", "writer list"}
      BY <1>3, <3>4 DEF create_stream_writer
    <3> QED BY <3>1, <3>2, <3>3, <3>4
  <2>3. CallTyped'
    BY <1>a, <2>1, <2>2 DEF CallTyped, call
  <2>4. AnswersFindTheirPublication'
    BY <1>a, <2>1, <2>2 DEF Runs, AnswersFindTheirPublication, Patient
  <2> QED BY <2>1, <2>3, <2>4, OutsideCall
<1>4. ASSUME NEW w \in Writers, delete_stream_writer(w) PROVE SInv'
  <2>1. Same /\ CallTyped' /\ batch = 0
    BY <1>4, <1>a
    DEF delete_stream_writer, Between, call, vars, writer, history, CallTyped
  <2>2. AnswersFindTheirPublication'
    BY <1>4, <1>a, <2>1 DEF delete_stream_writer, AnswersFindTheirPublication, Patient
  <2> QED BY <2>1, <2>2, OutsideCall
<1>5. ASSUME NEW n \in 1 .. MaxBatch, BeginCall(n) PROVE SInv'
  <2>1. /\ batch' = n /\ written_messages' = 0 /\ first' = message + 1 /\ pc = "idle"
        /\ Live(Observed)
        /\ UNCHANGED <<ended, pc, message, returned, publication, undefined>>
    BY <1>5 DEF BeginCall, Between, lifecycle, vars, writer, history
  <2>2. CallTyped' /\ CallLives' /\ CallUnderWay'
    BY <1>5, <1>a, <2>1, ObservedAssumption
    DEF CallTyped, CallLives, CallUnderWay, IInv, Typed, TypeOK, Live
  <2>3. CallEnded' /\ AnswersFindTheirPublication'
    BY <2>1 DEF SInv, CallEnded, AnswersFindTheirPublication, Patient
  <2> QED BY <2>2, <2>3 DEF SInv
<1>6. CASE RejectSample
  <2>1. /\ batch > 0 /\ pc = "idle" /\ EndCall(message, written_messages)
        /\ UNCHANGED <<pc, message, returned, publication, undefined>>
    BY <1>6 DEF RejectSample, lifecycle, vars, writer, history
  <2>2. CallTyped' /\ CallLives' /\ CallUnderWay'
    BY <1>a, <2>1
    DEF CallTyped, CallLives, CallUnderWay, IInv, Typed, TypeOK, EndCall
  <2>3. CallEnded'
    BY <2>1 DEF SInv, CallEnded, CallUnderWay, CallTyped, EndCall
  <2>4. AnswersFindTheirPublication'
    BY <1>a, <2>1 DEF AnswersFindTheirPublication, Patient
  <2> QED BY <2>2, <2>3, <2>4 DEF SInv
<1>7. CASE WriteSample
  BY <1>7, WriteSampleStep
<1>8. CASE SampleDone
  BY <1>8, SampleDoneStep
<1>9. CASE AnswerInTime
  <2>1. Same /\ UNCHANGED <<publication, undefined>>
    BY <1>9
    DEF AnswerInTime, Answers, Callback, Answer, OnWriteResult, CountResult, OnWriteDeliveryResult,
        CountDelivery, HandleRequestResult, writer, history, lifecycle
  <2>2. CallTyped' /\ AnswersFindTheirPublication'
    BY <1>a, <2>1 DEF CallTyped, call, AnswersFindTheirPublication, Patient
  <2> QED BY <2>1, <2>2, OutsideCall
<1>10. CASE AnswerTooLate
  <2>1. Same /\ UNCHANGED <<publication, inflight, callback>>
    BY <1>10 DEF AnswerTooLate, lifecycle, vars, writer, history
  <2>2. pc = "idle" /\ ~(inflight = {} /\ callback = NoCallback)
    BY <1>10, <1>a DEF AnswerTooLate, CallLives, Free
  <2>3. ~Patient
    BY <2>2 DEF IInv, InStep, Still
  <2>4. CallTyped' /\ AnswersFindTheirPublication'
    BY <1>a, <2>1, <2>3 DEF CallTyped, call, AnswersFindTheirPublication, Patient
  <2> QED BY <2>1, <2>4, OutsideCall
<1>11. CASE UNCHANGED allVars
  BY <1>11, <1>a, OutsideCall
  DEF allVars, vars, writer, history, lifecycle, call, CallTyped, AnswersFindTheirPublication, Patient
<1> QED
  BY <1>1, <1>2, <1>3, <1>4, <1>5, <1>6, <1>7, <1>8, <1>9, <1>10, <1>11 DEF StreamNext

LEMMA StreamInvariant == StreamSpec => [](IInv /\ SInv)
<1>1. StreamInit => SInv
  BY InitSInv
<1> QED BY <1>1, SInvStep, PublicationInvariant, PTL DEF StreamSpec

(* The count that a call returns is that of its first samples, which were  *)
(* published, and no other was, while no write times out.                  *)
THEOREM CallsCountPublished == StreamSpec => []CountIsPublished
<1>1. IInv /\ SInv => CountIsPublished
  <2> SUFFICES ASSUME IInv, SInv, Patient, NEW m \in ended.first .. ended.last
               PROVE  m \in published <=> m < ended.first + ended.count
    BY DEF CountIsPublished
  <2>1. m <= message /\ returned[m] # "none"
    BY DEF SInv, CallEnded
  <2>2. message \in 0 .. MaxWrites /\ MaxWrites \in Nat
    BY BoundsAssumption DEF IInv, Typed, TypeOK
  <2>3. ended.first \in Nat \ {0} /\ ended.last \in Nat
    BY DEF SInv, CallTyped
  <2>4. m \in 1 .. MaxWrites
    BY <2>1, <2>2, <2>3
  <2> QED BY <2>1, <2>4 DEF IInv, Truthful, SInv, CallEnded
<1> QED BY <1>1, StreamInvariant, PTL

(* No answer of the library finds a deleted publication, while no write    *)
(* times out.                                                              *)
THEOREM NoLateAnswer == StreamSpec => []AnswersFindTheirPublication
<1>1. SInv => AnswersFindTheirPublication
  BY DEF SInv
<1> QED BY <1>1, StreamInvariant, PTL

-----------------------------------------------------------------------------
(* Messages of QoS 0 and 1 are settled by on_write_result alone, however   *)
(* many are in flight.  A number has one residue.                          *)
LEMMA Residue ==
  ASSUME NEW q \in Nat, NEW r \in Counts
  PROVE  (CounterModulus * q + r) % CounterModulus = r
<1> DEFINE x == CounterModulus * q + r
           p == x \div CounterModulus
           t == x % CounterModulus
<1>1. x \in Nat
  BY BoundsAssumption DEF Counts
<1>2. p \in Nat /\ t \in Counts /\ x = CounterModulus * p + t
  BY <1>1, BoundsAssumption DEF Counts
<1>3. CounterModulus * (q - p) = t - r
  BY <1>2, BoundsAssumption DEF Counts
<1>4. q = p
  <2> HIDE DEF x, p, t
  <2>1. t - r < CounterModulus /\ t - r > -CounterModulus
    BY <1>2, BoundsAssumption DEF Counts
  <2>2. CASE q - p >= 1
    BY <2>1, <2>2, <1>2, <1>3, BoundsAssumption DEF Counts
  <2>3. CASE q - p <= -1
    BY <2>1, <2>3, <1>2, <1>3, BoundsAssumption DEF Counts
  <2> QED BY <2>2, <2>3, <1>2
<1> QED
  <2> HIDE DEF p
  <2> QED BY <1>2, <1>4, BoundsAssumption DEF Counts

Congruent(x, y) == \E q \in Int : x = y + CounterModulus * q

LEMMA StillCongruent ==
  ASSUME NEW x \in Int, NEW y \in Int, NEW d \in {0, 1}, Congruent(x, y),
         NEW a \in {x + d, x + d - CounterModulus},
         NEW b \in {y + d, y + d - CounterModulus}
  PROVE  Congruent(a, b)
<1>1. PICK q \in Int : x = y + CounterModulus * q
  BY DEF Congruent
<1>2. a - b \in {CounterModulus * q, CounterModulus * (q - 1), CounterModulus * (q + 1)}
  BY <1>1, BoundsAssumption
<1>3. a \in Int /\ b \in Int /\ q - 1 \in Int /\ q + 1 \in Int
  BY <1>1, BoundsAssumption
<1>4. \E r \in {q, q - 1, q + 1} : a = b + CounterModulus * r
  BY <1>2, <1>3, BoundsAssumption
<1> QED BY <1>3, <1>4 DEF Congruent

LEMMA CongruentResidue ==
  ASSUME NEW x \in Nat, NEW y \in Counts, Congruent(x, y)
  PROVE  y = x % CounterModulus
<1>1. PICK q \in Int : x = y + CounterModulus * q
  BY DEF Congruent
<1>2. q >= 0
  BY <1>1, BoundsAssumption DEF Counts
<1>3. x = CounterModulus * q + y /\ q \in Nat
  BY <1>1, <1>2, BoundsAssumption DEF Counts
<1> QED BY <1>3, Residue

Unsettled == IF callback # NoCallback /\ callback.at # "handle" THEN 1 ELSE 0
Accounted == ok_count + error_count + (Cardinality(inflight) + Unsettled)
Sent == sent_count + (IF pc = "sent" THEN 1 ELSE 0)

Light ==
  /\ last_write_qos \in {0, 1}
  /\ callback # NoCallback =>
       callback.qos # 2 /\ callback.at \in {"on_write_result", "count_result", "handle"}

LightInv == ~qos2_used => Light /\ Congruent(Accounted, Sent)

LEMMA InflightFinite == IInv => IsFiniteSet(inflight) /\ Cardinality(inflight) \in Nat
<1> SUFFICES ASSUME IInv PROVE IsFiniteSet(inflight) /\ Cardinality(inflight) \in Nat
  OBVIOUS
<1>1. inflight \in SUBSET (1..MaxWrites) /\ IsFiniteSet(1..MaxWrites)
  BY FS_Interval, BoundsAssumption DEF IInv, Typed, TypeOK
<1>2. IsFiniteSet(inflight)
  BY <1>1, FS_Subset
<1> QED BY <1>2, FS_CardinalityType

LEMMA LightStep == IInv /\ LightInv /\ [Next]_vars => LightInv'
<1> SUFFICES ASSUME IInv, LightInv, [Next]_vars, ~qos2_used'
             PROVE  Light' /\ Congruent(Accounted', Sent')
  BY DEF LightInv
<1>a. Typed /\ Numbered
  BY DEF IInv
<1>b. IsFiniteSet(inflight) /\ Cardinality(inflight) \in Nat
  BY InflightFinite
<1>c. /\ ok_count \in Counts /\ error_count \in Counts /\ sent_count \in Counts
      /\ Counts \subseteq Nat /\ Unsettled \in {0, 1}
  BY <1>a, BoundsAssumption DEF Typed, TypeOK, Counts, Unsettled
<1>d. ~qos2_used
  BY DEF Next, Write, Callback, vars, history, BeginWrite, CountPending, Send, Refused, CountSent,
         Awake, GiveUp, Return, Answer, OnWriteResult, CountResult, OnWriteDeliveryResult,
         CountDelivery, HandleRequestResult
<1>e. Light /\ Congruent(Accounted, Sent) /\ Accounted \in Nat /\ Sent \in Nat
  BY <1>b, <1>c, <1>d DEF LightInv, Accounted, Sent
<1>1. ASSUME NEW qos \in 0..2, BeginWrite(qos) PROVE Light' /\ Congruent(Accounted', Sent')
  <2>1. qos # 2
    BY <1>1 DEF BeginWrite
  <2>2. /\ last_write_qos' \in {0, 1} /\ pc = "idle" /\ pc' = "count"
        /\ UNCHANGED <<message_status, inflight, callback>>
    BY <1>1, <2>1 DEF BeginWrite, Goto
  <2> QED BY <1>e, <2>2 DEF message_status, Light, Accounted, Sent, Unsettled
<1>2. CASE Send
  <2>1. CASE inflight' = inflight \cup {message} /\ Goto("sent")
    <3>1. Cardinality(inflight') = Cardinality(inflight) + 1
      BY <1>2, <2>1, <1>a, <1>b, FS_AddElement DEF Send, Numbered
    <3>2. Accounted' = Accounted + 1 /\ Sent' = Sent + 1
      BY <1>2, <1>b, <1>c, <2>1, <3>1
      DEF Send, Goto, message_status, Accounted, Sent, Unsettled
    <3>3. Congruent(Accounted', Sent')
      BY <1>e, <3>2, StillCongruent
    <3> QED BY <1>2, <1>e, <3>3 DEF Send, Light
  <2>2. CASE inflight' = inflight /\ Goto("refused")
    BY <1>2, <1>e, <2>2 DEF Send, Goto, message_status, Light, Accounted, Sent, Unsettled
  <2> QED BY <1>2, <2>1, <2>2 DEF Send
<1>3. CASE CountSent
  <2>1. /\ Accounted' = Accounted /\ pc = "sent" /\ pc' = "wait" /\ Light'
        /\ sent_count' = PlusOne(sent_count)
    BY <1>3, <1>e DEF CountSent, Goto, Accounted, Unsettled, Light
  <2>2. Sent' \in {Sent + 0, Sent + 0 - CounterModulus}
    BY <2>1, <1>c, PlusOneValue, BoundsAssumption DEF Sent
  <2>3. Accounted' \in {Accounted + 0, Accounted + 0 - CounterModulus}
    BY <2>1, <1>e
  <2> QED BY <1>e, <2>1, <2>2, <2>3, StillCongruent
<1>4. ASSUME NEW m \in inflight, NEW ok \in BOOLEAN, Answer(m, ok)
      PROVE  Light' /\ Congruent(Accounted', Sent')
  <2>1. Cardinality(inflight') = Cardinality(inflight) - 1
    BY <1>4, <1>b, FS_RemoveElement DEF Answer
  <2>2. Light' /\ Unsettled = 0 /\ Unsettled' = 1
    BY <1>4, <1>e DEF Answer, Light, Unsettled, NoCallback, writer
  <2>3. Accounted' = Accounted /\ Sent' = Sent
    BY <1>4, <1>b, <1>c, <2>1, <2>2 DEF Answer, Accounted, Sent, writer, message_status
  <2> QED BY <1>e, <2>2, <2>3
<1>5. CASE OnWriteResult
  <2>1. callback \in Callbacks /\ callback # NoCallback
    BY <1>5, <1>a DEF OnWriteResult, NoCallback, Typed
  <2>2. Settled
    BY <1>e DEF Settled, Light
  <2>3. callback' = [callback EXCEPT !.at = "count_result", !.seen = pending_count]
    BY <1>5, <2>2 DEF OnWriteResult
  <2>4. callback' # NoCallback /\ callback'.at = "count_result" /\ callback'.qos = callback.qos
    BY <2>1, <2>3 DEF Callbacks, NoCallback
  <2>5. Light' /\ Unsettled' = Unsettled
    BY <1>5, <1>e, <2>1, <2>4 DEF OnWriteResult, Light, Unsettled, writer
  <2> QED BY <1>5, <1>e, <2>5 DEF OnWriteResult, Accounted, Sent, writer, message_status
<1>6. CASE CountResult
  <2>1. callback \in Callbacks /\ callback # NoCallback
    BY <1>6, <1>a DEF CountResult, NoCallback, Typed
  <2>2. callback' = [callback EXCEPT !.at = "handle"]
    BY <1>6, <1>e, <2>1 DEF CountResult, Proceed, Light
  <2>3. callback' # NoCallback /\ callback'.at = "handle" /\ callback'.qos = callback.qos
    BY <2>1, <2>2 DEF Callbacks, NoCallback
  <2>4. Light' /\ Unsettled = 1 /\ Unsettled' = 0
    BY <1>6, <1>e, <2>1, <2>3 DEF CountResult, Light, Unsettled, writer
  <2>5. /\ Sent' = Sent /\ inflight' = inflight
        /\ \/ ok_count' = PlusOne(ok_count) /\ error_count' = error_count
           \/ ok_count' = ok_count /\ error_count' = PlusOne(error_count)
    BY <1>6 DEF CountResult, CountOutcome, Sent, writer
  <2>6. Accounted' \in {Accounted + 0, Accounted + 0 - CounterModulus}
    BY <1>b, <1>c, <2>4, <2>5, PlusOneValue, BoundsAssumption DEF Accounted
  <2>7. Sent' \in {Sent + 0, Sent + 0 - CounterModulus}
    BY <2>5, <1>e
  <2> QED BY <1>e, <2>4, <2>6, <2>7, StillCongruent
<1>7. CASE HandleRequestResult
  BY <1>7, <1>e
  DEF HandleRequestResult, Light, Accounted, Sent, Unsettled, NoCallback, writer, message_status
<1>8. CASE /\ UNCHANGED <<last_write_qos, sent_count, ok_count, error_count, inflight, callback>>
           /\ pc # "sent" /\ pc' # "sent"
  BY <1>8, <1>e DEF Light, Accounted, Sent, Unsettled
<1>9. CASE UNCHANGED vars
  BY <1>9, <1>e
  DEF vars, writer, message_status, Light, Accounted, Sent, Unsettled
<1>10. ~OnWriteDeliveryResult /\ ~CountDelivery
  BY <1>e DEF Light, OnWriteDeliveryResult, CountDelivery, NoCallback
<1> QED
  BY <1>1, <1>2, <1>3, <1>4, <1>5, <1>6, <1>7, <1>8, <1>9, <1>10
  DEF Next, Write, Callback, CountPending, Refused, Awake, GiveUp, Return, Goto, message_status

(* For QoS 0 and 1 every message sent is a success, a failure or not yet   *)
(* answered, however many writes time out and however late the answers.    *)
THEOREM AnswersAreCounted == StreamSpec => []EveryAnswerCounted
<1>1. Init => LightInv
  <2> SUFFICES ASSUME Init PROVE Light /\ Congruent(Accounted, Sent)
    BY DEF LightInv
  <2>1. Accounted = 0 /\ Sent = 0 /\ Light
    BY FS_EmptySet DEF Init, Accounted, Sent, Unsettled, Light
  <2>2. 0 = 0 + CounterModulus * 0
    BY BoundsAssumption
  <2> QED BY <2>1, <2>2 DEF Congruent
<1>2. Spec => []LightInv
  BY <1>1, InitIInv, NextStep, LightStep, PTL DEF Spec
<1>3. IInv /\ LightInv => EveryAnswerCounted
  <2> SUFFICES ASSUME IInv, LightInv, Quiet, ~qos2_used
               PROVE  sent_count = (ok_count + error_count + Cardinality(inflight)) % CounterModulus
    BY DEF EveryAnswerCounted
  <2> DEFINE x == ok_count + error_count + Cardinality(inflight)
  <2>1. x \in Nat /\ sent_count \in Counts
    BY InflightFinite, BoundsAssumption DEF IInv, Typed, TypeOK, Counts
  <2>2. Accounted = x /\ Sent = sent_count
    BY <2>1, InflightFinite, BoundsAssumption
    DEF Quiet, Accounted, Sent, Unsettled, IInv, Typed, TypeOK, Counts
  <2>3. Congruent(x, sent_count)
    BY <2>2 DEF LightInv
  <2> HIDE DEF x
  <2>4. sent_count = x % CounterModulus
    BY <2>1, <2>3, CongruentResidue
  <2> QED BY <2>4 DEF x
<1> QED BY <1>2, <1>3, PublicationInvariant, StreamImplementsPublication, PTL
-----------------------------------------------------------------------------
(* Lists from which the first occurrence of an element is removed.         *)
Below == {pair \in Nat \X Nat : pair[1] < pair[2]}

LEMMA BelowIsWellFounded == IsWellFoundedOn(Below, Nat)
<1>1. Below = OpToRel(<, Nat)
  BY Zenon DEF Below, OpToRel
<1> QED BY <1>1, NatLessThanWellFounded

LEMMA SmallestExists ==
  ASSUME NEW I, I \subseteq Nat, I # {}
  PROVE  \E i \in I : \A j \in I : i <= j
<1>1. PICK i \in I : \A j \in I : <<j, i>> \notin Below
  BY Zenon, BelowIsWellFounded, WFMin
<1>2. ASSUME NEW j \in I PROVE i <= j
  <2>1. <<j, i>> \notin Below /\ i \in Nat /\ j \in Nat
    BY <1>1, <1>2
  <2>2. ~(j < i)
    BY <2>1 DEF Below
  <2> QED BY <2>1, <2>2
<1> QED BY <1>2

LEMMA RemoveFirstTakesOne ==
  ASSUME NEW S, NEW s \in Seq(S), NEW e, Contains(s, e)
  PROVE  \E i \in 1 .. Len(s) : s[i] = e /\ RemoveFirst(s, e) = RemoveAt(s, i)
<1> DEFINE I == {i \in 1 .. Len(s) : s[i] = e}
<1>1. PICK i \in I : \A j \in I : i <= j
  <2>1. I \subseteq Nat /\ I # {}
    BY DEF Contains
  <2> QED BY <2>1, SmallestExists
<1>2. SelectInSeq(s, LAMBDA v : v = e) \in I
  <2>1. Min(I) \in I
    BY <1>1 DEF Min
  <2> QED BY <1>1, <2>1, Zenon DEF SelectInSeq
<1>3. RemoveFirst(s, e) = RemoveAt(s, SelectInSeq(s, LAMBDA v : v = e))
  BY Zenon DEF RemoveFirst, Contains
<1> QED BY <1>2, <1>3, Zenon

LEMMA RemoveAtMovesUp ==
  ASSUME NEW S, NEW s \in Seq(S), NEW i \in 1 .. Len(s)
  PROVE  /\ RemoveAt(s, i) \in Seq(S)
         /\ Len(RemoveAt(s, i)) = Len(s) - 1
         /\ \A j \in 1 .. Len(s) - 1 : RemoveAt(s, i)[j] = s[IF j < i THEN j ELSE j + 1]
<1> DEFINE a == SubSeq(s, 1, i - 1)
           b == SubSeq(s, i + 1, Len(s))
           m == Len(s)
<1>0. m \in Nat /\ i \in Nat /\ i >= 1 /\ i <= m
  OBVIOUS
<1>1. a \in Seq(S) /\ Len(a) = i - 1 /\ \A j \in 1 .. i - 1 : a[j] = s[j]
  BY <1>0
<1>2. b \in Seq(S) /\ Len(b) = m - i /\ \A j \in 1 .. m - i : b[j] = s[i + j]
  <2>1. b \in Seq(S) /\ Len(b) = m - i
    BY <1>0
  <2>2. \A j \in 1 .. m - i : b[j] = s[(i + 1) + j - 1]
    BY <1>0
  <2>3. \A j \in 1 .. m - i : (i + 1) + j - 1 = i + j
    BY <1>0
  <2> QED BY <2>1, <2>2, <2>3
<1> HIDE DEF a, b
<1>3. /\ a \o b \in Seq(S) /\ Len(a \o b) = m - 1
      /\ \A j \in 1 .. m - 1 : (a \o b)[j] = IF j <= i - 1 THEN a[j] ELSE b[j - (i - 1)]
  <2>1. /\ a \o b \in Seq(S) /\ Len(a \o b) = Len(a) + Len(b)
        /\ \A j \in 1 .. Len(a) + Len(b) : (a \o b)[j] = IF j <= Len(a) THEN a[j] ELSE b[j - Len(a)]
    BY <1>1, <1>2, ConcatProperties
  <2>2. Len(a) + Len(b) = m - 1
    BY <1>0, <1>1, <1>2
  <2> QED BY <1>1, <2>1, <2>2
<1>4. ASSUME NEW j \in 1 .. m - 1 PROVE (a \o b)[j] = s[IF j < i THEN j ELSE j + 1]
  <2>1. CASE j < i
    <3>1. j <= i - 1 /\ j \in 1 .. i - 1
      BY <1>0, <2>1
    <3> QED BY <1>1, <1>3, <2>1, <3>1
  <2>2. CASE ~(j < i)
    <3>1. ~(j <= i - 1) /\ j - (i - 1) \in 1 .. m - i /\ i + (j - (i - 1)) = j + 1
      BY <1>0, <2>2
    <3> QED BY <1>2, <1>3, <2>2, <3>1
  <2> QED BY <2>1, <2>2
<1> QED BY <1>3, <1>4 DEF RemoveAt, a, b

(* A list without repetitions loses exactly the element.                   *)
LEMMA RemoveFirstFacts ==
  ASSUME NEW S, NEW s \in Seq(S), NEW e, Contains(s, e), IsInjective(s)
  PROVE  /\ RemoveFirst(s, e) \in Seq(S)
         /\ Len(RemoveFirst(s, e)) = Len(s) - 1
         /\ IsInjective(RemoveFirst(s, e))
         /\ ToSet(RemoveFirst(s, e)) = ToSet(s) \ {e}
<1>1. PICK i \in 1 .. Len(s) : s[i] = e /\ RemoveFirst(s, e) = RemoveAt(s, i)
  BY RemoveFirstTakesOne
<1> DEFINE r == RemoveFirst(s, e)
           m == Len(s)
           from(j) == IF j < i THEN j ELSE j + 1
<1>2. /\ r \in Seq(S) /\ Len(r) = m - 1
      /\ \A j \in 1 .. m - 1 : r[j] = s[from(j)]
  BY <1>1, RemoveAtMovesUp
<1>3. /\ m \in Nat /\ i \in 1 .. m /\ DOMAIN s = 1 .. m /\ DOMAIN r = 1 .. m - 1
      /\ \A a, b \in 1 .. m : s[a] = s[b] => a = b
  <2>1. m \in Nat /\ DOMAIN s = 1 .. m /\ i \in 1 .. m
    OBVIOUS
  <2>2. DOMAIN r = 1 .. Len(r)
    BY <1>2
  <2> QED BY <1>2, <2>1, <2>2 DEF IsInjective
<1>4. /\ \A j \in 1 .. m - 1 : from(j) \in 1 .. m /\ from(j) # i
      /\ \A j, k \in 1 .. m - 1 : from(j) = from(k) => j = k
      /\ \A k \in 1 .. m : k # i => \E j \in 1 .. m - 1 : from(j) = k
  <2>1. ASSUME NEW k \in 1 .. m, k # i PROVE \E j \in 1 .. m - 1 : from(j) = k
    <3>1. CASE k < i
      <4>1. k \in 1 .. m - 1 /\ from(k) = k
        BY <1>3, <3>1
      <4> QED BY <4>1
    <3>2. CASE k > i
      <4>1. k - 1 \in 1 .. m - 1 /\ from(k - 1) = k
        BY <1>3, <3>2
      <4> QED BY <4>1
    <3> QED BY <1>3, <2>1, <3>1, <3>2
  <2>2. \A j \in 1 .. m - 1 : from(j) \in 1 .. m /\ from(j) # i
    BY <1>3
  <2>3. \A j, k \in 1 .. m - 1 : from(j) = from(k) => j = k
    BY <1>3
  <2> QED BY <2>1, <2>2, <2>3
<1> HIDE DEF r, from
<1>5. \A j, k \in 1 .. m - 1 : r[j] = r[k] => j = k
  BY <1>2, <1>3, <1>4
<1>6. ASSUME NEW x PROVE x \in ToSet(r) <=> x \in ToSet(s) /\ x # e
  <2>1. ASSUME NEW j \in 1 .. m - 1, x = r[j] PROVE x \in ToSet(s) /\ x # e
    BY <1>1, <1>2, <1>3, <1>4, <2>1 DEF ToSet
  <2>2. ASSUME NEW k \in 1 .. m, x = s[k], x # e PROVE x \in ToSet(r)
    <3>1. k # i
      BY <1>1, <2>2
    <3>2. PICK j \in 1 .. m - 1 : from(j) = k
      BY <1>4, <3>1
    <3> QED BY <1>2, <1>3, <2>2, <3>2 DEF ToSet
  <2> QED BY <1>3, <2>1, <2>2 DEF ToSet
<1>7. ToSet(r) = ToSet(s) \ {e}
  BY <1>6
<1> QED BY <1>2, <1>3, <1>5, <1>7 DEF r, IsInjective

LEMMA AppendToSet ==
  ASSUME NEW S, NEW s \in Seq(S), NEW e \in S
  PROVE  /\ Append(s, e) \in Seq(S)
         /\ ToSet(Append(s, e)) = ToSet(s) \cup {e}
         /\ IsInjective(s) /\ e \notin ToSet(s) => IsInjective(Append(s, e))
<1> DEFINE r == Append(s, e)
           m == Len(s)
<1>1. /\ r \in Seq(S) /\ m \in Nat /\ DOMAIN s = 1 .. m /\ DOMAIN r = 1 .. m + 1
      /\ \A j \in 1 .. m : r[j] = s[j]
      /\ r[m + 1] = e
  BY AppendProperties
<1> HIDE DEF r, m
<1>2. \A j \in 1 .. m + 1 : j \in 1 .. m \/ j = m + 1
  BY <1>1
<1>3. ASSUME NEW x PROVE x \in ToSet(r) <=> x \in ToSet(s) \/ x = e
  BY <1>1, <1>2 DEF ToSet
<1>4. IsInjective(s) /\ e \notin ToSet(s) => IsInjective(r)
  BY <1>1, <1>2 DEF ToSet, IsInjective
<1>5. ToSet(r) = ToSet(s) \cup {e}
  BY <1>3
<1> QED BY <1>1, <1>4, <1>5 DEF r

-----------------------------------------------------------------------------
(* The two lists: the connection has the writers that live, each once, and *)
(* the client their publications in the same order.                        *)
ListsInv ==
  /\ publication \in [Writers -> {"none", "alive", Free}]
  /\ request \in [Writers -> {"none", "made", Free}]
  /\ writers \in Seq(Writers)
  /\ publications = writers
  /\ IsInjective(writers)
  /\ ToSet(writers) = {w \in Writers : Live(w)}
  /\ \A w \in Writers : Live(w) => request[w] = "made"

Failures ==
  {"nothing", "stream", "config", "publication", "client list", "request", "writer list"}

LEMMA InitLists == StreamInit => ListsInv
<1> SUFFICES ASSUME StreamInit PROVE ListsInv
  OBVIOUS
<1>1. <<>> \in Seq(Writers) /\ IsInjective(<<>>) /\ ToSet(<<>>) = {}
  BY DEF IsInjective, ToSet
<1> QED BY <1>1 DEF StreamInit, ListsInv, Live

LEMMA CreateLists ==
  ASSUME ListsInv, NEW w \in Writers, NEW fails \in Failures, create_stream_writer(w, fails)
  PROVE  ListsInv'
<1>0. publication[w] = "none"
  BY DEF create_stream_writer
<1>1. CASE fails = "nothing"
  <2>1. /\ publication' = [publication EXCEPT ![w] = "alive"]
        /\ request' = [request EXCEPT ![w] = "made"]
        /\ publications' = Append(publications, w) /\ writers' = Append(writers, w)
    BY <1>1 DEF create_stream_writer, Added
  <2>2. w \notin ToSet(writers)
    BY <1>0 DEF ListsInv, Live
  <2>3. /\ writers' \in Seq(Writers) /\ IsInjective(writers')
        /\ ToSet(writers') = ToSet(writers) \cup {w}
    BY <2>1, <2>2, AppendToSet DEF ListsInv
  <2>4. {v \in Writers : Live(v)'} = {v \in Writers : Live(v)} \cup {w}
    BY <2>1 DEF ListsInv, Live
  <2> QED BY <2>1, <2>3, <2>4 DEF ListsInv, Live
<1>2. CASE fails \in {"publication", "stream", "config"}
  <2>1. UNCHANGED <<writers, publications, publication, request>>
    BY <1>2 DEF create_stream_writer
  <2> QED BY <2>1 DEF ListsInv, Live
<1>3. CASE fails \in {"client list", "request", "writer list"}
  <2>1. /\ publication' = [publication EXCEPT ![w] = Free]
        /\ request' = [request EXCEPT ![w] = Requested(fails)]
        /\ publications' = publications /\ writers' = writers
    BY <1>3 DEF create_stream_writer, Undone
  <2>2. Requested(fails) \in {"none", "made", Free}
    BY DEF Requested
  <2>3. {v \in Writers : Live(v)'} = {v \in Writers : Live(v)}
    BY <1>0, <2>1 DEF ListsInv, Live, Free
  <2>4. \A v \in Writers : Live(v)' => v # w /\ Live(v)
    BY <1>0, <2>1 DEF ListsInv, Live, Free
  <2> QED BY <2>1, <2>2, <2>3, <2>4 DEF ListsInv
<1> QED BY <1>1, <1>2, <1>3 DEF Failures

LEMMA DeleteLists ==
  ASSUME ListsInv, NEW w \in Writers, delete_stream_writer(w)
  PROVE  ListsInv'
<1>1. /\ Contains(writers, w) /\ publications = writers
      /\ writers' = RemoveFirst(writers, w) /\ publications' = RemoveFirst(publications, w)
      /\ publication' = [publication EXCEPT ![w] = Free]
      /\ request' = [request EXCEPT ![w] = Free]
  BY DEF delete_stream_writer, Unpublished, ListsInv
<1>2. /\ writers' \in Seq(Writers) /\ IsInjective(writers')
      /\ ToSet(writers') = ToSet(writers) \ {w}
  BY <1>1, RemoveFirstFacts DEF ListsInv
<1>3. {v \in Writers : Live(v)'} = {v \in Writers : Live(v)} \ {w}
  BY <1>1 DEF ListsInv, Live, Free
<1>4. \A v \in Writers : Live(v)' => v # w /\ Live(v)
  BY <1>1 DEF ListsInv, Live, Free
<1> QED BY <1>1, <1>2, <1>3, <1>4 DEF ListsInv

LEMMA ListsStep == ListsInv /\ [StreamNext]_allVars => ListsInv'
<1> SUFFICES ASSUME ListsInv, [StreamNext]_allVars PROVE ListsInv'
  OBVIOUS
<1>1. CASE UNCHANGED <<writers, publications, publication, request>>
  BY <1>1 DEF ListsInv, Live
<1>2. ASSUME NEW w \in Writers, NEW fails \in Failures, create_stream_writer(w, fails)
      PROVE  ListsInv'
  BY <1>2, CreateLists
<1>3. ASSUME NEW w \in Writers, delete_stream_writer(w)
      PROVE  ListsInv'
  BY <1>3, DeleteLists
<1>4. CASE BrokerConnection_delete
  <2>1. /\ writers = <<>> /\ publications = <<>> /\ publications' = <<>>
        /\ publication' = [w \in Writers |-> Finalized(w)]
        /\ UNCHANGED <<writers, request>>
    BY <1>4 DEF BrokerConnection_delete, ListsInv
  <2>2. \A w \in Writers : Finalized(w) = publication[w]
    BY <2>1 DEF Finalized, Contains
  <2>3. publication' = publication
    BY <2>1, <2>2 DEF ListsInv
  <2> QED BY <1>1, <2>1, <2>3
<1> QED
  BY <1>1, <1>2, <1>3, <1>4
  DEF StreamNext, Failures, allVars, lifecycle, BrokerConnection_new, BeginCall, RejectSample,
      WriteSample, SampleDone, AnswerInTime, Answers, AnswerTooLate

(* Whatever constructors fail and however writers come and go, the client  *)
(* has the publications of the connection's writers, in their order, and   *)
(* none that is freed (create_stream_writer, delete_stream_writer).        *)
THEOREM FreedIsForgottenTheorem == StreamSpec => []FreedIsForgotten
<1>1. ListsInv => FreedIsForgotten
  <2> SUFFICES ASSUME ListsInv, NEW w \in ToSet(publications)
               PROVE  publication[w] = "alive" /\ request[w] = "made"
    BY DEF FreedIsForgotten, ListsInv
  <2> QED BY DEF ListsInv, Live
<1> QED BY <1>1, InitLists, ListsStep, PTL DEF StreamSpec
=============================================================================
