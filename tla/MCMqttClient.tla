---------------------------- MODULE MCMqttClient ----------------------------
(* Small instances of the client: two applications, up to two losses.      *)
EXTENDS MqttClient, TLC

CONSTANTS a1, a2, l1, l2

OneApp == {a1}
TwoApps == {a1, a2}
NoLoss == {}
OneLoss == {l1}
TwoLosses == {l1, l2}

Budget(who, l, c, d, f, n, impatient) ==
  [callers |-> who, losses |-> l, connects |-> c, disconnects |-> d, failures |-> f,
   commands |-> n, impatient |-> impatient]

(* Calls of two applications, and a loss among subscriptions; a loss and   *)
(* a message that fails among connects and disconnects, and two losses;    *)
(* both with timeouts and a broker that never answers.                     *)
EveryKind ==
  {Budget(TwoApps, {}, 2, 2, 0, 2, FALSE), Budget(TwoApps, OneLoss, 1, 0, 0, 2, FALSE),
   Budget(OneApp, OneLoss, 2, 1, 1, 2, FALSE), Budget(OneApp, TwoLosses, 1, 1, 0, 2, FALSE),
   Budget(OneApp, OneLoss, 1, 1, 0, 1, TRUE), Budget(OneApp, OneLoss, 1, 0, 1, 1, TRUE)}
TwoCalls == {Budget(OneApp, {}, 1, 1, 0, 2, FALSE)}
=============================================================================
