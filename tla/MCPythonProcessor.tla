----------------------- MODULE MCPythonProcessor ------------------------
(* One route with an input and two outputs on its own session, a second    *)
(* session for another route, and the thread of the program.               *)
EXTENDS PythonProcessor

CONSTANTS m, s1, s2, none, i, o1, o2, foreign, gone
MCSessions == {s1, s2}
MCOutputs == {o1, o2}
Budget(python, mine, other, times) ==
  [from_service |-> python, calls |-> times,
   events |-> [s \in MCSessions |-> IF s = s1 THEN mine ELSE other]]
MCBudgets == {Budget(TRUE, 2, 2, 1), Budget(FALSE, 5, 1, 2)}
=============================================================================
