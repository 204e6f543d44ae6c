------------------------- MODULE MCForwardingEngine -------------------------
(* Two inputs; a pattern that matches both, one that matches a name and    *)
(* the other pattern, and one that does not match itself.                  *)
EXTENDS ForwardingEngine

MCKeys == {"red", "reds", "re*", "???", "[r]ed"}
MCMatches(p, k) ==
  \/ p = k /\ p # "[r]ed"
  \/ p = "[r]ed" /\ k = "red"
  \/ p = "re*" /\ k \in {"red", "reds"}
  \/ p = "???" /\ k \in {"red", "re*"}
MCInputOrder == <<"red", "reds">>
MCOutputs == {"o1", "o2"}
MCOutNames == {"o1", "o2", "none"}
MCValues == {"red"}
=============================================================================
