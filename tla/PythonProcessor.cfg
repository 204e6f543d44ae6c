SPECIFICATION Spec
CONSTANTS
  m = m  s1 = s1  s2 = s2  none = none  i = i  o1 = o1  o2 = o2  foreign = foreign  gone = gone
  Main = m
  Sessions <- MCSessions
  Session = s1
  NoThread = none
  Input = i
  Outputs <- MCOutputs
  NoOutput = none
  Foreign = foreign
  Gone = gone
  Samples = {1}
  Budgets <- MCBudgets
INVARIANTS LockGuardsPython ReferencesCounted CarefulScriptIsSafe
CHECK_DEADLOCK FALSE
