SPECIFICATION Spec
CONSTANTS
  Hour = 2
  Day = 1
  Null = Null
  Calls = {c1, c2, c3}
  Sdk <- InvokesAndReport
  AgentOf <- Agents
  Delays = {1, 2}
  MaxTries = 2
  MaxTime = 2
  c1 = c1
  c2 = c2
  c3 = c3
  a1 = a1
  a2 = a2
\* TLC stops at the first violation: take out what was seen.
INVARIANTS
  ManualCountedOnce
PROPERTIES
  TimeoutsReported
