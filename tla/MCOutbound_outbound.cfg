SPECIFICATION Spec
CONSTANTS
  d1 = d1  d2 = d2
  Mitigations = {m1}
  Facts <- MCFacts
  Alerts <- MCFacts
  Conns = {c1}
  Capacity = 1
  Dests = {d1, d2}
  Configs <- MCConfigs
  MaxInFlight = 1
  MaxAttempts = 2
  MaxSwaps = 1
  NoJob = NoJob
CHECK_DEADLOCK FALSE
INVARIANTS TypeOK NoSilentGap EveryDestinationServed
PROPERTIES AlertsSettle LeftoversEnd
