\* Two requests, lost rules, crashes, and calls that fail or only seem to, under a fair scheduler.
SPECIFICATION FairSpec
CONSTANTS
  p1 = p1  p2 = p2  s1 = s1  s2 = s2  k1 = k1  k2 = k2  c1 = c1
  Pops = {p1}
  Scopes = {s1, s2}
  Customers = {c1}
  NoCustomer = NoCustomer
  CustomerOf <- AllOfOne
  Keys = {k1, k2}
  NoKey = NoKey
  Acts = {"police", "discard"}
  MaxTtl = 1
  Reqs = {r1, r2}
  Inputs <- OutsiderInputs
  Mitigable = {s1}
  ConfigSafelist = {}
  SafelistEdits = {}
  MaxPerCustomer = 2
  MaxPerPop = 2
  MaxGlobal = 2
  DryRun = {}
  Faults = {"db", "bgp", "ribloss", "abort", "crash"}
  MaxFaults = 2
  MaxTime = 2
  NoRow = NoRow  NoRule = NoRule  NoHand = NoHand  NoInput = NoInput  Sync = Sync
INVARIANT OperatorWithdrawalSticks
PROPERTIES ExpiryHappens DriftEnds
