\* Queries, processes and GoBGP's memory fail, its answers are true.
SPECIFICATION Spec
CONSTANTS
  p1 = p1  p2 = p2  s1 = s1  s2 = s2  k1 = k1  k2 = k2  c1 = c1
  Pops = {p1}
  Scopes = {s1}
  Customers = {c1}
  NoCustomer = NoCustomer
  CustomerOf <- AllOfOne
  Keys = {k1, k2}
  NoKey = NoKey
  Acts = {"police", "discard"}
  MaxTtl = 1
  Reqs = {r1, r2, r3}
  Inputs <- OneScopeInputs
  Mitigable = {s1}
  ConfigSafelist = {}
  SafelistEdits = {}
  MaxPerCustomer = 2
  MaxPerPop = 2
  MaxGlobal = 2
  DryRun = {}
  Faults = {"db", "ribloss", "abort", "crash", "shutdown"}
  MaxFaults = 2
  MaxTime = 2
  NoRow = NoRow  NoRule = NoRule  NoHand = NoHand  NoInput = NoInput  Sync = Sync
SYMMETRY Symmetry
INVARIANTS TypeOK OneLivePerScope BanActsOnce RuleHasLiveOwner
