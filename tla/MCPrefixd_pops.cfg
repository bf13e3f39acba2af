\* Two instances on one database, one in dry run, and a safelist of which one entry is edited.
SPECIFICATION Spec
CONSTANTS
  p1 = p1  p2 = p2  s1 = s1  s2 = s2  k1 = k1  k2 = k2  c1 = c1
  Pops = {p1, p2}
  Scopes = {s1, s2}
  Customers = {c1}
  NoCustomer = NoCustomer
  CustomerOf <- FirstIsOwned
  Keys = {k1, k2}
  NoKey = NoKey
  Acts = {"police", "discard"}
  MaxTtl = 1
  Reqs = {r1, r2}
  Inputs <- TwoPopInputs
  Mitigable = {s1, s2}
  ConfigSafelist = {s2}
  SafelistEdits = {s1}
  MaxPerCustomer = 1
  MaxPerPop = 2
  MaxGlobal = 2
  DryRun = {p2}
  Faults = {"abort", "crash", "bgp"}
  MaxFaults = 1
  MaxTime = 2
  NoRow = NoRow  NoRule = NoRule  NoHand = NoHand  NoInput = NoInput  Sync = Sync
SYMMETRY Symmetry
INVARIANT ProtectedNeverMitigated
PROPERTY RowsAreALedger
