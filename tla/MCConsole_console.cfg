SPECIFICATION ConsoleSpec
CONSTANTS
  k1 = k1
  k2 = k2
  s1 = s1
  s2 = s2
  m1 = m1
  m2 = m2
  r1 = r1
  Mask = Mask
  FileDests <- MCFile
  NewKinds = {"pagerduty"}
  DestKeys = {k1, k2}
  Secrets = {s1, s2}
  MaxDests = 2
  MaxEdits = 2
  MaxSaves = 2
  FilePlaybooks <- MCPlaybooks
  Names = {"", "a", "wide"}
  Ttls = {0, 1200, 1205}
  Rates = {5, 50000000}
  Persists = {600, 605}
  Blanks = {""}
  Units <- MCUnits
  Bytes <- MCBytes
  MaxU32 = 100000
  MaxU64 = 10000000
  Null = Null
  Undefined = Undefined
  MaxPlaybooks = 2
  MaxSteps = 2
  MaxChanges = 3
  Classes = {"x", "y"}
  Window = 3
  ItemsPerPage = 1
  MaxRows = 4
  Mitigations = {m1, m2}
  Reasons = {r1}
  Live0 = {m1}
  MaxTyped = 3
  MaxVisits = 1
  Usernames = {"second"}
  SafePrefixes = {"p"}
  MaxCalls = 3
  MaxAtOnce = 2
  MaxIds = 4
  MaxKeys = 3
  LoginNames = {"a", "b"}
  LoginWindow = 2
  LoginMaxAttempts = 2
  LoginMaxTracked = 1
  MaxSeconds = 2
  MaxTries = 5
  MaxRight = 1
CHECK_DEADLOCK FALSE
INVARIANTS
  ConsoleTypeOK
  SecretsAreEntered FormStaysOnDest
  SavesAreAccepted RulesAreTheFile
  FilterTurnsToAnEnd
  WithdrawnWasConfirmed
  ThrottleHolds
PROPERTIES TouchedWereNamed
