\* frontend/hooks/use-permissions.ts, of an admin who has signed in.
SPECIFICATION Spec
CONSTANTS
  ann = ann
  bob = bob
  Users = {ann}
  Role <- MCRole
  Modes = {"none", "mtls", "credentials"}
  Keys = {"stats"}
  Null = Null
  Undefined = Undefined
CHECK_DEADLOCK FALSE
INVARIANT AdminsMayAct
