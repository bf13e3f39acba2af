\* One browser, one polled key, three of the auth modes.
SPECIFICATION Spec
CONSTANTS
  ann = ann
  bob = bob
  Users = {ann}
  Role <- MCRole
  Modes = {"none", "mtls", "credentials"}
  Keys = {"stats"}
  Null = Null
  Undefined = Undefined
CHECK_DEADLOCK FALSE
INVARIANTS SessionTypeOK
PROPERTIES ExpiryIsNoticed NoneOpens OffersEnd
