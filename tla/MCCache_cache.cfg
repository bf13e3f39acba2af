\* Two keys on one URL, of which the feed refetches one.
SPECIFICATION Spec
CONSTANTS
  Keys = {"stats", "dashboard"}
  MaxVersion = 2
  MaxAttempts = 1
CHECK_DEADLOCK FALSE
INVARIANTS CacheTypeOK
PROPERTIES PagesAreViews ChangesArrive
