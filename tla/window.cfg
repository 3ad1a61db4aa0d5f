SPECIFICATION Spec
CONSTANTS
  None = None
  MaxTakes = 2
  Templates = {"lyric", "strap"}
  MaxData = 2
  Channels = {"alpha", "program"}
  Used = {"program"}
  Own = "alpha"
  Mirrors = {"program"}
  MaxEdits = 1
  MaxFaults = 2
CHECK_DEADLOCK FALSE
INVARIANTS
  TypeOK
  RestFollows
PROPERTIES
  StagePromise
  OutputFollows
