SPECIFICATION Spec
CONSTANTS
  None = None
  MaxTakes = 1
  Templates = {"lyric", "strap"}
  MaxData = 1
  Channels = {"alpha", "program"}
  Used = {"program"}
  Own = "alpha"
  Mirrors = {"program", "alpha"}
  MaxEdits = 2
  MaxFaults = 0
CHECK_DEADLOCK FALSE
PROPERTIES
  OutputFollows
