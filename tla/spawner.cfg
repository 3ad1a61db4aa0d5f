SPECIFICATION Spec
CONSTANTS
  None = None
  Ids = {1, 2}
INVARIANTS
  OneCapture
  StopHolds
  ProbeSparesCapture
  UpHasCapture
PROPERTIES
  StartIsAnswered
