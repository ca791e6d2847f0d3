CONSTANTS
  Words = {w1}
  Zero = Zero
  Magic = Magic
  MaxPayload = 1
  PageSize = 4
  InitialSize = 4
  FileBound = 16
  Faults = {}
  MaxAppends = 2
  MaxLives = 2
SPECIFICATION Spec
CHECK_DEADLOCK FALSE
INVARIANTS
  AckedSurviveRestart
