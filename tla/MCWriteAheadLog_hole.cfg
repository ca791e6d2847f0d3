CONSTANTS
  Words = {w1}
  Zero = Zero
  Magic = Magic
  MaxPayload = 1
  PageSize = 4
  InitialSize = 8
  FileBound = 8
  Faults = {"kill", "power"}
  MaxAppends = 3
  MaxLives = 3
SPECIFICATION Spec
CHECK_DEADLOCK FALSE
INVARIANTS
  AckedSurviveFaults
