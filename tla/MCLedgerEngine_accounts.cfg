CONSTANTS
  Names = {n1, n2}
  Types = {"Asset", "Liability"}
  RequestIds = {0, 1}
  Keys = {k1}
  NoKey = NoKey
  Amounts <- SignedAmounts
  MaxBalance = 2
  MaxLatency = 0
  QueueCapacity = 1
  MaxRequests = 2
  IdBound = 2
  MaxPolls = 0
  MaxLives = 1
SPECIFICATION Spec
SYMMETRY NameSymmetry
CHECK_DEADLOCK FALSE
INVARIANTS
  TypeOK
  StillValid
  NumbersAreUnique
  NamesAreUnique
  SnapshotIsConsistent
PROPERTIES
  AssetsNeverOverdrawn
  RefinesAtomicLedger
