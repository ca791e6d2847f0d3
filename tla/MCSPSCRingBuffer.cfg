CONSTANTS
  N = 4
  Values = {v1, v2}
  Junk = Junk
SPECIFICATION FairSpec
INVARIANTS
  TypeOK
  NoDataRace
  SizeApproxIsSafe
PROPERTIES
  RefinesFifo
  EveryValueIsConsumed
