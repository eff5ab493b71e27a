SPECIFICATION FairSpec
CONSTANTS
  c1 = c1
  c2 = c2
  NoCore = NoCore
  Dead = Dead
  NoSpec = NoSpec
  Cores = {c1, c2}
  Ticking = {c1}
  Specs = {1}
  MaxSlot = 1
  MaxOps = 2
  Faults = {"crash", "db", "refuse", "fail", "lapse"}
  MaxFaults = 1
CHECK_DEADLOCK FALSE
INVARIANTS
  TypeOK
  OneRunPerActivation
PROPERTIES
  IntentBeforeCursor
  OccurrencesSettle
  CursorCatchesUp
  RefinesSchedule
