SPECIFICATION FairSpec
CONSTANTS
  p1 = p1
  p2 = p2
  ch1 = ch1
  ch2 = ch2
  NoWorker = NoWorker
  NoKey = NoKey
  Workers = {p1, p2}
  Channels = {ch1}
  Levels = 1
  MaxAttempts = 2
  MaxEvents = 2
  Faults = {"crash", "lapse", "db", "lost", "gone", "policy", "manual"}
  MaxFaults = 2
CHECK_DEADLOCK FALSE
INVARIANTS
  TypeOK
  DuplicateIsPaid
  AttemptBudget
  LevelsFireOnce
PROPERTIES
  SentIsFinal
  DecisionIsFinal
  NoDirectAfterEscalation
  IntentsSettle
  AlertIsDecided
  RefinesNotification
