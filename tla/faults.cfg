SPECIFICATION Spec
CONSTANTS
  c1 = c1
  c2 = c2
  t1 = t1
  t2 = t2
  NoCore = NoCore
  Cores = {c1, c2}
  Serving = {c1, c2}
  Tasks = {t1}
  Rivals <- NoRivals
  MaxTriggers = 2
  MaxRuns = 4
  MaxRetries = 1
  MaxAttempts = 2
  MaxConcurrent = 4
  Faults = {"crash", "shutdown", "deadline", "maintenance", "refuse", "renewError", "deliveryError"}
SYMMETRY CoreSymmetry
CHECK_DEADLOCK FALSE
INVARIANTS
  TypeOK
  RunningAgrees
  OneActive
  RetryOnce
  RetryBudget
  RetryLossIsKnown
  OneLiveProvider
PROPERTIES
  ShutdownReleases
  RefinesLife
