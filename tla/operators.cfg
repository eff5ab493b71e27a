SPECIFICATION FairSpec
CONSTANTS
  c1 = c1
  c2 = c2
  t1 = t1
  t2 = t2
  NoCore = NoCore
  Cores = {c1, c2}
  Serving = {c1}
  Tasks = {t1}
  Rivals <- NoRivals
  MaxTriggers = 1
  MaxRuns = 1
  MaxRetries = 0
  MaxAttempts = 1
  MaxConcurrent = 1
  Faults = {"shutdown", "cancel", "pause", "edit", "auto"}
CHECK_DEADLOCK FALSE
PROPERTIES
  ShutdownEnds
  RunsSettle
