SPECIFICATION Spec
CONSTANTS
  c1 = c1
  c2 = c2
  t1 = t1
  t2 = t2
  NoCore = NoCore
  Cores = {c1, c2}
  Serving = {c1, c2}
  Tasks = {t1}
  Rivals <- NoRivals
  MaxTriggers = 1
  MaxRuns = 2
  MaxRetries = 1
  MaxAttempts = 2
  MaxConcurrent = 2
  Faults = {"cancel", "pause"}

CHECK_DEADLOCK FALSE
INVARIANT
  CancelKeepsEntry
