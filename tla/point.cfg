SPECIFICATION FairSpec
CONSTANTS
  w1 = w1
  w2 = w2
  r1 = r1
  r2 = r2
  NoWorker = NoWorker
  Workers = {w1, w2}
  Readers = {r1, r2}
  Content = {r2}
  MaxFaults = 2
  Faults = {"crash", "lapse", "deadline", "audit", "provider", "owner"}
CHECK_DEADLOCK FALSE
INVARIANTS
  TypeOK
  DeleteIsUnread
  ProofIsTrue
  PointShowsAttempt
PROPERTIES
  LiveClaimKept
  RefinesPoint
  FinishesUnlessStuck
