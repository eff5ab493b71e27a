SPECIFICATION FairSpec
CONSTANTS
  w1 = w1
  w2 = w2
  r1 = r1
  r2 = r2
  NoWorker = NoWorker
  Workers = {w1}
  Readers = {r1}
  Content = {}
  MaxFaults = 1
  Faults = {"deadline"}
CHECK_DEADLOCK FALSE
PROPERTIES
  AttemptsFinish
