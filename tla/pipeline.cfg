SPECIFICATION FairSpec
CONSTANTS
  Entries = {m1, m2, m3}
  Others = {p1}
  Workers = {w1, w2}
  BatchSize = 2
  QueueSize = 2
  NoJob = NoJob
INVARIANTS TypeOK OnePlace StopFlushesRest
PROPERTY Settles
