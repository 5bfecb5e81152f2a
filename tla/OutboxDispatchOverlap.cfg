SPECIFICATION Spec
CONSTANTS
  Tick = {t1, t2}
  Event = {e1, e2}
  Conn = {c1, c2}
  NoConn = NoConn
  Take = 2
  Attempts = 1
  MaxStalled = 1
  Faults = {"redis", "missedReply", "refuse", "throw", "consumer", "db", "cron"}
  MaxFaults = 3
SYMMETRY Symmetry
INVARIANTS
  TypeOK
  PublishedMeansEmailed
  StatusAgrees
  LeakIsHarmless
PROPERTIES
  NeverReopened
  KeepsContract
