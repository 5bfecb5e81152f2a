SPECIFICATION Spec
CONSTANTS
  Tick = {t1}
  Event = {e1, e2}
  Conn = {c1}
  NoConn = NoConn
  Take = 1
  Attempts = 2
  MaxStalled = 1
  Faults = {"redis", "missedReply", "refuse", "throw"}
  MaxFaults = 3
INVARIANTS
  EmailedOnce
