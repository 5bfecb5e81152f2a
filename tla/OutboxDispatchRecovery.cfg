SPECIFICATION FairSpec
CONSTANTS
  Tick = {t1, t2}
  Event = {e1}
  Conn = {c1, c2}
  NoConn = NoConn
  Take = 1
  Attempts = 1
  MaxStalled = 1
  Faults = {"db", "cron"}
  MaxFaults = 2
INVARIANTS
  ClaimIsProvisional
PROPERTIES
  ClaimableIsPublished
  TickEnds
