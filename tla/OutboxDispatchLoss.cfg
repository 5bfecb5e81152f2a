SPECIFICATION FairSpec
CONSTANTS
  Tick = {t1}
  Event = {e1}
  Conn = {c1}
  NoConn = NoConn
  Take = 1
  Attempts = 3
  MaxStalled = 1
  Faults = {"redis"}
  MaxFaults = 1
PROPERTIES
  EventsAreNeverLost
