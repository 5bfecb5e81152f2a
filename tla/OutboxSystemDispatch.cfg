SPECIFICATION FairSystemSpec
CONSTANTS
  Tick = {t1}
  Event = {r1}
  Conn = {c1}
  NoConn = NoConn
  Take = 12
  Attempts = 3
  MaxStalled = 1
  Faults = {}
  MaxFaults = 0
  Request = {r1}
  Email = {m1}
  NoEmail = NoEmail
  ApiConn = {a1}
  NoApiConn = NoApiConn
  ApiFaults = {}
  MaxApiFaults = 0
PROPERTIES
  CommittedIsDispatched
