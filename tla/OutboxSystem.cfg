SPECIFICATION SystemSpec
CONSTANTS
  Tick = {t1}
  Event = {e1, r1, r2}
  Conn = {c1}
  NoConn = NoConn
  Take = 2
  Attempts = 1
  MaxStalled = 1
  Faults = {"missedReply", "db", "cron"}
  MaxFaults = 1
  Request = {r1, r2}
  Email = {m1}
  NoEmail = NoEmail
  ApiConn = {a1}
  NoApiConn = NoApiConn
  ApiFaults = {"sql", "step", "commit", "crash"}
  MaxApiFaults = 1
PROPERTIES
  SystemKeepsContract
