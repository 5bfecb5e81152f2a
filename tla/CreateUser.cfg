SPECIFICATION CreateUserSpec
CONSTANTS
  Event = {r1, r2}
  Request = {r1, r2}
  Email = {m1, m2}
  NoEmail = NoEmail
  ApiConn = {a1, a2}
  NoApiConn = NoApiConn
  ApiFaults = {"sql", "step", "commit", "crash"}
  MaxApiFaults = 2
PROPERTIES
  EveryRequestAnswered
\* Each request is made once.
CHECK_DEADLOCK FALSE
