SPECIFICATION CreateUserSafety
CONSTANTS
  Event = {r1, r2, r3}
  Request = {r1, r2, r3}
  Email = {m1, m2}
  NoEmail = NoEmail
  ApiConn = {a1, a2}
  NoApiConn = NoApiConn
  ApiFaults = {"sql", "step", "commit", "crash"}
  MaxApiFaults = 3
SYMMETRY ApiSymmetry
INVARIANTS
  ApiTypeOK
  UserIffEvent
  UniqueEmail
  OutcomeIsTrue
  PoolIsClean
\* Each request is made once.
CHECK_DEADLOCK FALSE
