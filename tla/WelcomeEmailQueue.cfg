\* Two calls, every fault of the queue, three faults: enough to use up the
\* attempts of one job, or to stall it once more than it may.
SPECIFICATION QSpec
CONSTANTS
  Tick = {t1}
  Event = {e1, e2}
  Attempts = 3
  MaxStalled = 1
  Faults = {"redis", "missedReply", "refuse", "throw", "consumer"}
  MaxFaults = 3
INVARIANTS
  QTypeOK
  ReplyOkMeansEmailed
  BoundedRedelivery
PROPERTIES
  EveryCallReturns
\* Each call is made once: the queue may run out of work.
CHECK_DEADLOCK FALSE
