\* Three steps with zero to two attempts, run twice; three steps of a pipeline;
\* four items in batches of three; three callers on one row; a
\* list of up to three rows, in pages of up to two; two messages, and two faults: a
\* callback that outlives its channel finds its tag used again for the other message
\* only after a second reconnect.
SPECIFICATION LibrarySpec
CONSTANTS
  NumSteps = 3
  MaxRetry = 2
  MaxRuns = 2
  PStep = {p, q, r}
  MaxItems = 4
  BatchSize = 3
  Concurrency = 2
  Identifier = {i}
  Client = {a, b, c}
  MaxVersion = 3
  Absent = Absent
  ListRow = {x, y, z}
  PageSizes = {0, 1, 2}
  RMsg = {m, n}
  RFaults = 2
INVARIANTS
  CompensatedMeansUndone
  ReverseOrder
  SuccessMeansDone
  EarlierResultsAreThere
  FirstFailureIsRaised
  ResultIsComplete
  DeletedOnceForAll
  WalkIsComplete
PROPERTIES
  SagaEnds
  QueueIsAChannel
  QueuedReachesCallback
\* The callers have a bounded number of things to do.
CHECK_DEADLOCK FALSE
