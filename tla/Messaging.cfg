\* Two messages, calls and jobs, and faults enough to use up the attempts, or to
\* lose a process and fail once more.
SPECIFICATION MessagingSpec
CONSTANTS
  KMsg = {a, b}
  NoValue = NoValue
  KFaults = 2
  KAttempts = 2
  Call = {a, b}
  NoCall = NoCall
  QFaults = 2
  Id = {a, b}
  BAttempts = 3
  BMaxStalled = 1
  MaxTriggers = 2
  BFaults = 3
INVARIANTS
  PartitionInOrder
  OwnReply
  ReplyIsSomewhere
  BlockedOnlyByFailure
PROPERTIES
  KafkaIsAChannel
  LoggedIsHandled
  AnsweredWhenAlone
  TriggerIsHonoured
\* Each call is made once: the helpers may run out of work.
CHECK_DEADLOCK FALSE
