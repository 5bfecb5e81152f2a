SPECIFICATION BASpec
CONSTANTS
 MaxItems = 4
 BatchSize = 3
 Concurrency = 2
INVARIANTS ThrottleHolds
CHECK_DEADLOCK FALSE
