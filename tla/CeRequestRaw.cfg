\* The body of a blob is read without a timer.
SPECIFICATION CallSpec
CONSTANTS
  ClientTimeout = 8
  Horizon = 12
CHECK_DEADLOCK FALSE
INVARIANT RawInTime
