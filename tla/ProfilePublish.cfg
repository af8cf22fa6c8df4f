\* Two runs, two blocks and two seconds: a block or a second can come between
\* any two steps.  After the last run nothing is left to do.
SPECIFICATION Spec
CONSTANTS
  Runs = 2
  MaxHeight = 2
  MaxClock = 2
  Empty = empty
CHECK_DEADLOCK FALSE
INVARIANTS
  SeedIsBeacon
  NotBackdated
  PublishedOnce
