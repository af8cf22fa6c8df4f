\* Fewer workers than operations: the counter runs out while others are busy.
SPECIFICATION FairSpec
CONSTANTS
  Iters = 4
  Concurrency = 2
  Warmup = 1
  Messages = {blank, reset}
  Blank = blank
  Undefined = Undefined
  MaxClock = 3
INVARIANTS
  IInv
  EveryOpCounted
  Saturated
  BusyTimeFitsWall
PROPERTIES
  ImplementsBatch
