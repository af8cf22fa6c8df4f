\* Three pings: a late echo of the first meets the second and the third.  The
\* probe returns and stops, so there are states without a successor.
SPECIFICATION FairSpec
CONSTANT Iters = 3
CHECK_DEADLOCK FALSE
INVARIANTS
  ProbeInv
  LatencyIsOwnEcho
PROPERTIES
  ResultFrozen
  ImplementsBatch
