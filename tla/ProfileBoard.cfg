\* Three profiles of two nodes, one with a clock that is ahead, valid or not;
\* two signals are remembered and a profile is stale after one tick.
SPECIFICATION Spec
CONSTANTS
  Node = {n1, n2}
  Worker = {n1}
  Content = {a, bad}
  Invalid = bad
  Ahead = {n2}
  Lead = 1
  MaxAge = 1
  SignalLimit = 2
  MaxPublish = 3
  MaxClock = 2
INVARIANTS
  FreshestShown
