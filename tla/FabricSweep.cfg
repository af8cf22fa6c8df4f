\* A block arrives and nodes leave at any point of the sweep; this machine is
\* also one of the hub's nodes.
SPECIFICATION FairSpec
CONSTANTS
  self = self
  tab = tab
  Node <- MCNode
  Self = self
  Local = local
  Kind <- MCKind
  Kernels <- MCKernels
  Probes <- MCProbes
  MaxHeight = 1
  Hash <- MCHash
  NoSeed = none
  Empty = empty
INVARIANTS
  OneSeed
  NothingLost
  EveryNodeReported
PROPERTY
  SweepEnds
