\* An object of three chunks, the last one partial, then one of two; two
\* workers.
SPECIFICATION Spec
CONSTANTS
  Sizes <- ThreeAndTwo
  ChunkSize = 2
  Concurrency = 2
INVARIANTS
  OkIsWhole
  FetchesStored
