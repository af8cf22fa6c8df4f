\* A call is given up after two ticks; a probe of one warm-up and two rounds
\* of two workers has six.
SPECIFICATION ProbeSpec
CONSTANTS
  Iters = 3
  Concurrency = 2
  Warmup = 1
  Messages = {"error", "aborted"}
  Blank = ""
  Undefined = "undefined"
  MaxClock = 7
  ClientTimeout = 2
  Horizon = 3
  ProbeKinds = {"json", "raw"}
INVARIANTS
  ReturnsInTime
PROPERTIES
  ImplementsPool
