\* Assembly: up to three results in any order, in each environment.
\* Totals: up to three profiles; an injected trust may be none, half, or too
\* much, and 60 is beyond eight times the median of small values, 2 is not.
\* Mesh: three rows between four nodes, enough for a way of three, a triangle,
\* and a pair measured from both ends.
\* Verification: a fast subject and a slow other machine.
\* Canonical: profiles of two members.  Tuning: hosts from one to a hundred
\* thousand iterations in a millisecond.  Judgement: two jobs.  Call: a second
\* is a tick, and the client gives up after eight.
\* Each computation ends.
SPECIFICATION Spec
CONSTANTS
  Results <- SomeResults
  MaxResults = 3
  Hosts <- SomeHosts
  Envs <- SomeEnvs
  Networks <- SomeNetworks
  MaxSamples = 16
  Cores = {1, 3}
  Gflops = {1, 2, 60}
  Trust = {0, 1, 3}
  Whole = 2
  ClampK = 8
  MaxProfiles = 3
  Id = {1, 2, 3}
  Self = 0
  Rows <- SomeRows
  Threshold = 30
  MaxRows = 3
  Extra = {1}
  Here = "subject"
  SubjectRates = {4, 5}
  OtherRates = {1}
  Levels <- SomeLevels
  Times = {2}
  Tolerance = 25
  Thousand = 2
  Missing = Missing
  Values <- SomeNested
  Depth <- SomeDepths
  Documents <- SomeDocuments
  Payloads <- SomePayloads
  SigKey = 2
  Rates = {1, 7, 600, 9000, 100000}
  Targets = {3, 20, 80}
  Starts = {256, 4096}
  WarmN = 1024
  Minimum = 5
  MaxGuard = 40
  MaxN = 100000000
  MaxJobs = 2
  Tflops = {0, 1}
  Tokens = {4, 5}
  MinTflops = 1
  MinTokens = 5
  Fetches = 4
  Held = 1
  ClientTimeout = 8
  Horizon = 12
CHECK_DEADLOCK FALSE
INVARIANTS
  NeverInvalid
  HeadlineAudited
  NamedGpuOnce
  OneCannotInflate
  CountsAreOfGraph
  HonestVerified
  FabricatedCaught
  SignedAsMeant
  TunedRunIsEvidence
  JudgementsAgree
  FetchesCold
  InTime
