\* Two addresses; three ticks in flight, each with a part of two requests and one
\* of a single request; one malformed answer.
SPECIFICATION PageSpec
CONSTANTS
  u1 = u1
  u2 = u2
  Url = {u1, u2}
  Part <- MCPart
  Requests <- MCRequests
  MaxFlight = 3
  MaxChanges = 2
  MaxMalformed = 1
INVARIANTS
  OneNodeShown
PROPERTY EndsOnThisNode
