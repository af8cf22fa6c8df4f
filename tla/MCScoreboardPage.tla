-------------------------- MODULE MCScoreboardPage --------------------------
(* Instances of ScoreboardPage for TLC. *)
EXTENDS ScoreboardPage
CONSTANTS u1, u2

\* collectProfiles reads /profiles and then /signals; the atlas is one request.
MCPart == {"profiles", "atlas"}
MCRequests == [p \in MCPart |-> IF p = "profiles" THEN 2 ELSE 1]
=============================================================================
