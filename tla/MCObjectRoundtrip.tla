------------------------- MODULE MCObjectRoundtrip -------------------------
(* Instances of ObjectRoundtrip for TLC. *)
EXTENDS ObjectRoundtrip

ThreeAndTwo == <<5, 4>>
=============================================================================
