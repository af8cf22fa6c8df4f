--------------------------- MODULE MCFabricSweep ---------------------------
(* Instances of FabricSweep for TLC. *)
EXTENDS FabricSweep
CONSTANTS self, tab
MCNode == {self, tab}   \* this machine may also be open in a browser tab
MCKind == {"cpu", "mem"}
MCKernels == <<"cpu", "mem">>
MCProbes == {"cpu"}
MCHash == [h \in 0 .. MaxHeight |-> h]
=============================================================================
