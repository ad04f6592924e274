---------------------------- MODULE MCLayerStack ----------------------------
(* A stack of three layers that may grow by one, two Shift keys to the     *)
(* same layer, which is a variable, and one to a layer that is not.        *)
EXTENDS ShiftNesting

CONSTANTS a, b, k1, k2, k3

MCLayer == {a, b}
MCInitLayers == <<a, b, a>>
MCShiftKeys == {k1, k2, k3}
MCInitTarget == [k \in MCShiftKeys |-> IF k = k3 THEN 2 ELSE 1]
MCTargetVars == {{k1, k2}}
=============================================================================
