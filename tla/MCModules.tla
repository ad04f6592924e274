------------------------------ MODULE MCModules ------------------------------
(* Two drivers of one module, the hardware of one of which changes; a      *)
(* module with two functions, one of layout.json and one of the layer that *)
(* the RPC adds; another function of that layer, whose module does not     *)
(* exist.                                                                  *)
EXTENDS Modules

CONSTANTS dmod, fmod, gone, d1, d2, f1, f2, lost

MCModuleOf ==
  [x \in {d1, d2, f1, f2, lost} |->
     CASE x \in {d1, d2} -> dmod
       [] x \in {f1, f2} -> fmod
       [] x = lost       -> gone]
MCInput == [f \in {f1, f2, lost} |-> IF f = f1 THEN d1 ELSE d2]
MCStates == [d \in {d1, d2} |-> IF d = d1 THEN {0, 1} ELSE {2}]
MCAddedLayers == {{f2, lost}}
=============================================================================
