---------------------------- MODULE MCKeyServer ----------------------------
(* A row of two keys, bound in another order than the grid's. The base     *)
(* layer's Shift function selects a layer that lets it through and covers  *)
(* the base layer's key with a Switch back. Of the layers that the RPC may *)
(* add, one has a key of its own and a Shift function, so that its         *)
(* functions are down, and its shift is open, while it moves in and out of *)
(* sight; the other has a Down function and lets the base's key through.   *)
EXTENDS KeyServer

CONSTANTS a, b, i0, i1

Key(key)     == [kind |-> "Key", key |-> key]
Shift(index) == [kind |-> "Shift", layer |-> index]
Switch(index) == [kind |-> "Switch", layer |-> index]
Down         == [kind |-> "Down"]

MCInput == {i0, i1}
MCBindings == <<[cell |-> 1, input |-> i1], [cell |-> 0, input |-> i0]>>
MCInitLayers == << <<Shift(1), Key(a)>>, <<NoFunction, Switch(0)>> >>
MCAddedLayers == { <<Key(b), Shift(1)>>, <<Down, NoFunction>> }
MCFunction == {NoFunction, Down, Key(a), Key(b), Shift(1), Switch(0)}
=============================================================================
