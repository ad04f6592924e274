---------------------------- MODULE MCVariables ----------------------------
(* A variable of variables.json with one reader, the period of a           *)
(* ConstScroll, which is built from milliseconds (low, high) and then      *)
(* reads Durations (long) only; one that the layout declares with two: a   *)
(* parameter of layout.json, and the velocity of a Note function in a      *)
(* layer that the RPC adds, which turns a value beyond its range (high)    *)
(* into one within (low).                                                  *)
EXTENDS Variables

CONSTANTS global, shared, low, high, long, period, shift, velocity

MCName == {global, shared}
MCValue == {low, high, long}
MCReader == {period, shift, velocity}
MCNameOf == [r \in MCReader |-> IF r = period THEN global ELSE shared]
MCParses == [r \in MCReader |-> {low, high}]
MCReads == [r \in MCReader |-> IF r = period THEN {long} ELSE {low, high}]
MCMapping ==
  [r \in MCReader |-> [v \in MCValue |->
    CASE r = period                -> long
      [] r = velocity /\ v = high  -> low
      [] OTHER                     -> v]]
MCUnmapping ==
  [r \in MCReader |-> [v \in MCValue |-> IF r = period THEN low ELSE v]]
MCInitLayout ==
  << [reader |-> period, declares |-> FALSE, default |-> low],
     [reader |-> shift, declares |-> TRUE, default |-> high] >>
MCAddedDefs == { [reader |-> velocity, declares |-> FALSE, default |-> low] }
MCInitFile == << [name |-> global, default |-> high] >>
=============================================================================
