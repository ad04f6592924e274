---------------------------- MODULE ShiftNesting ----------------------------
(***************************************************************************)
(* Which layer the layer stack is left with when its shifts are closed:    *)
(* module LayerStack with history variables that remember, while shifts    *)
(* are open, where the first was made and whether they were closed in the  *)
(* opposite order to that in which they were made.                         *)
(***************************************************************************)
EXTENDS LayerStack

VARIABLES
  base,         \* the layer that was current when the oldest open shift was made
  nested        \* since then, has each release closed the newest open shift?

nestVars == <<vars, base, nested>>

NestInit == Init /\ base = 0 /\ nested = TRUE

(* A sequence of shifts begins when one is made with none open. *)
NestPress(k) ==
  /\ PressShift(k)
  /\ IF shift_from = <<>>
     THEN base' = cur_layer /\ nested' = TRUE
     ELSE UNCHANGED <<base, nested>>

(* Does closing the newest shift to the layer close the newest of all? *)
NewestIs(index) == shift_from # <<>> => shift_from[Len(shift_from)].curr = index

NestRelease(k) ==
  /\ ReleaseShift(k)
  /\ nested' = (nested /\ NewestIs(target[k]))
  /\ UNCHANGED base

NestNext ==
  \/ \E k \in ShiftKeys : NestPress(k)
  \/ \E k \in ShiftKeys : NestRelease(k)
  \/ Operator /\ UNCHANGED <<base, nested>>

NestSpec == NestInit /\ [][NestNext]_nestVars

-----------------------------------------------------------------------------
NestTypeOK == TypeOK /\ base \in Nat /\ nested \in BOOLEAN

(* Shifts closed in the opposite order to that in which they were made     *)
(* leave the layer that was current before the first of them, even if the  *)
(* RPC or a Switch function has changed the layer in between.              *)
NestedReleaseRestores ==
  [][ (shift_from # <<>> /\ shift_from' = <<>> /\ nested') => cur_layer' = base ]_nestVars
=============================================================================
