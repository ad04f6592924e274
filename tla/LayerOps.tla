------------------------------ MODULE LayerOps ------------------------------
(***************************************************************************)
(* The layer operations of the key server's Layout                         *)
(* (bin/key-server/src/layout.rs), as functions on the part of the Layout  *)
(* that they read and write: a record with the fields                      *)
(*                                                                         *)
(*   layers      the layer stack, bottom layer first                       *)
(*   cur_layer   the index of the current layer, counted from 0 as in the  *)
(*               code: layer i is layers[i + 1]                            *)
(*   shift_from  the open shifts, oldest first, each a record of the layer *)
(*               that was current when it was made and the layer it        *)
(*               selected                                                  *)
(*                                                                         *)
(* The code's operations return an Option; where it is None the layout is  *)
(* unchanged, so the operator returns its argument.                        *)
(***************************************************************************)
EXTENDS Integers, Sequences, SequencesExt

CONSTANT UsizeMax   \* the largest usize of the build

ASSUME UsizeMaxAssumption == UsizeMax \in Nat

(* A shift_from entry. *)
ShiftRecord == [start : Nat, curr : Nat]

(* Operators named Bug... are variants of the definition that follows them, *)
(* each with a mistake the code does not make. Nothing uses them.          *)

BugSignedDec(n) == n - 1

(* usize subtraction of 1 in a build without overflow checks. *)
WrappingDec(n) == IF n = 0 THEN UsizeMax ELSE n - 1

HasLayer(lay, index) == index < Len(lay.layers)

BugSwitchOneBeyond(lay, index) ==
  IF index <= Len(lay.layers) THEN [lay EXCEPT !.cur_layer = index] ELSE lay

SwitchLayer(lay, index) ==
  IF HasLayer(lay, index) THEN [lay EXCEPT !.cur_layer = index] ELSE lay

BugUpOneBeyond(lay) ==
  IF HasLayer(lay, lay.cur_layer) THEN [lay EXCEPT !.cur_layer = @ + 1] ELSE lay

UpLayer(lay) ==
  IF HasLayer(lay, lay.cur_layer + 1)
  THEN [lay EXCEPT !.cur_layer = @ + 1]
  ELSE lay

(* The bound is tested on the wrapped index, so that layer 0 stays.        *)
DownLayer(lay) ==
  IF HasLayer(lay, WrappingDec(lay.cur_layer))
  THEN [lay EXCEPT !.cur_layer = WrappingDec(@)]
  ELSE lay

ShiftTo(lay, index) ==
  IF HasLayer(lay, index)
  THEN [lay EXCEPT !.shift_from = Append(@, [start |-> lay.cur_layer, curr |-> index]),
                   !.cur_layer  = index]
  ELSE lay

(* The open shifts to a layer, by their place in shift_from. *)
ShiftsTo(lay, index) == {i \in DOMAIN lay.shift_from : lay.shift_from[i].curr = index}

(* The newest shift is closed, to whatever layer it was. *)
BugUnshiftNewest(lay, index) ==
  LET top == Len(lay.shift_from)
  IN  IF ~HasLayer(lay, index) \/ top = 0
      THEN lay
      ELSE [SwitchLayer(lay, lay.shift_from[top].start)
              EXCEPT !.shift_from = RemoveAt(@, top)]

(* The oldest shift to the layer is closed, and the layer left. *)
BugUnshiftOldest(lay, index) ==
  LET open == ShiftsTo(lay, index)
  IN  IF ~HasLayer(lay, index) \/ open = {}
      THEN lay
      ELSE [SwitchLayer(lay, lay.shift_from[Min(open)].start)
              EXCEPT !.shift_from = RemoveAt(@, Min(open))]

(* The newest shift to the layer is closed. Only if it is the newest of    *)
(* all does the current layer change; otherwise the entry is dropped and   *)
(* the entries above it keep the layers they start from.                   *)
UnshiftFrom(lay, index) ==
  LET open == ShiftsTo(lay, index)
      top  == Len(lay.shift_from)
  IN  IF ~HasLayer(lay, index) \/ open = {}
      THEN lay
      ELSE IF top \in open
           THEN [SwitchLayer(lay, lay.shift_from[top].start)
                   EXCEPT !.shift_from = RemoveAt(@, top)]
           ELSE [lay EXCEPT !.shift_from = RemoveAt(@, Max(open))]

(* add_layer as the RPC server calls it, at index layer_len().             *)
AddLayer(lay, layer) == [lay EXCEPT !.layers = Append(@, layer)]

(* Neither cur_layer nor shift_from follows the layers that move down.     *)
RemoveLayer(lay, index) ==
  IF HasLayer(lay, index) THEN [lay EXCEPT !.layers = RemoveAt(@, index + 1)] ELSE lay

-----------------------------------------------------------------------------
(* What a function asks of the layout (ReturnCommand), and its effect.     *)

NoCommand == [op |-> "None"]

EvalCommand(lay, command) ==
  CASE command.op = "Switch"  -> SwitchLayer(lay, command.layer)
    [] command.op = "Shift"   -> ShiftTo(lay, command.layer)
    [] command.op = "UnShift" -> UnshiftFrom(lay, command.layer)
    [] command.op = "Up"      -> UpLayer(lay)
    [] command.op = "Down"    -> DownLayer(lay)
    [] command.op = "None"    -> lay
=============================================================================
