----------------------------- MODULE LayerStack -----------------------------
(***************************************************************************)
(* Which layer of the layout is current: the layer stack of Layout         *)
(* (layout.rs), the Shift, Switch, Up and Down functions that the event    *)
(* loop evaluates and the layer commands of the configuration RPC          *)
(* (config_rpc.rs). Both reach the layout under its write lock, so that    *)
(* each operation is one atomic step, in any order.                        *)
(*                                                                         *)
(* A Shift function sends Shift when its key goes down and UnShift when it *)
(* comes up; it is assumed here to see both edges. When it does not is the *)
(* subject of module KeyServer. The layer it shifts to is a Variable       *)
(* (variables.rs), read anew at each of the two, so that the RPC may have  *)
(* changed it in between.                                                  *)
(***************************************************************************)
EXTENDS LayerOps, FiniteSets

CONSTANTS
  Layer,        \* contents a layer may have
  InitLayers,   \* the layers of layout.json
  ShiftKeys,    \* the keys with a Shift function
  InitTarget,   \* the layer each of them shifts to at first
  TargetVars,   \* the sets of Shift keys whose layer is one and the same variable
  MaxLayers,    \* bound: the RPC adds no layer beyond this many
  MaxShifts     \* bound: no shift is made beyond this many open ones

ASSUME LayersAssumption == InitLayers \in Seq(Layer)
ASSUME ShiftKeysAssumption == IsFiniteSet(ShiftKeys)
ASSUME TargetAssumption ==
  InitTarget \in [ShiftKeys -> Nat] /\ TargetVars \subseteq SUBSET ShiftKeys
ASSUME BoundsAssumption == MaxLayers \in Nat /\ MaxShifts \in Nat

VARIABLES
  layers,       \* Layout.layer_stack
  cur_layer,    \* Layout.cur_layer
  shift_from,   \* Layout.shift_from
  held,         \* the Shift functions whose prev_state is high
  target        \* the layer each Shift function reads from its id

vars == <<layers, cur_layer, shift_from, held, target>>

Lay == [layers |-> layers, cur_layer |-> cur_layer, shift_from |-> shift_from]

Becomes(lay) ==
  /\ layers' = lay.layers
  /\ cur_layer' = lay.cur_layer
  /\ shift_from' = lay.shift_from

Init ==
  /\ layers = InitLayers
  /\ cur_layer = 0
  /\ shift_from = <<>>
  /\ held = {}
  /\ target = InitTarget

-----------------------------------------------------------------------------
PressShift(k) ==
  /\ k \notin held
  /\ Len(shift_from) < MaxShifts
  /\ held' = held \cup {k}
  /\ Becomes(ShiftTo(Lay, target[k]))
  /\ UNCHANGED target

ReleaseShift(k) ==
  /\ k \in held
  /\ held' = held \ {k}
  /\ Becomes(UnshiftFrom(Lay, target[k]))
  /\ UNCHANGED target

(* A Switch function or Command::SwitchLayer. *)
SelectLayer(index) ==
  /\ Becomes(SwitchLayer(Lay, index))
  /\ UNCHANGED <<held, target>>

(* An Up function or Command::UpLayer. *)
MoveUp ==
  /\ Becomes(UpLayer(Lay))
  /\ UNCHANGED <<held, target>>

(* A Down function or Command::DownLayer. *)
MoveDown ==
  /\ Becomes(DownLayer(Lay))
  /\ UNCHANGED <<held, target>>

(* Command::AddLayer. *)
AppendLayer(layer) ==
  /\ Len(layers) < MaxLayers
  /\ Becomes(AddLayer(Lay, layer))
  /\ UNCHANGED <<held, target>>

(* Command::RemoveLayer. *)
DropLayer(index) ==
  /\ Becomes(RemoveLayer(Lay, index))
  /\ UNCHANGED <<held, target>>

(* Command::SetVariable of the layer that these Shift functions share.     *)
Retarget(ks, index) ==
  /\ target' = [k \in ShiftKeys |-> IF k \in ks THEN index ELSE target[k]]
  /\ UNCHANGED <<layers, cur_layer, shift_from, held>>

Indices == 0 .. MaxLayers

(* What neither opens nor closes a shift and removes no layer. *)
RpcOrMove ==
  \/ \E index \in Indices : SelectLayer(index)
  \/ MoveUp
  \/ MoveDown
  \/ \E layer \in Layer : AppendLayer(layer)

Shifting ==
  \/ \E k \in ShiftKeys : PressShift(k)
  \/ \E k \in ShiftKeys : ReleaseShift(k)

Next ==
  \/ Shifting
  \/ RpcOrMove
  \/ \E index \in Indices : DropLayer(index)
  \/ \E ks \in TargetVars, index \in Indices : Retarget(ks, index)

Spec == Init /\ [][Next]_vars

(* An operator who removes only layers above every layer in use, and never *)
(* so many that a Shift function's target is gone, and who changes a       *)
(* target to another layer of the stack, and not while its key is down.    *)
(* The server asks for none of this.                                       *)
Unused(index) ==
  /\ index > cur_layer
  /\ \A i \in DOMAIN shift_from : index > shift_from[i].start
  /\ \A k \in ShiftKeys : target[k] < Len(layers) - 1

CarefulDrop == \E index \in Indices : Unused(index) /\ DropLayer(index)

CarefulRetarget ==
  \E ks \in TargetVars, index \in Indices :
    /\ ks \cap held = {}
    /\ HasLayer(Lay, index)
    /\ Retarget(ks, index)

Operator == RpcOrMove \/ CarefulDrop \/ CarefulRetarget

CarefulNext == Shifting \/ Operator

CarefulSpec == Init /\ [][CarefulNext]_vars

-----------------------------------------------------------------------------
TypeOK ==
  /\ layers \in Seq(Layer)
  /\ cur_layer \in Nat
  /\ shift_from \in Seq(ShiftRecord)
  /\ held \subseteq ShiftKeys
  /\ target \in [ShiftKeys -> Nat]

(* Every layer that poll would slice up to, or an unshift return to, is in *)
(* the stack: poll reads layer_stack[..cur_layer + 1] and                  *)
(* layout_string layer_stack[cur_layer] without a check. Poll returns at   *)
(* once if there is no layer.                                              *)
LayerInRange ==
  /\ layers # <<>> => cur_layer < Len(layers)
  /\ \A i \in DOMAIN shift_from : shift_from[i].start < Len(layers)

(* Every Shift key's target exists in layout.json. *)
TargetsExist == \A k \in ShiftKeys : InitTarget[k] < Len(InitLayers)

(* The Shift keys to a layer that are down. *)
HeldTo(index) == {k \in held : target[k] = index}

(* An open shift for each Shift key that is down and none besides: however *)
(* the keys overlap and whatever the RPC does meanwhile, unshift finds an  *)
(* entry for the key that comes up, and no entry is left behind.           *)
ShiftRecordsMatchHeld ==
  TargetsExist =>
    \A index \in {target[k] : k \in held} \cup {shift_from[i].curr : i \in DOMAIN shift_from} :
      Cardinality(ShiftsTo(Lay, index)) = Cardinality(HeldTo(index))
=============================================================================
