-------------------------- MODULE LayerStackProofs --------------------------
(* Theorems about modules LayerStack and ShiftNesting, for any layers,     *)
(* Shift keys and targets, and, in the second half, about Variables.       *)
EXTENDS ShiftNesting, Variables, LayerOpsProofs

(* Type correctness. *)

LEMMA LayType ==
  ASSUME TypeOK
  PROVE  Lay \in LayoutState(Layer)
BY DEF TypeOK, Lay, LayoutState

LEMMA BecomesType ==
  ASSUME NEW lay \in LayoutState(Layer), Becomes(lay)
  PROVE  layers' \in Seq(Layer) /\ cur_layer' \in Nat /\ shift_from' \in Seq(ShiftRecord)
BY DEF Becomes, LayoutState

LEMMA TypeInit == Init => TypeOK
BY LayersAssumption, TargetAssumption DEF Init, TypeOK

LEMMA TypeStep == TypeOK /\ [Next]_vars => TypeOK'
<1> SUFFICES ASSUME TypeOK, [Next]_vars
             PROVE  TypeOK'
  OBVIOUS
<1>1. Lay \in LayoutState(Layer)
  BY LayType
<1>2. ASSUME NEW k \in ShiftKeys, PressShift(k)
      PROVE  TypeOK'
  <2>1. target[k] \in Nat
    BY DEF TypeOK
  <2>2. ShiftTo(Lay, target[k]) \in LayoutState(Layer)
    BY <1>1, <2>1, OperationsType
  <2>3. QED
    BY <1>2, <2>2, BecomesType DEF PressShift, TypeOK
<1>3. ASSUME NEW k \in ShiftKeys, ReleaseShift(k)
      PROVE  TypeOK'
  <2>1. target[k] \in Nat
    BY DEF TypeOK
  <2>2. UnshiftFrom(Lay, target[k]) \in LayoutState(Layer)
    BY <1>1, <2>1, OperationsType
  <2>3. QED
    BY <1>3, <2>2, BecomesType DEF ReleaseShift, TypeOK
<1>4. ASSUME NEW lay \in LayoutState(Layer), Becomes(lay), UNCHANGED <<held, target>>
      PROVE  TypeOK'
  BY <1>4, BecomesType DEF TypeOK
<1>5. ASSUME NEW index \in Indices, SelectLayer(index)
      PROVE  TypeOK'
  <2>1. index \in Nat
    BY BoundsAssumption DEF Indices
  <2>2. SwitchLayer(Lay, index) \in LayoutState(Layer)
    BY <1>1, <2>1, OperationsType
  <2>3. QED
    BY <1>4, <1>5, <2>2 DEF SelectLayer
<1>6. ASSUME MoveUp
      PROVE  TypeOK'
  <2>1. UpLayer(Lay) \in LayoutState(Layer)
    BY <1>1, OperationsType
  <2>2. QED
    BY <1>4, <1>6, <2>1 DEF MoveUp
<1>7. ASSUME MoveDown
      PROVE  TypeOK'
  <2>1. DownLayer(Lay) \in LayoutState(Layer)
    BY <1>1, OperationsType
  <2>2. QED
    BY <1>4, <1>7, <2>1 DEF MoveDown
<1>8. ASSUME NEW layer \in Layer, AppendLayer(layer)
      PROVE  TypeOK'
  <2>1. AddLayer(Lay, layer) \in LayoutState(Layer)
    BY <1>1, OperationsType
  <2>2. QED
    BY <1>4, <1>8, <2>1 DEF AppendLayer
<1>9. ASSUME NEW index \in Indices, DropLayer(index)
      PROVE  TypeOK'
  <2>1. index \in Nat
    BY BoundsAssumption DEF Indices
  <2>2. RemoveLayer(Lay, index) \in LayoutState(Layer)
    BY <1>1, <2>1, OperationsType
  <2>3. QED
    BY <1>4, <1>9, <2>2 DEF DropLayer
<1>10. ASSUME NEW ks \in TargetVars, NEW index \in Indices, Retarget(ks, index)
       PROVE  TypeOK'
  <2>1. index \in Nat
    BY BoundsAssumption DEF Indices
  <2>2. QED
    BY <1>10, <2>1 DEF Retarget, TypeOK
<1>11. CASE UNCHANGED vars
  BY <1>11 DEF vars, TypeOK
<1>12. QED
  BY <1>2, <1>3, <1>5, <1>6, <1>7, <1>8, <1>9, <1>10, <1>11 DEF Next, Shifting, RpcOrMove

(* The layout's fields keep their types whatever the keys and the RPC do.  *)
THEOREM TypeCorrect == Spec => []TypeOK
BY TypeInit, TypeStep, PTL DEF Spec

-----------------------------------------------------------------------------
(* The current layer and the layers that shifts return to stay in range.   *)
(* With no layers left there would be no layer to be current, so that      *)
(* LayerInRange alone is not inductive: adding a layer to an empty stack   *)
(* makes the current index count again.                                    *)

RangeInv == TypeOK /\ InRange(Lay)

LEMMA RangeInit == Init => RangeInv
<1> SUFFICES ASSUME Init PROVE InRange(Lay)
  BY TypeInit DEF RangeInv
<1>1. Len(InitLayers) \in Nat
  BY LayersAssumption
<1>2. QED
  BY <1>1 DEF Init, Lay, InRange

LEMMA CarefulIsNext == [CarefulNext]_vars => [Next]_vars
BY DEF CarefulNext, Operator, CarefulDrop, CarefulRetarget, Next

LEMMA RangeStep == RangeInv /\ [CarefulNext]_vars => RangeInv'
<1> SUFFICES ASSUME RangeInv, [CarefulNext]_vars
             PROVE  InRange(Lay)'
  BY TypeStep, CarefulIsNext DEF RangeInv
<1>1. Lay \in LayoutState(Layer) /\ InRange(Lay)
  BY LayType DEF RangeInv
<1>2. ASSUME NEW lay \in LayoutState(Layer), Becomes(lay), InRange(lay)
      PROVE  InRange(Lay)'
  BY <1>2 DEF Becomes, InRange, Lay
<1>3. \A index \in Indices : index \in Nat
  BY BoundsAssumption DEF Indices
<1>4. \A k \in ShiftKeys : target[k] \in Nat
  BY DEF RangeInv, TypeOK
<1>5. ASSUME NEW k \in ShiftKeys, PressShift(k)
      PROVE  InRange(Lay)'
  <2>1. ShiftTo(Lay, target[k]) \in LayoutState(Layer) /\ InRange(ShiftTo(Lay, target[k]))
    BY <1>1, <1>4, OperationsType, ShiftInRange
  <2>2. QED
    BY <1>2, <1>5, <2>1 DEF PressShift
<1>6. ASSUME NEW k \in ShiftKeys, ReleaseShift(k)
      PROVE  InRange(Lay)'
  <2>1. UnshiftFrom(Lay, target[k]) \in LayoutState(Layer) /\ InRange(UnshiftFrom(Lay, target[k]))
    BY <1>1, <1>4, OperationsType, UnshiftInRange
  <2>2. QED
    BY <1>2, <1>6, <2>1 DEF ReleaseShift
<1>7. ASSUME NEW index \in Indices, SelectLayer(index)
      PROVE  InRange(Lay)'
  <2>1. SwitchLayer(Lay, index) \in LayoutState(Layer) /\ InRange(SwitchLayer(Lay, index))
    BY <1>1, <1>3, OperationsType, MoveInRange
  <2>2. QED
    BY <1>2, <1>7, <2>1 DEF SelectLayer
<1>8. ASSUME MoveUp
      PROVE  InRange(Lay)'
  <2>1. UpLayer(Lay) \in LayoutState(Layer) /\ InRange(UpLayer(Lay))
    BY <1>1, OperationsType, MoveInRange
  <2>2. QED
    BY <1>2, <1>8, <2>1 DEF MoveUp
<1>9. ASSUME MoveDown
      PROVE  InRange(Lay)'
  <2>1. DownLayer(Lay) \in LayoutState(Layer) /\ InRange(DownLayer(Lay))
    BY <1>1, OperationsType, MoveInRange
  <2>2. QED
    BY <1>2, <1>9, <2>1 DEF MoveDown
<1>10. ASSUME NEW layer \in Layer, AppendLayer(layer)
       PROVE  InRange(Lay)'
  <2>1. AddLayer(Lay, layer) \in LayoutState(Layer) /\ InRange(AddLayer(Lay, layer))
    BY <1>1, OperationsType, AddInRange
  <2>2. QED
    BY <1>2, <1>10, <2>1 DEF AppendLayer
<1>11. ASSUME NEW index \in Indices, Unused(index), DropLayer(index)
       PROVE  InRange(Lay)'
  <2>1. /\ index > Lay.cur_layer
        /\ \A i \in DOMAIN Lay.shift_from : index > Lay.shift_from[i].start
    BY <1>11 DEF Unused, Lay
  <2>2. RemoveLayer(Lay, index) \in LayoutState(Layer) /\ InRange(RemoveLayer(Lay, index))
    BY <1>1, <1>3, <2>1, OperationsType, CarefulRemoveInRange
  <2>3. QED
    BY <1>2, <1>11, <2>2 DEF DropLayer
<1>12. ASSUME NEW ks \in TargetVars, NEW index \in Indices, Retarget(ks, index)
       PROVE  InRange(Lay)'
  BY <1>1, <1>12 DEF Retarget, Lay, InRange
<1>13. CASE UNCHANGED vars
  BY <1>1, <1>13 DEF vars, Lay, InRange
<1>14. QED
  BY <1>5, <1>6, <1>7, <1>8, <1>9, <1>10, <1>11, <1>12, <1>13
     DEF CarefulNext, Shifting, Operator, RpcOrMove, CarefulDrop, CarefulRetarget

LEMMA RangeInvImplies == RangeInv => LayerInRange
<1> SUFFICES ASSUME RangeInv PROVE LayerInRange
  OBVIOUS
<1>1. layers \in Seq(Layer)
  BY DEF RangeInv, TypeOK
<1>2. layers # <<>> => Len(layers) # 0
  BY <1>1
<1>3. QED
  BY <1>2 DEF RangeInv, InRange, Lay, LayerInRange

(* As long as the operator removes only layers that nothing uses, poll,    *)
(* the RPC's Layer command and unshift never index beyond the layer stack, *)
(* in whatever order keys and commands come.                               *)
THEOREM LayerInRangeCorrect == CarefulSpec => []LayerInRange
<1>1. CarefulSpec => []RangeInv
  BY RangeInit, RangeStep, PTL DEF CarefulSpec
<1>2. QED
  BY <1>1, RangeInvImplies, PTL

-----------------------------------------------------------------------------
(* The inductive invariant: the targets stay in the stack, so that neither *)
(* shift nor unshift returns without effect.                               *)
TargetsInStack == \A k \in ShiftKeys : target[k] < Len(layers)

MatchInv ==
  /\ RangeInv
  /\ TargetsExist => TargetsInStack /\ Matched(shift_from, held, target)

LEMMA MatchInit == Init => MatchInv
<1> SUFFICES ASSUME Init, TargetsExist
             PROVE  TargetsInStack /\ Matched(shift_from, held, target)
  BY RangeInit DEF MatchInv
<1>1. TargetsInStack
  BY DEF Init, TargetsExist, TargetsInStack
<1>2. shift_from = <<>> /\ held = {}
  BY DEF Init
<1>3. \A index : EntriesTo(shift_from, index) = {} /\ KeysTo(held, target, index) = {}
  BY <1>2 DEF EntriesTo, KeysTo
<1>4. QED
  BY <1>1, <1>3 DEF Matched

LEMMA MatchStep == MatchInv /\ [CarefulNext]_vars => MatchInv'
<1> SUFFICES ASSUME MatchInv, [CarefulNext]_vars, TargetsExist
             PROVE  TargetsInStack' /\ Matched(shift_from, held, target)'
  BY RangeStep DEF MatchInv, TargetsExist
<1>1. /\ Lay \in LayoutState(Layer)
      /\ held \in SUBSET ShiftKeys
      /\ \A k \in ShiftKeys : target[k] < Len(layers) /\ target[k] \in Nat
      /\ Matched(shift_from, held, target)
      /\ layers \in Seq(Layer)
      /\ IsFiniteSet(held)
  <2>1. held \in SUBSET ShiftKeys
    BY DEF MatchInv, RangeInv, TypeOK
  <2>2. IsFiniteSet(held)
    BY <2>1, ShiftKeysAssumption, FS_Subset
  <2>3. QED
    BY <2>1, <2>2, LayType DEF MatchInv, RangeInv, TypeOK, TargetsInStack
<1>2. Lay.shift_from = shift_from /\ Lay.layers = layers
  BY DEF Lay
<1>3. \A k \in ShiftKeys : HasLayer(Lay, target[k])
  BY <1>1, <1>2 DEF HasLayer
<1>4. \A index \in Indices : index \in Nat
  BY BoundsAssumption DEF Indices
<1>5. ASSUME target' = target, Matched(shift_from', held', target)
      PROVE  Matched(shift_from, held, target)'
  BY <1>5 DEF Matched, KeysTo, EntriesTo
<1>6. ASSUME NEW k \in ShiftKeys, PressShift(k)
      PROVE  TargetsInStack' /\ Matched(shift_from, held, target)'
  <2>1. /\ k \notin held
        /\ held' = held \cup {k}
        /\ target' = target
        /\ shift_from' = ShiftTo(Lay, target[k]).shift_from
        /\ layers' = ShiftTo(Lay, target[k]).layers
    BY <1>6 DEF PressShift, Becomes
  <2>2. Matched(ShiftTo(Lay, target[k]).shift_from, held \cup {k}, target)
    BY <1>1, <1>2, <1>3, <2>1, PressMatched
  <2>3. layers' = layers
    BY <2>1 DEF ShiftTo, Lay
  <2>4. QED
    BY <1>1, <1>5, <2>1, <2>2, <2>3 DEF TargetsInStack
<1>7. ASSUME NEW k \in ShiftKeys, ReleaseShift(k)
      PROVE  TargetsInStack' /\ Matched(shift_from, held, target)'
  <2>1. /\ k \in held
        /\ held' = held \ {k}
        /\ target' = target
        /\ shift_from' = UnshiftFrom(Lay, target[k]).shift_from
        /\ layers' = UnshiftFrom(Lay, target[k]).layers
    BY <1>7 DEF ReleaseShift, Becomes
  <2>2. Matched(UnshiftFrom(Lay, target[k]).shift_from, held \ {k}, target)
    BY <1>1, <1>2, <1>3, <2>1, ReleaseMatched
  <2>3. UnshiftFrom(Lay, target[k]).layers = Lay.layers
    BY <1>1, UnshiftEffect
  <2>4. QED
    BY <1>1, <1>2, <1>5, <2>1, <2>2, <2>3 DEF TargetsInStack
<1>8. ASSUME shift_from' = shift_from, held' = held, target' = target,
             Len(layers') \in Nat, Len(layers') >= Len(layers)
      PROVE  TargetsInStack' /\ Matched(shift_from, held, target)'
  BY <1>1, <1>5, <1>8 DEF TargetsInStack
<1>9. ASSUME NEW index \in Indices, SelectLayer(index)
      PROVE  UNCHANGED <<shift_from, held, target, layers>>
  BY <1>9 DEF SelectLayer, SwitchLayer, Becomes, Lay
<1>10. ASSUME MoveUp
       PROVE  UNCHANGED <<shift_from, held, target, layers>>
  BY <1>10 DEF MoveUp, UpLayer, Becomes, Lay
<1>11. ASSUME MoveDown
       PROVE  UNCHANGED <<shift_from, held, target, layers>>
  BY <1>11 DEF MoveDown, DownLayer, Becomes, Lay
<1>12. ASSUME NEW layer \in Layer, AppendLayer(layer)
       PROVE  UNCHANGED <<shift_from, held, target>> /\ layers' = Append(layers, layer)
  BY <1>12 DEF AppendLayer, AddLayer, Becomes, Lay
<1>13. ASSUME NEW index \in Indices, Unused(index), DropLayer(index)
       PROVE  TargetsInStack' /\ Matched(shift_from, held, target)'
  <2>1. /\ shift_from' = shift_from /\ held' = held /\ target' = target
        /\ layers' = RemoveLayer(Lay, index).layers
    BY <1>13 DEF DropLayer, RemoveLayer, Becomes, Lay
  <2>2. CASE ~HasLayer(Lay, index)
    <3>1. layers' = layers
      BY <2>1, <2>2 DEF RemoveLayer, Lay
    <3>2. QED
      BY <1>1, <1>8, <2>1, <3>1
  <2>3. CASE HasLayer(Lay, index)
    <3>1. layers' = RemoveAt(layers, index + 1)
      BY <2>1, <2>3 DEF RemoveLayer, Lay
    <3>2. index + 1 \in 1 .. Len(layers)
      BY <1>1, <1>2, <1>4, <2>3 DEF HasLayer
    <3>3. Len(layers') = Len(layers) - 1
      BY <1>1, <3>1, <3>2, RemoveAtProperties
    <3>4. TargetsInStack'
      BY <1>1, <1>13, <2>1, <3>3 DEF Unused, TargetsInStack
    <3>5. QED
      BY <1>1, <1>5, <2>1, <3>4
  <2>4. QED
    BY <2>2, <2>3
<1>14. ASSUME NEW ks \in TargetVars, NEW index \in Indices,
              ks \cap held = {}, HasLayer(Lay, index), Retarget(ks, index)
       PROVE  TargetsInStack' /\ Matched(shift_from, held, target)'
  <2>1. /\ target' = [k \in ShiftKeys |-> IF k \in ks THEN index ELSE target[k]]
        /\ UNCHANGED <<layers, shift_from, held>>
    BY <1>14 DEF Retarget
  <2>2. TargetsInStack'
    BY <1>1, <1>2, <1>14, <2>1 DEF TargetsInStack, HasLayer
  <2>3. \A k \in held : target'[k] = target[k]
    BY <1>1, <1>14, <2>1
  <2>4. \A i : KeysTo(held, target, i)' = KeysTo(held, target, i)
    BY <2>1, <2>3 DEF KeysTo
  <2>5. Matched(shift_from, held, target)'
    BY <1>1, <2>1, <2>4 DEF Matched, EntriesTo
  <2>6. QED
    BY <2>2, <2>5
<1>15. CASE UNCHANGED vars
  BY <1>1, <1>8, <1>15 DEF vars
<1>16. Len(layers) \in Nat /\ \A layer \in Layer : Len(Append(layers, layer)) = Len(layers) + 1
  BY <1>1
<1>17. QED
  BY <1>6, <1>7, <1>8, <1>9, <1>10, <1>11, <1>12, <1>13, <1>14, <1>15, <1>16
     DEF CarefulNext, Shifting, Operator, RpcOrMove, CarefulDrop, CarefulRetarget

LEMMA MatchInvImplies == MatchInv => ShiftRecordsMatchHeld
<1> SUFFICES ASSUME MatchInv, TargetsExist,
                    NEW index \in {target[k] : k \in held}
                                    \cup {shift_from[i].curr : i \in DOMAIN shift_from}
             PROVE  Cardinality(ShiftsTo(Lay, index)) = Cardinality(HeldTo(index))
  BY DEF ShiftRecordsMatchHeld
<1>1. ShiftsTo(Lay, index) = EntriesTo(shift_from, index) /\ HeldTo(index) = KeysTo(held, target, index)
  BY DEF ShiftsTo, EntriesTo, HeldTo, KeysTo, Lay
<1>2. index \in Nat
  <2>1. /\ Lay \in LayoutState(Layer) /\ Lay.shift_from = shift_from
        /\ \A k \in held : target[k] \in Nat
    BY LayType DEF MatchInv, RangeInv, TypeOK, Lay
  <2>2. \A i \in DOMAIN shift_from : shift_from[i].curr \in Nat
    BY <2>1, EntryType
  <2>3. QED
    BY <2>1, <2>2
<1>3. Matched(shift_from, held, target)
  BY DEF MatchInv
<1>4. QED
  BY <1>1, <1>2, <1>3 DEF Matched

(* However the Shift keys overlap and whatever the RPC and the Switch, Up  *)
(* and Down functions do meanwhile, a key that comes up finds the shift it *)
(* made, and once all are up no shift is left.                             *)
THEOREM ShiftRecordsCorrect == CarefulSpec => []ShiftRecordsMatchHeld
<1>1. CarefulSpec => []MatchInv
  BY MatchInit, MatchStep, PTL DEF CarefulSpec
<1>2. QED
  BY <1>1, MatchInvImplies, PTL

-----------------------------------------------------------------------------
(* Module ShiftNesting: shifts that are closed newest first restore the    *)
(* layer. The oldest open shift still starts from base, and closing it     *)
(* last is closing the newest.                                             *)

NestInv ==
  /\ RangeInv
  /\ nested /\ shift_from # <<>> => shift_from[1].start = base

LEMMA NestInvInit == NestInit => NestInv
BY RangeInit DEF NestInit, NestInv, Init

LEMMA NestIsCareful == [NestNext]_nestVars => [CarefulNext]_vars
BY DEF NestNext, NestPress, NestRelease, CarefulNext, Shifting, nestVars

(* The other operations leave the shifts alone. *)
LEMMA ShiftsKept ==
  ASSUME Operator
  PROVE  UNCHANGED shift_from
BY DEF Operator, RpcOrMove, CarefulDrop, CarefulRetarget, Retarget, SelectLayer, MoveUp, MoveDown, AppendLayer, DropLayer,
       SwitchLayer, UpLayer, DownLayer, AddLayer, RemoveLayer, Becomes, Lay

LEMMA PressNest ==
  ASSUME NestInv, NEW k \in ShiftKeys, NestPress(k)
  PROVE  /\ nested' /\ shift_from' # <<>> => shift_from'[1].start = base'
         /\ shift_from # <<>> => shift_from' # <<>>
<1>1. /\ shift_from \in Seq(ShiftRecord)
      /\ cur_layer \in Nat
      /\ target[k] \in Nat
  BY DEF NestInv, RangeInv, TypeOK
<1> DEFINE rec == [start |-> cur_layer, curr |-> target[k]]
<1>2. rec \in ShiftRecord /\ rec.start = cur_layer
  BY <1>1 DEF ShiftRecord
<1>3. shift_from' = shift_from \/ shift_from' = Append(shift_from, rec)
  BY DEF NestPress, PressShift, Becomes, ShiftTo, Lay
<1> HIDE DEF rec
<1>4. Append(shift_from, rec) # <<>> /\ Append(shift_from, rec)[1].start =
        IF shift_from = <<>> THEN cur_layer ELSE shift_from[1].start
  <2>1. CASE shift_from = <<>>
    BY <1>2, <2>1
  <2>2. CASE shift_from # <<>>
    <3>1. Append(shift_from, rec)[1] = shift_from[1]
      BY <1>1, <1>2, <2>2
    <3>2. QED
      BY <1>1, <1>2, <2>2, <3>1
  <2>3. QED
    BY <2>1, <2>2
<1>5. CASE shift_from = <<>>
  <2>1. base' = cur_layer
    BY <1>5 DEF NestPress
  <2>2. QED
    BY <1>3, <1>4, <1>5, <2>1
<1>6. CASE shift_from # <<>>
  <2>1. base' = base /\ nested' = nested
    BY <1>6 DEF NestPress
  <2>2. QED
    BY <1>3, <1>4, <1>6, <2>1 DEF NestInv
<1>7. QED
  BY <1>5, <1>6

LEMMA ReleaseNest ==
  ASSUME NestInv, NEW k \in ShiftKeys, NestRelease(k)
  PROVE  /\ nested' /\ shift_from' # <<>> => shift_from'[1].start = base'
         /\ shift_from # <<>> /\ shift_from' = <<>> /\ nested' => cur_layer' = base
<1> DEFINE s   == shift_from
           new == UnshiftFrom(Lay, target[k])
<1>1. /\ Lay \in LayoutState(Layer)
      /\ target[k] \in Nat
      /\ s \in Seq(ShiftRecord)
  BY LayType DEF NestInv, RangeInv, TypeOK
<1>2. /\ nested' = (nested /\ NewestIs(target[k]))
      /\ base' = base
      /\ shift_from' = new.shift_from
      /\ cur_layer' = new.cur_layer
  BY DEF NestRelease, ReleaseShift, Becomes
<1>3. Lay.shift_from = s /\ Lay.cur_layer = cur_layer /\ Lay.layers = layers
  BY DEF Lay
<1>4. CASE new = Lay
  BY <1>2, <1>3, <1>4 DEF NestInv
<1>5. CASE new # Lay /\ nested'
  <2>1. PICK j \in ShiftsTo(Lay, target[k]) :
          new = [layers     |-> Lay.layers,
                 cur_layer  |-> IF j = Len(Lay.shift_from) /\ HasLayer(Lay, Lay.shift_from[j].start)
                                THEN Lay.shift_from[j].start
                                ELSE Lay.cur_layer,
                 shift_from |-> RemoveAt(Lay.shift_from, j)]
    BY <1>1, <1>5, UnshiftEffect
  <2>2. j \in 1 .. Len(s)
    BY <1>1, <1>3 DEF ShiftsTo
  <2>3. s # <<>>
    BY <2>2
  <2>4. Len(s) \in ShiftsTo(Lay, target[k])
    <3>1. s[Len(s)].curr = target[k]
      BY <1>2, <1>5, <2>3 DEF NewestIs
    <3>2. QED
      BY <1>1, <1>3, <2>2, <3>1 DEF ShiftsTo
  <2>5. new.shift_from = RemoveAt(s, Len(s))
    BY <1>1, <1>3, <1>5, <2>4, UnshiftEffect
  <2>6. s[1].start = base /\ nested
    BY <1>1, <1>2, <1>5, <2>3 DEF NestInv
  <2>7. /\ Len(new.shift_from) = Len(s) - 1
        /\ Len(s) > 1 => new.shift_from[1] = s[1]
    <3>1. Len(s) \in 1 .. Len(s)
      BY <1>1, <2>2
    <3>2. Len(s) > 1 => 1 \in 1 .. Len(s) - 1 /\ 1 < Len(s)
      BY <1>1
    <3>3. QED
      BY <1>1, <2>5, <3>1, <3>2, RemoveAtProperties
  <2>8. new.shift_from \in Seq(ShiftRecord)
    BY <1>1, <2>2, <2>1, <1>3, RemoveAtProperties
  <2>9. ASSUME new.shift_from # <<>>
        PROVE  new.shift_from[1].start = base
    <3>1. Len(s) > 1
      BY <1>1, <2>7, <2>8, <2>9
    <3>2. QED
      BY <2>6, <2>7, <3>1
  <2>10. ASSUME new.shift_from = <<>>
         PROVE  new.cur_layer = base
    <3>1. Len(s) = 1
      BY <1>1, <2>7, <2>10
    <3>2. j = Len(s) /\ s[j].start = base
      BY <2>2, <2>6, <3>1
    <3>3. HasLayer(Lay, s[j].start)
      BY <1>3, <2>2, <1>1 DEF NestInv, RangeInv, InRange, HasLayer
    <3>4. QED
      BY <1>3, <2>1, <3>2, <3>3
  <2>11. QED
    BY <1>2, <2>9, <2>10
<1>6. QED
  BY <1>4, <1>5

LEMMA NestStep == NestInv /\ [NestNext]_nestVars => NestInv'
<1> SUFFICES ASSUME NestInv, [NestNext]_nestVars
             PROVE  nested' /\ shift_from' # <<>> => shift_from'[1].start = base'
  BY RangeStep, NestIsCareful DEF NestInv
<1>1. CASE \E k \in ShiftKeys : NestPress(k)
  BY <1>1, PressNest
<1>2. CASE \E k \in ShiftKeys : NestRelease(k)
  BY <1>2, ReleaseNest
<1>3. CASE UNCHANGED <<shift_from, base, nested>>
  BY <1>3 DEF NestInv
<1>4. QED
  BY <1>1, <1>2, <1>3, ShiftsKept DEF NestNext, nestVars, vars

(* base and nested keep their types as well. *)
THEOREM NestTypeCorrect == NestSpec => []NestTypeOK
<1>1. NestInit => NestTypeOK
  BY TypeInit DEF NestInit, NestTypeOK
<1>2. NestTypeOK /\ [NestNext]_nestVars => NestTypeOK'
  <2> SUFFICES ASSUME NestTypeOK, [NestNext]_nestVars
               PROVE  base' \in Nat /\ nested' \in BOOLEAN
    BY NestIsCareful, CarefulIsNext, TypeStep DEF NestTypeOK
  <2>1. ASSUME NEW k \in ShiftKeys, NestPress(k)
        PROVE  base' \in Nat /\ nested' \in BOOLEAN
    BY <2>1 DEF NestPress, NestTypeOK, TypeOK
  <2>2. ASSUME NEW k \in ShiftKeys, NestRelease(k)
        PROVE  base' \in Nat /\ nested' \in BOOLEAN
    <3>1. base' = base
      BY <2>2 DEF NestRelease
    <3>2. nested' \in BOOLEAN
      BY <2>2, Zenon DEF NestRelease, NestTypeOK, NewestIs
    <3>3. QED
      BY <3>1, <3>2 DEF NestTypeOK
  <2>3. QED
    BY <2>1, <2>2 DEF NestNext, NestTypeOK, nestVars
<1>3. QED
  BY <1>1, <1>2, PTL DEF NestSpec

(* The step that closes the last shift, all closed newest first, returns   *)
(* to the layer from which the first was made.                             *)
THEOREM NestedReleaseCorrect == NestSpec => NestedReleaseRestores
<1>1. NestInv /\ [NestNext]_nestVars
        => [(shift_from # <<>> /\ shift_from' = <<>> /\ nested') => cur_layer' = base]_nestVars
  <2> SUFFICES ASSUME NestInv, [NestNext]_nestVars,
                      shift_from # <<>>, shift_from' = <<>>, nested'
               PROVE  cur_layer' = base
    OBVIOUS
  <2>1. ~UNCHANGED shift_from
    OBVIOUS
  <2>2. CASE \E k \in ShiftKeys : NestPress(k)
    BY <2>2, PressNest
  <2>3. CASE \E k \in ShiftKeys : NestRelease(k)
    BY <2>3, ReleaseNest
  <2>4. QED
    BY <2>1, <2>2, <2>3, ShiftsKept DEF NestNext, nestVars, vars
<1>2. NestSpec => []NestInv
  BY NestInvInit, NestStep, PTL DEF NestSpec
<1>3. QED
  BY <1>1, <1>2, PTL DEF NestSpec, NestedReleaseRestores

-----------------------------------------------------------------------------
(***************************************************************************)
(* Module Variables: what the commands that set and save variables do,     *)
(* for any names, texts, readers and files.                                *)
(***************************************************************************)

(* The first of a set of places. *)
LEMMA MinIsLeast ==
  ASSUME NEW S, S \subseteq Nat, S # {}
  PROVE  Min(S) \in S
<1>1. \E m \in S : \A x \in S : m <= x
  <2> DEFINE R == OpToRel(<, Nat)
  <2>1. IsWellFoundedOn(R, Nat)
    BY NatLessThanWellFounded DEF R
  <2>2. PICK m \in S : \A y \in S : ~ (<<y, m>> \in R)
    BY <2>1, WFMin
  <2>3. ASSUME NEW x \in S
        PROVE  m <= x
    <3>1. ~ (x < m)
      BY <2>2, <2>3 DEF R, OpToRel
    <3>2. QED
      BY <3>1
  <2>4. QED
    BY <2>3
<1>2. QED
  BY <1>1 DEF Min

(* What the readers of layout.json and of the layers to come are. *)
LEMMA ReaderFacts ==
  ASSUME NEW r \in Reader
  PROVE  /\ NameOf[r] \in Name /\ Parses[r] \subseteq Value /\ Reads[r] \subseteq Value
         /\ \A v \in Parses[r] : Mapping[r][v] \in Reads[r]
         /\ \A v \in Reads[r] : Unmapping[r][v] \in Parses[r]
BY ReaderAssumption

(* A name has a channel if it has a definition, with the value of one.     *)
LEMMA CreateManyType ==
  ASSUME NEW defs \in Seq(VarDef), NEW n \in Name
  PROVE  /\ CreateMany(defs) \in [Name -> Seq(Value)]
         /\ CreateMany(defs)[n] # <<>> <=> Defining(defs, n) # {}
         /\ Defining(defs, n) # {} =>
              \E i \in Defining(defs, n) : CreateMany(defs)[n] = << defs[i].default >>
<1>1. ASSUME NEW m \in Name, Defining(defs, m) # {}
      PROVE  /\ Min(Defining(defs, m)) \in Defining(defs, m)
             /\ defs[Min(Defining(defs, m))].default \in Value
  <2>1. Defining(defs, m) \subseteq DOMAIN defs /\ DOMAIN defs \subseteq Nat
    BY DEF Defining
  <2>2. Min(Defining(defs, m)) \in Defining(defs, m)
    BY <1>1, <2>1, MinIsLeast, Zenon
  <2>3. PICK i \in DOMAIN defs : i = Min(Defining(defs, m))
    BY <2>1, <2>2
  <2>4. defs[i] \in VarDef
    OBVIOUS
  <2>5. defs[i].default \in Value
    BY <2>4 DEF VarDef
  <2>6. QED
    BY <2>2, <2>3, <2>5
<1>2. CreateMany(defs) \in [Name -> Seq(Value)]
  BY <1>1 DEF CreateMany
<1>3. QED
  BY <1>1, <1>2 DEF CreateMany

-----------------------------------------------------------------------------
SavableDefined == \A i \in DOMAIN savable : data[savable[i].name] # <<>>

Distinct == \A i, j \in DOMAIN stack : stack[i] = stack[j] => i = j

LayoutDistinct ==
  \A i, j \in DOMAIN layout_file : layout_file[i].reader = layout_file[j].reader => i = j

(* While the layout is built, the stack has the readers of layout.json so  *)
(* far.                                                                    *)
BuiltSoFar ==
  building > 0 =>
    /\ Len(stack) = Len(layout_file) - building
    /\ \A i \in DOMAIN stack : stack[i] = layout_file[i].reader

(* An update that is under way has reached the first channel of its name,  *)
(* and the layout is built and no file is being saved.                     *)
SendingAlone ==
  \A n \in Name : sending[n] # 0 => sending[n] > 1 /\ building = 0 /\ ~pending.saving

VarInv ==
  VarTypeOK /\ SavableDefined /\ Distinct /\ LayoutDistinct /\ BuiltSoFar /\ SendingAlone

LEMMA VarInvInit ==
  ASSUME VarInit
  PROVE  VarInv
<1>1. /\ InitFile \in Seq(VarDef) /\ InitLayout \in Seq(ReaderDef)
      /\ \A i \in DOMAIN InitLayout : WellTyped(InitLayout[i])
      /\ \A i, j \in DOMAIN InitLayout : InitLayout[i].reader = InitLayout[j].reader => i = j
  BY ConfigAssumption
<1>2. /\ data = CreateMany(InitFile) /\ savable = InitFile /\ readers = <<>> /\ stack = <<>>
      /\ sending = [n \in Name |-> 0]
      /\ building = Len(InitLayout) /\ file = InitFile /\ pending = NoPending
      /\ layout_file = InitLayout
      /\ kept = [n \in Name |-> {}] /\ settled = [n \in Name |-> {}]
  BY DEF VarInit
<1>3. data \in [Name -> Seq(Value)]
  <2>1. CASE Name = {}
    BY <1>2, <2>1 DEF CreateMany
  <2>2. CASE Name # {}
    BY <1>1, <1>2, <2>2, CreateManyType
  <2>3. QED
    BY <2>1, <2>2
<1>4. /\ DOMAIN readers = {} /\ ToSet(stack) = {}
      /\ stack \in Seq(Reader)
  BY <1>2 DEF ToSet
<1>5. VarTypeOK
  <2>1. building \in 0 .. Len(layout_file)
    BY <1>1, <1>2
  <2>2. pending \in [saving : BOOLEAN, defs : Seq(VarDef)]
    BY <1>2 DEF NoPending
  <2>3. kept \in [Name -> SUBSET Value] /\ settled \in [Name -> SUBSET Value]
    BY <1>2
  <2>4. savable \in Seq(VarDef) /\ file \in Seq(VarDef) /\ layout_file \in Seq(ReaderDef)
    BY <1>1, <1>2
  <2>5. \A i \in DOMAIN layout_file : WellTyped(layout_file[i])
    BY <1>1, <1>2
  <2>6. sending \in [Name -> Nat] /\ \A n \in Name : sending[n] <= Len(data[n])
    <3>1. \A n \in Name : Len(data[n]) \in Nat /\ sending[n] = 0
      BY <1>2, <1>3
    <3>2. QED
      BY <1>2, <3>1
  <2>7. QED
    BY <1>3, <1>4, <2>1, <2>2, <2>3, <2>4, <2>5, <2>6 DEF VarTypeOK
<1>6. SavableDefined
  <2>1. ASSUME NEW i \in DOMAIN savable
        PROVE  data[savable[i].name] # <<>>
    <3>1. InitFile[i] \in VarDef /\ savable[i] = InitFile[i] /\ i \in DOMAIN InitFile
      BY <1>1, <1>2
    <3>2. savable[i].name \in Name /\ i \in Defining(InitFile, savable[i].name)
      BY <3>1 DEF VarDef, Defining
    <3>3. QED
      BY <1>1, <1>2, <3>2, CreateManyType
  <2>2. QED
    BY <2>1 DEF SavableDefined
<1>7. Distinct /\ LayoutDistinct /\ BuiltSoFar /\ SendingAlone
  BY <1>1, <1>2 DEF Distinct, LayoutDistinct, BuiltSoFar, SendingAlone
<1>8. QED
  BY <1>5, <1>6, <1>7 DEF VarInv

(* What building a reader does. *)
LEMMA BuildEffect ==
  ASSUME VarTypeOK,
         NEW def \in ReaderDef, WellTyped(def), BuildReader(def)
  PROVE  /\ def.reader \in Reader
         /\ data' \in [Name -> Seq(Value)]
         /\ \A n \in Name : data[n] # <<>> => data'[n] # <<>> /\ data'[n][1] = data[n][1]
         /\ \A n \in Name : Len(data[n]) <= Len(data'[n])
         /\ \A n \in Name : n # NameOf[def.reader] => data'[n] = data[n]
         /\ DOMAIN readers' = DOMAIN readers \cup {def.reader}
         /\ \A r \in DOMAIN readers : r # def.reader => readers'[r] = readers[r]
         /\ readers'[def.reader] \in ReaderState
         /\ readers'[def.reader].local \in Reads[def.reader]
         /\ stack' = Append(stack, def.reader)
<1> DEFINE n == NameOf[def.reader]
           given == IF ~def.declares /\ IsDefined(n) /\ Get(n) \in Parses[def.reader]
                    THEN Get(n) ELSE def.default
           new == [chan |-> Len(data[n]) + 1, unseen |-> IsDefined(n),
                   local |-> Mapping[def.reader][given]]
           ch == AddChannel(def)
<1>1. /\ data' = [data EXCEPT ![n] = ch]
      /\ readers' = [s \in DOMAIN readers \cup {def.reader} |-> IF s = def.reader THEN new ELSE readers[s]]
      /\ stack' = Append(stack, def.reader)
  BY DEF BuildReader
<1>2. /\ def.reader \in Reader /\ def.default \in Value
      /\ def.default \in Parses[def.reader]
  BY DEF ReaderDef, WellTyped
<1>3. n \in Name /\ data \in [Name -> Seq(Value)]
  BY <1>2, ReaderFacts DEF VarTypeOK
<1>4. given \in Parses[def.reader]
  BY <1>2
<1>5. /\ Mapping[def.reader][given] \in Reads[def.reader]
      /\ Mapping[def.reader][given] \in Value
  BY <1>2, <1>4, ReaderFacts
<1>6. new \in ReaderState /\ new.local \in Reads[def.reader]
  BY <1>3, <1>5 DEF ReaderState, IsDefined
<1>7. /\ ch \in Seq(Value)
      /\ data[n] # <<>> => ch # <<>> /\ ch[1] = data[n][1]
      /\ Len(data[n]) <= Len(ch)
  <2>1. PICK s \in Seq(Value) : s = data[n]
    BY <1>3
  <2>2. CASE s = <<>>
    <3>1. ch = Append(s, def.default)
      BY <2>1, <2>2 DEF AddChannel, IsDefined
    <3>2. QED
      BY <1>2, <2>1, <2>2, <3>1
  <2>3. CASE s # <<>>
    <3>1. ch = Append(s, s[1])
      BY <2>1, <2>3 DEF AddChannel, IsDefined, Get
    <3>2. s[1] \in Value /\ 1 \in 1 .. Len(s)
      BY <2>3
    <3>3. QED
      BY <2>1, <3>1, <3>2
  <2>4. QED
    BY <2>2, <2>3
<1> HIDE DEF n, given, new, ch
<1>8. ASSUME NEW m \in Name
      PROVE  Len(data[m]) <= Len(data'[m])
  <2>1. Len(data[m]) \in Nat /\ data'[m] = IF m = n THEN ch ELSE data[m]
    BY <1>1, <1>3
  <2>2. QED
    BY <1>7, <2>1
<1>9. QED
  BY <1>1, <1>2, <1>3, <1>6, <1>7, <1>8 DEF n

LEMMA SavableNames ==
  ASSUME VarTypeOK, NEW i \in DOMAIN savable
  PROVE  savable[i] \in VarDef /\ savable[i].name \in Name
<1>1. savable \in Seq(VarDef)
  BY DEF VarTypeOK
<1>2. savable[i] \in VarDef
  BY <1>1
<1>3. QED
  BY <1>2 DEF VarDef

(* What a step that builds a reader keeps. *)
LEMMA BuildKeeps ==
  ASSUME VarTypeOK, SavableDefined, Distinct,
         NEW def \in ReaderDef, WellTyped(def), BuildReader(def),
         def.reader \notin DOMAIN readers,
         building' \in 0 .. Len(layout_file),
         UNCHANGED <<savable, sending, file, pending, layout_file, kept, settled>>
  PROVE  VarTypeOK' /\ SavableDefined' /\ Distinct'
<1>1. /\ def.reader \in Reader
      /\ data' \in [Name -> Seq(Value)]
      /\ \A n \in Name : data[n] # <<>> => data'[n] # <<>>
      /\ \A n \in Name : Len(data[n]) <= Len(data'[n])
      /\ DOMAIN readers' = DOMAIN readers \cup {def.reader}
      /\ \A r \in DOMAIN readers : readers'[r] = readers[r]
      /\ readers'[def.reader] \in ReaderState
      /\ readers'[def.reader].local \in Reads[def.reader]
      /\ stack' = Append(stack, def.reader)
  BY BuildEffect
<1>2. /\ stack \in Seq(Reader) /\ ToSet(stack) = DOMAIN readers
      /\ DOMAIN readers \subseteq Reader
      /\ savable \in Seq(VarDef)
  BY DEF VarTypeOK
<1>3. /\ stack' \in Seq(Reader) /\ Len(stack') = Len(stack) + 1
      /\ stack'[Len(stack) + 1] = def.reader
      /\ \A i \in 1 .. Len(stack) : stack'[i] = stack[i]
  BY <1>1, <1>2
<1>4. \A i \in 1 .. Len(stack) : stack[i] \in DOMAIN readers
  BY <1>2 DEF ToSet
<1>5. ToSet(stack') = DOMAIN readers'
  <2>1. ASSUME NEW r \in DOMAIN readers
        PROVE  \E i \in DOMAIN stack' : stack'[i] = r
    <3>1. PICK i \in DOMAIN stack : stack[i] = r
      BY <1>2, <2>1 DEF ToSet
    <3>2. i \in DOMAIN stack' /\ stack'[i] = r
      BY <1>2, <1>3, <3>1
    <3>3. QED
      BY <3>2
  <2>2. def.reader \in ToSet(stack')
    BY <1>2, <1>3 DEF ToSet
  <2>3. ASSUME NEW i \in DOMAIN stack'
        PROVE  stack'[i] \in DOMAIN readers'
    <3>1. CASE i = Len(stack) + 1
      BY <1>1, <1>3, <3>1
    <3>2. CASE i # Len(stack) + 1
      <4>1. i \in 1 .. Len(stack)
        BY <1>2, <1>3, <3>2
      <4>2. QED
        BY <1>1, <1>3, <1>4, <4>1
    <3>3. QED
      BY <3>1, <3>2
  <2>4. QED
    BY <1>1, <2>1, <2>2, <2>3 DEF ToSet
<1>6. /\ DOMAIN readers' \subseteq Reader
      /\ \A r \in DOMAIN readers' : readers'[r] \in ReaderState /\ readers'[r].local \in Reads[r]
  BY <1>1, <1>2 DEF VarTypeOK
<1>7. VarTypeOK'
  <2>1. /\ savable' \in Seq(VarDef) /\ file' \in Seq(VarDef)
        /\ pending' \in [saving : BOOLEAN, defs : Seq(VarDef)]
        /\ layout_file' \in Seq(ReaderDef)
        /\ kept' \in [Name -> SUBSET Value] /\ settled' \in [Name -> SUBSET Value]
        /\ \A i \in DOMAIN layout_file' : WellTyped(layout_file'[i])
        /\ building' \in 0 .. Len(layout_file')
    BY DEF VarTypeOK
  <2>2. sending' \in [Name -> Nat] /\ \A n \in Name : sending'[n] <= Len(data'[n])
    <3>1. sending \in [Name -> Nat] /\ \A n \in Name : sending[n] <= Len(data[n])
      BY DEF VarTypeOK
    <3>2. ASSUME NEW n \in Name
          PROVE  sending'[n] <= Len(data'[n])
      <4>1. /\ Len(data[n]) \in Nat /\ Len(data'[n]) \in Nat /\ sending[n] \in Nat
            /\ sending[n] <= Len(data[n]) /\ Len(data[n]) <= Len(data'[n])
        BY <1>1, <3>1 DEF VarTypeOK
      <4>2. QED
        BY <4>1
    <3>3. QED
      BY <3>1, <3>2
  <2>3. QED
    BY <1>1, <1>3, <1>5, <1>6, <2>1, <2>2, Zenon DEF VarTypeOK, WellTyped
<1>8. SavableDefined'
  <2>1. ASSUME NEW i \in DOMAIN savable
        PROVE  data'[savable[i].name] # <<>>
    <3>1. savable[i].name \in Name
      BY SavableNames
    <3>2. QED
      BY <1>1, <3>1 DEF SavableDefined
  <2>2. QED
    BY <2>1 DEF SavableDefined
<1>9. Distinct'
  <2>1. ASSUME NEW i \in 1 .. Len(stack) + 1, NEW j \in 1 .. Len(stack) + 1, stack'[i] = stack'[j]
        PROVE  i = j
    <3>1. CASE i = Len(stack) + 1 /\ j # Len(stack) + 1
      <4>1. j \in 1 .. Len(stack)
        BY <1>2, <3>1
      <4>2. QED
        BY <1>3, <1>4, <2>1, <3>1, <4>1
    <3>2. CASE j = Len(stack) + 1 /\ i # Len(stack) + 1
      <4>1. i \in 1 .. Len(stack)
        BY <1>2, <3>2
      <4>2. QED
        BY <1>3, <1>4, <2>1, <3>2, <4>1
    <3>3. CASE i # Len(stack) + 1 /\ j # Len(stack) + 1
      <4>1. i \in 1 .. Len(stack) /\ j \in 1 .. Len(stack)
        BY <1>2, <3>3
      <4>2. stack[i] = stack[j]
        BY <1>3, <2>1, <4>1
      <4>3. i \in DOMAIN stack /\ j \in DOMAIN stack
        BY <1>2, <4>1
      <4>4. QED
        BY <4>2, <4>3, Zenon DEF Distinct
    <3>4. QED
      BY <3>1, <3>2, <3>3
  <2>2. DOMAIN stack' = 1 .. Len(stack) + 1
    BY <1>2, <1>3
  <2>3. QED
    BY <2>1, <2>2 DEF Distinct
<1>10. QED
  BY <1>7, <1>8, <1>9

(* The reader of layout.json that is built next. *)
LEMMA LayoutReader ==
  ASSUME VarInv, BuildLayout
  PROVE  \E def \in ReaderDef : /\ WellTyped(def) /\ BuildReader(def)
                                  /\ def.reader \notin DOMAIN readers
                                  /\ Len(stack) + 1 \in DOMAIN layout_file
                                  /\ def = layout_file[Len(stack) + 1]
                                  /\ Len(stack) = Len(layout_file) - building
<1> DEFINE k == Len(layout_file) - building + 1
<1>1. building > 0 /\ BuildReader(layout_file[k])
  BY DEF BuildLayout
<1>2. /\ building \in 0 .. Len(layout_file) /\ layout_file \in Seq(ReaderDef)
      /\ stack \in Seq(Reader) /\ ToSet(stack) = DOMAIN readers
  BY DEF VarInv, VarTypeOK
<1>3. k \in 1 .. Len(layout_file)
  BY <1>1, <1>2
<1>4. PICK def \in ReaderDef : def = layout_file[k]
  BY <1>2, <1>3
<1>5. WellTyped(def)
  BY <1>2, <1>3, <1>4 DEF VarInv, VarTypeOK
<1>6. /\ Len(stack) = k - 1 /\ Len(stack) = Len(layout_file) - building
      /\ \A i \in DOMAIN stack : stack[i] = layout_file[i].reader
  BY <1>1, <1>2 DEF VarInv, BuiltSoFar
<1>7. def.reader \notin DOMAIN readers
  <2> SUFFICES ASSUME NEW i \in DOMAIN stack, stack[i] = def.reader
               PROVE  FALSE
    BY <1>2 DEF ToSet
  <2>1. i \in 1 .. k - 1 /\ i \in DOMAIN layout_file /\ k \in DOMAIN layout_file
    BY <1>2, <1>3, <1>6
  <2>2. layout_file[i].reader = layout_file[k].reader
    BY <1>4, <1>6
  <2>3. i = k
    BY <2>1, <2>2, Zenon DEF VarInv, LayoutDistinct
  <2>4. QED
    BY <1>3, <2>1, <2>3
<1> HIDE DEF k
<1>8. k = Len(stack) + 1 /\ k \in DOMAIN layout_file
  BY <1>2, <1>3, <1>6
<1>9. QED
  BY <1>1, <1>4, <1>5, <1>6, <1>7, <1>8

LEMMA BuildLayoutStep ==
  ASSUME VarInv, BuildLayout
  PROVE  VarInv'
<1>1. PICK def \in ReaderDef :
        /\ WellTyped(def) /\ BuildReader(def) /\ def.reader \notin DOMAIN readers
        /\ Len(stack) + 1 \in DOMAIN layout_file
        /\ def = layout_file[Len(stack) + 1]
        /\ Len(stack) = Len(layout_file) - building
  BY LayoutReader
<1>2. /\ building > 0 /\ building' = building - 1
      /\ UNCHANGED <<savable, sending, file, pending, layout_file, kept, settled>>
  BY DEF BuildLayout
<1>3. /\ building \in 0 .. Len(layout_file) /\ layout_file \in Seq(ReaderDef)
      /\ stack \in Seq(Reader)
  BY DEF VarInv, VarTypeOK
<1>4. building' \in 0 .. Len(layout_file)
  BY <1>2, <1>3
<1>5. VarTypeOK' /\ SavableDefined' /\ Distinct'
  BY <1>1, <1>2, <1>4, BuildKeeps DEF VarInv
<1>6. LayoutDistinct'
  BY <1>2 DEF VarInv, LayoutDistinct
<1>7. BuiltSoFar'
  <2>1. stack' = Append(stack, def.reader) /\ def.reader \in Reader
    BY <1>1 DEF BuildReader, ReaderDef
  <2>2. Len(stack') = Len(stack) + 1 /\ stack'[Len(stack) + 1] = def.reader
    BY <1>3, <2>1
  <2>3. ASSUME NEW i \in DOMAIN stack'
        PROVE  stack'[i] = layout_file[i].reader
    <3>1. CASE i = Len(stack) + 1
      BY <1>1, <2>2, <3>1
    <3>2. CASE i # Len(stack) + 1
      <4>1. i \in DOMAIN stack /\ stack'[i] = stack[i]
        BY <1>3, <2>1, <3>2
      <4>2. QED
        BY <1>2, <4>1 DEF VarInv, BuiltSoFar
    <3>3. QED
      BY <3>1, <3>2
  <2>4. Len(stack') = Len(layout_file') - building'
    BY <1>1, <1>2, <1>3, <2>2
  <2>5. QED
    BY <1>2, <2>3, <2>4 DEF BuiltSoFar
<1>8. SendingAlone'
  BY <1>2 DEF VarInv, SendingAlone
<1>9. QED
  BY <1>5, <1>6, <1>7, <1>8 DEF VarInv

LEMMA AddFunctionStep ==
  ASSUME VarInv, NEW def \in AddedDefs, AddFunction(def)
  PROVE  VarInv'
<1>1. /\ building = 0 /\ def.reader \notin DOMAIN readers /\ BuildReader(def)
      /\ UNCHANGED <<savable, sending, building, file, pending, layout_file, kept, settled>>
  BY DEF AddFunction, RpcReady
<1>2. def \in ReaderDef /\ WellTyped(def)
  BY ConfigAssumption
<1>3. building' \in 0 .. Len(layout_file)
  BY <1>1 DEF VarInv, VarTypeOK
<1>4. VarTypeOK' /\ SavableDefined' /\ Distinct'
  BY <1>1, <1>2, <1>3, BuildKeeps DEF VarInv
<1>5. LayoutDistinct' /\ BuiltSoFar' /\ SendingAlone'
  BY <1>1 DEF VarInv, LayoutDistinct, BuiltSoFar, SendingAlone
<1>6. QED
  BY <1>4, <1>5 DEF VarInv

LEMMA DropFunctionStep ==
  ASSUME VarInv, NEW i \in DOMAIN stack, DropFunction(i)
  PROVE  VarInv'
<1>1. /\ building = 0
      /\ readers' = [r \in DOMAIN readers \ {stack[i]} |-> readers[r]]
      /\ stack' = RemoveAt(stack, i)
      /\ UNCHANGED <<data, savable, sending, building, file, pending, layout_file, kept, settled>>
  BY DEF DropFunction, RpcReady
<1>2. /\ stack \in Seq(Reader) /\ ToSet(stack) = DOMAIN readers
      /\ \A j, k \in DOMAIN stack : stack[j] = stack[k] => j = k
  BY DEF VarInv, VarTypeOK, Distinct
<1>3. /\ stack' \in Seq(Reader) /\ Len(stack') = Len(stack) - 1
      /\ \A j \in 1 .. Len(stack) - 1 : stack'[j] = IF j < i THEN stack[j] ELSE stack[j + 1]
  <2>1. RemoveAt(stack, i) = RemoveAt(stack, i)
    BY DEF RemoveAt, RemoveAt
  <2>2. i \in 1 .. Len(stack)
    BY <1>2
  <2>3. /\ RemoveAt(stack, i) \in Seq(Reader)
        /\ Len(RemoveAt(stack, i)) = Len(stack) - 1
        /\ \A j \in 1 .. Len(stack) - 1 :
             RemoveAt(stack, i)[j] = IF j < i THEN stack[j] ELSE stack[j + 1]
    BY <1>2, <2>2, RemoveAtProperties
  <2>4. stack' = RemoveAt(stack, i)
    BY <1>1, <2>1
  <2>5. QED
    BY <2>3, <2>4
<1>4. i \in 1 .. Len(stack) /\ Len(stack) \in Nat /\ DOMAIN stack' = 1 .. Len(stack) - 1
  BY <1>2, <1>3
<1>5. ASSUME NEW j \in DOMAIN stack'
      PROVE  \E k \in DOMAIN stack : k # i /\ stack'[j] = stack[k] /\ k = IF j < i THEN j ELSE j + 1
  <2>1. CASE j < i
    BY <1>2, <1>3, <1>4, <2>1
  <2>2. CASE ~(j < i)
    <3>1. j + 1 \in DOMAIN stack /\ j + 1 # i /\ stack'[j] = stack[j + 1]
      BY <1>2, <1>3, <1>4, <2>2
    <3>2. QED
      BY <2>2, <3>1
  <2>3. QED
    BY <2>1, <2>2
<1>6. ToSet(stack') = DOMAIN readers'
  <2>1. ASSUME NEW j \in DOMAIN stack'
        PROVE  stack'[j] \in DOMAIN readers'
    <3>1. PICK k \in DOMAIN stack : k # i /\ stack'[j] = stack[k]
      BY <1>5
    <3>2. stack[k] # stack[i] /\ stack[k] \in DOMAIN readers
      BY <1>2, <3>1 DEF ToSet
    <3>3. QED
      BY <1>1, <3>1, <3>2
  <2>2. ASSUME NEW r \in DOMAIN readers'
        PROVE  \E j \in DOMAIN stack' : stack'[j] = r
    <3>1. PICK k \in DOMAIN stack : stack[k] = r /\ k # i
      BY <1>1, <1>2 DEF ToSet
    <3>2. k \in 1 .. Len(stack)
      BY <1>2
    <3>3. CASE k < i
      <4>1. k \in DOMAIN stack' /\ stack'[k] = r
        BY <1>3, <1>4, <3>1, <3>2, <3>3
      <4>2. QED
        BY <4>1
    <3>4. CASE ~(k < i)
      <4>1. k - 1 \in DOMAIN stack' /\ stack'[k - 1] = r
        BY <1>3, <1>4, <3>1, <3>2, <3>4
      <4>2. QED
        BY <4>1
    <3>5. QED
      BY <3>3, <3>4
  <2>3. QED
    BY <2>1, <2>2 DEF ToSet
<1>7. Distinct'
  <2>1. ASSUME NEW j \in DOMAIN stack', NEW k \in DOMAIN stack', stack'[j] = stack'[k]
        PROVE  j = k
    <3>1. PICK x \in DOMAIN stack : stack'[j] = stack[x] /\ x = IF j < i THEN j ELSE j + 1
      BY <1>5
    <3>2. PICK y \in DOMAIN stack : stack'[k] = stack[y] /\ y = IF k < i THEN k ELSE k + 1
      BY <1>5
    <3>3. x = y
      BY <1>2, <2>1, <3>1, <3>2
    <3>4. j \in Nat /\ k \in Nat /\ i \in Nat
      BY <1>4
    <3>5. QED
      BY <3>1, <3>2, <3>3, <3>4
  <2>2. QED
    BY <2>1 DEF Distinct
<1>8. VarTypeOK'
  <2>1. /\ DOMAIN readers' \subseteq Reader
        /\ \A r \in DOMAIN readers' : readers'[r] \in ReaderState /\ readers'[r].local \in Reads[r]
    BY <1>1 DEF VarInv, VarTypeOK
  <2>2. QED
    BY <1>1, <1>3, <1>6, <2>1 DEF VarInv, VarTypeOK, WellTyped
<1>9. SavableDefined' /\ LayoutDistinct' /\ BuiltSoFar' /\ SendingAlone'
  BY <1>1 DEF VarInv, SavableDefined, LayoutDistinct, BuiltSoFar, SendingAlone
<1>10. QED
  BY <1>7, <1>8, <1>9 DEF VarInv

(* What sending to one channel does. *)
LEMMA SendEffect ==
  ASSUME VarTypeOK, NEW name \in Name, NEW i \in DOMAIN data[name], NEW value \in Value,
         SendTo(name, i, value)
  PROVE  /\ data' \in [Name -> Seq(Value)]
         /\ \A n \in Name : n # name => data'[n] = data[n]
         /\ \A n \in Name : Len(data'[n]) = Len(data[n])
         /\ data'[name][i] = value
         /\ \A j \in DOMAIN data[name] : j # i => data'[name][j] = data[name][j]
         /\ i \in 1 .. Len(data[name]) /\ Len(data[name]) \in Nat
         /\ DOMAIN readers' = DOMAIN readers
<1>1. data \in [Name -> Seq(Value)]
  BY DEF VarTypeOK
<1>2. data' = [data EXCEPT ![name] = [data[name] EXCEPT ![i] = value]]
  BY DEF SendTo
<1>3. PICK s \in Seq(Value) : s = data[name]
  BY <1>1
<1>4. i \in 1 .. Len(s) /\ Len(s) \in Nat
  BY <1>3
<1>5. /\ [s EXCEPT ![i] = value] \in Seq(Value) /\ Len([s EXCEPT ![i] = value]) = Len(s)
      /\ [s EXCEPT ![i] = value][i] = value
      /\ \A j \in DOMAIN s : j # i => [s EXCEPT ![i] = value][j] = s[j]
  BY <1>4
<1>6. data'[name] = [s EXCEPT ![i] = value]
  BY <1>1, <1>2, <1>3
<1>7. \A n \in Name : n # name => data'[n] = data[n]
  BY <1>1, <1>2
<1>8. data' \in [Name -> Seq(Value)]
  BY <1>1, <1>2, <1>3, <1>5
<1>9. DOMAIN readers' = DOMAIN readers
  BY DEF SendTo
<1>10. QED
  BY <1>3, <1>4, <1>5, <1>6, <1>7, <1>8, <1>9

LEMMA SendToStep ==
  ASSUME VarInv, NEW name \in Name, NEW i \in DOMAIN data[name], NEW value \in Value,
         building = 0, ~pending.saving, SendTo(name, i, value)
  PROVE  VarInv'
<1>1. /\ sending' = [sending EXCEPT ![name] = IF i < Len(data[name]) THEN i + 1 ELSE 0]
      /\ readers' = [r \in DOMAIN readers |->
                       [readers[r] EXCEPT !.unseen = @ \/ (NameOf[r] = name /\ readers[r].chan = i)]]
      /\ UNCHANGED <<savable, stack, building, file, pending, layout_file, kept, settled>>
  BY DEF SendTo
<1>2. VarTypeOK
  BY DEF VarInv
<1>3. /\ data' \in [Name -> Seq(Value)]
      /\ \A n \in Name : Len(data'[n]) = Len(data[n])
      /\ i \in 1 .. Len(data[name]) /\ Len(data[name]) \in Nat
      /\ DOMAIN readers' = DOMAIN readers
  BY <1>2, SendEffect
<1>4. \A n \in Name : data[n] # <<>> => data'[n] # <<>>
  <2>1. ASSUME NEW n \in Name, data[n] # <<>>
        PROVE  data'[n] # <<>>
    <3>1. data[n] \in Seq(Value) /\ data'[n] \in Seq(Value) /\ Len(data'[n]) = Len(data[n])
      BY <1>2, <1>3 DEF VarTypeOK
    <3>2. Len(data[n]) # 0
      BY <2>1, <3>1
    <3>3. QED
      BY <3>1, <3>2
  <2>2. QED
    BY <2>1
<1>5. ASSUME NEW r \in DOMAIN readers
      PROVE  readers'[r] \in ReaderState /\ readers'[r].local \in Reads[r]
  <2>1. readers[r] \in ReaderState /\ readers[r].local \in Reads[r]
    BY DEF VarInv, VarTypeOK
  <2>2. readers'[r] = [readers[r] EXCEPT !.unseen = @ \/ (NameOf[r] = name /\ readers[r].chan = i)]
    BY <1>1
  <2>3. (readers[r].unseen \/ (NameOf[r] = name /\ readers[r].chan = i)) \in BOOLEAN
    BY Zenon
  <2>4. QED
    BY <2>1, <2>2, <2>3 DEF ReaderState
<1>6. sending \in [Name -> Nat] /\ \A n \in Name : sending[n] <= Len(data[n])
  BY <1>2 DEF VarTypeOK
<1>7. ASSUME NEW n \in Name
      PROVE  /\ sending'[n] \in Nat /\ sending'[n] <= Len(data'[n])
             /\ sending'[n] # 0 => sending'[n] > 1
  <2>1. CASE n = name
    <3>1. sending'[n] = IF i < Len(data[name]) THEN i + 1 ELSE 0
      BY <1>1, <1>6, <2>1
    <3>2. QED
      BY <1>3, <2>1, <3>1
  <2>2. CASE n # name
    <3>1. sending'[n] = sending[n]
      BY <1>1, <1>6, <2>2
    <3>2. QED
      BY <1>3, <1>6, <3>1 DEF VarInv, SendingAlone
  <2>3. QED
    BY <2>1, <2>2
<1>8. sending' \in [Name -> Nat]
  BY <1>1, <1>3, <1>6
<1>9. VarTypeOK'
  BY <1>1, <1>2, <1>3, <1>5, <1>7, <1>8 DEF VarTypeOK, WellTyped, ToSet
<1>10. SavableDefined'
  <2>1. ASSUME NEW k \in DOMAIN savable
        PROVE  data'[savable[k].name] # <<>>
    BY <1>2, <1>4, SavableNames DEF VarInv, SavableDefined
  <2>2. QED
    BY <1>1, <2>1 DEF SavableDefined
<1>11. Distinct' /\ LayoutDistinct' /\ BuiltSoFar'
  BY <1>1 DEF VarInv, Distinct, LayoutDistinct, BuiltSoFar
<1>12. SendingAlone'
  BY <1>1, <1>7 DEF SendingAlone
<1>13. QED
  BY <1>9, <1>10, <1>11, <1>12 DEF VarInv

(* What SetVariable and the rest of its update send, and to which channel. *)
LEMMA Sends ==
  ASSUME VarInv, NEW name \in Name
  PROVE  /\ \A value \in Value : SetVariable(name, value) =>
              /\ 1 \in DOMAIN data[name] /\ building = 0 /\ ~pending.saving
              /\ \A n \in Name : sending[n] = 0
              /\ SendTo(name, 1, value)
         /\ SendNext(name) =>
              /\ sending[name] \in DOMAIN data[name] /\ sending[name] > 1
              /\ 1 \in DOMAIN data[name] /\ Get(name) \in Value
              /\ building = 0 /\ ~pending.saving
              /\ SendTo(name, sending[name], Get(name))
<1>1. PICK s \in Seq(Value) : s = data[name]
  BY DEF VarInv, VarTypeOK
<1>2. DOMAIN s = 1 .. Len(s) /\ Len(s) \in Nat
  OBVIOUS
<1>3. ASSUME NEW value \in Value, SetVariable(name, value)
      PROVE  /\ 1 \in DOMAIN data[name] /\ building = 0 /\ ~pending.saving
             /\ \A n \in Name : sending[n] = 0
             /\ SendTo(name, 1, value)
  <2>1. s # <<>>
    BY <1>1, <1>3 DEF SetVariable, IsDefined
  <2>2. 1 \in DOMAIN s
    BY <2>1
  <2>3. QED
    BY <1>1, <1>3, <2>2 DEF SetVariable, RpcReady
<1>4. ASSUME SendNext(name)
      PROVE  /\ sending[name] \in DOMAIN data[name] /\ sending[name] > 1
             /\ 1 \in DOMAIN data[name] /\ Get(name) \in Value
             /\ building = 0 /\ ~pending.saving
             /\ SendTo(name, sending[name], Get(name))
  <2>1. sending[name] # 0 /\ SendTo(name, sending[name], Get(name))
    BY <1>4 DEF SendNext
  <2>2. sending[name] > 1 /\ building = 0 /\ ~pending.saving
    BY <2>1 DEF VarInv, SendingAlone
  <2>3. sending[name] \in Nat /\ sending[name] <= Len(s)
    BY <1>1 DEF VarInv, VarTypeOK
  <2>4. sending[name] \in DOMAIN s /\ 1 \in DOMAIN s
    BY <1>2, <2>2, <2>3
  <2>5. s[1] \in Value
    BY <2>4
  <2>6. QED
    BY <1>1, <2>1, <2>2, <2>4, <2>5 DEF Get
<1>5. QED
  BY <1>3, <1>4

LEMMA UpdateStep ==
  ASSUME VarInv, NEW name \in Name,
         (\E value \in Value : SetVariable(name, value)) \/ SendNext(name)
  PROVE  VarInv'
<1>1. ASSUME NEW value \in Value, SetVariable(name, value)
      PROVE  VarInv'
  BY <1>1, Sends, SendToStep
<1>2. CASE SendNext(name)
  <2>1. PICK i \in DOMAIN data[name] : i = sending[name]
    BY <1>2, Sends
  <2>2. PICK value \in Value : value = Get(name)
    BY <1>2, Sends
  <2>3. SendTo(name, i, value) /\ building = 0 /\ ~pending.saving
    BY <1>2, <2>1, <2>2, Sends
  <2>4. QED
    BY <2>3, SendToStep
<1>3. QED
  BY <1>1, <1>2

LEMMA ReadVariableStep ==
  ASSUME VarInv, NEW r \in DOMAIN readers, Read(r)
  PROVE  VarInv'
<1>1. /\ building = 0
      /\ readers' = [readers EXCEPT ![r].local = Reading(r), ![r].unseen = FALSE]
      /\ UNCHANGED <<data, savable, sending, stack, building, file, pending, layout_file, kept, settled>>
  BY DEF Read
<1>2. /\ r \in Reader /\ readers[r] \in ReaderState /\ readers[r].local \in Reads[r]
      /\ Reads[r] \subseteq Value
  BY ReaderFacts DEF VarInv, VarTypeOK
<1>3. Reading(r) \in Reads[r]
  BY <1>2 DEF Reading
<1>4. ASSUME NEW s \in DOMAIN readers
      PROVE  readers'[s] \in ReaderState /\ readers'[s].local \in Reads[s]
  <2>1. CASE s = r
    <3>1. PICK x \in ReaderState : x = readers[r]
      BY <1>2
    <3>2. readers'[r] = [chan |-> x.chan, unseen |-> FALSE, local |-> Reading(r)]
      BY <1>1, <3>1 DEF ReaderState
    <3>3. QED
      BY <1>2, <1>3, <2>1, <3>2 DEF ReaderState
  <2>2. CASE s # r
    BY <1>1, <2>2 DEF VarInv, VarTypeOK
  <2>3. QED
    BY <2>1, <2>2
<1>5. DOMAIN readers' = DOMAIN readers
  BY <1>1
<1>6. VarTypeOK'
  BY <1>1, <1>4, <1>5 DEF VarInv, VarTypeOK, WellTyped, ToSet
<1>7. SavableDefined' /\ Distinct' /\ LayoutDistinct' /\ BuiltSoFar' /\ SendingAlone'
  BY <1>1 DEF VarInv, SavableDefined, Distinct, LayoutDistinct, BuiltSoFar, SendingAlone
<1>8. QED
  BY <1>6, <1>7 DEF VarInv

(* Each definition is saved with the value of its name. *)
LEMMA ToJsonType ==
  ASSUME VarInv
  PROVE  /\ ToJson \in Seq(VarDef) /\ DOMAIN ToJson = DOMAIN savable
         /\ \A i \in DOMAIN savable : /\ ToJson[i].name = savable[i].name
                                      /\ ToJson[i].default = Get(savable[i].name)
<1>1. savable \in Seq(VarDef) /\ data \in [Name -> Seq(Value)]
  BY DEF VarInv, VarTypeOK
<1>2. ASSUME NEW i \in DOMAIN savable
      PROVE  /\ ToJson[i] \in VarDef
             /\ ToJson[i].name = savable[i].name
             /\ ToJson[i].default = Get(savable[i].name)
  <2>1. PICK d \in VarDef : d = savable[i]
    BY <1>1
  <2>2. d.name \in Name /\ data[d.name] # <<>>
    BY <2>1 DEF VarInv, SavableDefined, VarDef
  <2>3. Get(d.name) \in Value
    BY <1>1, <2>2 DEF Get
  <2>4. ToJson[i] = [d EXCEPT !.default = Get(d.name)]
    BY <2>1 DEF ToJson
  <2>5. QED
    BY <2>1, <2>3, <2>4 DEF VarDef
<1>3. DOMAIN savable = 1 .. Len(savable) /\ Len(savable) \in Nat
  BY <1>1
<1>4. ToJson = [i \in 1 .. Len(savable) |-> ToJson[i]]
  BY <1>3 DEF ToJson
<1>5. QED
  BY <1>2, <1>3, <1>4

LEMMA SaveVariablesStep ==
  ASSUME VarInv, OpenFile \/ WriteFile \/ WriteFails
  PROVE  VarInv'
<1>1. UNCHANGED <<data, savable, sending, readers, stack, building, layout_file, settled>>
  BY DEF OpenFile, WriteFile, WriteFails
<1>2. /\ pending \in [saving : BOOLEAN, defs : Seq(VarDef)]
      /\ data \in [Name -> Seq(Value)] /\ savable \in Seq(VarDef)
  BY DEF VarInv, VarTypeOK
<1>3. NoPending \in [saving : BOOLEAN, defs : Seq(VarDef)]
  BY DEF NoPending
<1>4. file' \in Seq(VarDef) /\ pending' \in [saving : BOOLEAN, defs : Seq(VarDef)]
  <2>1. CASE OpenFile
    BY <2>1, ToJsonType DEF OpenFile
  <2>2. CASE WriteFile
    BY <1>2, <1>3, <2>2 DEF WriteFile
  <2>3. CASE WriteFails
    BY <1>3, <2>3 DEF WriteFails, VarInv, VarTypeOK
  <2>4. QED
    BY <2>1, <2>2, <2>3
<1>5. kept' \in [Name -> SUBSET Value]
  <2>1. CASE WriteFile
    <3>1. ASSUME NEW n \in Name, IsGlobal(n)
          PROVE  Get(n) \in Value
      <4>1. PICK i \in DOMAIN savable : savable[i].name = n
        BY <3>1 DEF IsGlobal, Defining
      <4>2. data[n] # <<>>
        BY <4>1 DEF VarInv, SavableDefined
      <4>3. QED
        BY <1>2, <4>2 DEF Get
    <3>2. QED
      BY <2>1, <3>1 DEF WriteFile
  <2>2. CASE ~WriteFile
    BY <2>2 DEF OpenFile, WriteFails, VarInv, VarTypeOK
  <2>3. QED
    BY <2>1, <2>2
<1>6. VarTypeOK'
  BY <1>1, <1>4, <1>5 DEF VarInv, VarTypeOK, WellTyped, ToSet
<1>7. SavableDefined' /\ Distinct' /\ LayoutDistinct' /\ BuiltSoFar'
  BY <1>1 DEF VarInv, SavableDefined, Distinct, LayoutDistinct, BuiltSoFar
<1>8. SendingAlone'
  BY <1>1 DEF VarInv, SendingAlone, OpenFile, RpcReady, WriteFile, WriteFails, NoPending
<1>9. QED
  BY <1>6, <1>7, <1>8 DEF VarInv

(* What layout.json is saved as. *)
LEMMA SavedLayout ==
  ASSUME VarInv, SaveLayout
  PROVE  /\ layout_file' \in Seq(ReaderDef) /\ DOMAIN layout_file' = DOMAIN stack
         /\ \A i \in DOMAIN stack : /\ layout_file'[i].reader = stack[i] /\ stack[i] \in DOMAIN readers
                                    /\ layout_file'[i].default = IntoData(stack[i]).default
                                    /\ WellTyped(layout_file'[i])
<1>1. /\ stack \in Seq(Reader) /\ ToSet(stack) = DOMAIN readers
      /\ layout_file' = [i \in DOMAIN stack |-> IntoData(stack[i])]
  BY DEF VarInv, VarTypeOK, SaveLayout
<1>2. ASSUME NEW i \in DOMAIN stack
      PROVE  /\ layout_file'[i] \in ReaderDef
             /\ layout_file'[i].reader = stack[i] /\ stack[i] \in DOMAIN readers
             /\ layout_file'[i].default = IntoData(stack[i]).default
             /\ WellTyped(layout_file'[i])
  <2>1. PICK r \in Reader : r = stack[i] /\ r \in DOMAIN readers
    BY <1>1 DEF ToSet
  <2>2. readers[r].local \in Reads[r]
    BY <2>1 DEF VarInv, VarTypeOK
  <2>3. PICK v : v = Unmapping[r][readers[r].local]
    OBVIOUS
  <2>4. v \in Parses[r] /\ v \in Value
    BY <2>1, <2>2, <2>3, ReaderFacts
  <2>5. IntoData(r) = [reader |-> r, declares |-> TRUE, default |-> v]
    BY <2>3 DEF IntoData
  <2>6. layout_file'[i] = [reader |-> r, declares |-> TRUE, default |-> v]
    BY <1>1, <2>1, <2>5
  <2>7. QED
    BY <2>1, <2>4, <2>5, <2>6 DEF ReaderDef, WellTyped
<1>3. DOMAIN stack = 1 .. Len(stack) /\ Len(stack) \in Nat
  BY <1>1
<1>4. layout_file' = [i \in 1 .. Len(stack) |-> layout_file'[i]]
  BY <1>1, <1>3
<1>5. layout_file' \in Seq(ReaderDef)
  BY <1>2, <1>3, <1>4
<1>6. QED
  BY <1>1, <1>2, <1>5

LEMMA SaveLayoutStep ==
  ASSUME VarInv, SaveLayout
  PROVE  VarInv'
<1>1. /\ building = 0
      /\ settled' = [n \in Name |-> IF ~IsGlobal(n) /\ Agreed(n) THEN {Get(n)} ELSE {}]
      /\ UNCHANGED <<data, savable, sending, readers, stack, building, file, pending, kept>>
  BY DEF SaveLayout, RpcReady
<1>2. /\ layout_file' \in Seq(ReaderDef) /\ DOMAIN layout_file' = DOMAIN stack
      /\ \A i \in DOMAIN stack : layout_file'[i].reader = stack[i] /\ WellTyped(layout_file'[i])
  BY SavedLayout
<1>3. settled' \in [Name -> SUBSET Value]
  <2>1. ASSUME NEW n \in Name, Agreed(n)
        PROVE  Get(n) \in Value
    <3>1. PICK r \in DOMAIN readers : IntoData(r).default = Get(n)
      BY <2>1 DEF Agreed, ReadersOf
    <3>2. r \in Reader /\ readers[r].local \in Reads[r]
      BY DEF VarInv, VarTypeOK
    <3>3. Unmapping[r][readers[r].local] \in Value
      BY <3>2, ReaderFacts
    <3>4. QED
      BY <3>1, <3>3 DEF IntoData
  <2>2. QED
    BY <1>1, <2>1
<1>4. building' \in 0 .. Len(layout_file')
  BY <1>1, <1>2
<1>5. \A i \in DOMAIN layout_file' : WellTyped(layout_file'[i])
  BY <1>2
<1>6. VarTypeOK'
  BY <1>1, <1>2, <1>3, <1>4, <1>5 DEF VarInv, VarTypeOK, WellTyped, ToSet
<1>7. LayoutDistinct'
  BY <1>2 DEF VarInv, Distinct, LayoutDistinct
<1>8. SavableDefined' /\ Distinct' /\ BuiltSoFar' /\ SendingAlone'
  BY <1>1 DEF VarInv, SavableDefined, Distinct, BuiltSoFar, SendingAlone
<1>9. QED
  BY <1>6, <1>7, <1>8 DEF VarInv

LEMMA RestartStep ==
  ASSUME VarInv, Restart
  PROVE  VarInv'
<1>1. /\ data' = CreateMany(file) /\ savable' = file /\ readers' = <<>> /\ stack' = <<>>
      /\ building' = Len(layout_file) /\ pending' = NoPending /\ sending' = [n \in Name |-> 0]
      /\ UNCHANGED <<file, layout_file, kept, settled>>
  BY DEF Restart
<1>2. file \in Seq(VarDef) /\ layout_file \in Seq(ReaderDef)
  BY DEF VarInv, VarTypeOK
<1>3. data' \in [Name -> Seq(Value)]
  <2>1. CASE Name = {}
    BY <1>1, <2>1 DEF CreateMany
  <2>2. CASE Name # {}
    BY <1>1, <1>2, <2>2, CreateManyType
  <2>3. QED
    BY <2>1, <2>2
<1>4. DOMAIN readers' = {} /\ ToSet(stack') = {} /\ stack' \in Seq(Reader) /\ Len(stack') = 0
  BY <1>1 DEF ToSet
<1>5. building' \in 0 .. Len(layout_file') /\ pending' \in [saving : BOOLEAN, defs : Seq(VarDef)]
  BY <1>1, <1>2 DEF NoPending
<1>6. VarTypeOK'
  <2>1. sending' \in [Name -> Nat] /\ \A n \in Name : sending'[n] <= Len(data'[n])
    <3>1. \A n \in Name : Len(data'[n]) \in Nat /\ sending'[n] = 0
      BY <1>1, <1>3
    <3>2. QED
      BY <1>1, <3>1
  <2>2. QED
    BY <1>1, <1>2, <1>3, <1>4, <1>5, <2>1 DEF VarInv, VarTypeOK, WellTyped
<1>7. SavableDefined'
  <2>1. ASSUME NEW i \in DOMAIN file
        PROVE  data'[file[i].name] # <<>>
    <3>1. file[i] \in VarDef
      BY <1>2
    <3>2. file[i].name \in Name /\ i \in Defining(file, file[i].name)
      BY <3>1 DEF VarDef, Defining
    <3>3. QED
      BY <1>1, <1>2, <3>2, CreateManyType
  <2>2. QED
    BY <1>1, <2>1 DEF SavableDefined
<1>8. Distinct' /\ LayoutDistinct' /\ BuiltSoFar' /\ SendingAlone'
  BY <1>1, <1>2, <1>4 DEF VarInv, Distinct, LayoutDistinct, BuiltSoFar, SendingAlone
<1>9. QED
  BY <1>6, <1>7, <1>8 DEF VarInv

LEMMA VarStutter ==
  ASSUME VarInv, UNCHANGED varVars
  PROVE  VarInv'
BY DEF VarInv, varVars, VarTypeOK, WellTyped, ToSet, SavableDefined, Distinct, LayoutDistinct, BuiltSoFar,
       SendingAlone

LEMMA VarInvStep ==
  ASSUME VarInv, [VarNext]_varVars
  PROVE  VarInv'
BY BuildLayoutStep, AddFunctionStep, DropFunctionStep, ReadVariableStep, UpdateStep, SaveVariablesStep,
   SaveLayoutStep, RestartStep, VarStutter, ConfigAssumption DEF VarNext

LEMMA VarInvariant ==
  VarSpec => []VarInv
<1>1. VarInit => VarInv
  BY VarInvInit
<1>2. VarInv /\ [VarNext]_varVars => VarInv'
  BY VarInvStep
<1>3. QED
  BY <1>1, <1>2, PTL DEF VarSpec

(* Whoever builds, uses and drops readers while variables are set to       *)
(* whatever text, saved and read back by a restart at any point: the       *)
(* variables have their types, and no function is given a text that its    *)
(* type does not accept.                                                   *)
THEOREM VariablesTypeCorrect == VarSpec => []VarTypeOK
<1>1. VarInv => VarTypeOK
  BY DEF VarInv
<1>2. QED
  BY <1>1, VarInvariant, PTL

-----------------------------------------------------------------------------
(* The channels of a name have one value, that of the first; those that an *)
(* update under way has not reached have another, that of the last.        *)
ChannelsAgree ==
  \A n \in Name : \A i \in DOMAIN data[n] :
    data[n][i] = IF 0 < sending[n] /\ sending[n] <= i THEN data[n][Len(data[n])] ELSE Get(n)

Watching(r) == readers[r].chan \in DOMAIN data[NameOf[r]]

(* A reader that has looked at its channel has the text of it. *)
HasValue(r) ==
  ~readers[r].unseen /\ Text(r) \in Reads[r] =>
    readers[r].local \in {Text(r), Mapping[r][Text(r)]}

ReaderShares(r) == Watching(r) /\ HasValue(r)

ShareInv == ChannelsAgree /\ \A r \in DOMAIN readers : ReaderShares(r)

(* Nothing about a reader changes while neither it nor its channel does.   *)
LEMMA ShareFrame ==
  ASSUME NEW r \in DOMAIN readers, readers'[r] = readers[r],
         DOMAIN data[NameOf[r]] \subseteq DOMAIN data'[NameOf[r]],
         data'[NameOf[r]][readers[r].chan] = data[NameOf[r]][readers[r].chan],
         ReaderShares(r)
  PROVE  ReaderShares(r)'
BY DEF ReaderShares, Watching, HasValue, Text

LEMMA ShareBuilt ==
  ASSUME VarInv, ShareInv,
         NEW def \in ReaderDef, WellTyped(def), BuildReader(def),
         def.reader \notin DOMAIN readers,
         \A n \in Name : sending[n] = 0, sending' = sending
  PROVE  ShareInv'
<1> DEFINE r == def.reader
           n == NameOf[r]
           v == IF IsDefined(n) THEN Get(n) ELSE def.default
           given == IF ~def.declares /\ IsDefined(n) /\ Get(n) \in Parses[r]
                    THEN Get(n) ELSE def.default
           new == [chan |-> Len(data[n]) + 1, unseen |-> IsDefined(n), local |-> Mapping[r][given]]
<1>1. /\ data' = [data EXCEPT ![n] = Append(data[n], v)]
      /\ readers' = [s \in DOMAIN readers \cup {r} |-> IF s = r THEN new ELSE readers[s]]
  BY DEF BuildReader, AddChannel
<1>2. r \in Reader /\ n \in Name /\ data \in [Name -> Seq(Value)] /\ DOMAIN readers \subseteq Reader
  BY ReaderFacts DEF ReaderDef, VarInv, VarTypeOK
<1>3. PICK t \in Seq(Value) : t = data[n]
  BY <1>2
<1>4. data'[n] = Append(t, v) /\ \A m \in Name : m # n => data'[m] = data[m]
  BY <1>1, <1>2, <1>3
<1>5. /\ DOMAIN t = 1 .. Len(t) /\ DOMAIN Append(t, v) = 1 .. Len(t) + 1 /\ Len(t) \in Nat
      /\ \A c \in 1 .. Len(t) : Append(t, v)[c] = t[c]
      /\ Append(t, v)[Len(t) + 1] = v
      /\ t # <<>> => 1 \in 1 .. Len(t) /\ v = t[1]
      /\ t = <<>> => Len(t) = 0 /\ v = def.default /\ given = def.default
  BY <1>3 DEF IsDefined, Get
<1> HIDE DEF v, given
<1>6. ChannelsAgree'
  <2>1. ASSUME NEW m \in Name, NEW i \in DOMAIN data'[m]
        PROVE  data'[m][i] = data'[m][1]
    <3>1. \A c \in DOMAIN data[m] : data[m][c] = data[m][1]
      BY DEF ShareInv, ChannelsAgree, Get
    <3>2. CASE m # n
      BY <1>4, <2>1, <3>1, <3>2
    <3>3. CASE m = n
      <4>1. i \in 1 .. Len(t) + 1
        BY <1>4, <1>5, <2>1, <3>3
      <4>2. CASE t = <<>>
        BY <1>4, <1>5, <3>3, <4>1, <4>2
      <4>3. CASE t # <<>>
        <5>1. Append(t, v)[1] = t[1] /\ \A c \in 1 .. Len(t) : t[c] = t[1]
          BY <1>3, <1>5, <3>1, <3>3, <4>3
        <5>2. CASE i \in 1 .. Len(t)
          BY <1>4, <1>5, <3>3, <5>1, <5>2
        <5>3. CASE i = Len(t) + 1
          BY <1>4, <1>5, <3>3, <4>3, <5>1, <5>3
        <5>4. QED
          BY <1>5, <4>1, <5>2, <5>3
      <4>4. QED
        BY <4>2, <4>3
    <3>4. QED
      BY <3>2, <3>3
  <2>2. \A m \in Name : sending'[m] = 0
    OBVIOUS
  <2>3. QED
    BY <2>1, <2>2 DEF ChannelsAgree, Get
<1>7. ASSUME NEW s \in DOMAIN readers
      PROVE  ReaderShares(s)'
  <2>1. readers'[s] = readers[s] /\ s \in Reader /\ NameOf[s] \in Name
    BY <1>1, <1>2, <1>7, ReaderFacts
  <2>2. ReaderShares(s)
    BY DEF ShareInv
  <2>3. CASE NameOf[s] # n
    BY <1>4, <2>1, <2>2, <2>3, ShareFrame
  <2>4. CASE NameOf[s] = n
    <3>1. readers[s].chan \in 1 .. Len(t)
      BY <1>3, <1>5, <2>2, <2>4 DEF ReaderShares, Watching
    <3>2. data'[NameOf[s]][readers[s].chan] = data[NameOf[s]][readers[s].chan]
      BY <1>3, <1>4, <1>5, <2>4, <3>1
    <3>3. DOMAIN data[NameOf[s]] \subseteq DOMAIN data'[NameOf[s]]
      BY <1>3, <1>4, <1>5, <2>4
    <3>4. QED
      BY <2>1, <2>2, <3>2, <3>3, ShareFrame
  <2>5. QED
    BY <2>3, <2>4
<1>8. readers'[r] = new /\ new.chan = Len(t) + 1
  BY <1>1, <1>3
<1>9. Watching(r)'
  BY <1>4, <1>5, <1>8 DEF Watching
<1>10. HasValue(r)'
  <2>1. CASE IsDefined(n)
    BY <1>8, <2>1 DEF HasValue
  <2>2. CASE ~IsDefined(n)
    <3>1. t = <<>> /\ v = def.default /\ given = def.default
      BY <1>3, <1>5, <2>2 DEF IsDefined
    <3>2. Text(r)' = def.default
      BY <1>4, <1>5, <1>8, <3>1 DEF Text
    <3>3. readers'[r].local = Mapping[r][def.default]
      BY <1>8, <3>1
    <3>4. QED
      BY <3>2, <3>3 DEF HasValue
  <2>3. QED
    BY <2>1, <2>2
<1>11. DOMAIN readers' = DOMAIN readers \cup {r}
  BY <1>1
<1>12. QED
  BY <1>6, <1>7, <1>9, <1>10, <1>11 DEF ShareInv, ReaderShares

(* A reader whose channel is sent to has not looked at it since; another   *)
(* keeps its text.                                                         *)
LEMMA ShareSent ==
  ASSUME VarInv, ShareInv, NEW name \in Name, NEW i \in DOMAIN data[name], NEW value \in Value,
         SendTo(name, i, value), NEW r \in DOMAIN readers
  PROVE  ReaderShares(r)'
<1>1. /\ \A n \in Name : n # name => data'[n] = data[n]
      /\ \A n \in Name : Len(data'[n]) = Len(data[n])
      /\ \A j \in DOMAIN data[name] : j # i => data'[name][j] = data[name][j]
      /\ data' \in [Name -> Seq(Value)]
  BY SendEffect DEF VarInv
<1>2. ReaderShares(r) /\ readers[r] \in ReaderState /\ r \in Reader /\ NameOf[r] \in Name
  BY ReaderFacts DEF ShareInv, VarInv, VarTypeOK
<1>3. PICK old \in ReaderState : old = readers[r]
  BY <1>2
<1>4. readers'[r] = [old EXCEPT !.unseen = @ \/ (NameOf[r] = name /\ old.chan = i)]
  BY <1>3 DEF SendTo
<1>5. readers'[r].chan = old.chan /\ readers'[r].local = old.local
  BY <1>4 DEF ReaderState
<1>6. DOMAIN data'[NameOf[r]] = DOMAIN data[NameOf[r]]
  <2>1. /\ data[NameOf[r]] \in Seq(Value) /\ data'[NameOf[r]] \in Seq(Value)
        /\ Len(data'[NameOf[r]]) = Len(data[NameOf[r]])
    BY <1>1, <1>2 DEF VarInv, VarTypeOK
  <2>2. QED
    BY <2>1
<1>7. Watching(r)'
  BY <1>2, <1>3, <1>5, <1>6 DEF ReaderShares, Watching
<1>8. CASE NameOf[r] = name /\ old.chan = i
  <2>1. readers'[r].unseen = TRUE
    BY <1>4, <1>8 DEF ReaderState
  <2>2. QED
    BY <1>7, <2>1 DEF ReaderShares, HasValue
<1>9. CASE ~(NameOf[r] = name /\ old.chan = i)
  <2>1. readers'[r].unseen = old.unseen
    BY <1>4, <1>9 DEF ReaderState
  <2>2. data'[NameOf[r]][old.chan] = data[NameOf[r]][old.chan]
    BY <1>1, <1>2, <1>3, <1>9 DEF ReaderShares, Watching
  <2>3. Text(r)' = Text(r)
    BY <1>3, <1>5, <2>2 DEF Text
  <2>4. HasValue(r)'
    BY <1>2, <1>3, <1>5, <2>1, <2>3 DEF ReaderShares, HasValue
  <2>5. QED
    BY <1>7, <2>4 DEF ReaderShares
<1>10. QED
  BY <1>8, <1>9

(* An update leaves the channels it has passed with its value, and the     *)
(* others as they were.                                                    *)
LEMMA AgreeSent ==
  ASSUME VarInv, ShareInv, NEW name \in Name, NEW i \in DOMAIN data[name], NEW value \in Value,
         SendTo(name, i, value),
         \/ i = 1 /\ sending[name] = 0
         \/ i > 1 /\ sending[name] = i /\ value = Get(name)
  PROVE  ChannelsAgree'
<1>1. /\ data' \in [Name -> Seq(Value)]
      /\ \A n \in Name : n # name => data'[n] = data[n]
      /\ Len(data'[name]) = Len(data[name])
      /\ data'[name][i] = value
      /\ \A j \in DOMAIN data[name] : j # i => data'[name][j] = data[name][j]
      /\ i \in 1 .. Len(data[name]) /\ Len(data[name]) \in Nat
  BY SendEffect DEF VarInv
<1>2. /\ sending' = [sending EXCEPT ![name] = IF i < Len(data[name]) THEN i + 1 ELSE 0]
      /\ sending \in [Name -> Nat] /\ data \in [Name -> Seq(Value)]
  BY DEF SendTo, VarInv, VarTypeOK
<1>3. ASSUME NEW n \in Name, n # name, NEW j \in DOMAIN data'[n]
      PROVE  data'[n][j] = IF 0 < sending'[n] /\ sending'[n] <= j
                           THEN data'[n][Len(data'[n])] ELSE data'[n][1]
  <2>1. data'[n] = data[n] /\ sending'[n] = sending[n]
    BY <1>1, <1>2, <1>3
  <2>2. QED
    BY <1>3, <2>1 DEF ShareInv, ChannelsAgree, Get
<1>4. ASSUME NEW j \in DOMAIN data'[name]
      PROVE  data'[name][j] = IF 0 < sending'[name] /\ sending'[name] <= j
                              THEN data'[name][Len(data'[name])] ELSE data'[name][1]
  <2>1. PICK s \in Seq(Value) : s = data[name]
    BY <1>2
  <2>2. PICK t \in Seq(Value) : t = data'[name]
    BY <1>1
  <2>3. PICK k \in Nat : k = sending[name]
    BY <1>2
  <2>4. /\ Len(t) = Len(s) /\ Len(s) \in Nat /\ i \in 1 .. Len(s) /\ j \in 1 .. Len(s)
        /\ t[i] = value /\ \A c \in 1 .. Len(s) : c # i => t[c] = s[c]
    BY <1>1, <1>4, <2>1, <2>2
  <2>5. sending'[name] = IF i < Len(s) THEN i + 1 ELSE 0
    BY <1>2, <2>1
  <2>6. \A c \in 1 .. Len(s) : s[c] = IF 0 < k /\ k <= c THEN s[Len(s)] ELSE s[1]
    BY <2>1, <2>3, <2>4 DEF ShareInv, ChannelsAgree, Get
  <2>7. (i = 1 /\ k = 0) \/ (i > 1 /\ k = i /\ value = s[1])
    <3>1. Get(name) = s[1]
      BY <2>1 DEF Get
    <3>2. QED
      BY <2>3, <3>1
  <2>8. t[1] = value
    <3>1. CASE i = 1
      BY <2>4, <3>1
    <3>2. CASE i # 1
      <4>1. 1 \in 1 .. Len(s) /\ value = s[1]
        BY <2>4, <2>7, <3>2
      <4>2. QED
        BY <2>4, <3>2, <4>1
    <3>3. QED
      BY <3>1, <3>2
  <2>9. CASE j > i
    <3>1. i < Len(s) /\ sending'[name] = i + 1 /\ t[j] = s[j] /\ t[Len(s)] = s[Len(s)]
      BY <2>4, <2>5, <2>9
    <3>2. s[j] = s[Len(s)]
      BY <2>4, <2>6, <2>7, <2>9
    <3>3. 0 < sending'[name] /\ sending'[name] <= j
      BY <2>4, <2>9, <3>1
    <3>4. QED
      BY <2>2, <2>4, <3>1, <3>2, <3>3
  <2>10. CASE j <= i
    <3>1. ~(0 < sending'[name] /\ sending'[name] <= j)
      BY <2>4, <2>5, <2>10
    <3>2. t[j] = value
      BY <2>4, <2>6, <2>7, <2>10
    <3>3. QED
      BY <2>2, <2>8, <3>1, <3>2
  <2>11. QED
    BY <2>4, <2>9, <2>10
<1>5. QED
  BY <1>3, <1>4 DEF ChannelsAgree, Get

LEMMA ShareUpdate ==
  ASSUME VarInv, ShareInv, NEW name \in Name,
         (\E value \in Value : SetVariable(name, value)) \/ SendNext(name)
  PROVE  ShareInv'
<1>1. PICK i \in DOMAIN data[name], value \in Value :
        /\ SendTo(name, i, value)
        /\ \/ i = 1 /\ sending[name] = 0
           \/ i > 1 /\ sending[name] = i /\ value = Get(name)
  <2>1. ASSUME NEW w \in Value, SetVariable(name, w)
        PROVE  1 \in DOMAIN data[name] /\ SendTo(name, 1, w) /\ sending[name] = 0
    BY <2>1, Sends
  <2>2. CASE SendNext(name)
    BY <2>2, Sends
  <2>3. QED
    BY <2>1, <2>2
<1>2. DOMAIN readers' = DOMAIN readers
  BY <1>1, SendEffect DEF VarInv
<1>3. QED
  BY <1>1, <1>2, ShareSent, AgreeSent DEF ShareInv

LEMMA ShareRead ==
  ASSUME VarInv, ShareInv, NEW r \in DOMAIN readers, Read(r)
  PROVE  ShareInv'
<1>1. /\ readers' = [readers EXCEPT ![r].local = Reading(r), ![r].unseen = FALSE]
      /\ data' = data /\ sending' = sending
  BY DEF Read
<1>2. ASSUME NEW s \in DOMAIN readers
      PROVE  ReaderShares(s)'
  <2>1. ReaderShares(s) /\ readers[s] \in ReaderState
    BY DEF ShareInv, VarInv, VarTypeOK
  <2>2. CASE s # r
    <3>1. readers'[s] = readers[s]
      BY <1>1, <2>2
    <3>2. QED
      BY <1>1, <2>1, <3>1, ShareFrame
  <2>3. CASE s = r
    <3>1. PICK old \in ReaderState : old = readers[r]
      BY <2>1, <2>3
    <3>2. readers'[r] = [chan |-> old.chan, unseen |-> FALSE, local |-> Reading(r)]
      BY <1>1, <3>1 DEF ReaderState
    <3>3. Watching(r)' /\ Text(r)' = Text(r)
      BY <1>1, <2>1, <2>3, <3>1, <3>2 DEF ReaderShares, Watching, Text
    <3>4. Text(r) \in Reads[r] => Reading(r) \in {Text(r), Mapping[r][Text(r)]}
      BY <2>1, <2>3 DEF ReaderShares, HasValue, Reading
    <3>5. HasValue(r)'
      BY <3>2, <3>3, <3>4 DEF HasValue
    <3>6. QED
      BY <2>3, <3>3, <3>5 DEF ReaderShares
  <2>4. QED
    BY <2>2, <2>3
<1>3. DOMAIN readers' = DOMAIN readers
  BY <1>1
<1>4. ChannelsAgree'
  BY <1>1 DEF ShareInv, ChannelsAgree, Get
<1>5. QED
  BY <1>2, <1>3, <1>4 DEF ShareInv

LEMMA ShareStep ==
  ASSUME VarInv, ShareInv, [VarNext]_varVars
  PROVE  ShareInv'
<1>1. CASE BuildLayout
  <2>1. (\A n \in Name : sending[n] = 0) /\ sending' = sending
    BY <1>1 DEF BuildLayout, VarInv, VarTypeOK, SendingAlone
  <2>2. QED
    BY <1>1, <2>1, LayoutReader, ShareBuilt
<1>2. ASSUME NEW def \in AddedDefs, AddFunction(def)
      PROVE  ShareInv'
  <2>1. def \in ReaderDef /\ WellTyped(def)
    BY ConfigAssumption
  <2>2. QED
    BY <1>2, <2>1, ShareBuilt DEF AddFunction, RpcReady
<1>3. ASSUME NEW i \in DOMAIN stack, DropFunction(i)
      PROVE  ShareInv'
  <2>1. /\ DOMAIN readers' \subseteq DOMAIN readers /\ data' = data /\ sending' = sending
        /\ \A r \in DOMAIN readers' : readers'[r] = readers[r]
    BY <1>3 DEF DropFunction
  <2>2. ChannelsAgree'
    BY <2>1 DEF ShareInv, ChannelsAgree, Get
  <2>3. QED
    BY <2>1, <2>2, ShareFrame DEF ShareInv
<1>4. ASSUME NEW r \in DOMAIN readers, Read(r)
      PROVE  ShareInv'
  BY <1>4, ShareRead
<1>5. ASSUME NEW name \in Name, (\E value \in Value : SetVariable(name, value)) \/ SendNext(name)
      PROVE  ShareInv'
  BY <1>5, ShareUpdate
<1>6. CASE OpenFile \/ WriteFile \/ WriteFails \/ SaveLayout \/ UNCHANGED varVars
  <2>1. readers' = readers /\ data' = data /\ sending' = sending
    BY <1>6 DEF OpenFile, WriteFile, WriteFails, SaveLayout, varVars
  <2>2. ChannelsAgree'
    BY <2>1 DEF ShareInv, ChannelsAgree, Get
  <2>3. QED
    BY <2>1, <2>2, ShareFrame DEF ShareInv
<1>7. CASE Restart
  <2>1. DOMAIN readers' = {} /\ data' = CreateMany(file) /\ sending' = [n \in Name |-> 0]
    BY <1>7 DEF Restart
  <2>2. ChannelsAgree'
    <3>1. ASSUME NEW n \in Name, NEW i \in DOMAIN data'[n]
          PROVE  data'[n][i] = data'[n][1] /\ sending'[n] = 0
      BY <2>1, <3>1 DEF CreateMany
    <3>2. QED
      BY <3>1 DEF ChannelsAgree, Get
  <2>3. QED
    BY <2>1, <2>2 DEF ShareInv
<1>8. QED
  BY <1>1, <1>2, <1>3, <1>4, <1>5, <1>6, <1>7 DEF VarNext

(* However many channels a name has, whenever and however its readers were *)
(* built (Variables::set, Variable::from_data), and wherever an update     *)
(* (Variables::update) has come to: a reader that has looked at its        *)
(* channel has the value it has been told of, or what its function's       *)
(* constructor made of that.                                               *)
THEOREM ReadersShareValueCorrect == VarSpec => []ReadersShareValue
<1>1. VarInit => ShareInv
  <2>1. VarInit => DOMAIN readers = {} /\ sending = [n \in Name |-> 0]
    BY DEF VarInit
  <2>2. VarInit => ChannelsAgree
    BY DEF VarInit, ChannelsAgree, CreateMany, Get
  <2>3. QED
    BY <2>1, <2>2 DEF ShareInv
<1>2. VarInv /\ ShareInv /\ [VarNext]_varVars => ShareInv'
  BY ShareStep
<1>3. VarInv /\ ShareInv => ReadersShareValue
  <2> SUFFICES ASSUME VarInv, ShareInv, NEW r \in DOMAIN readers
               PROVE  ~readers[r].unseen /\ Told(r) \in Reads[r] =>
                        readers[r].local \in {Told(r), Mapping[r][Told(r)]}
    BY DEF ReadersShareValue
  <2>1. NameOf[r] \in Name
    BY ReaderFacts DEF VarInv, VarTypeOK
  <2>2. ReaderShares(r) /\ Text(r) = Told(r)
    BY <2>1 DEF ShareInv, ReaderShares, Watching, ChannelsAgree, Text, Told, Get
  <2>3. QED
    BY <2>2 DEF ReaderShares, HasValue
<1>4. QED
  BY <1>1, <1>2, <1>3, VarInvariant, PTL DEF VarSpec

-----------------------------------------------------------------------------
(* What is about to be written is what the variables are. *)
PendingNow == pending.saving => building = 0 /\ pending.defs = ToJson

(* variables.json has the values that it was saved with. *)
FileKept ==
  \A i \in DOMAIN file : kept[file[i].name] # {} => kept[file[i].name] = {file[i].default}

(* layout.json has the value that the readers of a variable agreed on.     *)
SettledIn ==
  \A n \in Name : settled[n] # {} =>
    /\ \E i \in DOMAIN layout_file : NameOf[layout_file[i].reader] = n
    /\ \A i \in DOMAIN layout_file :
         NameOf[layout_file[i].reader] = n => settled[n] = {layout_file[i].default}

(* While the layout is built: a variable of the file has the value it was  *)
(* saved with; another has the value that layout.json was saved with, from *)
(* when the first of its readers is built.                                 *)
KeptSoFar(n) == data[n] # <<>> /\ (kept[n] # {} => kept[n] = {Get(n)})

SettledSoFar(n) ==
  /\ data[n] # <<>> /\ settled[n] # {} => settled[n] = {Get(n)}
  /\ data[n] = <<>> => \A i \in DOMAIN stack : NameOf[stack[i]] # n

Starting ==
  building > 0 =>
    \A n \in Name : IF IsGlobal(n) THEN KeptSoFar(n) ELSE SettledSoFar(n)

SaveInv == PendingNow /\ FileKept /\ SettledIn /\ Starting

LEMMA SaveInit ==
  ASSUME VarInit
  PROVE  SaveInv
<1>1. /\ data = CreateMany(InitFile) /\ savable = InitFile /\ stack = <<>>
      /\ pending = NoPending /\ file = InitFile
      /\ kept = [n \in Name |-> {}] /\ settled = [n \in Name |-> {}]
  BY DEF VarInit
<1>2. InitFile \in Seq(VarDef)
  BY ConfigAssumption
<1>3. PendingNow
  BY <1>1 DEF PendingNow, NoPending
<1>4. FileKept
  <2>1. ASSUME NEW i \in DOMAIN file
        PROVE  kept[file[i].name] = {}
    <3>1. PICK d \in VarDef : d = file[i]
      BY <1>1, <1>2
    <3>2. QED
      BY <1>1, <3>1 DEF VarDef
  <2>2. QED
    BY <2>1 DEF FileKept
<1>5. SettledIn
  BY <1>1 DEF SettledIn
<1>6. Starting
  <2>1. ASSUME NEW n \in Name, IsGlobal(n)
        PROVE  KeptSoFar(n)
    BY <1>1, <1>2, <2>1, CreateManyType DEF KeptSoFar, IsGlobal
  <2>2. ASSUME NEW n \in Name
        PROVE  SettledSoFar(n)
    BY <1>1 DEF SettledSoFar
  <2>3. QED
    BY <2>1, <2>2 DEF Starting
<1>7. QED
  BY <1>3, <1>4, <1>5, <1>6 DEF SaveInv

(* What building a reader of layout.json makes of a variable. *)
LEMMA BuiltSoFarKeeps ==
  ASSUME VarInv, SettledIn, BuildLayout, NEW n \in Name
  PROVE  /\ KeptSoFar(n) => KeptSoFar(n)'
         /\ SettledSoFar(n) => SettledSoFar(n)'
<1>1. PICK def \in ReaderDef :
        /\ WellTyped(def) /\ BuildReader(def)
        /\ Len(stack) + 1 \in DOMAIN layout_file
        /\ def = layout_file[Len(stack) + 1]
  BY LayoutReader
<1>2. kept' = kept /\ settled' = settled
  BY DEF BuildLayout
<1>3. /\ data[n] # <<>> => data'[n] # <<>> /\ data'[n][1] = data[n][1]
      /\ n # NameOf[def.reader] => data'[n] = data[n]
      /\ stack' = Append(stack, def.reader)
  BY <1>1, BuildEffect DEF VarInv
<1>4. KeptSoFar(n) => KeptSoFar(n)'
  BY <1>2, <1>3 DEF KeptSoFar, Get
<1>5. ASSUME SettledSoFar(n)
      PROVE  SettledSoFar(n)'
  <2>1. CASE data[n] # <<>>
    BY <1>2, <1>3, <1>5, <2>1 DEF SettledSoFar, Get
  <2>2. CASE data[n] = <<>> /\ n = NameOf[def.reader]
    <3>1. data \in [Name -> Seq(Value)]
      BY DEF VarInv, VarTypeOK
    <3>2. data' = [data EXCEPT ![n] = Append(data[n], def.default)]
      BY <1>1, <2>2 DEF BuildReader, AddChannel, IsDefined
    <3>3. data'[n] = <<def.default>>
      <4>1. Append(<< >>, def.default) = <<def.default>>
        OBVIOUS
      <4>2. data'[n] = Append(data[n], def.default)
        BY <3>1, <3>2
      <4>3. QED
        BY <2>2, <4>1, <4>2, Zenon
    <3>4. settled[n] # {} => settled[n] = {def.default}
      BY <1>1, <2>2 DEF SettledIn
    <3>5. data'[n] # <<>> /\ Get(n)' = def.default
      BY <3>3 DEF Get
    <3>6. QED
      BY <1>2, <3>4, <3>5 DEF SettledSoFar
  <2>3. CASE data[n] = <<>> /\ n # NameOf[def.reader]
    <3>1. data'[n] = <<>>
      BY <1>3, <2>3
    <3>2. stack \in Seq(Reader) /\ def.reader \in Reader
      BY DEF VarInv, VarTypeOK, ReaderDef
    <3>3. ASSUME NEW i \in DOMAIN stack'
          PROVE  NameOf[stack'[i]] # n
      <4>1. CASE i = Len(stack) + 1
        BY <1>3, <2>3, <3>2, <4>1
      <4>2. CASE i # Len(stack) + 1
        <5>1. i \in DOMAIN stack /\ stack'[i] = stack[i]
          BY <1>3, <3>2, <4>2
        <5>2. QED
          BY <1>5, <2>3, <5>1 DEF SettledSoFar
      <4>3. QED
        BY <4>1, <4>2
    <3>4. QED
      BY <3>1, <3>3 DEF SettledSoFar
  <2>4. QED
    BY <2>1, <2>2, <2>3
<1>6. QED
  BY <1>4, <1>5

LEMMA SaveStep ==
  ASSUME VarInv, SaveInv, [VarNext]_varVars
  PROVE  SaveInv'
<1>1. CASE BuildLayout
  <2>1. /\ building > 0 /\ building' = building - 1
        /\ UNCHANGED <<savable, file, pending, layout_file, kept, settled>>
    BY <1>1 DEF BuildLayout
  <2>2. building \in Nat
    BY DEF VarInv, VarTypeOK
  <2>3. PendingNow'
    BY <2>1, <2>2 DEF SaveInv, PendingNow
  <2>4. FileKept' /\ SettledIn'
    BY <2>1 DEF SaveInv, FileKept, SettledIn
  <2>5. Starting'
    <3>1. ASSUME NEW n \in Name
          PROVE  /\ IsGlobal(n)' <=> IsGlobal(n)
                 /\ KeptSoFar(n) => KeptSoFar(n)'
                 /\ SettledSoFar(n) => SettledSoFar(n)'
      <4>1. IsGlobal(n)' <=> IsGlobal(n)
        BY <2>1 DEF IsGlobal, Defining
      <4>2. QED
        BY <1>1, <4>1, BuiltSoFarKeeps DEF SaveInv
    <3>2. \A n \in Name : IF IsGlobal(n) THEN KeptSoFar(n) ELSE SettledSoFar(n)
      BY <2>1 DEF SaveInv, Starting
    <3>3. \A n \in Name : IF IsGlobal(n)' THEN KeptSoFar(n)' ELSE SettledSoFar(n)'
      BY <3>1, <3>2
    <3>4. QED
      BY <3>3 DEF Starting
  <2>6. QED
    BY <2>3, <2>4, <2>5 DEF SaveInv
<1>2. CASE RpcReady /\ UNCHANGED <<building, file, pending, layout_file, kept, settled>>
  <2>1. PendingNow' /\ Starting'
    BY <1>2 DEF RpcReady, PendingNow, Starting
  <2>2. FileKept' /\ SettledIn'
    BY <1>2 DEF SaveInv, FileKept, SettledIn
  <2>3. QED
    BY <2>1, <2>2 DEF SaveInv
<1>3. ASSUME NEW r, Read(r)
      PROVE  SaveInv'
  <2>1. building = 0 /\ UNCHANGED <<data, savable, building, file, pending, layout_file, kept, settled>>
    BY <1>3 DEF Read
  <2>2. PendingNow' /\ Starting'
    BY <2>1 DEF SaveInv, PendingNow, Starting, ToJson, Get
  <2>3. FileKept' /\ SettledIn'
    BY <2>1 DEF SaveInv, FileKept, SettledIn
  <2>4. QED
    BY <2>2, <2>3 DEF SaveInv
<1>4. CASE OpenFile
  <2>1. /\ building = 0 /\ file' = <<>> /\ pending' = [saving |-> TRUE, defs |-> ToJson]
        /\ UNCHANGED <<data, savable, building, layout_file, kept, settled>>
    BY <1>4 DEF OpenFile, RpcReady
  <2>2. ToJson' = ToJson
    BY <2>1 DEF ToJson, Get
  <2>3. PendingNow' /\ Starting'
    BY <2>1, <2>2 DEF PendingNow, Starting
  <2>4. FileKept' /\ SettledIn'
    BY <2>1 DEF SaveInv, FileKept, SettledIn
  <2>5. QED
    BY <2>3, <2>4 DEF SaveInv
<1>5. CASE WriteFile
  <2>1. /\ building = 0 /\ file' = ToJson /\ pending' = NoPending
        /\ kept' = [n \in Name |-> IF IsGlobal(n) THEN {Get(n)} ELSE {}]
        /\ UNCHANGED <<building, layout_file, settled>>
    BY <1>5 DEF WriteFile, SaveInv, PendingNow
  <2>2. PendingNow' /\ Starting'
    BY <2>1 DEF PendingNow, Starting, NoPending
  <2>3. FileKept'
    <3>1. ASSUME NEW i \in DOMAIN savable
          PROVE  kept'[ToJson[i].name] = {ToJson[i].default}
      <4>1. savable[i].name \in Name /\ IsGlobal(savable[i].name)
        BY SavableNames DEF VarInv, IsGlobal, Defining
      <4>2. QED
        BY <2>1, <4>1, ToJsonType
    <3>2. QED
      BY <2>1, <3>1, ToJsonType DEF FileKept
  <2>4. SettledIn'
    BY <2>1 DEF SaveInv, SettledIn
  <2>5. QED
    BY <2>2, <2>3, <2>4 DEF SaveInv
<1>6. CASE WriteFails
  <2>1. /\ building = 0 /\ pending' = NoPending
        /\ UNCHANGED <<building, file, layout_file, kept, settled>>
    BY <1>6 DEF WriteFails, SaveInv, PendingNow
  <2>2. PendingNow' /\ Starting'
    BY <2>1 DEF PendingNow, Starting, NoPending
  <2>3. FileKept' /\ SettledIn'
    BY <2>1 DEF SaveInv, FileKept, SettledIn
  <2>4. QED
    BY <2>2, <2>3 DEF SaveInv
<1>7. CASE SaveLayout
  <2>1. /\ building = 0 /\ ~pending.saving
        /\ settled' = [n \in Name |-> IF ~IsGlobal(n) /\ Agreed(n) THEN {Get(n)} ELSE {}]
        /\ UNCHANGED <<building, file, pending, kept>>
    BY <1>7 DEF SaveLayout, RpcReady
  <2>2. PendingNow' /\ Starting' /\ FileKept'
    BY <2>1 DEF SaveInv, PendingNow, Starting, FileKept
  <2>3. ASSUME NEW n \in Name, settled'[n] # {}
        PROVE  /\ \E i \in DOMAIN layout_file' : NameOf[layout_file'[i].reader] = n
               /\ \A i \in DOMAIN layout_file' :
                    NameOf[layout_file'[i].reader] = n => settled'[n] = {layout_file'[i].default}
    <3>1. Agreed(n) /\ settled'[n] = {Get(n)}
      BY <2>1, <2>3
    <3>2. PICK r \in DOMAIN readers : NameOf[r] = n
      BY <3>1 DEF Agreed, ReadersOf
    <3>3. PICK i \in DOMAIN stack : stack[i] = r
      BY DEF VarInv, VarTypeOK, ToSet
    <3>4. i \in DOMAIN layout_file' /\ NameOf[layout_file'[i].reader] = n
      BY <1>7, <3>2, <3>3, SavedLayout
    <3>5. ASSUME NEW j \in DOMAIN layout_file', NameOf[layout_file'[j].reader] = n
          PROVE  settled'[n] = {layout_file'[j].default}
      <4>1. /\ j \in DOMAIN stack /\ stack[j] \in DOMAIN readers /\ NameOf[stack[j]] = n
            /\ layout_file'[j].default = IntoData(stack[j]).default
        BY <1>7, <3>5, SavedLayout
      <4>2. IntoData(stack[j]).default = Get(n)
        BY <3>1, <4>1 DEF Agreed, ReadersOf
      <4>3. QED
        BY <3>1, <4>1, <4>2
    <3>6. QED
      BY <3>4, <3>5
  <2>4. SettledIn'
    BY <2>3 DEF SettledIn
  <2>5. QED
    BY <2>2, <2>4 DEF SaveInv
<1>8. CASE Restart
  <2>1. /\ data' = CreateMany(file) /\ savable' = file /\ stack' = <<>> /\ pending' = NoPending
        /\ UNCHANGED <<file, layout_file, kept, settled>>
    BY <1>8 DEF Restart
  <2>2. file \in Seq(VarDef)
    BY DEF VarInv, VarTypeOK
  <2>3. PendingNow'
    BY <2>1 DEF PendingNow, NoPending
  <2>4. FileKept' /\ SettledIn'
    BY <2>1 DEF SaveInv, FileKept, SettledIn
  <2>5. ASSUME NEW n \in Name, IsGlobal(n)'
        PROVE  KeptSoFar(n)'
    <3>1. Defining(file, n) # {}
      BY <2>1, <2>5 DEF IsGlobal, Defining
    <3>2. PICK i \in Defining(file, n) : data'[n] = << file[i].default >>
      BY <2>1, <2>2, <3>1, CreateManyType
    <3>3. i \in DOMAIN file /\ file[i].name = n
      BY DEF Defining
    <3>4. kept[n] # {} => kept[n] = {file[i].default}
      BY <3>3 DEF SaveInv, FileKept
    <3>5. data'[n] # <<>> /\ Get(n)' = file[i].default
      BY <3>2 DEF Get
    <3>6. QED
      BY <2>1, <3>4, <3>5 DEF KeptSoFar
  <2>6. ASSUME NEW n \in Name, ~IsGlobal(n)'
        PROVE  SettledSoFar(n)'
    <3>1. Defining(file, n) = {}
      BY <2>1, <2>6 DEF IsGlobal, Defining
    <3>2. data'[n] = <<>>
      BY <2>1, <3>1 DEF CreateMany
    <3>3. QED
      BY <2>1, <3>2 DEF SettledSoFar
  <2>7. Starting'
    BY <2>5, <2>6 DEF Starting
  <2>8. QED
    BY <2>3, <2>4, <2>7 DEF SaveInv
<1>9. CASE UNCHANGED varVars
  <2>1. UNCHANGED <<data, savable, stack, building, file, pending, layout_file, kept, settled>>
    BY <1>9 DEF varVars
  <2>2. ToJson' = ToJson /\ PendingNow'
    BY <2>1 DEF SaveInv, PendingNow, ToJson, Get
  <2>3. FileKept' /\ SettledIn'
    BY <2>1 DEF SaveInv, FileKept, SettledIn
  <2>4. Starting'
    BY <2>1 DEF SaveInv, Starting, KeptSoFar, SettledSoFar, Get, IsGlobal, Defining
  <2>5. QED
    BY <2>2, <2>3, <2>4 DEF SaveInv
<1>10. ASSUME NEW name \in Name, SendNext(name)
       PROVE  SaveInv'
  <2>1. building = 0 /\ ~pending.saving
    BY <1>10, Sends
  <2>2. UNCHANGED <<building, file, pending, layout_file, kept, settled>>
    BY <1>10 DEF SendNext, SendTo
  <2>3. PendingNow' /\ Starting'
    BY <2>1, <2>2 DEF PendingNow, Starting
  <2>4. FileKept' /\ SettledIn'
    BY <2>2 DEF SaveInv, FileKept, SettledIn
  <2>5. QED
    BY <2>3, <2>4 DEF SaveInv
<1>11. QED
  BY <1>1, <1>2, <1>3, <1>4, <1>5, <1>6, <1>7, <1>8, <1>9, <1>10
  DEF VarNext, AddFunction, DropFunction, SetVariable, SendTo

Survives(n) ==
  LET known == IF IsGlobal(n) THEN kept[n] ELSE settled[n]
  IN  known # {} => {Get(n)'} = known

LEMMA RebuiltSurvive ==
  ASSUME VarInv, SaveInv, Rebuilt, NEW n \in Name
  PROVE  Survives(n)
<1>1. BuildLayout /\ building' = 0 /\ building > 0 /\ building' = building - 1
      /\ kept' = kept /\ settled' = settled
  BY DEF Rebuilt, BuildLayout
<1>2. IF IsGlobal(n) THEN KeptSoFar(n) ELSE SettledSoFar(n)
  BY <1>1 DEF SaveInv, Starting
<1>3. IF IsGlobal(n) THEN KeptSoFar(n)' ELSE SettledSoFar(n)'
  BY <1>1, <1>2, BuiltSoFarKeeps DEF SaveInv
<1>4. CASE IsGlobal(n)
  <2>1. kept'[n] # {} => kept'[n] = {Get(n)'}
    BY <1>3, <1>4 DEF KeptSoFar
  <2>2. QED
    BY <1>1, <1>4, <2>1 DEF Survives
<1>5. CASE ~IsGlobal(n)
  <2>1. ASSUME settled[n] # {}
        PROVE  data'[n] # <<>>
    <3> SUFFICES ASSUME data'[n] = <<>>
                 PROVE  FALSE
      OBVIOUS
    <3>1. \A i \in DOMAIN stack' : NameOf[stack'[i]] # n
      BY <1>3, <1>5 DEF SettledSoFar
    <3>2. PICK i \in DOMAIN layout_file : NameOf[layout_file[i].reader] = n
      BY <2>1 DEF SaveInv, SettledIn
    <3>3. PICK def \in ReaderDef :
            /\ BuildReader(def) /\ def = layout_file[Len(stack) + 1]
            /\ Len(stack) = Len(layout_file) - building
      BY <1>1, LayoutReader
    <3>4. /\ stack' = Append(stack, def.reader) /\ stack \in Seq(Reader) /\ def.reader \in Reader
          /\ layout_file \in Seq(ReaderDef) /\ building \in Nat
      BY <3>3 DEF BuildReader, VarInv, VarTypeOK, ReaderDef
    <3>5. Len(layout_file) = Len(stack) + 1 /\ Len(stack') = Len(stack) + 1
      BY <1>1, <3>3, <3>4
    <3>6. i \in DOMAIN stack'
      BY <3>2, <3>4, <3>5
    <3>7. stack'[i] = layout_file[i].reader
      <4>1. CASE i = Len(stack) + 1
        <5>1. stack'[Len(stack) + 1] = def.reader
          BY <3>4
        <5>2. QED
          BY <3>3, <4>1, <5>1
      <4>2. CASE i # Len(stack) + 1
        <5>1. i \in DOMAIN stack /\ stack'[i] = stack[i]
          BY <3>2, <3>4, <3>5, <4>2
        <5>2. QED
          BY <1>1, <5>1 DEF VarInv, BuiltSoFar
      <4>3. QED
        BY <4>1, <4>2
    <3>8. QED
      BY <3>1, <3>2, <3>6, <3>7
  <2>2. data'[n] # <<>> /\ settled'[n] # {} => settled'[n] = {Get(n)'}
    BY <1>3, <1>5 DEF SettledSoFar
  <2>3. QED
    BY <1>1, <1>5, <2>1, <2>2 DEF Survives
<1>6. QED
  BY <1>4, <1>5

(* For any files and readers, and a server that ends at any point, between *)
(* opening and writing variables.json as well: what was saved is what the  *)
(* variables are once the layout is built again.                           *)
THEOREM SavedSurviveCorrect == VarSpec => SavedSurvive
<1>1. VarInit => SaveInv
  BY SaveInit
<1>2. VarInv /\ SaveInv /\ [VarNext]_varVars => SaveInv'
  BY SaveStep
<1>3. VarInv /\ SaveInv /\ [VarNext]_varVars => [Rebuilt => \A n \in Name : Survives(n)]_varVars
  BY RebuiltSurvive
<1>4. QED
  BY <1>1, <1>2, <1>3, VarInvariant, PTL DEF VarSpec, SavedSurvive, Survives
=============================================================================
