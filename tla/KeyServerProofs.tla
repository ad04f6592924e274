--------------------------- MODULE KeyServerProofs ---------------------------
(* Theorems about module KeyServer, for any grid, bindings, functions and  *)
(* layers; and, in the second half, about Processes.                       *)
EXTENDS KeyServer, Processes, LayerOpsProofs

LEMMA CellsNat == NumCells \in Nat /\ Cells \subseteq Nat /\ 0 \in Cells
BY BoundsAssumption DEF Cells

(* The layers that there can be, and those that there are at first. *)
LEMMA StackIs ==
  /\ Len(InitLayers) \in Nat
  /\ DOMAIN InitLayers = 1 .. Len(InitLayers)
  /\ InitStack \in Seq(Layer)
  /\ Len(InitStack) = Len(InitLayers)
<1>1. Len(InitLayers) \in Nat /\ DOMAIN InitLayers = 1 .. Len(InitLayers)
  BY LayersAssumption
<1>2. \A i \in DOMAIN InitLayers : InitStack[i] \in Layer
  BY DEF InitStack, Layer
<1>3. DOMAIN InitStack = DOMAIN InitLayers /\ InitStack = [i \in DOMAIN InitLayers |-> InitStack[i]]
  BY DEF InitStack
<1>4. InitStack \in [1 .. Len(InitLayers) -> Layer]
  BY <1>1, <1>2, <1>3
<1>5. QED
  BY <1>1, <1>4

LEMMA LayerRows ==
  ASSUME NEW layer \in Layer
  PROVE  /\ layer.row \in Seq(Function)
         /\ FullRows => Len(layer.row) >= NumCells
<1>1. CASE \E i \in DOMAIN InitLayers : layer = InitStack[i]
  <2>1. PICK i \in DOMAIN InitLayers : layer = InitStack[i]
    BY <1>1
  <2>2. layer.row = InitLayers[i]
    BY <2>1 DEF InitStack
  <2>3. QED
    BY <2>2, LayersAssumption, CellsNat
<1>2. CASE layer \in [row : AddedLayers, no : Numbers]
  BY <1>2, LayersAssumption DEF FullRows
<1>3. QED
  BY <1>1, <1>2 DEF Layer

(* The binding that poll looks at. *)
LEMMA BindingsDomain ==
  /\ DOMAIN Bindings = 1 .. Len(Bindings)
  /\ Len(Bindings) \in Nat \ {0}
<1> DEFINE Binding == [cell : Cells, input : Input]
<1>1. Bindings \in Seq(Binding) /\ Bindings # <<>>
  BY BindingsAssumption
<1> HIDE DEF Binding
<1>2. QED
  BY <1>1

LEMMA BindingType ==
  ASSUME NEW i \in DOMAIN Bindings
  PROVE  /\ i \in 1 .. Len(Bindings)
         /\ Bindings[i].cell \in Cells
         /\ Bindings[i].input \in Input
<1> DEFINE Binding == [cell : Cells, input : Input]
<1>1. Bindings \in Seq(Binding)
  BY BindingsAssumption
<1> HIDE DEF Binding
<1>2. i \in 1 .. Len(Bindings) /\ Bindings[i] \in Binding
  BY <1>1, BindingsDomain
<1>3. QED
  BY <1>2 DEF Binding

(* A function is what its layer has at its cell, whatever its kind. *)
LEMMA PlaceType ==
  ASSUME NEW k \in Places
  PROVE  /\ k[1] \in Layer /\ k[2] \in Cells
         /\ FunctionOf(k) \in Function
         /\ k \in ShiftKeys <=> FunctionOf(k).kind = "Shift"
         /\ k \in KeyKeys <=> FunctionOf(k).kind = "Key"
         /\ k \in ShiftKeys => TargetOf[k] = FunctionOf(k).layer
         /\ k \in KeyKeys => KeyOf(k) = FunctionOf(k).key /\ KeyOf(k) \in Keys
<1>1. k[1] \in Layer /\ k[2] \in Cells /\ k[2] + 1 \in DOMAIN k[1].row
  BY DEF Places
<1>2. FunctionOf(k) \in Function
  BY <1>1, LayerRows DEF FunctionOf
<1>3. QED
  BY <1>1, <1>2 DEF ShiftKeys, KeyKeys, TargetOf, KeyOf, Keys

-----------------------------------------------------------------------------
(* Type correctness. *)

LEMMA LayType ==
  ASSUME TypeOK
  PROVE  Lay \in LayoutState(Layer)
BY DEF TypeOK, Lay, LayoutState

LEMMA BecomesType ==
  ASSUME NEW lay \in LayoutState(Layer), Becomes(lay)
  PROVE  /\ layers' \in Seq(Layer)
         /\ cur_layer' \in Nat
         /\ shift_from' \in Seq(ShiftRecord)
BY DEF Becomes, LayoutState

(* The function that poll finds at a cell: in the current layer or below. *)
LEMMA FoundAt ==
  ASSUME TypeOK, NEW c \in Cells, ~Panics(c), Stops(c) # {}
  PROVE  /\ Found(c) \in Places /\ Found(c) \in InStack(layers)
         /\ Found(c)[2] = c
<1>1. cur_layer \in Nat /\ layers \in Seq(Layer)
  BY DEF TypeOK
<1>2. Stops(c) \in SUBSET (0 .. cur_layer)
  BY DEF Stops
<1>3. Max(Stops(c)) \in 0 .. cur_layer
  BY <1>1, <1>2, MaxIsGreatest
<1>4. HasLayer(Lay, cur_layer) /\ HasCell(Max(Stops(c)), c)
  BY DEF Panics
<1>5. cur_layer < Len(layers) /\ c < Len(layers[Max(Stops(c)) + 1].row)
  BY <1>4 DEF HasLayer, Lay, HasCell
<1>6. Max(Stops(c)) + 1 \in DOMAIN layers
  BY <1>1, <1>3, <1>5
<1> DEFINE layer == layers[Max(Stops(c)) + 1]
<1>7. layer \in Layer
  BY <1>1, <1>6
<1>8. Found(c) = <<layer, c>>
  BY DEF Found
<1>9. c + 1 \in DOMAIN layer.row
  <2>1. layer.row \in Seq(Function)
    BY <1>7, LayerRows
  <2>2. QED
    BY <1>5, <2>1, CellsNat
<1> HIDE DEF layer
<1>10. Found(c) \in Places
  BY <1>7, <1>8, <1>9 DEF Places
<1>11. QED
  BY <1>6, <1>8, <1>10 DEF InStack, layer

LEMMA CommandsType ==
  ASSUME NEW k \in Places, NEW f \in Function, NEW was \in BOOLEAN, NEW high \in BOOLEAN
  PROVE  Commands(k, f, was, high) \in Seq(Command)
<1>1. CASE f.kind = "Shift" /\ high /\ ~was
  <2>1. Commands(k, f, was, high) = <<[op |-> "Shift", layer |-> f.layer, by |-> k]>>
    BY <1>1 DEF Commands
  <2>2. [op |-> "Shift", layer |-> f.layer, by |-> k] \in Command
    BY <1>1, FunctionAssumption DEF Command
  <2>3. QED
    BY <2>1, <2>2
<1>2. CASE f.kind = "Shift" /\ ~high /\ was
  <2>1. Commands(k, f, was, high) = <<[op |-> "UnShift", layer |-> f.layer, by |-> k]>>
    BY <1>2 DEF Commands
  <2>2. [op |-> "UnShift", layer |-> f.layer, by |-> k] \in Command
    BY <1>2, FunctionAssumption DEF Command
  <2>3. QED
    BY <2>1, <2>2
<1>3. CASE f.kind = "Switch" /\ high
  <2>1. Commands(k, f, was, high) = <<[op |-> "Switch", layer |-> f.layer, by |-> k]>>
    BY <1>3 DEF Commands
  <2>2. [op |-> "Switch", layer |-> f.layer, by |-> k] \in Command
    BY <1>3, FunctionAssumption DEF Command
  <2>3. QED
    BY <2>1, <2>2
<1>4. CASE f.kind \in {"Up", "Down"}
  <2>1. Commands(k, f, was, high) = <<[op |-> f.kind, by |-> k]>>
    BY <1>4 DEF Commands
  <2>2. [op |-> f.kind, by |-> k] \in Command
    BY <1>4 DEF Command
  <2>3. QED
    BY <2>1, <2>2
<1>5. CASE /\ ~(f.kind = "Shift" /\ high /\ ~was)
           /\ ~(f.kind = "Shift" /\ ~high /\ was)
           /\ ~(f.kind = "Switch" /\ high)
           /\ f.kind \notin {"Up", "Down"}
  <2>1. Commands(k, f, was, high) = <<>>
    BY <1>5 DEF Commands
  <2>2. QED
    BY <2>1
<1>6. QED
  BY <1>1, <1>2, <1>3, <1>4, <1>5

LEMMA PairInSeq ==
  ASSUME NEW S, NEW x \in S, NEW y \in S
  PROVE  <<x, y>> \in Seq(S)
OBVIOUS

LEMMA MessagesType ==
  ASSUME NEW f, NEW was \in BOOLEAN, NEW high \in BOOLEAN, f.kind = "Key" => f.key \in Keys
  PROVE  Messages(f, was, high) \in Seq(Message)
<1>1. SendReport \in Message
  BY DEF Message
<1>2. ASSUME f.kind = "Key"
      PROVE  Hold(f.key) \in Message /\ Release(f.key) \in Message
  BY <1>2 DEF Hold, Release, Message
<1>3. CASE f.kind = "Key" /\ high /\ ~was
  <2>1. Messages(f, was, high) = <<Hold(f.key), SendReport>>
    BY <1>3 DEF Messages
  <2>2. Hold(f.key) \in Message
    BY <1>2, <1>3
  <2>3. QED
    BY <1>1, <2>1, <2>2, PairInSeq
<1>4. CASE f.kind = "Key" /\ ~high /\ was
  <2>1. Messages(f, was, high) = <<Release(f.key), SendReport>>
    BY <1>4 DEF Messages
  <2>2. Release(f.key) \in Message
    BY <1>2, <1>4
  <2>3. QED
    BY <1>1, <2>1, <2>2, PairInSeq
<1>5. CASE ~(f.kind = "Key" /\ high /\ ~was) /\ ~(f.kind = "Key" /\ ~high /\ was)
  <2>1. Messages(f, was, high) = <<>>
    BY <1>5 DEF Messages
  <2>2. QED
    BY <2>1
<1>6. QED
  BY <1>3, <1>4, <1>5

(* A binding gives the cell's state to the function found at it, or has no *)
(* effect.                                                                 *)
LEMMA ScanEffect ==
  ASSUME TypeOK, ScanCell
  PROVE  /\ at \in 1 .. Len(Bindings) /\ Bindings[at].cell \in Cells
         /\ \/ UNCHANGED <<queue, commands, down>>
            \/ \E k \in Places, high \in BOOLEAN :
                 /\ k \in InStack(layers)
                 /\ k[2] = Bindings[at].cell
                 /\ Event(k, high)
<1> DEFINE c == Bindings[at].cell
           high == state[Bindings[at].input]
<1>1. at \in DOMAIN Bindings /\ state \in [Input -> BOOLEAN]
  BY DEF TypeOK
<1>2. at \in 1 .. Len(Bindings) /\ c \in Cells /\ high \in BOOLEAN
  BY <1>1, BindingType
<1>3. CASE Panics(c) \/ Stops(c) = {}
  BY <1>2, <1>3 DEF ScanCell
<1>4. CASE ~(Panics(c) \/ Stops(c) = {})
  <2>1. Event(Found(c), high)
    BY <1>4 DEF ScanCell
  <2>2. Found(c) \in Places /\ Found(c) \in InStack(layers) /\ Found(c)[2] = c
    BY <1>2, <1>4, FoundAt
  <2>3. QED
    BY <1>2, <2>1, <2>2
<1>5. QED
  BY <1>3, <1>4

LEMMA EvalType ==
  ASSUME NEW lay \in LayoutState(Layer), NEW command \in Command
  PROVE  EvalCommand(lay, command) \in LayoutState(Layer)
<1>1. \/ command.op \in {"Shift", "UnShift", "Switch"} /\ command.layer \in Nat
      \/ command.op \in {"Up", "Down"}
  BY DEF Command
<1>2. CASE command.op = "Switch"
  BY <1>1, <1>2, OperationsType DEF EvalCommand
<1>3. CASE command.op = "Shift"
  BY <1>1, <1>3, OperationsType DEF EvalCommand
<1>4. CASE command.op = "UnShift"
  BY <1>1, <1>4, OperationsType DEF EvalCommand
<1>5. CASE command.op = "Up"
  BY <1>5, OperationsType DEF EvalCommand
<1>6. CASE command.op = "Down"
  BY <1>6, OperationsType DEF EvalCommand
<1>7. QED
  BY <1>1, <1>2, <1>3, <1>4, <1>5, <1>6

LEMMA SharedAreKeys == \A stack : SharedIn(stack) \subseteq Keys
BY DEF SharedIn, Keys

LEMMA TypeInit == Init => TypeOK
<1> SUFFICES ASSUME Init PROVE TypeOK
  OBVIOUS
<1>1. layers \in Seq(Layer) /\ shared \subseteq Keys
  BY StackIs, SharedAreKeys DEF Init
<1>2. 1 \in DOMAIN Bindings
  BY BindingsDomain
<1>3. at \in DOMAIN Bindings
  BY <1>2 DEF Init
<1>4. /\ input \in [Input -> BOOLEAN] /\ state \in [Input -> BOOLEAN]
      /\ cur_layer \in Nat /\ shift_from \in Seq(ShiftRecord) /\ down \subseteq Places
  BY DEF Init
<1>5. /\ pc \in {"tick", "poll", "scan", "eval", "panicked"}
      /\ commands \in Seq(Command) /\ queue \in Seq(Message)
      /\ pressed \subseteq Keys /\ report \subseteq Keys
  BY DEF Init
<1>6. failed \in BOOLEAN
  BY DEF Init
<1>7. QED
  BY <1>1, <1>3, <1>4, <1>5, <1>6 DEF TypeOK

LEMMA TypeStep == TypeOK /\ [Next]_vars => TypeOK'
<1> SUFFICES ASSUME TypeOK, [Next]_vars
             PROVE  TypeOK'
  OBVIOUS
<1> USE DEF layoutVars, loopVars, hidVars
<1>1. Lay \in LayoutState(Layer)
  BY LayType
<1>2. ASSUME NEW lay \in LayoutState(Layer), Becomes(lay), down' \subseteq Places, shared' \subseteq Keys,
             UNCHANGED <<input, state, loopVars, hidVars>>
      PROVE  TypeOK'
  BY <1>2, BecomesType DEF TypeOK, TypeOK
<1>3. down \subseteq Places /\ shared \subseteq Keys
  BY DEF TypeOK, TypeOK
<1>4. \A index \in Indices : index \in Nat
  BY BoundsAssumption DEF Indices
<1>5. ASSUME NEW i \in Input, Actuate(i)
      PROVE  TypeOK'
  BY <1>5 DEF Actuate, TypeOK, TypeOK
<1>6. CASE Tick
  BY <1>6 DEF Tick, TypeOK, TypeOK
<1>7. CASE TickFails
  BY <1>7 DEF TickFails, TypeOK, TypeOK
<1>8. CASE StartPoll
  <2>1. 1 \in DOMAIN Bindings
    BY BindingsAssumption
  <2>2. QED
    BY <1>8, <2>1 DEF StartPoll, TypeOK, TypeOK
<1>9. CASE ScanCell
  <2>1. /\ UNCHANGED <<input, state, layoutVars, pressed, report, failed, shared>>
        /\ pc' \in {pc, "panicked", "eval"}
        /\ at' = IF at = Len(Bindings) THEN 1 ELSE at + 1
    BY <1>9 DEF ScanCell
  <2>2. at' \in DOMAIN Bindings
    <3>1. at \in 1 .. Len(Bindings)
      BY <1>9, ScanEffect
    <3>2. at' = IF at = Len(Bindings) THEN 1 ELSE at + 1
      BY <2>1
    <3>3. at' \in 1 .. Len(Bindings)
      <4>1. ASSUME NEW n \in Nat \ {0}, NEW i \in 1 .. n
            PROVE  (IF i = n THEN 1 ELSE i + 1) \in 1 .. n
        OBVIOUS
      <4>2. QED
        BY <3>1, <3>2, <4>1, BindingsDomain
    <3>4. QED
      BY <3>3, BindingsDomain
  <2>3. down' \subseteq Places /\ commands' \in Seq(Command) /\ queue' \in Seq(Message)
    <3>1. CASE UNCHANGED <<queue, commands, down>>
      BY <3>1 DEF TypeOK, TypeOK
    <3>2. ASSUME NEW k \in Places, NEW high \in BOOLEAN, Event(k, high)
          PROVE  down' \subseteq Places /\ commands' \in Seq(Command) /\ queue' \in Seq(Message)
      <4> DEFINE was == k \in down
      <4>1. /\ queue' = queue \o Messages(FunctionOf(k), was, high)
            /\ commands' = commands \o Commands(k, FunctionOf(k), was, high)
            /\ down' = DownAfter(k, FunctionOf(k), high)
        BY <3>2 DEF Event
      <4>2. was \in BOOLEAN
        OBVIOUS
      <4> HIDE DEF was
      <4>3. Messages(FunctionOf(k), was, high) \in Seq(Message)
        <5>1. FunctionOf(k).kind = "Key" => FunctionOf(k).key \in Keys
          BY PlaceType
        <5>2. QED
          BY <4>2, <5>1, MessagesType
      <4>4. Commands(k, FunctionOf(k), was, high) \in Seq(Command)
        BY <4>2, PlaceType, CommandsType
      <4>5. down' \subseteq Places
        BY <1>3, <4>1 DEF DownAfter
      <4>6. commands \in Seq(Command) /\ queue \in Seq(Message)
        BY DEF TypeOK, TypeOK
      <4>7. QED
        BY <4>1, <4>3, <4>4, <4>5, <4>6
    <3>3. QED
      BY <1>9, <3>1, <3>2, ScanEffect
  <2>4. QED
    BY <2>1, <2>2, <2>3 DEF TypeOK, TypeOK
<1>10. CASE EvalNext
  <2>1. /\ commands \in Seq(Command) /\ commands # <<>>
        /\ Becomes(EvalCommand(Lay, Head(commands)))
        /\ commands' = Tail(commands)
        /\ UNCHANGED <<input, state, down, pc, at, hidVars, shared>>
    BY <1>10 DEF EvalNext, TypeOK, TypeOK
  <2>2. Head(commands) \in Command /\ Tail(commands) \in Seq(Command)
    BY <2>1
  <2>3. EvalCommand(Lay, Head(commands)) \in LayoutState(Layer)
    BY <1>1, <2>2, EvalType
  <2>4. QED
    BY <2>1, <2>2, <2>3, BecomesType DEF TypeOK, TypeOK
<1>11. CASE EndPoll
  BY <1>11 DEF EndPoll, TypeOK, TypeOK
<1>12. CASE Deliver
  <2>1. queue \in Seq(Message) /\ queue # <<>> /\ pressed \subseteq Keys /\ report \subseteq Keys
    BY <1>12 DEF Deliver, TypeOK, TypeOK
  <2>2. Head(queue) \in Message /\ Tail(queue) \in Seq(Message)
    BY <2>1
  <2>3. Head(queue).op \in {"Hold", "Release"} => Head(queue).key \in Keys
    BY <2>2 DEF Message, SendReport
  <2>4. pressed' \subseteq Keys /\ report' \subseteq Keys /\ failed' \in BOOLEAN
    BY <1>12, <2>1, <2>3 DEF Deliver, TypeOK
  <2>5. QED
    BY <1>12, <2>2, <2>4 DEF Deliver, TypeOK, TypeOK
<1>13. ASSUME NEW index \in Indices, RpcSwitch(index)
       PROVE  TypeOK'
  <2>1. SwitchLayer(Lay, index) \in LayoutState(Layer)
    BY <1>1, <1>4, OperationsType
  <2>2. QED
    BY <1>2, <1>3, <1>13, <2>1 DEF RpcSwitch
<1>14. CASE RpcUp
  <2>1. UpLayer(Lay) \in LayoutState(Layer)
    BY <1>1, OperationsType
  <2>2. QED
    BY <1>2, <1>3, <1>14, <2>1 DEF RpcUp
<1>15. CASE RpcDown
  <2>1. DownLayer(Lay) \in LayoutState(Layer)
    BY <1>1, OperationsType
  <2>2. QED
    BY <1>2, <1>3, <1>15, <2>1 DEF RpcDown
<1>16. ASSUME NEW row \in AddedLayers, NEW no \in Numbers, RpcAdd(row, no)
       PROVE  TypeOK'
  <2>1. [row |-> row, no |-> no] \in Layer
    BY DEF Layer
  <2>2. AddLayer(Lay, [row |-> row, no |-> no]) \in LayoutState(Layer)
    BY <1>1, <2>1, OperationsType
  <2>3. shared' \subseteq Keys
    BY <1>3, <1>16, SharedAreKeys DEF RpcAdd
  <2>4. QED
    BY <1>2, <1>3, <1>16, <2>2, <2>3 DEF RpcAdd
<1>17. ASSUME NEW index \in Indices, RpcRemove(index)
       PROVE  TypeOK'
  <2>1. RemoveLayer(Lay, index) \in LayoutState(Layer)
    BY <1>1, <1>4, OperationsType
  <2>2. down' \subseteq Places
    BY <1>3, <1>17 DEF RpcRemove
  <2>3. QED
    BY <1>2, <1>3, <1>17, <2>1, <2>2 DEF RpcRemove
<1>18. CASE UNCHANGED vars
  BY <1>18 DEF vars, TypeOK, TypeOK
<1>19. CASE ReportFails
  <2>1. queue \in Seq(Message) /\ queue # <<>>
    BY <1>19 DEF ReportFails, TypeOK
  <2>2. Tail(queue) \in Seq(Message)
    BY <2>1
  <2>3. QED
    BY <1>19, <2>2 DEF ReportFails, TypeOK
<1>20. QED
  BY <1>5, <1>6, <1>7, <1>8, <1>9, <1>10, <1>11, <1>12, <1>13, <1>14, <1>15, <1>16, <1>17, <1>18,
     <1>19 DEF Next, Loop, Others, HidThread

(* Every field keeps its type whatever the keys and the RPC do and         *)
(* whatever functions the RPC's layers hold: a message is about a key of   *)
(* some function and a command names a layer by an index.                  *)
THEOREM TypeCorrect == Spec => []TypeOK
BY TypeInit, TypeStep, PTL DEF Spec

-----------------------------------------------------------------------------
(* A careful operator removes only layers that the RPC added, none of      *)
(* whose functions is down, so that a function that is down stays in the   *)
(* stack with its layer.                                                   *)

StackLength == Len(InitLayers) <= Len(layers) /\ Len(layers) <= MaxLayers

LayersInv ==
  /\ TypeOK
  /\ InRange(Lay)
  /\ StackLength
  /\ down \subseteq ShiftKeys \cup KeyKeys
  /\ down \subseteq InStack(layers)
  /\ pc = "scan" => layers # <<>>

LEMMA EvalKeepsLayers ==
  ASSUME NEW lay \in LayoutState(Layer), NEW command \in Command
  PROVE  /\ EvalCommand(lay, command).layers = lay.layers
         /\ InRange(lay) => InRange(EvalCommand(lay, command))
<1>1. \/ command.op \in {"Shift", "UnShift", "Switch"} /\ command.layer \in Nat
      \/ command.op \in {"Up", "Down"}
  BY DEF Command
<1>2. CASE command.op = "Switch"
  <2>1. EvalCommand(lay, command) = SwitchLayer(lay, command.layer)
    BY <1>2 DEF EvalCommand
  <2>2. SwitchLayer(lay, command.layer).layers = lay.layers
    BY DEF SwitchLayer, LayoutState
  <2>3. QED
    BY <1>1, <1>2, <2>1, <2>2, MoveInRange
<1>3. CASE command.op = "Shift"
  <2>1. EvalCommand(lay, command) = ShiftTo(lay, command.layer)
    BY <1>3 DEF EvalCommand
  <2>2. ShiftTo(lay, command.layer).layers = lay.layers
    BY DEF ShiftTo, LayoutState
  <2>3. QED
    BY <1>1, <1>3, <2>1, <2>2, ShiftInRange
<1>4. CASE command.op = "UnShift"
  <2>1. EvalCommand(lay, command) = UnshiftFrom(lay, command.layer)
    BY <1>4 DEF EvalCommand
  <2>2. UnshiftFrom(lay, command.layer).layers = lay.layers
    BY <1>1, <1>4, UnshiftEffect
  <2>3. QED
    BY <1>1, <1>4, <2>1, <2>2, UnshiftInRange
<1>5. CASE command.op = "Up"
  <2>1. EvalCommand(lay, command) = UpLayer(lay)
    BY <1>5 DEF EvalCommand
  <2>2. UpLayer(lay).layers = lay.layers
    BY DEF UpLayer, LayoutState
  <2>3. QED
    BY <2>1, <2>2, MoveInRange
<1>6. CASE command.op = "Down"
  <2>1. EvalCommand(lay, command) = DownLayer(lay)
    BY <1>6 DEF EvalCommand
  <2>2. DownLayer(lay).layers = lay.layers
    BY DEF DownLayer, LayoutState
  <2>3. QED
    BY <2>1, <2>2, MoveInRange
<1>7. QED
  BY <1>1, <1>2, <1>3, <1>4, <1>5, <1>6

LEMMA AddKeepsStack ==
  ASSUME TypeOK, StackLength, NEW layer \in Layer, Len(layers) < MaxLayers,
         layers' = Append(layers, layer)
  PROVE  StackLength' /\ InStack(layers) \subseteq InStack(layers')
<1>1. layers \in Seq(Layer) /\ MaxLayers \in Nat
  BY BoundsAssumption DEF TypeOK
<1>2. /\ Len(layers') = Len(layers) + 1
      /\ DOMAIN layers \subseteq DOMAIN layers'
      /\ \A i \in DOMAIN layers : layers'[i] = layers[i]
      /\ Len(layers) \in Nat
  BY <1>1
<1>3. StackLength'
  BY <1>1, <1>2, StackIs DEF StackLength
<1>4. InStack(layers) \subseteq InStack(layers')
  BY <1>2 DEF InStack
<1>5. QED
  BY <1>3, <1>4

(* Removing a layer leaves the functions of the others. *)
LEMMA RemoveKeepsStack ==
  ASSUME TypeOK, StackLength, NEW index \in Nat, index >= Len(InitLayers), index < Len(layers),
         layers' = RemoveAt(layers, index + 1)
  PROVE  /\ StackLength'
         /\ InStack(layers') \subseteq InStack(layers)
         /\ \A k \in InStack(layers) : k[1] # layers[index + 1] => k \in InStack(layers')
<1>1. layers \in Seq(Layer) /\ MaxLayers \in Nat
  BY BoundsAssumption DEF TypeOK
<1>2. /\ DOMAIN layers = 1 .. Len(layers) /\ Len(layers) \in Nat
      /\ index + 1 \in 1 .. Len(layers)
  BY <1>1
<1>3. /\ layers' \in Seq(Layer)
      /\ Len(layers') = Len(layers) - 1
      /\ \A i \in 1 .. Len(layers) - 1 :
           layers'[i] = IF i < index + 1 THEN layers[i] ELSE layers[i + 1]
  BY <1>1, <1>2, RemoveAtProperties
<1>4. DOMAIN layers' = 1 .. Len(layers) - 1
  BY <1>3
<1>5. StackLength'
  BY <1>1, <1>2, <1>3, StackIs DEF StackLength
<1>6. ASSUME NEW i \in DOMAIN layers'
      PROVE  \E j \in DOMAIN layers : layers'[i] = layers[j]
  <2>1. i \in 1 .. Len(layers) - 1 /\ i \in 1 .. Len(layers) /\ i + 1 \in 1 .. Len(layers)
    BY <1>2, <1>4
  <2>2. layers'[i] = layers[i] \/ layers'[i] = layers[i + 1]
    BY <1>3, <2>1
  <2>3. QED
    BY <1>2, <2>1, <2>2
<1>7. ASSUME NEW i \in DOMAIN layers, i # index + 1
      PROVE  \E j \in DOMAIN layers' : layers'[j] = layers[i]
  <2>1. i \in 1 .. Len(layers)
    BY <1>2
  <2>2. CASE i < index + 1
    <3>1. i \in 1 .. Len(layers) - 1
      BY <1>2, <2>1, <2>2
    <3>2. layers'[i] = layers[i]
      BY <1>3, <2>2, <3>1
    <3>3. QED
      BY <1>4, <3>1, <3>2
  <2>3. CASE i > index + 1
    <3>1. i - 1 \in 1 .. Len(layers) - 1 /\ i - 1 + 1 = i /\ ~(i - 1 < index + 1)
      BY <1>2, <2>1, <2>3
    <3>2. layers'[i - 1] = layers[i]
      BY <1>3, <3>1
    <3>3. QED
      BY <1>4, <3>1, <3>2
  <2>4. QED
    BY <1>2, <1>7, <2>1, <2>2, <2>3
<1>8. InStack(layers') \subseteq InStack(layers)
  BY <1>6 DEF InStack
<1>9. ASSUME NEW k \in InStack(layers), k[1] # layers[index + 1]
      PROVE  k \in InStack(layers')
  <2>1. PICK i \in DOMAIN layers : layers[i] = k[1]
    BY DEF InStack
  <2>2. i # index + 1
    BY <1>9, <2>1
  <2>3. PICK j \in DOMAIN layers' : layers'[j] = layers[i]
    BY <1>7, <2>2
  <2>4. QED
    BY <2>1, <2>3 DEF InStack
<1>10. QED
  BY <1>5, <1>8, <1>9

(* Which functions are down after an event. *)
LEMMA EventDown ==
  ASSUME NEW k \in Places, NEW high \in BOOLEAN, Event(k, high)
  PROVE  down' = IF k \in ShiftKeys \cup KeyKeys /\ high THEN down \cup {k} ELSE down \ {k}
<1>1. down' = DownAfter(k, FunctionOf(k), high)
  BY DEF Event
<1>2. FunctionOf(k).kind \in {"Key", "Shift"} <=> k \in ShiftKeys \cup KeyKeys
  BY PlaceType
<1>3. QED
  BY <1>1, <1>2 DEF DownAfter

LEMMA CarefulIsNext == [CarefulNext]_vars => [Next]_vars
BY DEF CarefulNext, Next

LEMMA LayersInit == Init => LayersInv
<1> SUFFICES ASSUME Init PROVE InRange(Lay) /\ StackLength
  BY TypeInit DEF LayersInv, Init
<1>1. Len(layers) = Len(InitLayers) /\ Len(InitLayers) \in Nat
  BY StackIs DEF Init
<1>2. InRange(Lay)
  BY <1>1 DEF Init, Lay, InRange
<1>3. StackLength
  BY <1>1, BoundsAssumption DEF StackLength
<1>4. QED
  BY <1>2, <1>3

(* What a careful operator's removal leaves as it was. *)
LEMMA CarefulRemove ==
  ASSUME LayersInv, NEW index \in Indices, Unused(index), RpcRemove(index)
  PROVE  /\ index \in Nat /\ index < Len(layers)
         /\ layers' = RemoveAt(layers, index + 1)
         /\ UNCHANGED <<cur_layer, shift_from, down>>
         /\ \A k \in down : k[1] # layers[index + 1]
<1>1. index \in Nat
  BY BoundsAssumption DEF Indices
<1>2. HasLayer(Lay, index) /\ Becomes(RemoveLayer(Lay, index))
  BY DEF RpcRemove
<1>3. /\ index < Len(layers)
      /\ layers' = RemoveAt(layers, index + 1)
      /\ UNCHANGED <<cur_layer, shift_from>>
  BY <1>2 DEF HasLayer, RemoveLayer, Becomes, Lay
<1>4. index + 1 \in DOMAIN layers
  BY <1>1, <1>3 DEF LayersInv, TypeOK
<1>5. \A k \in down : k[1] # layers[index + 1]
  BY <1>4 DEF Unused
<1>6. down' = down
  BY <1>5 DEF RpcRemove
<1>7. QED
  BY <1>1, <1>3, <1>5, <1>6

(* Which functions there can be is a matter of the constants. *)
LEMMA KeysStay ==
  /\ ShiftKeys' = ShiftKeys
  /\ KeyKeys' = KeyKeys
  /\ Keys' = Keys
  /\ InStack(layers)' = InStack(layers')
  /\ SharedIn(layers)' = SharedIn(layers')
BY DEF ShiftKeys, KeyKeys, Keys, KeyOf, Places, FunctionOf, InStack, SharedIn

LEMMA LayersStep == LayersInv /\ [CarefulNext]_vars => LayersInv'
<1> DEFINE Goal == /\ InRange(Lay)'
                   /\ StackLength'
                   /\ down' \subseteq ShiftKeys \cup KeyKeys
                   /\ down' \subseteq InStack(layers')
                   /\ pc' = "scan" => layers' # <<>>
<1> SUFFICES ASSUME LayersInv, [CarefulNext]_vars
             PROVE  Goal
  BY KeysStay, TypeStep, CarefulIsNext DEF LayersInv
<1> HIDE DEF Goal
<1> USE DEF layoutVars, loopVars, hidVars
<1>1. /\ TypeOK
      /\ Lay \in LayoutState(Layer) /\ InRange(Lay)
      /\ StackLength
      /\ down \subseteq ShiftKeys \cup KeyKeys
      /\ down \subseteq InStack(layers)
  BY LayType DEF LayersInv
<1>2. ASSUME UNCHANGED layoutVars, down' \subseteq ShiftKeys \cup KeyKeys,
             down' \subseteq InStack(layers), pc' = "scan" => layers # <<>>
      PROVE  Goal
  <2>1. InRange(Lay)' /\ StackLength'
    BY <1>1, <1>2 DEF layoutVars, Lay, InRange, StackLength
  <2>2. layers' = layers
    BY <1>2
  <2>3. QED
    BY <1>2, <2>1, <2>2 DEF Goal
<1>3. ASSUME NEW lay \in LayoutState(Layer), InRange(lay), lay.layers = layers, Becomes(lay),
             UNCHANGED <<down, pc>>
      PROVE  Goal
  <2>1. layers' = layers
    BY <1>3 DEF Becomes
  <2>2. InRange(Lay)'
    BY <1>3 DEF Becomes, Lay, InRange
  <2>3. StackLength'
    BY <1>1, <2>1 DEF StackLength
  <2>4. QED
    BY <1>1, <1>3, <2>1, <2>2, <2>3 DEF Goal, LayersInv
<1>4. \A index \in Indices : index \in Nat
  BY BoundsAssumption DEF Indices
<1>5. ASSUME NEW i \in Input, Actuate(i)
      PROVE  Goal
  BY <1>1, <1>2, <1>5 DEF Actuate, loopVars, LayersInv
<1>6. CASE Tick
  BY <1>1, <1>2, <1>6 DEF Tick
<1>7. CASE TickFails
  BY <1>1, <1>2, <1>7 DEF TickFails
<1>8. CASE StartPoll
  BY <1>1, <1>2, <1>8 DEF StartPoll
<1>9. CASE ScanCell
  <2>1. UNCHANGED layoutVars /\ pc = "scan"
    BY <1>9 DEF ScanCell
  <2>2. down' \subseteq ShiftKeys \cup KeyKeys /\ down' \subseteq InStack(layers)
    <3>1. CASE UNCHANGED <<queue, commands, down>>
      BY <1>1, <3>1
    <3>2. ASSUME NEW k \in Places, NEW high \in BOOLEAN, k \in InStack(layers), Event(k, high)
          PROVE  down' \subseteq ShiftKeys \cup KeyKeys /\ down' \subseteq InStack(layers)
      BY <1>1, <3>2, EventDown
    <3>3. QED
      BY <1>1, <1>9, <3>1, <3>2, ScanEffect
  <2>3. QED
    BY <1>2, <2>1, <2>2 DEF LayersInv
<1>10. CASE EvalNext
  <2>1. /\ commands \in Seq(Command) /\ commands # <<>>
        /\ Becomes(EvalCommand(Lay, Head(commands)))
        /\ UNCHANGED <<down, pc>>
    BY <1>1, <1>10 DEF EvalNext, TypeOK, TypeOK
  <2>2. Head(commands) \in Command
    BY <2>1
  <2>3. /\ EvalCommand(Lay, Head(commands)) \in LayoutState(Layer)
        /\ EvalCommand(Lay, Head(commands)).layers = Lay.layers
        /\ InRange(EvalCommand(Lay, Head(commands)))
    BY <1>1, <2>2, EvalType, EvalKeepsLayers
  <2>4. Lay.layers = layers
    BY DEF Lay
  <2>5. QED
    BY <1>3, <2>1, <2>3, <2>4
<1>11. CASE EndPoll
  BY <1>1, <1>2, <1>11 DEF EndPoll
<1>12. CASE HidThread
  BY <1>1, <1>2, <1>12 DEF HidThread, Deliver, ReportFails, loopVars, LayersInv
<1>13. ASSUME NEW index \in Indices, RpcSwitch(index)
       PROVE  Goal
  <2>1. /\ SwitchLayer(Lay, index) \in LayoutState(Layer)
        /\ InRange(SwitchLayer(Lay, index))
        /\ SwitchLayer(Lay, index).layers = layers
    BY <1>1, <1>4, OperationsType, MoveInRange DEF SwitchLayer, Lay
  <2>2. QED
    BY <1>3, <1>13, <2>1 DEF RpcSwitch, loopVars
<1>14. CASE RpcUp
  <2>1. /\ UpLayer(Lay) \in LayoutState(Layer)
        /\ InRange(UpLayer(Lay))
        /\ UpLayer(Lay).layers = layers
    BY <1>1, OperationsType, MoveInRange DEF UpLayer, Lay
  <2>2. QED
    BY <1>3, <1>14, <2>1 DEF RpcUp, loopVars
<1>15. CASE RpcDown
  <2>1. /\ DownLayer(Lay) \in LayoutState(Layer)
        /\ InRange(DownLayer(Lay))
        /\ DownLayer(Lay).layers = layers
    BY <1>1, OperationsType, MoveInRange DEF DownLayer, Lay
  <2>2. QED
    BY <1>3, <1>15, <2>1 DEF RpcDown, loopVars
<1>16. ASSUME NEW row \in AddedLayers, NEW no \in Numbers, RpcAdd(row, no)
       PROVE  Goal
  <2> DEFINE layer == [row |-> row, no |-> no]
  <2>1. layer \in Layer
    BY DEF Layer
  <2>2. /\ Len(layers) < MaxLayers
        /\ Becomes(AddLayer(Lay, layer))
        /\ UNCHANGED <<down, pc>>
        /\ pc # "scan"
    BY <1>16 DEF RpcAdd, LockFree
  <2> HIDE DEF layer
  <2>3. layers' = Append(layers, layer)
    BY <2>2 DEF AddLayer, Becomes, Lay
  <2>4. StackLength' /\ InStack(layers) \subseteq InStack(layers')
    BY <1>1, <2>1, <2>2, <2>3, AddKeepsStack
  <2>5. InRange(AddLayer(Lay, layer))
    BY <1>1, <2>1, AddInRange
  <2>6. InRange(Lay)'
    BY <2>2, <2>5 DEF Becomes, Lay, InRange
  <2>7. QED
    BY <1>1, <2>2, <2>4, <2>6 DEF Goal
<1>17. ASSUME NEW index \in Indices, Unused(index), RpcRemove(index)
       PROVE  Goal
  <2>1. /\ index \in Nat /\ index < Len(layers) /\ index >= Len(InitLayers)
        /\ layers' = RemoveAt(layers, index + 1)
        /\ UNCHANGED down
        /\ \A k \in down : k[1] # layers[index + 1]
    BY <1>17, CarefulRemove DEF Unused
  <2>2. /\ StackLength'
        /\ \A k \in InStack(layers) : k[1] # layers[index + 1] => k \in InStack(layers')
    BY <1>1, <2>1, RemoveKeepsStack
  <2>3. /\ index > Lay.cur_layer
        /\ \A i \in DOMAIN Lay.shift_from : index > Lay.shift_from[i].start
    BY <1>17 DEF Unused, Lay
  <2>4. InRange(RemoveLayer(Lay, index))
    BY <1>1, <2>1, <2>3, CarefulRemoveInRange
  <2>5. InRange(Lay)'
    BY <1>17, <2>4 DEF RpcRemove, Becomes, Lay, InRange
  <2>6. pc' # "scan"
    BY <1>17 DEF RpcRemove, LockFree, loopVars
  <2>7. QED
    BY <1>1, <2>1, <2>2, <2>5, <2>6 DEF Goal
<1>18. CASE UNCHANGED vars
  BY <1>1, <1>2, <1>18 DEF vars, loopVars, LayersInv
<1>19. QED
  BY <1>5, <1>6, <1>7, <1>8, <1>9, <1>10, <1>11, <1>12, <1>13, <1>14, <1>15, <1>16, <1>17, <1>18
     DEF CarefulNext, Loop, Others

-----------------------------------------------------------------------------
(* The event loop goes on. *)

LivesInv == LayersInv /\ LoopLives

(* With every row full, no cell is missing from a layer that is there. *)
LEMMA NoCellMissing ==
  ASSUME FullRows, LayersInv, pc = "scan", NEW c \in Cells
  PROVE  ~Panics(c)
<1>1. /\ layers \in Seq(Layer) /\ cur_layer \in Nat /\ layers # <<>>
      /\ cur_layer < Len(layers) \/ (Len(layers) = 0 /\ cur_layer = 0)
  BY DEF LayersInv, TypeOK, InRange, Lay
<1>2. cur_layer < Len(layers) /\ Len(layers) \in Nat
  BY <1>1
<1>3. ASSUME NEW i \in 0 .. cur_layer
      PROVE  HasCell(i, c)
  <2>1. layers[i + 1] \in Layer
    BY <1>1, <1>2
  <2>2. layers[i + 1].row \in Seq(Function) /\ Len(layers[i + 1].row) >= NumCells
    BY <2>1, LayerRows
  <2>3. c < NumCells /\ c \in Nat /\ NumCells \in Nat
    BY CellsNat DEF Cells
  <2>4. QED
    BY <2>2, <2>3 DEF HasCell
<1>4. Stops(c) # {} => Max(Stops(c)) \in 0 .. cur_layer
  <2>1. Stops(c) \in SUBSET (0 .. cur_layer)
    BY DEF Stops
  <2>2. QED
    BY <1>1, <2>1, MaxIsGreatest
<1>5. QED
  BY <1>2, <1>3, <1>4 DEF Panics, HasLayer, Lay

LEMMA LivesStep ==
  ASSUME FullRows
  PROVE  LivesInv /\ [CarefulNext]_vars => LivesInv'
<1> SUFFICES ASSUME LivesInv, [CarefulNext]_vars
             PROVE  pc' # "panicked"
  BY LayersStep DEF LivesInv, LoopLives
<1>1. pc # "panicked"
  BY DEF LivesInv, LoopLives
<1>2. CASE ScanCell
  <2>1. Bindings[at].cell \in Cells /\ pc = "scan"
    BY <1>2, ScanEffect DEF LivesInv, LayersInv, ScanCell
  <2>2. ~Panics(Bindings[at].cell)
    BY <2>1, NoCellMissing DEF LivesInv
  <2>3. QED
    BY <1>1, <1>2, <2>2 DEF ScanCell
<1>3. CASE Tick \/ TickFails \/ StartPoll \/ EvalNext \/ EndPoll
  BY <1>1, <1>3 DEF Tick, TickFails, StartPoll, EvalNext, EndPoll
<1>4. CASE Others
  BY <1>1, <1>4 DEF Others, Actuate, HidThread, Deliver, ReportFails,
                   RpcSwitch, RpcUp, RpcDown, RpcAdd, loopVars
<1>5. ASSUME NEW index \in Indices, RpcRemove(index)
      PROVE  pc' # "panicked"
  BY <1>1, <1>5 DEF RpcRemove, loopVars
<1>6. CASE UNCHANGED vars
  BY <1>1, <1>6 DEF vars, loopVars
<1>7. QED
  BY <1>2, <1>3, <1>4, <1>5, <1>6 DEF CarefulNext, Loop

(* Poll finds every layer and every cell that it indexes, whatever the     *)
(* keys and a careful operator do and whatever functions the RPC's layers  *)
(* hold, so that the event loop does not end, if those layers have a       *)
(* function for every cell.                                                *)
THEOREM LoopLivesCorrect == FullRows => (CarefulSpec => []LoopLives)
<1> SUFFICES ASSUME FullRows PROVE CarefulSpec => []LoopLives
  OBVIOUS
<1>1. Init => LivesInv
  BY LayersInit DEF LivesInv, LoopLives, Init
<1>2. LivesInv => LoopLives
  BY DEF LivesInv
<1>3. QED
  BY <1>1, <1>2, LivesStep, PTL DEF CarefulSpec

-----------------------------------------------------------------------------
(* The Key functions and the HID thread agree. What the thread will hold   *)
(* is a function of its queue and of what it holds.                        *)

AboutIn(q, key) == {i \in DOMAIN q : q[i].op # "Send" /\ q[i].key = key}

EndsHeld(q, p, key) ==
  IF AboutIn(q, key) = {} THEN key \in p ELSE q[Max(AboutIn(q, key))].op = "Hold"

LEMMA LastAbout ==
  ASSUME NEW q \in Seq(Message), NEW p, NEW key, AboutIn(q, key) # {}
  PROVE  /\ Max(AboutIn(q, key)) \in AboutIn(q, key)
         /\ \A i \in AboutIn(q, key) : Max(AboutIn(q, key)) >= i
<1>1. AboutIn(q, key) \in SUBSET (0 .. Len(q)) /\ Len(q) \in Nat
  BY DEF AboutIn
<1>2. QED
  BY <1>1, MaxIsGreatest

LEMMA LastAboutIs ==
  ASSUME NEW q \in Seq(Message), NEW p, NEW key,
         NEW i \in AboutIn(q, key), \A j \in AboutIn(q, key) : i >= j
  PROVE  EndsHeld(q, p, key) <=> q[i].op = "Hold"
<1>1. AboutIn(q, key) \in SUBSET (0 .. Len(q)) /\ Len(q) \in Nat
  BY DEF AboutIn
<1>2. Max(AboutIn(q, key)) = i
  BY <1>1, GreatestIsMax
<1>3. QED
  BY <1>2 DEF EndsHeld

(* A message about the key decides ... *)
LEMMA SendOwn ==
  ASSUME NEW q \in Seq(Message), NEW p, NEW key, NEW msg \in Message,
         msg.op # "Send", msg.key = key
  PROVE  EndsHeld(Append(q, msg), p, key) <=> msg.op = "Hold"
<1> DEFINE r == Append(q, msg)
<1>1. /\ r \in Seq(Message) /\ Len(q) \in Nat
      /\ DOMAIN r = 1 .. Len(q) + 1
      /\ r[Len(q) + 1] = msg
  OBVIOUS
<1> HIDE DEF r
<1>2. Len(q) + 1 \in AboutIn(r, key)
  BY <1>1 DEF AboutIn
<1>3. \A j \in AboutIn(r, key) : Len(q) + 1 >= j
  BY <1>1 DEF AboutIn
<1>4. QED
  BY <1>1, <1>2, <1>3, LastAboutIs DEF r

(* ... and another changes nothing. *)
LEMMA SendOther ==
  ASSUME NEW q \in Seq(Message), NEW p, NEW key, NEW msg \in Message,
         ~(msg.op # "Send" /\ msg.key = key)
  PROVE  EndsHeld(Append(q, msg), p, key) <=> EndsHeld(q, p, key)
<1> DEFINE r == Append(q, msg)
<1>1. /\ r \in Seq(Message) /\ Len(q) \in Nat
      /\ DOMAIN r = 1 .. Len(q) + 1 /\ DOMAIN q = 1 .. Len(q)
      /\ \A i \in 1 .. Len(q) : r[i] = q[i]
      /\ r[Len(q) + 1] = msg
  OBVIOUS
<1> HIDE DEF r
<1>2. AboutIn(r, key) = AboutIn(q, key)
  BY <1>1 DEF AboutIn
<1>3. CASE AboutIn(q, key) = {}
  BY <1>2, <1>3 DEF EndsHeld, r
<1>4. CASE AboutIn(q, key) # {}
  <2>1. Max(AboutIn(q, key)) \in 1 .. Len(q)
    BY <1>1, <1>4, LastAbout DEF AboutIn
  <2>2. QED
    BY <1>1, <1>2, <1>4, <2>1 DEF EndsHeld, r
<1>5. QED
  BY <1>3, <1>4

(* Receiving a message takes its effect from the queue to what is held.    *)
LEMMA ReceiveKeeps ==
  ASSUME NEW q \in Seq(Message), q # <<>>, NEW p, NEW key, NEW after,
         \/ Head(q).op = "Hold" /\ after = p \cup {Head(q).key}
         \/ Head(q).op = "Release" /\ after = p \ {Head(q).key}
         \/ Head(q).op = "Send" /\ after = p
  PROVE  EndsHeld(Tail(q), after, key) <=> EndsHeld(q, p, key)
<1> DEFINE t == Tail(q)
<1>1. /\ t \in Seq(Message) /\ Len(q) \in Nat /\ Head(q) = q[1]
      /\ DOMAIN t = 1 .. Len(q) - 1 /\ DOMAIN q = 1 .. Len(q)
      /\ \A i \in 1 .. Len(q) - 1 : t[i] = q[i + 1]
      /\ 1 \in 1 .. Len(q)
  OBVIOUS
<1> HIDE DEF t
<1>2. \A i \in 1 .. Len(q) - 1 : i \in AboutIn(t, key) <=> i + 1 \in AboutIn(q, key)
  BY <1>1 DEF AboutIn
<1>3. \A i \in AboutIn(q, key) : i = 1 \/ (i - 1 \in 1 .. Len(q) - 1 /\ i - 1 \in AboutIn(t, key))
  <2>1. TAKE i \in AboutIn(q, key)
  <2>2. i \in 1 .. Len(q)
    BY <1>1 DEF AboutIn
  <2>3. CASE i # 1
    <3>1. i - 1 \in 1 .. Len(q) - 1 /\ i - 1 + 1 = i
      BY <1>1, <2>2, <2>3
    <3>2. QED
      BY <1>2, <3>1
  <2>4. QED
    BY <2>3
<1>4. CASE AboutIn(t, key) # {}
  <2> DEFINE m == Max(AboutIn(t, key))
  <2>1. m \in AboutIn(t, key) /\ \A i \in AboutIn(t, key) : m >= i
    BY <1>1, <1>4, LastAbout
  <2>2. m \in 1 .. Len(q) - 1
    BY <1>1, <2>1 DEF AboutIn
  <2> HIDE DEF m
  <2>3. m + 1 \in AboutIn(q, key)
    BY <1>2, <2>1, <2>2
  <2>4. \A i \in AboutIn(q, key) : m + 1 >= i
    BY <1>1, <1>3, <2>1, <2>2
  <2>5. EndsHeld(q, p, key) <=> q[m + 1].op = "Hold"
    BY <2>3, <2>4, LastAboutIs
  <2>6. EndsHeld(t, after, key) <=> t[m].op = "Hold"
    BY <1>1, <2>1, LastAboutIs
  <2>7. QED
    BY <1>1, <2>2, <2>5, <2>6 DEF t
<1>5. CASE AboutIn(t, key) = {}
  <2>1. EndsHeld(t, after, key) <=> key \in after
    BY <1>5 DEF EndsHeld
  <2>2. CASE 1 \in AboutIn(q, key)
    <3>1. \A i \in AboutIn(q, key) : 1 >= i
      BY <1>3, <1>5
    <3>2. EndsHeld(q, p, key) <=> q[1].op = "Hold"
      BY <2>2, <3>1, LastAboutIs
    <3>3. q[1].op # "Send" /\ q[1].key = key
      BY <2>2 DEF AboutIn
    <3>4. QED
      BY <1>1, <2>1, <3>2, <3>3 DEF t
  <2>3. CASE 1 \notin AboutIn(q, key)
    <3>1. AboutIn(q, key) = {}
      BY <1>3, <1>5, <2>3
    <3>2. EndsHeld(q, p, key) <=> key \in p
      BY <3>1 DEF EndsHeld
    <3>3. ~(q[1].op # "Send" /\ q[1].key = key)
      BY <1>1, <2>3 DEF AboutIn
    <3>4. key \in after <=> key \in p
      BY <1>1, <3>3
    <3>5. QED
      BY <2>1, <3>2, <3>4 DEF t
  <2>4. QED
    BY <2>2, <2>3
<1>6. QED
  BY <1>4, <1>5

LEMMA PairAppended ==
  ASSUME NEW S, NEW q \in Seq(S), NEW x \in S, NEW y \in S
  PROVE  /\ q \o <<x, y>> = Append(Append(q, x), y)
         /\ Append(q, x) \in Seq(S)
         /\ Append(Append(q, x), y)[Len(Append(Append(q, x), y))] = y
         /\ Append(Append(q, x), y) # <<>>
OBVIOUS

(* A report follows all that the host is to be told of. *)
ReportPending ==
  IF queue = <<>> THEN failed \/ report = pressed ELSE queue[Len(queue)] = SendReport

(* The functions that are down and have the key. *)
DownWith(key) == {k \in down \cap KeyKeys : KeyOf(k) = key}

Agrees(key) ==
  /\ EndsHeld(queue, pressed, key) => DownWith(key) # {}
  /\ DownWith(key) # {} /\ key \notin shared => EndsHeld(queue, pressed, key)

HidInv ==
  /\ LayersInv
  /\ SharedIn(layers) \subseteq shared
  /\ ReportPending
  /\ \A key \in Keys : Agrees(key)

LEMMA HidInvImplies == HidInv => HidAgrees
BY DEF HidInv, ReportPending, Agrees, DownWith, HidAgrees, HeldInTheEnd, EndsHeld, AboutIn

LEMMA HidInit == Init => HidInv
<1> SUFFICES ASSUME Init PROVE ReportPending /\ \A key \in Keys : Agrees(key)
  BY LayersInit DEF HidInv, Init
<1>1. queue = <<>> /\ pressed = {} /\ report = {} /\ down = {}
  BY DEF Init
<1>2. \A key : AboutIn(<<>>, key) = {}
  BY DEF AboutIn
<1>3. QED
  BY <1>1, <1>2 DEF ReportPending, Agrees, DownWith, EndsHeld

(* What HidInv says of the next state. *)
LEMMA HidPrimed ==
  ASSUME NEW key, NEW held, NEW by,
         held = EndsHeld(queue', pressed', key),
         by = {k \in down' \cap KeyKeys : KeyOf(k) = key},
         held => by # {},
         by # {} /\ key \notin shared' => held
  PROVE  Agrees(key)'
<1>1. DownWith(key)' = by
  BY KeysStay DEF DownWith, KeyOf, FunctionOf
<1>2. EndsHeld(queue, pressed, key)' = held
  BY DEF EndsHeld, AboutIn
<1>3. QED
  BY <1>1, <1>2 DEF Agrees

(* The messages of an event about a key, followed by a report. *)
LEMMA ReportSent ==
  ASSUME TypeOK, ReportPending, NEW msg \in Message, msg.op # "Send",
         queue' = queue \o <<msg, SendReport>>, UNCHANGED <<pressed, report>>
  PROVE  /\ ReportPending'
         /\ \A key : EndsHeld(queue, pressed, key)'
                       <=> IF msg.key = key THEN msg.op = "Hold" ELSE EndsHeld(queue, pressed, key)
<1>1. queue \in Seq(Message) /\ SendReport \in Message /\ SendReport.op = "Send"
  BY DEF TypeOK, TypeOK, Message, SendReport
<1> DEFINE q == Append(queue, msg)
<1>2. /\ queue' = Append(q, SendReport) /\ q \in Seq(Message)
      /\ queue' # <<>> /\ queue'[Len(queue')] = SendReport
  BY <1>1, PairAppended
<1> HIDE DEF q
<1>3. ASSUME NEW key
      PROVE  EndsHeld(queue', pressed, key)
               <=> IF msg.key = key THEN msg.op = "Hold" ELSE EndsHeld(queue, pressed, key)
  <2>1. EndsHeld(Append(q, SendReport), pressed, key) <=> EndsHeld(q, pressed, key)
    BY <1>1, <1>2, SendOther
  <2>2. CASE msg.key = key
    <3>1. EndsHeld(q, pressed, key) <=> msg.op = "Hold"
      BY <1>1, <2>2, SendOwn DEF q
    <3>2. QED
      BY <1>2, <2>1, <2>2, <3>1
  <2>3. CASE msg.key # key
    <3>1. EndsHeld(q, pressed, key) <=> EndsHeld(queue, pressed, key)
      BY <1>1, <2>3, SendOther DEF q
    <3>2. QED
      BY <1>2, <2>1, <2>3, <3>1
  <2>4. QED
    BY <2>2, <2>3
<1>4. ReportPending'
  BY <1>2 DEF ReportPending
<1>5. ASSUME NEW key
      PROVE  EndsHeld(queue, pressed, key)' <=> EndsHeld(queue', pressed, key)
  <2>1. pressed' = pressed
    OBVIOUS
  <2>2. QED
    BY <2>1 DEF EndsHeld, AboutIn
<1>6. QED
  BY <1>3, <1>4, <1>5

(* An event of a Key function: the message and the function's prev_state   *)
(* change together. Another function with its key that is down makes the   *)
(* key a shared one.                                                       *)
LEMMA HidEvent ==
  ASSUME HidInv, NEW k \in Places, NEW high \in BOOLEAN, k \in InStack(layers), Event(k, high),
         UNCHANGED <<pressed, report, failed, shared>>
  PROVE  ReportPending' /\ \A key \in Keys : Agrees(key)'
<1> DEFINE was == k \in down
           own == FunctionOf(k).key
           Held(i) == EndsHeld(queue', pressed', i)
           By(i)   == {j \in down' \cap KeyKeys : KeyOf(j) = i}
<1>1. TypeOK /\ ReportPending /\ \A key \in Keys : Agrees(key)
  BY DEF HidInv, LayersInv
<1>2. /\ queue' = queue \o Messages(FunctionOf(k), was, high)
      /\ was \in BOOLEAN
  BY DEF Event
<1>3. down' = IF k \in ShiftKeys \cup KeyKeys /\ high THEN down \cup {k} ELSE down \ {k}
  BY EventDown
<1>4. /\ k \in KeyKeys <=> FunctionOf(k).kind = "Key"
      /\ k \in KeyKeys => own = KeyOf(k) /\ own \in Keys
  BY PlaceType
<1>5. queue \in Seq(Message)
  BY <1>1 DEF TypeOK
<1>6. ASSUME k \in KeyKeys, NEW j \in down \cap KeyKeys, j # k, KeyOf(j) = own
      PROVE  own \in shared
  <2>1. j \in KeyKeys \cap InStack(layers) /\ k \in KeyKeys \cap InStack(layers)
    BY <1>6 DEF HidInv, LayersInv
  <2>2. own \in SharedIn(layers)
    BY <1>4, <1>6, <2>1 DEF SharedIn
  <2>3. QED
    BY <2>2 DEF HidInv
<1>7. CASE ~(k \in KeyKeys /\ was # high)
  <2>1. Messages(FunctionOf(k), was, high) = <<>>
    BY <1>2, <1>4, <1>7 DEF Messages
  <2>2. queue' = queue
    BY <1>2, <1>5, <2>1
  <2>3. down' \cap KeyKeys = down \cap KeyKeys
    BY <1>2, <1>3, <1>7
  <2>4. ReportPending'
    BY <1>1, <2>2 DEF ReportPending
  <2>5. ASSUME NEW key \in Keys
        PROVE  Agrees(key)'
    <3>1. Held(key) = EndsHeld(queue, pressed, key) /\ By(key) = DownWith(key)
      BY <2>2, <2>3 DEF DownWith
    <3>2. QED
      BY <1>1, <3>1, HidPrimed DEF Agrees
  <2>6. QED
    BY <2>4, <2>5
<1>8. ASSUME k \in KeyKeys, NEW msg \in Message, msg.op # "Send", msg.key = own,
             queue' = queue \o <<msg, SendReport>>, msg.op = "Hold" <=> high
      PROVE  ReportPending' /\ \A key \in Keys : Agrees(key)'
  <2>1. /\ ReportPending'
        /\ \A i : EndsHeld(queue, pressed, i)'
                    <=> IF own = i THEN msg.op = "Hold" ELSE EndsHeld(queue, pressed, i)
    BY <1>1, <1>8, ReportSent
  <2>2. \A i : Held(i) <=> EndsHeld(queue, pressed, i)'
    BY DEF EndsHeld, AboutIn
  <2>3. ASSUME NEW key \in Keys, key # own
        PROVE  Agrees(key)'
    <3>1. Held(key) <=> EndsHeld(queue, pressed, key)
      BY <2>1, <2>2, <2>3
    <3>2. By(key) = DownWith(key)
      BY <1>3, <1>4, <1>8, <2>3 DEF DownWith
    <3>3. QED
      BY <1>1, <3>1, <3>2, HidPrimed DEF Agrees
  <2>4. ASSUME NEW key \in Keys, key = own
        PROVE  Agrees(key)'
    <3>1. Held(key) <=> high
      BY <1>8, <2>1, <2>2, <2>4
    <3>2. high => k \in By(key)
      BY <1>3, <1>4, <1>8, <2>4
    <3>3. By(key) # {} /\ ~high => key \in shared'
      BY <1>3, <1>6, <1>8, <2>4
    <3>4. Held(key) => By(key) # {}
      BY <3>1, <3>2
    <3>5. By(key) # {} /\ key \notin shared' => Held(key)
      BY <3>1, <3>3, <2>4
    <3>6. QED
      BY <3>4, <3>5, HidPrimed
  <2>5. QED
    BY <2>1, <2>3, <2>4
<1>9. CASE k \in KeyKeys /\ high /\ ~was
  <2>1. Messages(FunctionOf(k), was, high) = <<Hold(own), SendReport>>
    BY <1>4, <1>9 DEF Messages
  <2>2. Hold(own) \in Message /\ Hold(own).op = "Hold" /\ Hold(own).key = own
    BY <1>4, <1>9 DEF Hold, Message
  <2>3. QED
    BY <1>2, <1>8, <1>9, <2>1, <2>2
<1>10. CASE k \in KeyKeys /\ ~high /\ was
  <2>1. Messages(FunctionOf(k), was, high) = <<Release(own), SendReport>>
    BY <1>4, <1>10 DEF Messages
  <2>2. Release(own) \in Message /\ Release(own).op = "Release" /\ Release(own).key = own
    BY <1>4, <1>10 DEF Release, Message
  <2>3. QED
    BY <1>2, <1>8, <1>10, <2>1, <2>2
<1>11. QED
  BY <1>2, <1>7, <1>9, <1>10

LEMMA LastOfTail ==
  ASSUME NEW S, NEW q \in Seq(S), q # <<>>, Len(q) # 1
  PROVE  Tail(q) # <<>> /\ Tail(q)[Len(Tail(q))] = q[Len(q)]
<1>1. PICK n \in Nat : n = Len(q)
  OBVIOUS
<1>2. n # 0 /\ n # 1
  BY <1>1
<1>3. n - 1 \in 1 .. n - 1 /\ n - 1 + 1 = n /\ n - 1 # 0
  BY <1>2
<1>4. /\ Len(Tail(q)) = n - 1
      /\ \A i \in 1 .. n - 1 : Tail(q)[i] = q[i + 1]
  BY <1>1, <1>2
<1>5. Tail(q)[n - 1] = q[n]
  BY <1>3, <1>4
<1>6. Tail(q) # <<>>
  BY <1>3, <1>4
<1>7. QED
  BY <1>1, <1>4, <1>5, <1>6

(* The HID thread receives a message, and may fail to send its report.     *)
LEMMA HidReceive ==
  ASSUME HidInv, HidThread
  PROVE  ReportPending' /\ \A key \in Keys : Agrees(key)'
<1> DEFINE msg == Head(queue)
<1>1. ReportPending /\ TypeOK /\ \A key \in Keys : Agrees(key)
  BY DEF HidInv, LayersInv
<1>2. /\ queue # <<>> /\ queue' = Tail(queue) /\ down' = down /\ shared' = shared
      /\ \/ msg.op = "Hold" /\ pressed' = pressed \cup {msg.key}
         \/ msg.op = "Release" /\ pressed' = pressed \ {msg.key}
         \/ msg.op = "Send" /\ pressed' = pressed /\ (failed' \/ report' = pressed')
  BY DEF HidThread, Deliver, ReportFails
<1>3. queue \in Seq(Message) /\ queue[Len(queue)] = SendReport
  BY <1>1, <1>2 DEF TypeOK, ReportPending
<1>4. \A key : EndsHeld(queue', pressed', key) <=> EndsHeld(queue, pressed, key)
  BY <1>2, <1>3, ReceiveKeeps
<1>5. ReportPending'
  <2>1. CASE Len(queue) = 1
    <3>1. queue' = <<>> /\ msg = SendReport
      BY <1>2, <1>3, <2>1
    <3>2. msg.op = "Send"
      BY <3>1 DEF SendReport
    <3>3. QED
      BY <1>2, <3>1, <3>2 DEF ReportPending
  <2>2. CASE Len(queue) # 1
    <3>1. queue' # <<>> /\ queue'[Len(queue')] = queue[Len(queue)]
      BY <1>2, <1>3, <2>2, LastOfTail
    <3>2. QED
      BY <1>3, <3>1 DEF ReportPending
  <2>3. QED
    BY <2>1, <2>2
<1>6. ASSUME NEW key \in Keys
      PROVE  Agrees(key)'
  <2>1. {k \in down' \cap KeyKeys : KeyOf(k) = key} = DownWith(key)
    BY <1>2 DEF DownWith
  <2>2. QED
    BY <1>1, <1>2, <1>4, <2>1, HidPrimed DEF Agrees
<1>7. QED
  BY <1>5, <1>6

LEMMA HidStep == HidInv /\ [CarefulNext]_vars => HidInv'
<1> DEFINE Goal == /\ SharedIn(layers') \subseteq shared'
                   /\ ReportPending'
                   /\ \A key \in Keys : Agrees(key)'
<1> SUFFICES ASSUME HidInv, [CarefulNext]_vars
             PROVE  Goal
  BY LayersStep, KeysStay DEF HidInv
<1> HIDE DEF Goal
<1>1. /\ ReportPending /\ LayersInv /\ TypeOK /\ \A key \in Keys : Agrees(key)
      /\ SharedIn(layers) \subseteq shared
  BY DEF HidInv, LayersInv
<1>2. ASSUME UNCHANGED <<queue, pressed, report, failed, down>>, shared \subseteq shared',
             SharedIn(layers') \subseteq shared'
      PROVE  Goal
  <2>1. ReportPending'
    BY <1>1, <1>2 DEF ReportPending
  <2>2. ASSUME NEW key \in Keys
        PROVE  Agrees(key)'
    <3>1. {k \in down' \cap KeyKeys : KeyOf(k) = key} = DownWith(key)
      BY <1>2 DEF DownWith
    <3>2. QED
      BY <1>1, <1>2, <3>1, HidPrimed DEF Agrees
  <2>3. QED
    BY <1>2, <2>1, <2>2 DEF Goal
<1>3. CASE ScanCell
  <2>1. UNCHANGED <<pressed, report, failed, shared, layers>>
    BY <1>3 DEF ScanCell, layoutVars
  <2>2. SharedIn(layers') \subseteq shared'
    BY <1>1, <2>1
  <2>3. CASE UNCHANGED <<queue, commands, down>>
    BY <1>2, <2>1, <2>2, <2>3
  <2>4. ASSUME NEW k \in Places, NEW high \in BOOLEAN, k \in InStack(layers), Event(k, high)
        PROVE  Goal
    BY <2>1, <2>2, <2>4, HidEvent DEF Goal
  <2>5. QED
    BY <1>1, <1>3, <2>3, <2>4, ScanEffect
<1>4. CASE HidThread
  <2>1. layers' = layers /\ shared' = shared
    BY <1>4 DEF HidThread, Deliver, ReportFails, layoutVars
  <2>2. SharedIn(layers') \subseteq shared'
    BY <1>1, <2>1
  <2>3. QED
    BY <1>4, <2>2, HidReceive DEF Goal
<1>5. CASE Tick \/ TickFails \/ StartPoll \/ EndPoll \/ (\E i \in Input : Actuate(i)) \/ UNCHANGED vars
  <2>1. UNCHANGED <<layers, queue, pressed, report, failed, down, shared>>
    BY <1>5 DEF Tick, TickFails, StartPoll, EndPoll, Actuate, hidVars, layoutVars, vars
  <2>2. SharedIn(layers') \subseteq shared'
    BY <1>1, <2>1
  <2>3. QED
    BY <1>2, <2>1, <2>2
<1>6. CASE EvalNext
  <2>1. /\ commands \in Seq(Command) /\ commands # <<>>
        /\ Becomes(EvalCommand(Lay, Head(commands)))
        /\ UNCHANGED <<down, hidVars, shared>>
    BY <1>1, <1>6 DEF EvalNext, TypeOK
  <2>2. Head(commands) \in Command
    BY <2>1
  <2>3. EvalCommand(Lay, Head(commands)).layers = Lay.layers
    BY <1>1, <2>2, LayType, EvalKeepsLayers
  <2>4. layers' = layers
    BY <2>1, <2>3 DEF Becomes, Lay
  <2>5. SharedIn(layers') \subseteq shared'
    BY <1>1, <2>1, <2>4
  <2>6. QED
    BY <1>2, <2>1, <2>5 DEF hidVars
<1>7. CASE (\E index \in Indices : RpcSwitch(index)) \/ RpcUp \/ RpcDown
  <2>1. UNCHANGED <<queue, pressed, report, failed, down, shared>>
    BY <1>7 DEF RpcSwitch, RpcUp, RpcDown, hidVars
  <2>2. layers' = layers
    BY <1>7 DEF RpcSwitch, RpcUp, RpcDown, Becomes, SwitchLayer, UpLayer, DownLayer, Lay
  <2>3. SharedIn(layers') \subseteq shared'
    BY <1>1, <2>1, <2>2
  <2>4. QED
    BY <1>2, <2>1, <2>3
<1>8. ASSUME NEW row \in AddedLayers, NEW no \in Numbers, RpcAdd(row, no)
      PROVE  Goal
  BY <1>2, <1>8 DEF RpcAdd, hidVars
<1>9. ASSUME NEW index \in Indices, Unused(index), RpcRemove(index)
      PROVE  Goal
  <2>1. /\ UNCHANGED <<queue, pressed, report, failed, down, shared>>
        /\ index \in Nat /\ index >= Len(InitLayers) /\ index < Len(layers)
        /\ layers' = RemoveAt(layers, index + 1)
    BY <1>1, <1>9, CarefulRemove DEF RpcRemove, hidVars, Unused
  <2>2. InStack(layers') \subseteq InStack(layers)
    BY <1>1, <2>1, RemoveKeepsStack DEF LayersInv
  <2>3. SharedIn(layers') \subseteq SharedIn(layers)
    BY <2>2 DEF SharedIn
  <2>4. QED
    BY <1>1, <1>2, <2>1, <2>3
<1>10. QED
  BY <1>3, <1>4, <1>5, <1>6, <1>7, <1>8, <1>9 DEF CarefulNext, Loop, Others

(* No press or release is lost or reordered between the Key functions and  *)
(* the HID thread, whatever layer is current by the time of each, whatever *)
(* Key functions come and go with the RPC's layers and whichever reports   *)
(* fail: the messages in the queue tell all that the thread does not know  *)
(* yet, and a report is the last of them.                                  *)
THEOREM HidAgreesCorrect == CarefulSpec => []HidAgrees
BY HidInit, HidStep, HidInvImplies, PTL DEF CarefulSpec

-----------------------------------------------------------------------------
(* The commands of a poll. Each place asks at most once, as poll visits a  *)
(* cell once, and a Shift function asks what its prev_state tells.         *)

Fits(command, held) ==
  IF command.by \in ShiftKeys
  THEN /\ command.op = IF command.by \in held THEN "Shift" ELSE "UnShift"
       /\ command.layer = TargetOf[command.by]
  ELSE command.op \in {"Switch", "Up", "Down"}

FromScanned(cs, next) ==
  \A i \in DOMAIN cs : \E n \in 1 .. next - 1 : cs[i].by[2] = Bindings[n].cell

AskedOnce(cs) == \A i, j \in DOMAIN cs : cs[i].by = cs[j].by => i = j

CommandsInv ==
  /\ pc \in {"tick", "poll"} => commands = <<>>
  /\ pc = "scan" => FromScanned(commands, at)
  /\ AskedOnce(commands)
  /\ \A i \in DOMAIN commands : Fits(commands[i], down)

AskedIn(cs, k) == \E i \in DOMAIN cs : cs[i].by = k

LEMMA AskedAfterAppend ==
  ASSUME NEW cs \in Seq(Command), NEW command \in Command, NEW k
  PROVE  AskedIn(Append(cs, command), k) <=> AskedIn(cs, k) \/ command.by = k
<1> DEFINE ds == Append(cs, command)
<1>1. /\ DOMAIN ds = 1 .. Len(cs) + 1 /\ DOMAIN cs = 1 .. Len(cs) /\ Len(cs) \in Nat
      /\ \A i \in 1 .. Len(cs) : ds[i] = cs[i]
      /\ ds[Len(cs) + 1] = command
  OBVIOUS
<1> HIDE DEF ds
<1>2. ASSUME AskedIn(ds, k)
      PROVE  AskedIn(cs, k) \/ command.by = k
  <2>1. PICK i \in 1 .. Len(cs) + 1 : ds[i].by = k
    BY <1>1, <1>2 DEF AskedIn
  <2>2. CASE i = Len(cs) + 1
    BY <1>1, <2>1, <2>2
  <2>3. CASE i # Len(cs) + 1
    <3>1. i \in 1 .. Len(cs)
      BY <1>1, <2>3
    <3>2. QED
      BY <1>1, <2>1, <3>1 DEF AskedIn
  <2>4. QED
    BY <2>2, <2>3
<1>3. ASSUME AskedIn(cs, k)
      PROVE  AskedIn(ds, k)
  <2>1. PICK i \in 1 .. Len(cs) : cs[i].by = k
    BY <1>1, <1>3 DEF AskedIn
  <2>2. i \in DOMAIN ds /\ ds[i].by = k
    BY <1>1, <2>1
  <2>3. QED
    BY <2>2 DEF AskedIn
<1>4. ASSUME command.by = k
      PROVE  AskedIn(ds, k)
  <2>1. Len(cs) + 1 \in DOMAIN ds /\ ds[Len(cs) + 1].by = k
    BY <1>1, <1>4
  <2>2. QED
    BY <2>1 DEF AskedIn
<1>5. QED
  BY <1>2, <1>3, <1>4 DEF ds

LEMMA AskedAfterTail ==
  ASSUME NEW cs \in Seq(Command), cs # <<>>, AskedOnce(cs), NEW k
  PROVE  /\ AskedIn(Tail(cs), k) <=> AskedIn(cs, k) /\ Head(cs).by # k
         /\ AskedIn(cs, Head(cs).by)
         /\ AskedOnce(Tail(cs))
<1> DEFINE t == Tail(cs)
<1>1. /\ DOMAIN t = 1 .. Len(cs) - 1 /\ DOMAIN cs = 1 .. Len(cs) /\ Len(cs) \in Nat \ {0}
      /\ \A i \in 1 .. Len(cs) - 1 : t[i] = cs[i + 1]
      /\ Head(cs) = cs[1]
  OBVIOUS
<1> HIDE DEF t
<1>2. 1 \in DOMAIN cs /\ \A i \in DOMAIN t : i + 1 \in DOMAIN cs /\ i + 1 # 1 /\ i \in Nat
  BY <1>1
<1>3. ASSUME AskedIn(t, k)
      PROVE  AskedIn(cs, k) /\ Head(cs).by # k
  <2>1. PICK i \in DOMAIN t : t[i].by = k
    BY <1>3 DEF AskedIn
  <2>2. i + 1 \in DOMAIN cs /\ i + 1 # 1 /\ cs[i + 1].by = k
    BY <1>1, <1>2, <2>1
  <2>3. QED
    BY <1>1, <1>2, <2>2 DEF AskedIn, AskedOnce
<1>4. ASSUME AskedIn(cs, k), Head(cs).by # k
      PROVE  AskedIn(t, k)
  <2>1. PICK i \in DOMAIN cs : cs[i].by = k
    BY <1>4 DEF AskedIn
  <2>2. i # 1
    BY <1>1, <1>4, <2>1
  <2>3. i - 1 \in 1 .. Len(cs) - 1 /\ i - 1 + 1 = i
    BY <1>1, <2>2
  <2>4. i - 1 \in DOMAIN t /\ t[i - 1].by = k
    BY <1>1, <2>1, <2>3
  <2>5. QED
    BY <2>4 DEF AskedIn
<1>5. AskedIn(cs, Head(cs).by)
  BY <1>1, <1>2 DEF AskedIn
<1>6. AskedOnce(t)
  <2>1. ASSUME NEW i \in DOMAIN t, NEW j \in DOMAIN t, t[i].by = t[j].by
        PROVE  i = j
    <3>1. cs[i + 1].by = cs[j + 1].by
      BY <1>1, <2>1
    <3>2. i + 1 = j + 1
      BY <1>2, <3>1 DEF AskedOnce
    <3>3. QED
      BY <1>2, <3>2
  <2>2. QED
    BY <2>1 DEF AskedOnce
<1>7. QED
  BY <1>3, <1>4, <1>5, <1>6 DEF t

(* What an event asks of the layout. *)
LEMMA EventAsks ==
  ASSUME TypeOK, NEW k \in Places, NEW high \in BOOLEAN, Event(k, high)
  PROVE  \/ commands' = commands /\ (k \in ShiftKeys => (k \in down <=> high))
         \/ \E command \in Command :
              /\ commands' = Append(commands, command)
              /\ command.by = k
              /\ IF k \in ShiftKeys
                 THEN /\ command.op = IF high THEN "Shift" ELSE "UnShift"
                      /\ command.layer = TargetOf[k]
                      /\ ~(k \in down <=> high)
                 ELSE command.op \in {"Switch", "Up", "Down"}
<1> DEFINE was == k \in down
           f == FunctionOf(k)
<1>1. /\ commands' = commands \o Commands(k, f, was, high)
      /\ was \in BOOLEAN
  BY DEF Event
<1>2. /\ k \in ShiftKeys <=> f.kind = "Shift"
      /\ k \in ShiftKeys => f.layer = TargetOf[k]
      /\ f \in Function
  BY PlaceType
<1>3. commands \in Seq(Command)
  BY DEF TypeOK
<1> DEFINE Asks(command) ==
             /\ command.by = k
             /\ IF k \in ShiftKeys
                THEN /\ command.op = IF high THEN "Shift" ELSE "UnShift"
                     /\ command.layer = TargetOf[k]
                     /\ ~(was <=> high)
                ELSE command.op \in {"Switch", "Up", "Down"}
<1>4. ASSUME NEW command, Commands(k, f, was, high) = <<command>>, Asks(command)
      PROVE  \E c \in Command : commands' = Append(commands, c) /\ Asks(c)
  <2>1. <<command>> \in Seq(Command)
    BY <1>1, <1>2, <1>3, <1>4, CommandsType
  <2>2. command \in Command
    BY <2>1
  <2>3. commands' = commands \o <<command>>
    BY <1>1, <1>4
  <2>4. commands \o <<command>> = Append(commands, command)
    BY <1>3, <2>2
  <2>5. QED
    BY <1>4, <2>2, <2>3, <2>4
<1>5. ASSUME Commands(k, f, was, high) = <<>>
      PROVE  commands' = commands
  BY <1>1, <1>3, <1>5
<1>6. CASE f.kind = "Shift" /\ high /\ ~was
  <2>1. Commands(k, f, was, high) = <<[op |-> "Shift", layer |-> f.layer, by |-> k]>>
    BY <1>6 DEF Commands
  <2>2. Asks([op |-> "Shift", layer |-> f.layer, by |-> k])
    BY <1>2, <1>6
  <2>3. QED
    BY <1>4, <2>1, <2>2
<1>7. CASE f.kind = "Shift" /\ ~high /\ was
  <2>1. Commands(k, f, was, high) = <<[op |-> "UnShift", layer |-> f.layer, by |-> k]>>
    BY <1>7 DEF Commands
  <2>2. Asks([op |-> "UnShift", layer |-> f.layer, by |-> k])
    BY <1>2, <1>7
  <2>3. QED
    BY <1>4, <2>1, <2>2
<1>8. CASE f.kind = "Shift" /\ (was <=> high)
  <2>1. Commands(k, f, was, high) = <<>>
    BY <1>8 DEF Commands
  <2>2. QED
    BY <1>5, <1>8, <2>1
<1>9. CASE f.kind = "Switch" /\ high
  <2>1. Commands(k, f, was, high) = <<[op |-> "Switch", layer |-> f.layer, by |-> k]>>
    BY <1>9 DEF Commands
  <2>2. Asks([op |-> "Switch", layer |-> f.layer, by |-> k])
    BY <1>2, <1>9
  <2>3. QED
    BY <1>4, <2>1, <2>2
<1>10. CASE f.kind \in {"Up", "Down"}
  <2>1. Commands(k, f, was, high) = <<[op |-> f.kind, by |-> k]>>
    BY <1>10 DEF Commands
  <2>2. Asks([op |-> f.kind, by |-> k])
    BY <1>2, <1>10
  <2>3. QED
    BY <1>4, <2>1, <2>2
<1>11. CASE f.kind \notin {"Shift", "Up", "Down"} /\ ~(f.kind = "Switch" /\ high)
  <2>1. Commands(k, f, was, high) = <<>>
    BY <1>11 DEF Commands
  <2>2. QED
    BY <1>2, <1>5, <1>11, <2>1
<1>12. QED
  BY <1>1, <1>6, <1>7, <1>8, <1>9, <1>10, <1>11

(* ShiftKeys, TargetOf and what is said of commands are of constants only. *)
LEMMA FileStays ==
  /\ ShiftKeys' = ShiftKeys
  /\ TargetOf' = TargetOf
BY DEF ShiftKeys, TargetOf, Places, FunctionOf

LEMMA CommandsPrimed ==
  ASSUME pc' \in {"tick", "poll"} => commands' = <<>>,
         pc' = "scan" => FromScanned(commands', at'),
         AskedOnce(commands'),
         \A i \in DOMAIN commands' : Fits(commands'[i], down')
  PROVE  CommandsInv'
BY FileStays DEF CommandsInv, FromScanned, AskedOnce, Fits

LEMMA SettledPrimed ==
  ASSUME NEW S, \A k \in ShiftKeys : k \in S <=> ~(k \in down' <=> AskedIn(commands', k)),
         S \subseteq ShiftKeys
  PROVE  SettledHeld' = S
<1>1. SettledHeld' = {k \in ShiftKeys : ~(k \in down' <=> AskedIn(commands', k))}
  BY FileStays DEF SettledHeld, Asked, AskedIn
<1>2. QED
  BY <1>1

LEMMA SettledIs == \A k \in ShiftKeys : k \in SettledHeld <=> ~(k \in down <=> AskedIn(commands, k))
BY DEF SettledHeld, Asked, AskedIn

(* Poll's scan adds a command of a place that has asked for none, and      *)
(* leaves the Shift functions whose command is evaluated as they are.      *)
LEMMA ScanAsks ==
  ASSUME LayersInv, CommandsInv, ScanCell
  PROVE  /\ CommandsInv'
         /\ SettledHeld' = SettledHeld
<1>1. TypeOK /\ StackLength /\ pc = "scan" /\ commands \in Seq(Command)
  BY DEF LayersInv, ScanCell, TypeOK
<1>2. /\ at \in 1 .. Len(Bindings)
      /\ pc' \in {"scan", "eval", "panicked"}
      /\ pc' = "scan" => at' = at + 1
  <2>1. at \in 1 .. Len(Bindings)
    BY <1>1, ScanEffect
  <2>2. /\ pc' = CASE Panics(Bindings[at].cell) -> "panicked"
                   [] ~Panics(Bindings[at].cell) /\ at = Len(Bindings) -> "eval"
                   [] OTHER -> pc
        /\ at' = IF at = Len(Bindings) THEN 1 ELSE at + 1
    BY DEF ScanCell
  <2>3. pc' \in {"scan", "eval", "panicked"} /\ (pc' = "scan" => at # Len(Bindings))
    BY <1>1, <2>2
  <2>4. QED
    BY <2>1, <2>2, <2>3
<1>3. FromScanned(commands, at)
  BY <1>1 DEF CommandsInv
<1>4. AskedOnce(commands) /\ \A i \in DOMAIN commands : Fits(commands[i], down)
  BY DEF CommandsInv
<1>5. at \in Nat \ {0} /\ (pc' = "scan" => 1 .. at' - 1 = (1 .. at - 1) \cup {at})
  BY <1>2
<1>6. pc' = "scan" => FromScanned(commands, at')
  BY <1>3, <1>5 DEF FromScanned
<1>7. CASE UNCHANGED <<queue, commands, down>>
  <2>1. CommandsInv'
    BY <1>2, <1>4, <1>6, <1>7, CommandsPrimed
  <2>2. SettledHeld' = SettledHeld
    BY <1>7, FileStays DEF SettledHeld, Asked
  <2>3. QED
    BY <2>1, <2>2
<1>8. ASSUME NEW k \in Places, NEW high \in BOOLEAN, k[2] = Bindings[at].cell, Event(k, high)
      PROVE  CommandsInv' /\ SettledHeld' = SettledHeld
  <2>1. ~AskedIn(commands, k)
    <3>1. SUFFICES ASSUME NEW i \in DOMAIN commands, commands[i].by = k
                   PROVE  FALSE
      BY DEF AskedIn
    <3>2. PICK n \in 1 .. at - 1 : Bindings[at].cell = Bindings[n].cell
      BY <1>3, <1>8, <3>1 DEF FromScanned
    <3>3. n \in DOMAIN Bindings /\ at \in DOMAIN Bindings /\ n # at
      BY <1>2, BindingsDomain
    <3>4. QED
      BY <3>2, <3>3, BindingsAssumption
  <2>2. /\ k \in ShiftKeys => (k \in down' <=> high)
        /\ \A j : j # k => (j \in down' <=> j \in down)
    BY <1>1, <1>8, EventDown
  <2>3. \A i \in DOMAIN commands : commands[i].by # k /\ Fits(commands[i], down')
    BY <1>4, <2>1, <2>2 DEF AskedIn, Fits
  <2>4. CASE commands' = commands /\ (k \in ShiftKeys => (k \in down <=> high))
    <3>1. CommandsInv'
      BY <1>2, <1>4, <1>6, <2>3, <2>4, CommandsPrimed
    <3>2. \A j \in ShiftKeys : j \in down' <=> j \in down
      BY <2>2, <2>4
    <3>3. SettledHeld' = SettledHeld
      BY <2>4, <3>2, SettledIs, SettledPrimed DEF SettledHeld
    <3>4. QED
      BY <3>1, <3>3
  <2>5. ASSUME NEW command \in Command, commands' = Append(commands, command), command.by = k,
               IF k \in ShiftKeys
               THEN /\ command.op = IF high THEN "Shift" ELSE "UnShift"
                    /\ command.layer = TargetOf[k]
                    /\ ~(k \in down <=> high)
               ELSE command.op \in {"Switch", "Up", "Down"}
        PROVE  CommandsInv' /\ SettledHeld' = SettledHeld
    <3>1. /\ DOMAIN commands' = 1 .. Len(commands) + 1
          /\ DOMAIN commands = 1 .. Len(commands) /\ Len(commands) \in Nat
          /\ \A i \in 1 .. Len(commands) : commands'[i] = commands[i]
          /\ commands'[Len(commands) + 1] = command
      BY <1>1, <2>5
    <3>2. \A i \in DOMAIN commands' :
            \/ i \in DOMAIN commands /\ commands'[i] = commands[i]
            \/ i = Len(commands) + 1 /\ commands'[i] = command
      BY <3>1
    <3>3. pc' = "scan" => FromScanned(commands', at')
      BY <1>5, <1>6, <1>8, <2>5, <3>2 DEF FromScanned
    <3>4. AskedOnce(commands')
      BY <1>4, <2>3, <2>5, <3>2 DEF AskedOnce
    <3>5. Fits(command, down')
      BY <2>2, <2>5 DEF Fits
    <3>6. \A i \in DOMAIN commands' : Fits(commands'[i], down')
      BY <2>3, <3>2, <3>5
    <3>7. CommandsInv'
      BY <1>2, <3>3, <3>4, <3>6, CommandsPrimed
    <3>8. \A j : AskedIn(commands', j) <=> AskedIn(commands, j) \/ j = k
      BY <1>1, <2>5, AskedAfterAppend
    <3>9. ASSUME NEW j \in ShiftKeys
          PROVE  j \in SettledHeld <=> ~(j \in down' <=> AskedIn(commands', j))
      <4>1. j \in SettledHeld <=> ~(j \in down <=> AskedIn(commands, j))
        BY SettledIs
      <4>2. CASE j = k
        BY <2>1, <2>2, <2>5, <3>8, <4>1, <4>2
      <4>3. CASE j # k
        BY <2>2, <3>8, <4>1, <4>3
      <4>4. QED
        BY <4>2, <4>3
    <3>10. SettledHeld' = SettledHeld
      BY <3>9, SettledPrimed DEF SettledHeld
    <3>11. QED
      BY <3>7, <3>10
  <2>6. QED
    BY <1>1, <1>8, <2>4, <2>5, EventAsks
<1>9. QED
  BY <1>1, <1>7, <1>8, ScanEffect

(* Evaluating a command makes or ends the shift of the function that asked *)
(* for it, and leaves the others as they are.                              *)
LEMMA EvalAsks ==
  ASSUME LayersInv, CommandsInv, EvalNext
  PROVE  /\ CommandsInv'
         /\ Head(commands) \in Command
         /\ Fits(Head(commands), down)
         /\ LET k == Head(commands).by
            IN  /\ k \in ShiftKeys /\ k \in down =>
                     k \notin SettledHeld /\ SettledHeld' = SettledHeld \cup {k}
                /\ k \in ShiftKeys /\ k \notin down =>
                     k \in SettledHeld /\ SettledHeld' = SettledHeld \ {k}
                /\ k \notin ShiftKeys => SettledHeld' = SettledHeld
<1> DEFINE k == Head(commands).by
<1>1. /\ commands \in Seq(Command) /\ commands # <<>>
      /\ commands' = Tail(commands)
      /\ down' = down /\ pc = "eval" /\ pc' = pc
  BY DEF EvalNext, LayersInv, TypeOK
<1>2. AskedOnce(commands) /\ \A i \in DOMAIN commands : Fits(commands[i], down)
  BY DEF CommandsInv
<1>3. /\ Head(commands) = commands[1] /\ 1 \in DOMAIN commands
      /\ \A i \in DOMAIN Tail(commands) : i + 1 \in DOMAIN commands /\ Tail(commands)[i] = commands[i + 1]
      /\ Head(commands) \in Command
  BY <1>1
<1>4. Fits(Head(commands), down)
  BY <1>2, <1>3
<1>5. \A i \in DOMAIN commands' : Fits(commands'[i], down')
  BY <1>1, <1>2, <1>3
<1>6. /\ AskedOnce(commands')
      /\ AskedIn(commands, k)
      /\ \A j : AskedIn(commands', j) <=> AskedIn(commands, j) /\ k # j
  BY <1>1, <1>2, AskedAfterTail
<1>7. CommandsInv'
  BY <1>1, <1>5, <1>6, CommandsPrimed
<1> HIDE DEF k
<1>8. CASE k \in ShiftKeys /\ k \in down
  <2>1. k \notin SettledHeld
    BY <1>6, <1>8, SettledIs
  <2>2. \A j \in ShiftKeys : j \in SettledHeld \cup {k} <=> ~(j \in down' <=> AskedIn(commands', j))
    BY <1>1, <1>6, <1>8, SettledIs
  <2>3. SettledHeld' = SettledHeld \cup {k}
    BY <1>8, <2>2, SettledPrimed DEF SettledHeld
  <2>4. QED
    BY <1>3, <1>4, <1>7, <1>8, <2>1, <2>3 DEF k
<1>9. CASE k \in ShiftKeys /\ k \notin down
  <2>1. k \in SettledHeld
    BY <1>6, <1>9, SettledIs
  <2>2. \A j \in ShiftKeys : j \in SettledHeld \ {k} <=> ~(j \in down' <=> AskedIn(commands', j))
    BY <1>1, <1>6, <1>9, SettledIs
  <2>3. SettledHeld' = SettledHeld \ {k}
    BY <2>2, SettledPrimed DEF SettledHeld
  <2>4. QED
    BY <1>3, <1>4, <1>7, <1>9, <2>1, <2>3 DEF k
<1>10. CASE k \notin ShiftKeys
  <2>1. \A j \in ShiftKeys : j \in SettledHeld <=> ~(j \in down' <=> AskedIn(commands', j))
    BY <1>1, <1>6, <1>10, SettledIs
  <2>2. SettledHeld' = SettledHeld
    BY <2>1, SettledPrimed DEF SettledHeld
  <2>3. QED
    BY <1>3, <1>4, <1>7, <1>10, <2>2 DEF k
<1>11. QED
  BY <1>8, <1>9, <1>10

-----------------------------------------------------------------------------
(* The server implements LayerStack. A step of the event loop or of the    *)
(* RPC is one of the layer stack's or leaves what it sees unchanged.       *)

LEMMA CoveredFinite ==
  ASSUME NEW S, IsFiniteSet(S), NEW T, NEW f \in [S -> T], \A t \in T : \E s \in S : f[s] = t
  PROVE  IsFiniteSet(T)
<1>1. f \in Surjection(S, T)
  BY DEF Surjection
<1>2. QED
  BY <1>1, FS_Surjection

LEMMA TargetsAre ==
  /\ IsFiniteSet(ShiftKeys)
  /\ \A k \in ShiftKeys : TargetOf[k] \in Nat
<1>1. IsFiniteSet(ShiftKeys)
  <2>1. IsFiniteSet(DOMAIN InitLayers) /\ IsFiniteSet(Cells) /\ IsFiniteSet(Numbers)
    <3>1. NumCells - 1 \in Int /\ MaxLayers - 1 \in Int /\ Len(InitLayers) \in Int
      BY StackIs, BoundsAssumption
    <3>2. QED
      BY <3>1, StackIs, FS_Interval DEF Cells, Numbers
  <2>2. IsFiniteSet({InitStack[i] : i \in DOMAIN InitLayers})
    <3>1. InitStack \in [DOMAIN InitLayers -> {InitStack[i] : i \in DOMAIN InitLayers}]
      BY DEF InitStack
    <3>2. QED
      BY <2>1, <3>1, CoveredFinite
  <2>3. IsFiniteSet([row : AddedLayers, no : Numbers])
    <3> DEFINE f == [p \in AddedLayers \X Numbers |-> [row |-> p[1], no |-> p[2]]]
    <3>1. IsFiniteSet(AddedLayers \X Numbers)
      BY <2>1, FS_Product, BoundsAssumption
    <3>2. f \in [AddedLayers \X Numbers -> [row : AddedLayers, no : Numbers]]
      OBVIOUS
    <3>3. ASSUME NEW r \in [row : AddedLayers, no : Numbers]
          PROVE  \E p \in AddedLayers \X Numbers : f[p] = r
      <4>1. <<r.row, r.no>> \in AddedLayers \X Numbers
        OBVIOUS
      <4>2. r = f[<<r.row, r.no>>]
        BY <4>1
      <4>3. QED
        BY <4>1, <4>2
    <3> HIDE DEF f
    <3> DEFINE S == AddedLayers \X Numbers
               T == [row : AddedLayers, no : Numbers]
    <3>4. IsFiniteSet(S) /\ f \in [S -> T] /\ \A t \in T : \E p \in S : f[p] = t
      BY <3>1, <3>2, <3>3
    <3> HIDE DEF S, T
    <3>5. IsFiniteSet(T)
      BY <3>4, CoveredFinite
    <3>6. QED
      BY <3>5 DEF T
  <2>4. IsFiniteSet(Layer)
    BY <2>2, <2>3, FS_Union DEF Layer
  <2>5. IsFiniteSet(Layer \X Cells)
    BY <2>1, <2>4, FS_Product
  <2>6. ShiftKeys \in SUBSET (Layer \X Cells)
    BY DEF ShiftKeys, Places
  <2>7. QED
    BY <2>5, <2>6, FS_Subset
<1>2. ASSUME NEW k \in ShiftKeys
      PROVE  TargetOf[k] \in Nat
  <2>1. k \in Places
    BY DEF ShiftKeys
  <2>2. FunctionOf(k) \in Function /\ FunctionOf(k).kind = "Shift" /\ TargetOf[k] = FunctionOf(k).layer
    BY <2>1, PlaceType
  <2>3. QED
    BY <2>2, FunctionAssumption
<1>3. QED
  BY <1>1, <1>2

ShiftsSettled ==
  /\ Matched(shift_from, SettledHeld, TargetOf)
  /\ Len(shift_from) = Cardinality(SettledHeld)

MapInv ==
  /\ LayersInv
  /\ CommandsInv
  /\ LS!TargetsExist => ShiftsSettled

LEMMA MapInit == Init => MapInv /\ LS!Init
<1> SUFFICES ASSUME Init PROVE MapInv /\ LS!Init
  OBVIOUS
<1>1. commands = <<>> /\ down = {} /\ shift_from = <<>>
  BY DEF Init
<1>2. CommandsInv
  BY <1>1 DEF CommandsInv, FromScanned, AskedOnce
<1>3. SettledHeld = {}
  BY <1>1 DEF SettledHeld, Asked
<1>4. \A index : EntriesTo(shift_from, index) = {} /\ KeysTo(SettledHeld, TargetOf, index) = {}
  BY <1>1, <1>3 DEF EntriesTo, KeysTo
<1>5. ShiftsSettled
  BY <1>1, <1>3, <1>4, FS_EmptySet DEF ShiftsSettled, Matched
<1>6. LS!Init
  BY <1>3 DEF LS!Init, Init
<1>7. QED
  BY <1>2, <1>5, <1>6, LayersInit DEF MapInv

(* What LayerStack sees. *)
SeenSame == UNCHANGED <<layers, cur_layer, shift_from>> /\ SettledHeld' = SettledHeld

LEMMA SeenSameStutters == SeenSame => UNCHANGED LS!vars
BY FileStays DEF SeenSame, LS!vars

LEMMA LayersSeen ==
  /\ LS!Lay = Lay
  /\ \A lay : LS!Becomes(lay) <=> Becomes(lay)
  /\ \A lay, index : /\ LS!HasLayer(lay, index) <=> HasLayer(lay, index)
                    /\ LS!SwitchLayer(lay, index) = SwitchLayer(lay, index)
                    /\ LS!ShiftTo(lay, index) = ShiftTo(lay, index)
                    /\ LS!UnshiftFrom(lay, index) = UnshiftFrom(lay, index)
                    /\ LS!RemoveLayer(lay, index) = RemoveLayer(lay, index)
                    /\ LS!AddLayer(lay, index) = AddLayer(lay, index)
  /\ \A lay : LS!UpLayer(lay) = UpLayer(lay) /\ LS!DownLayer(lay) = DownLayer(lay)
<1>1. LS!Lay = Lay /\ \A lay : LS!Becomes(lay) <=> Becomes(lay)
  BY DEF LS!Lay, Lay, LS!Becomes, Becomes
<1>2. \A S : LS!Max(S) = Max(S)
  BY DEF LS!Max, Max
<1>3. \A s, i : LS!RemoveAt(s, i) = RemoveAt(s, i)
  BY DEF LS!RemoveAt, RemoveAt
<1>4. \A lay, index : /\ LS!HasLayer(lay, index) <=> HasLayer(lay, index)
                     /\ LS!ShiftsTo(lay, index) = ShiftsTo(lay, index)
  BY DEF LS!HasLayer, HasLayer, LS!ShiftsTo, ShiftsTo
<1>5. \A lay, index : LS!SwitchLayer(lay, index) = SwitchLayer(lay, index)
  BY <1>4 DEF LS!SwitchLayer, SwitchLayer
<1>6. \A lay, index : LS!ShiftTo(lay, index) = ShiftTo(lay, index)
  BY <1>4 DEF LS!ShiftTo, ShiftTo
<1>7. \A lay, index : LS!UnshiftFrom(lay, index) = UnshiftFrom(lay, index)
  BY <1>2, <1>3, <1>4, <1>5 DEF LS!UnshiftFrom, UnshiftFrom
<1>8. \A lay, index : /\ LS!RemoveLayer(lay, index) = RemoveLayer(lay, index)
                     /\ LS!AddLayer(lay, index) = AddLayer(lay, index)
  BY <1>3, <1>4 DEF LS!RemoveLayer, RemoveLayer, LS!AddLayer, AddLayer
<1>9. \A lay : LS!UpLayer(lay) = UpLayer(lay)
  BY <1>4 DEF LS!UpLayer, UpLayer
<1>10. \A lay : LS!DownLayer(lay) = DownLayer(lay)
  BY <1>4 DEF LS!DownLayer, DownLayer, LS!WrappingDec, WrappingDec
<1>11. QED
  BY <1>1, <1>4, <1>5, <1>6, <1>7, <1>8, <1>9, <1>10

(* A command of a Shift function, as the layer stack sees it. *)
LEMMA PressStep ==
  ASSUME LS!TargetsExist, MapInv, NEW k \in ShiftKeys, k \notin SettledHeld,
         SettledHeld' = SettledHeld \cup {k}, Becomes(ShiftTo(Lay, TargetOf[k]))
  PROVE  LS!PressShift(k) /\ ShiftsSettled'
<1>1. /\ Lay \in LayoutState(Layer) /\ StackLength
      /\ Matched(shift_from, SettledHeld, TargetOf)
      /\ Len(shift_from) = Cardinality(SettledHeld)
      /\ Lay.shift_from = shift_from
  BY LayType DEF MapInv, LayersInv, ShiftsSettled, Lay
<1>2. HasLayer(Lay, TargetOf[k]) /\ TargetOf[k] \in Nat
  <2>1. TargetOf[k] < Len(InitLayers) /\ Len(InitLayers) <= Len(layers)
    BY <1>1, StackIs DEF LS!TargetsExist, StackLength
  <2>2. QED
    BY <1>1, <2>1, TargetsAre, StackIs DEF HasLayer, Lay, LayoutState
<1>3. /\ IsFiniteSet(SettledHeld) /\ Cardinality(SettledHeld) \in Nat
      /\ Cardinality(SettledHeld \cup {k}) = Cardinality(SettledHeld) + 1
  <2>1. SettledHeld \in SUBSET ShiftKeys
    BY DEF SettledHeld
  <2>2. IsFiniteSet(SettledHeld)
    BY <2>1, TargetsAre, FS_Subset
  <2>3. QED
    BY <2>2, FS_AddElement, FS_CardinalityType
<1>4. Cardinality(SettledHeld) < Cardinality(ShiftKeys)
  <2>1. SettledHeld \cup {k} \in SUBSET ShiftKeys
    BY DEF SettledHeld
  <2>2. Cardinality(SettledHeld \cup {k}) <= Cardinality(ShiftKeys)
    BY <2>1, TargetsAre, FS_Subset
  <2>3. Cardinality(ShiftKeys) \in Nat
    BY TargetsAre, FS_CardinalityType
  <2>4. QED
    BY <1>3, <2>2, <2>3
<1>5. Matched(ShiftTo(Lay, TargetOf[k]).shift_from, SettledHeld \cup {k}, TargetOf)
  BY <1>1, <1>2, <1>3, PressMatched
<1>6. /\ shift_from' = ShiftTo(Lay, TargetOf[k]).shift_from
      /\ Len(shift_from') = Len(shift_from) + 1
  <2>1. shift_from' = Append(shift_from, [start |-> cur_layer, curr |-> TargetOf[k]])
    BY <1>2 DEF Becomes, ShiftTo, Lay
  <2>2. shift_from \in Seq(ShiftRecord)
    BY <1>1 DEF LayoutState
  <2>3. Len(Append(shift_from, [start |-> cur_layer, curr |-> TargetOf[k]])) = Len(shift_from) + 1
    BY <2>2
  <2>4. QED
    BY <2>1, <2>3 DEF Becomes
<1>7. ShiftsSettled'
  <2>1. Matched(shift_from', SettledHeld', TargetOf')
    BY <1>5, <1>6, FileStays
  <2>2. Matched(shift_from, SettledHeld, TargetOf)'
    BY <2>1 DEF Matched, EntriesTo, KeysTo
  <2>3. QED
    BY <1>1, <1>3, <1>6, <2>2 DEF ShiftsSettled
<1>8. LS!PressShift(k)
  BY <1>1, <1>4, LayersSeen, FileStays DEF LS!PressShift
<1>9. QED
  BY <1>7, <1>8

LEMMA ReleaseStep ==
  ASSUME LS!TargetsExist, MapInv, NEW k \in ShiftKeys, k \in SettledHeld,
         SettledHeld' = SettledHeld \ {k}, Becomes(UnshiftFrom(Lay, TargetOf[k]))
  PROVE  LS!ReleaseShift(k) /\ ShiftsSettled'
<1>1. /\ Lay \in LayoutState(Layer) /\ StackLength
      /\ Matched(shift_from, SettledHeld, TargetOf)
      /\ Len(shift_from) = Cardinality(SettledHeld)
      /\ Lay.shift_from = shift_from
  BY LayType DEF MapInv, LayersInv, ShiftsSettled, Lay
<1>2. HasLayer(Lay, TargetOf[k]) /\ TargetOf[k] \in Nat
  <2>1. TargetOf[k] < Len(InitLayers) /\ Len(InitLayers) <= Len(layers)
    BY <1>1, StackIs DEF LS!TargetsExist, StackLength
  <2>2. QED
    BY <1>1, <2>1, TargetsAre, StackIs DEF HasLayer, Lay, LayoutState
<1>3. IsFiniteSet(SettledHeld) /\ Cardinality(SettledHeld \ {k}) = Cardinality(SettledHeld) - 1
  <2>1. SettledHeld \in SUBSET ShiftKeys
    BY DEF SettledHeld
  <2>2. IsFiniteSet(SettledHeld)
    BY <2>1, TargetsAre, FS_Subset
  <2>3. QED
    BY <2>2, FS_RemoveElement
<1>4. /\ Matched(UnshiftFrom(Lay, TargetOf[k]).shift_from, SettledHeld \ {k}, TargetOf)
      /\ Len(UnshiftFrom(Lay, TargetOf[k]).shift_from) = Len(shift_from) - 1
  BY <1>1, <1>2, <1>3, ReleaseMatched, ReleaseCloses
<1>5. shift_from' = UnshiftFrom(Lay, TargetOf[k]).shift_from
  BY DEF Becomes
<1>6. ShiftsSettled'
  <2>1. Matched(shift_from', SettledHeld', TargetOf')
    BY <1>4, <1>5, FileStays
  <2>2. Matched(shift_from, SettledHeld, TargetOf)'
    BY <2>1 DEF Matched, EntriesTo, KeysTo
  <2>3. QED
    BY <1>1, <1>3, <1>4, <1>5, <2>2 DEF ShiftsSettled
<1>7. LS!ReleaseShift(k)
  BY LayersSeen, FileStays DEF LS!ReleaseShift
<1>8. QED
  BY <1>6, <1>7

(* An index beyond the stack selects nothing. *)
LEMMA SelectStep ==
  ASSUME LayersInv, NEW index \in Nat, Becomes(SwitchLayer(Lay, index)), SettledHeld' = SettledHeld
  PROVE  LS!CarefulNext \/ SeenSame
<1>1. CASE index \in LS!Indices
  <2>1. LS!SelectLayer(index)
    BY LayersSeen, FileStays DEF LS!SelectLayer
  <2>2. QED
    BY <1>1, <2>1 DEF LS!CarefulNext, LS!Operator, LS!RpcOrMove
<1>2. CASE index \notin LS!Indices
  <2>1. ~HasLayer(Lay, index)
    <3>1. Len(layers) <= MaxLayers /\ Len(layers) \in Nat
      BY DEF LayersInv, StackLength, TypeOK
    <3>2. index > MaxLayers
      BY <1>2, BoundsAssumption DEF LS!Indices
    <3>3. QED
      BY <3>1, <3>2, BoundsAssumption DEF HasLayer, Lay
  <2>2. QED
    BY <2>1 DEF SwitchLayer, Becomes, Lay, SeenSame
<1>3. QED
  BY <1>1, <1>2

LEMMA MoveStep ==
  ASSUME SettledHeld' = SettledHeld,
         Becomes(UpLayer(Lay)) \/ Becomes(DownLayer(Lay))
  PROVE  LS!CarefulNext
<1>1. LS!MoveUp \/ LS!MoveDown
  BY LayersSeen, FileStays DEF LS!MoveUp, LS!MoveDown
<1>2. QED
  BY <1>1 DEF LS!CarefulNext, LS!Operator, LS!RpcOrMove

(* A layer that a careful operator removes is above every target. *)
LEMMA RemoveStep ==
  ASSUME LS!TargetsExist, LayersInv, NEW index \in Indices, Unused(index), RpcRemove(index),
         SettledHeld' = SettledHeld
  PROVE  LS!CarefulNext
<1>1. index \in Nat /\ index < Len(layers) /\ index >= Len(InitLayers) /\ Len(layers) \in Nat
  BY CarefulRemove DEF Unused, LayersInv, TypeOK
<1>2. \A k \in ShiftKeys : TargetOf[k] < Len(layers) - 1
  BY <1>1, TargetsAre, StackIs DEF LS!TargetsExist
<1>3. LS!Unused(index)
  BY <1>2 DEF LS!Unused, Unused
<1>4. LS!DropLayer(index)
  BY LayersSeen, FileStays DEF LS!DropLayer, RpcRemove
<1>5. QED
  BY <1>3, <1>4 DEF LS!CarefulNext, LS!Operator, LS!CarefulDrop, LS!Indices, Indices

(* What an evaluated command is to the layer stack. *)
LEMMA EvalStep ==
  ASSUME LS!TargetsExist, MapInv, EvalNext
  PROVE  ShiftsSettled' /\ (LS!CarefulNext \/ SeenSame)
<1> DEFINE command == Head(commands)
           k == command.by
<1>1. /\ LayersInv /\ ShiftsSettled
      /\ command \in Command /\ Fits(command, down)
      /\ Becomes(EvalCommand(Lay, command))
  BY EvalAsks DEF MapInv, EvalNext
<1>2. /\ k \in ShiftKeys /\ k \in down => k \notin SettledHeld /\ SettledHeld' = SettledHeld \cup {k}
      /\ k \in ShiftKeys /\ k \notin down => k \in SettledHeld /\ SettledHeld' = SettledHeld \ {k}
      /\ k \notin ShiftKeys => SettledHeld' = SettledHeld
  BY EvalAsks DEF MapInv
<1>3. command.op = "Switch" => command.layer \in Nat
  BY <1>1 DEF Command
<1> HIDE DEF k, command
<1>4. CASE k \in ShiftKeys /\ k \in down
  <2>1. EvalCommand(Lay, command) = ShiftTo(Lay, TargetOf[k])
    BY <1>1, <1>4 DEF Fits, EvalCommand, k
  <2>2. LS!PressShift(k) /\ ShiftsSettled'
    BY <1>1, <1>2, <1>4, <2>1, PressStep
  <2>3. QED
    BY <1>4, <2>2 DEF LS!CarefulNext, LS!Shifting
<1>5. CASE k \in ShiftKeys /\ k \notin down
  <2>1. EvalCommand(Lay, command) = UnshiftFrom(Lay, TargetOf[k])
    BY <1>1, <1>5 DEF Fits, EvalCommand, k
  <2>2. LS!ReleaseShift(k) /\ ShiftsSettled'
    BY <1>1, <1>2, <1>5, <2>1, ReleaseStep
  <2>3. QED
    BY <1>5, <2>2 DEF LS!CarefulNext, LS!Shifting
<1>6. CASE k \notin ShiftKeys
  <2>1. command.op \in {"Switch", "Up", "Down"} /\ SettledHeld' = SettledHeld
    BY <1>1, <1>2, <1>6 DEF Fits, k
  <2>2. \/ command.op = "Switch" /\ Becomes(SwitchLayer(Lay, command.layer))
        \/ Becomes(UpLayer(Lay)) \/ Becomes(DownLayer(Lay))
    BY <1>1, <2>1 DEF EvalCommand
  <2>3. shift_from' = shift_from
    BY <2>2 DEF Becomes, SwitchLayer, UpLayer, DownLayer, Lay
  <2>4. ShiftsSettled'
    BY <1>1, <2>1, <2>3, FileStays DEF ShiftsSettled, Matched, EntriesTo, KeysTo
  <2>5. LS!CarefulNext \/ SeenSame
    BY <1>1, <1>3, <2>1, <2>2, SelectStep, MoveStep
  <2>6. QED
    BY <2>4, <2>5
<1>7. QED
  BY <1>4, <1>5, <1>6

LEMMA MapStep ==
  ASSUME LS!TargetsExist
  PROVE  MapInv /\ [CarefulNext]_vars => MapInv' /\ [LS!CarefulNext]_(LS!vars)
<1> SUFFICES ASSUME MapInv, [CarefulNext]_vars
             PROVE  CommandsInv' /\ ShiftsSettled' /\ (LS!CarefulNext \/ SeenSame)
  BY LayersStep, SeenSameStutters DEF MapInv
<1> DEFINE Goal == CommandsInv' /\ ShiftsSettled' /\ (LS!CarefulNext \/ SeenSame)
<1> SUFFICES Goal
  OBVIOUS
<1> HIDE DEF Goal
<1> USE DEF layoutVars, loopVars, hidVars
<1>1. LayersInv /\ CommandsInv /\ ShiftsSettled
  BY DEF MapInv
<1>2. ASSUME CommandsInv', SettledHeld' = SettledHeld, shift_from' = shift_from,
             LS!CarefulNext \/ SeenSame
      PROVE  Goal
  BY <1>1, <1>2, FileStays DEF Goal, ShiftsSettled, Matched, EntriesTo, KeysTo
<1>3. ASSUME UNCHANGED <<commands, down>>,
             \/ UNCHANGED <<pc, at>>
             \/ commands = <<>>
      PROVE  CommandsInv' /\ SettledHeld' = SettledHeld
  <2>1. SettledHeld' = SettledHeld
    BY <1>3, FileStays DEF SettledHeld, Asked
  <2>2. pc' \in {"tick", "poll"} => commands' = <<>>
    BY <1>1, <1>3 DEF CommandsInv
  <2>3. pc' = "scan" => FromScanned(commands', at')
    BY <1>1, <1>3 DEF CommandsInv, FromScanned
  <2>4. CommandsInv'
    BY <1>1, <1>3, <2>2, <2>3, CommandsPrimed DEF CommandsInv
  <2>5. QED
    BY <2>1, <2>4
<1>4. ASSUME UNCHANGED <<commands, down, layers, cur_layer, shift_from>>,
             \/ UNCHANGED <<pc, at>>
             \/ commands = <<>>
      PROVE  Goal
  BY <1>2, <1>3, <1>4 DEF SeenSame
<1>5. pc \in {"tick", "poll"} => commands = <<>>
  BY <1>1 DEF CommandsInv
<1>6. CASE Tick \/ TickFails \/ StartPoll \/ EndPoll
  BY <1>4, <1>5, <1>6 DEF Tick, TickFails, StartPoll, EndPoll
<1>7. CASE ScanCell
  BY <1>1, <1>2, <1>7, ScanAsks DEF ScanCell, SeenSame
<1>8. CASE EvalNext
  BY <1>1, <1>8, EvalAsks, EvalStep DEF Goal
<1>9. CASE (\E i \in Input : Actuate(i)) \/ HidThread
  BY <1>4, <1>9 DEF Actuate, HidThread, Deliver, ReportFails
<1>10. ASSUME NEW index \in Indices, RpcSwitch(index)
       PROVE  Goal
  <2>1. CommandsInv' /\ SettledHeld' = SettledHeld
    BY <1>3, <1>10 DEF RpcSwitch
  <2>2. index \in Nat /\ Becomes(SwitchLayer(Lay, index))
    BY <1>10, BoundsAssumption DEF RpcSwitch, Indices
  <2>3. shift_from' = shift_from
    BY <2>2 DEF Becomes, SwitchLayer, Lay
  <2>4. QED
    BY <1>1, <1>2, <2>1, <2>2, <2>3, SelectStep
<1>11. CASE RpcUp \/ RpcDown
  <2>1. CommandsInv' /\ SettledHeld' = SettledHeld
    BY <1>3, <1>11 DEF RpcUp, RpcDown
  <2>2. Becomes(UpLayer(Lay)) \/ Becomes(DownLayer(Lay))
    BY <1>11 DEF RpcUp, RpcDown
  <2>3. shift_from' = shift_from
    BY <2>2 DEF Becomes, UpLayer, DownLayer, Lay
  <2>4. QED
    BY <1>2, <2>1, <2>2, <2>3, MoveStep
<1>12. ASSUME NEW row \in AddedLayers, NEW no \in Numbers, RpcAdd(row, no)
       PROVE  Goal
  <2> DEFINE layer == [row |-> row, no |-> no]
  <2>1. CommandsInv' /\ SettledHeld' = SettledHeld
    BY <1>3, <1>12 DEF RpcAdd
  <2>2. Len(layers) < MaxLayers /\ Becomes(AddLayer(Lay, layer)) /\ layer \in Layer
    BY <1>12 DEF RpcAdd, Layer
  <2> HIDE DEF layer
  <2>3. shift_from' = shift_from
    BY <2>2 DEF Becomes, AddLayer, Lay
  <2>4. LS!AppendLayer(layer)
    BY <2>1, <2>2, LayersSeen, FileStays DEF LS!AppendLayer
  <2>5. LS!CarefulNext
    BY <2>2, <2>4 DEF LS!CarefulNext, LS!Operator, LS!RpcOrMove
  <2>6. QED
    BY <1>2, <2>1, <2>3, <2>5
<1>13. ASSUME NEW index \in Indices, Unused(index), RpcRemove(index)
       PROVE  Goal
  <2>1. UNCHANGED <<shift_from, down>>
    BY <1>1, <1>13, CarefulRemove
  <2>2. CommandsInv' /\ SettledHeld' = SettledHeld
    BY <1>3, <1>13, <2>1 DEF RpcRemove
  <2>3. LS!CarefulNext
    BY <1>1, <1>13, <2>2, RemoveStep
  <2>4. QED
    BY <1>2, <2>1, <2>2, <2>3
<1>14. CASE UNCHANGED vars
  BY <1>4, <1>14 DEF vars
<1>15. QED
  BY <1>6, <1>7, <1>8, <1>9, <1>10, <1>11, <1>12, <1>13, <1>14 DEF CarefulNext, Loop, Others

(* The event loop, with a poll's scan of the functions and the evaluation  *)
(* of what they ask for as separate steps that the RPC cannot come between *)
(* and that the drivers' failures can hold up, does to the layers what     *)
(* LayerStack specifies: the Shift functions, those of the RPC's layers    *)
(* among them, see both edges of their keys. Every Shift function's layer  *)
(* is taken to be one of layout.json.                                      *)
THEOREM LayersImplemented == LS!TargetsExist => (CarefulSpec => LayersImplement)
<1> SUFFICES ASSUME LS!TargetsExist PROVE CarefulSpec => LS!CarefulSpec
  BY DEF LayersImplement
<1>1. QED
  BY MapInit, MapStep, PTL DEF CarefulSpec, LS!CarefulSpec

-----------------------------------------------------------------------------
(***************************************************************************)
(* Module Processes: what becomes of the commands that the screen and the  *)
(* command pool start, for any commands, workers and pipes.                *)
(***************************************************************************)

ChildType ==
  [keeper : {"term", "script", "pool"}, left : Seq(Lines),
   written : [Stream -> Seq(Quality)], taken : [Stream -> Nat],
   state : {"running", "ended", "reaped"}]

TaskState == {"none", "queued", "out", "err", "waiting", "ended"}

Counts == \A c \in DOMAIN child, s \in Stream : child[c].taken[s] <= Len(child[c].written[s])

ProcInv ==
  /\ ProcTypeOK
  /\ Len(child) <= MaxRun
  /\ Counts
  /\ phase = "starting" => process # None

LEMMA ProcTypes ==
  ASSUME ProcInv
  PROVE  /\ child \in Seq(ChildType) /\ task \in Seq(TaskState)
         /\ Len(child) \in Nat /\ DOMAIN child = 1 .. Len(child) /\ DOMAIN task = DOMAIN child
         /\ Len(task) = Len(child)
         /\ process \in {None} \cup DOMAIN child
         /\ process_out \in {None} \cup DOMAIN child
         /\ aborted \subseteq DOMAIN child /\ behind \subseteq DOMAIN child
         /\ stdout \in Seq(ReadLines)
         /\ None \notin DOMAIN child
<1>1. child \in Seq(ChildType) /\ task \in Seq(TaskState) /\ DOMAIN task = DOMAIN child
  BY DEF ProcInv, ProcTypeOK, ChildType, TaskState
<1>2. Len(child) \in Nat /\ DOMAIN child = 1 .. Len(child) /\ Len(task) = Len(child)
  BY <1>1
<1>3. None \notin DOMAIN child
  BY <1>2 DEF None
<1>4. QED
  BY <1>1, <1>2, <1>3 DEF ProcInv, ProcTypeOK

LEMMA FunctionIsSeq ==
  ASSUME NEW S, NEW n \in Nat, NEW f \in [1 .. n -> S]
  PROVE  f \in Seq(S)
OBVIOUS

(* What a change of one process is in the sequence of them. *)
LEMMA ReplaceOne ==
  ASSUME NEW S, NEW q \in Seq(S), NEW c \in DOMAIN q, NEW e \in S
  PROVE  /\ [q EXCEPT ![c] = e] \in Seq(S)
         /\ Len([q EXCEPT ![c] = e]) = Len(q)
         /\ DOMAIN [q EXCEPT ![c] = e] = DOMAIN q
         /\ [q EXCEPT ![c] = e][c] = e
         /\ \A d \in DOMAIN q : d # c => [q EXCEPT ![c] = e][d] = q[d]
OBVIOUS

LEMMA AppendOne ==
  ASSUME NEW S, NEW q \in Seq(S), NEW e \in S
  PROVE  /\ Append(q, e) \in Seq(S) /\ Len(Append(q, e)) = Len(q) + 1
         /\ DOMAIN Append(q, e) = DOMAIN q \cup {Len(q) + 1}
         /\ Len(q) + 1 \notin DOMAIN q
         /\ Append(q, e)[Len(q) + 1] = e
         /\ \A d \in DOMAIN q : Append(q, e)[d] = q[d]
OBVIOUS

(* The processes are the same but for their states, and none is started.   *)
Kept ==
  /\ child' \in Seq(ChildType) /\ Len(child') = Len(child) /\ DOMAIN child' = DOMAIN child
  /\ \A c \in DOMAIN child :
       /\ child'[c].keeper = child[c].keeper
       /\ child'[c].written = child[c].written
       /\ child'[c].taken = child[c].taken
       /\ child'[c].state = "running" => child[c].state = "running"

LEMMA UnchangedKept ==
  ASSUME ProcInv, child' = child
  PROVE  Kept
BY ProcTypes DEF Kept

LEMMA StateEffect ==
  ASSUME ProcInv, NEW c \in DOMAIN child, NEW v \in {"ended", "reaped"},
         child' = [child EXCEPT ![c].state = v]
  PROVE  Kept /\ child'[c].state = v /\ \A d \in DOMAIN child : d # c => child'[d] = child[d]
<1>1. child \in Seq(ChildType)
  BY ProcTypes
<1>2. PICK k \in ChildType : k = child[c]
  BY <1>1
<1> DEFINE e == [k EXCEPT !.state = v]
<1>3. /\ e \in ChildType /\ e.state = v /\ e.keeper = k.keeper
      /\ e.written = k.written /\ e.taken = k.taken
  BY DEF ChildType
<1>4. child' = [child EXCEPT ![c] = e]
  BY <1>2
<1> HIDE DEF e
<1>5. /\ child' \in Seq(ChildType) /\ Len(child') = Len(child) /\ DOMAIN child' = DOMAIN child
      /\ child'[c] = e /\ \A d \in DOMAIN child : d # c => child'[d] = child[d]
  BY <1>1, <1>3, <1>4, ReplaceOne
<1>6. QED
  BY <1>2, <1>3, <1>5 DEF Kept

LEMMA KilledEffect ==
  ASSUME ProcInv, NEW c \in {None} \cup DOMAIN child, child' = Killed(c)
  PROVE  /\ Kept
         /\ c \in DOMAIN child => child'[c].state # "running"
         /\ \A d \in DOMAIN child : d # c => child'[d] = child[d]
<1>1. CASE c # None /\ child[c].state = "running"
  BY <1>1, StateEffect DEF Killed
<1>2. CASE ~ (c # None /\ child[c].state = "running")
  <2>1. child' = child
    BY <1>2 DEF Killed
  <2>2. Kept
    BY <2>1, UnchangedKept
  <2>3. c \in DOMAIN child => child[c].state # "running"
    BY <1>2, ProcTypes
  <2>4. QED
    BY <2>1, <2>2, <2>3
<1>3. QED
  BY <1>1, <1>2

LEMMA SpawnEffect ==
  ASSUME ProcInv,
         NEW keeper \in {"term", "script", "pool"}, NEW prog \in Seq(Lines),
         Spawned(keeper, prog)
  PROVE  /\ child' \in Seq(ChildType) /\ Len(child') = Len(child) + 1 /\ Len(child') <= MaxRun
         /\ DOMAIN child' = DOMAIN child \cup {Len(child) + 1}
         /\ Len(child) + 1 \notin DOMAIN child
         /\ \A c \in DOMAIN child : child'[c] = child[c]
         /\ child'[Len(child) + 1].keeper = keeper
         /\ \A s \in Stream :
              child'[Len(child) + 1].taken[s] = 0 /\ child'[Len(child) + 1].written[s] = <<>>
         /\ task' \in Seq(TaskState) /\ DOMAIN task' = DOMAIN child'
         /\ \A c \in DOMAIN child : task'[c] = task[c]
         /\ task'[Len(child) + 1] \in {"none", "queued"}
<1> DEFINE e == [keeper |-> keeper, left |-> prog,
                 written |-> [s \in Stream |-> <<>>],
                 taken |-> [s \in Stream |-> 0], state |-> "running"]
<1>1. e \in ChildType
  BY DEF ChildType
<1>2. /\ e.keeper = keeper
      /\ \A s \in Stream : e.taken[s] = 0 /\ e.written[s] = <<>>
  OBVIOUS
<1>3. PICK t \in {"none", "queued"} : task' = Append(task, t)
  BY DEF Spawned
<1>4. child' = Append(child, e) /\ Len(child) < MaxRun
  BY DEF Spawned
<1>5. child \in Seq(ChildType) /\ task \in Seq(TaskState) /\ Len(task) = Len(child) /\ DOMAIN task = DOMAIN child
      /\ Len(child) \in Nat
  BY ProcTypes
<1>6. t \in TaskState
  BY DEF TaskState
<1> HIDE DEF e
<1>7. /\ child' \in Seq(ChildType) /\ Len(child') = Len(child) + 1
      /\ DOMAIN child' = DOMAIN child \cup {Len(child) + 1}
      /\ Len(child) + 1 \notin DOMAIN child
      /\ child'[Len(child) + 1] = e
      /\ \A c \in DOMAIN child : child'[c] = child[c]
  BY <1>1, <1>4, <1>5, AppendOne
<1>8. /\ task' \in Seq(TaskState)
      /\ DOMAIN task' = DOMAIN task \cup {Len(task) + 1}
      /\ task'[Len(task) + 1] = t
      /\ \A c \in DOMAIN task : task'[c] = task[c]
  BY <1>3, <1>5, <1>6, AppendOne
<1>9. Len(child') <= MaxRun
  BY <1>4, <1>5, <1>7, SizesAssumption
<1>10. QED
  BY <1>2, <1>5, <1>7, <1>8, <1>9

(* A command may have written more, and others may have been started.      *)
Grown ==
  /\ child' \in Seq(ChildType) /\ Len(child') <= MaxRun
  /\ DOMAIN child \subseteq DOMAIN child'
  /\ Counts'
  /\ \A c \in DOMAIN child :
       /\ child'[c].keeper = child[c].keeper
       /\ child'[c].state = "running" => child[c].state = "running"
       /\ \A s \in Stream :
            /\ Len(child[c].written[s]) <= Len(child'[c].written[s])
            /\ \A n \in 1 .. Len(child[c].written[s]) :
                 child'[c].written[s][n] = child[c].written[s][n]

(* What was taken stays so. *)
TakenKept == \A c \in DOMAIN child : child'[c].taken = child[c].taken

LEMMA ChildFields ==
  ASSUME ProcInv, NEW c \in DOMAIN child, NEW s \in Stream
  PROVE  /\ child[c] \in ChildType
         /\ child[c].written[s] \in Seq(Quality) /\ Len(child[c].written[s]) \in Nat
         /\ child[c].taken[s] \in Nat
         /\ child[c].left \in Seq(Lines)
<1>1. PICK k \in ChildType : k = child[c]
  BY ProcTypes
<1>2. k.written[s] \in Seq(Quality) /\ k.taken[s] \in Nat /\ k.left \in Seq(Lines)
  BY DEF ChildType
<1>3. QED
  BY <1>1, <1>2

LEMMA KeptGrown ==
  ASSUME ProcInv, Kept
  PROVE  Grown /\ TakenKept
<1>1. Len(child') <= MaxRun
  BY DEF Kept, ProcInv
<1>2. Counts'
  BY DEF Kept, ProcInv, Counts
<1>3. ASSUME NEW c \in DOMAIN child, NEW s \in Stream
      PROVE  Len(child[c].written[s]) <= Len(child'[c].written[s])
  BY ChildFields DEF Kept
<1>4. QED
  BY <1>1, <1>2, <1>3 DEF Kept, Grown, TakenKept

LEMMA SpawnGrown ==
  ASSUME ProcInv,
         NEW keeper \in {"term", "script", "pool"}, NEW prog \in Seq(Lines),
         Spawned(keeper, prog)
  PROVE  Grown /\ TakenKept
<1>1. /\ child' \in Seq(ChildType) /\ Len(child') <= MaxRun
      /\ DOMAIN child' = DOMAIN child \cup {Len(child) + 1}
      /\ \A c \in DOMAIN child : child'[c] = child[c]
      /\ \A s \in Stream :
           child'[Len(child) + 1].taken[s] = 0 /\ child'[Len(child) + 1].written[s] = <<>>
  BY SpawnEffect
<1>2. Counts'
  BY <1>1 DEF ProcInv, Counts
<1>3. ASSUME NEW c \in DOMAIN child, NEW s \in Stream
      PROVE  Len(child[c].written[s]) <= Len(child'[c].written[s])
  BY <1>1, ChildFields
<1>4. QED
  BY <1>1, <1>2, <1>3 DEF Grown, TakenKept

LEMMA WriteEffect ==
  ASSUME ProcInv, NEW c \in DOMAIN child, Write(c)
  PROVE  Grown /\ TakenKept /\ DOMAIN child' = DOMAIN child
<1>1. PICK k \in ChildType : k = child[c]
  BY ProcTypes
<1>2. k.left \in Seq(Lines) /\ k.left # <<>> /\ k.written \in [Stream -> Seq(Quality)]
  BY <1>1 DEF ChildType, Write, HasMore
<1>3. PICK l \in Lines : l = Head(k.left)
  BY <1>2
<1>4. l.stream \in Stream /\ l.quality \in Quality
  BY DEF Lines
<1> DEFINE w == [k.written EXCEPT ![l.stream] = Append(@, l.quality)]
           e == [k EXCEPT !.left = Tail(k.left), !.written = w]
<1>5. w \in [Stream -> Seq(Quality)]
  BY <1>2, <1>4
<1>6. \A s \in Stream :
        /\ Len(k.written[s]) \in Nat
        /\ Len(k.written[s]) <= Len(w[s])
        /\ \A n \in 1 .. Len(k.written[s]) : w[s][n] = k.written[s][n]
  BY <1>2, <1>4
<1>7. child' = [child EXCEPT ![c] = e]
  BY <1>1, <1>3 DEF Write, NextStream
<1> HIDE DEF w
<1>8. /\ e \in ChildType /\ e.keeper = k.keeper /\ e.taken = k.taken
      /\ e.state = k.state /\ e.written = w
  <2>1. Tail(k.left) \in Seq(Lines)
    BY <1>2
  <2>2. QED
    BY <2>1, <1>5 DEF ChildType
<1> HIDE DEF e
<1>9. child \in Seq(ChildType)
  BY ProcTypes
<1>10. /\ child' \in Seq(ChildType) /\ Len(child') = Len(child) /\ DOMAIN child' = DOMAIN child
       /\ child'[c] = e /\ \A d \in DOMAIN child : d # c => child'[d] = child[d]
  BY <1>7, <1>8, <1>9, ReplaceOne
<1>11. ASSUME NEW d \in DOMAIN child, NEW s \in Stream
       PROVE  /\ child'[d].taken[s] <= Len(child'[d].written[s])
              /\ Len(child[d].written[s]) <= Len(child'[d].written[s])
              /\ \A n \in 1 .. Len(child[d].written[s]) :
                   child'[d].written[s][n] = child[d].written[s][n]
  <2>1. child[d].taken[s] <= Len(child[d].written[s])
    BY DEF ProcInv, Counts
  <2>2. child[d].taken[s] \in Nat /\ Len(child[d].written[s]) \in Nat
    BY ChildFields
  <2>3. CASE d # c
    BY <2>1, <2>2, <2>3, <1>10
  <2>4. CASE d = c
    <3>1. /\ child'[d].taken = k.taken /\ child'[d].written = w
          /\ child[d].taken = k.taken /\ child[d].written = k.written
      BY <2>4, <1>1, <1>8, <1>10
    <3>2. Len(k.written[s]) <= Len(w[s]) /\ k.taken[s] <= Len(k.written[s]) /\ Len(w[s]) \in Nat
      BY <3>1, <2>1, <1>5, <1>6
    <3>3. k.taken[s] \in Nat /\ Len(k.written[s]) \in Nat
      BY <3>1, <2>2
    <3>4. QED
      BY <3>1, <3>2, <3>3, <1>6
  <2>5. QED
    BY <2>3, <2>4
<1>12. Counts' /\ Len(child') <= MaxRun
  BY <1>10, <1>11 DEF Counts, ProcInv
<1>13. \A d \in DOMAIN child :
         /\ child'[d].keeper = child[d].keeper /\ child'[d].taken = child[d].taken
         /\ child'[d].state = child[d].state
  BY <1>1, <1>8, <1>10
<1>14. QED
  BY <1>10, <1>11, <1>12, <1>13 DEF Grown, TakenKept

(* A reader takes one line from the stream at which it is.                 *)
LEMMA ReadEffect ==
  ASSUME ProcInv, NEW c \in DOMAIN child, ReadLine(c)
  PROVE  /\ Grown /\ DOMAIN child' = DOMAIN child
         /\ \A d \in DOMAIN child, s \in Stream :
              /\ child'[d].written[s] = child[d].written[s]
              /\ child'[d].taken[s] = IF d = c /\ s = task[c] THEN child[d].taken[s] + 1
                                                              ELSE child[d].taken[s]
         /\ child[c].taken[task[c]] + 1 <= Len(child[c].written[task[c]])
<1>1. PICK k \in ChildType : k = child[c]
  BY ProcTypes
<1>2. PICK t \in Stream : t = task[c]
  BY DEF ReadLine
<1>3. /\ k.taken \in [Stream -> Nat] /\ k.taken[t] \in Nat
      /\ Len(k.written[t]) \in Nat
  BY DEF ChildType
<1>4. Len(k.written[t]) - k.taken[t] > 0
  BY <1>1, <1>2 DEF ReadLine, Unread
<1> DEFINE r == [k.taken EXCEPT ![t] = k.taken[t] + 1]
           e == [k EXCEPT !.taken = r]
<1>5. r \in [Stream -> Nat]
  BY <1>3
<1>6. \A s \in Stream : r[s] = IF s = t THEN k.taken[s] + 1 ELSE k.taken[s]
  BY <1>3
<1>7. child' = [child EXCEPT ![c] = e]
  BY <1>1, <1>2 DEF ReadLine
<1> HIDE DEF r
<1>8. /\ e \in ChildType /\ e.keeper = k.keeper /\ e.taken = r
      /\ e.state = k.state /\ e.written = k.written
  BY <1>5 DEF ChildType
<1> HIDE DEF e
<1>9. child \in Seq(ChildType)
  BY ProcTypes
<1>10. /\ child' \in Seq(ChildType) /\ Len(child') = Len(child) /\ DOMAIN child' = DOMAIN child
       /\ child'[c] = e /\ \A d \in DOMAIN child : d # c => child'[d] = child[d]
  BY <1>7, <1>8, <1>9, ReplaceOne
<1>11. ASSUME NEW d \in DOMAIN child, NEW s \in Stream
       PROVE  /\ child'[d].written[s] = child[d].written[s]
              /\ child'[d].taken[s] = IF d = c /\ s = t THEN child[d].taken[s] + 1
                                                        ELSE child[d].taken[s]
              /\ child'[d].taken[s] <= Len(child'[d].written[s])
  <2>1. child[d].taken[s] <= Len(child[d].written[s])
    BY DEF ProcInv, Counts
  <2>2. child[d].taken[s] \in Nat /\ Len(child[d].written[s]) \in Nat
    BY ChildFields
  <2>3. CASE d # c
    BY <2>1, <2>2, <2>3, <1>10
  <2>4. CASE d = c
    <3>1. /\ child'[d].taken = r /\ child'[d].written = k.written
          /\ child[d].taken = k.taken /\ child[d].written = k.written
      BY <2>4, <1>1, <1>8, <1>10
    <3>2. QED
      BY <3>1, <2>1, <2>2, <2>4, <1>3, <1>4, <1>6
  <2>5. QED
    BY <2>3, <2>4
<1>12. Counts' /\ Len(child') <= MaxRun
  BY <1>10, <1>11 DEF Counts, ProcInv
<1>13. \A d \in DOMAIN child :
         child'[d].keeper = child[d].keeper /\ child'[d].state = child[d].state
  BY <1>1, <1>8, <1>10
<1>14. \A d \in DOMAIN child, s \in Stream : Len(child[d].written[s]) \in Nat
  BY ChildFields
<1>15. Grown
  BY <1>10, <1>11, <1>12, <1>13, <1>14 DEF Grown
<1>16. QED
  BY <1>1, <1>2, <1>3, <1>4, <1>10, <1>11, <1>15

LEMMA PoolReapEffect ==
  ASSUME ProcInv, PoolReap
  PROVE  Kept
<1>1. child \in Seq(ChildType) /\ Len(child) \in Nat /\ DOMAIN child = 1 .. Len(child)
  BY ProcTypes
<1>2. ASSUME NEW c \in DOMAIN child
      PROVE  /\ child'[c] \in ChildType
             /\ child'[c].keeper = child[c].keeper
             /\ child'[c].written = child[c].written
             /\ child'[c].taken = child[c].taken
             /\ child'[c].state = "running" => child[c].state = "running"
  <2>1. PICK k \in ChildType : k = child[c]
    BY <1>1
  <2>2. \/ child'[c] = k
        \/ child'[c] = [k EXCEPT !.state = "reaped"]
    BY <2>1 DEF PoolReap
  <2>3. QED
    BY <2>1, <2>2 DEF ChildType
<1>3. DOMAIN child' = DOMAIN child
  BY DEF PoolReap
<1>4. child' \in [1 .. Len(child) -> ChildType]
  BY <1>1, <1>2 DEF PoolReap
<1>5. child' \in Seq(ChildType)
  BY <1>1, <1>4, FunctionIsSeq
<1>6. Len(child') = Len(child)
  BY <1>1, <1>3, <1>5
<1>7. QED
  BY <1>2, <1>3, <1>5, <1>6 DEF Kept

LEMMA AbortEffect ==
  ASSUME ProcInv, Abort
  PROVE  aborted' \subseteq DOMAIN child
BY ProcTypes DEF Abort

LEMMA TakeOutputEffect ==
  ASSUME ProcInv, process # None, TakeOutput
  PROVE  /\ Kept /\ child'[process].state = "reaped"
         /\ \A d \in DOMAIN child : d # process => child'[d] = child[d]
         /\ process' = None /\ process_out' = None
         /\ aborted' \subseteq DOMAIN child
         /\ output'.run = process /\ output'.lines = stdout
<1>1. process \in DOMAIN child
  BY ProcTypes
<1>2. child' = [child EXCEPT ![process].state = "reaped"]
  BY DEF TakeOutput
<1>3. Kept /\ child'[process].state = "reaped"
      /\ \A d \in DOMAIN child : d # process => child'[d] = child[d]
  BY <1>1, <1>2, StateEffect
<1>4. QED
  BY <1>3, AbortEffect DEF TakeOutput

(* What a step leaves typed: the screen's variables are looked at one by   *)
(* one, the processes and the tasks by what the step does to them.         *)
ScreenTyped ==
  /\ curr \in Interface
  /\ page \in {"Home", "Ducky", "Bork"}
  /\ last_script \in {<<>>} \cup {<<prog>> : prog \in Program}
  /\ phase \in {"idle", "starting"}
  /\ phase = "starting" => process # None

RunsTyped ==
  /\ {process, process_out, output.run} \subseteq {None} \cup DOMAIN child
  /\ output.lines \in Seq(ReadLines) /\ stdout \in Seq(ReadLines)
  /\ task \in Seq(TaskState) /\ DOMAIN task = DOMAIN child
  /\ aborted \subseteq DOMAIN child /\ behind \subseteq DOMAIN child

LEMMA InvSplit == ProcInv => ScreenTyped /\ RunsTyped
BY DEF ProcInv, ProcTypeOK, ScreenTyped, RunsTyped, TaskState

LEMMA InvJoin ==
  ASSUME Grown, ScreenTyped', RunsTyped'
  PROVE  ProcInv'
BY DEF ProcInv, ProcTypeOK, ScreenTyped, RunsTyped, TaskState, ChildType, Grown

LEMMA ScreenStep ==
  ASSUME ProcInv, [ProcNext]_procVars
  PROVE  ScreenTyped'
<1> USE DEF ScreenTyped, None
<1>1. ScreenTyped
  BY InvSplit
<1>2. ASSUME NEW next \in Interface, ChangeState(next)
      PROVE  ScreenTyped'
  BY <1>1, <1>2 DEF ChangeState
<1>3. ASSUME NEW prog \in Program, RunCommand(prog)
      PROVE  ScreenTyped'
  <2>1. Len(child) + 1 # 0
    BY ProcTypes
  <2>2. QED
    BY <1>1, <1>3, <2>1 DEF RunCommand, InTerm
<1>4. ASSUME NEW prog \in Program, RunScript(prog)
      PROVE  ScreenTyped'
  BY <1>1, <1>4 DEF RunScript, InScripts, termVars
<1>5. CASE CheckStarted
  BY <1>1, <1>5 DEF CheckStarted
<1>6. CASE PollCommand \/ KillCommand \/ CloseOutput
  BY <1>1, <1>6 DEF PollCommand, KillCommand, CloseOutput, InTerm, screenVars
<1>7. ASSUME NEW p \in {"Ducky", "Bork"}, ChoosePage(p)
      PROVE  ScreenTyped'
  BY <1>1, <1>7 DEF ChoosePage, InScripts
<1>8. CASE LeavePage \/ RunLast
  BY <1>1, <1>8 DEF LeavePage, RunLast, InScripts, screenVars
<1>9. ASSUME UNCHANGED <<screenVars, process>>
      PROVE  ScreenTyped'
  BY <1>1, <1>9 DEF screenVars
<1>10. CASE Bash \/ PoolReap
  BY <1>9, <1>10 DEF Bash, PoolReap, termVars
<1>11. ASSUME NEW c \in DOMAIN child,
              \/ Write(c) \/ End(c) \/ Broken(c) \/ Start(c)
              \/ Reader(c) \/ ScriptReap(c)
       PROVE  ScreenTyped'
  BY <1>9, <1>11 DEF Write, End, Broken, Ends, Start, Reader,
       ReadLine, Eof, ScriptReap, termVars
<1>12. CASE UNCHANGED procVars
  BY <1>9, <1>12 DEF procVars, termVars
<1>13. QED
  BY <1>2, <1>3, <1>4, <1>5, <1>6, <1>7, <1>8, <1>10, <1>11, <1>12 DEF ProcNext, Screen

LEMMA TaskEffect ==
  ASSUME ProcInv, NEW c \in DOMAIN child, NEW v \in TaskState,
         task' = [task EXCEPT ![c] = v]
  PROVE  /\ task' \in Seq(TaskState) /\ DOMAIN task' = DOMAIN child
         /\ task'[c] = v /\ \A d \in DOMAIN child : d # c => task'[d] = task[d]
<1>1. task \in Seq(TaskState) /\ DOMAIN task = DOMAIN child
  BY ProcTypes
<1>2. QED
  BY <1>1, ReplaceOne

(* The handlers of the screen. *)
LEMMA HandlerTyped ==
  ASSUME ProcInv, Screen
  PROVE  Grown /\ TakenKept /\ RunsTyped'
<1>1. RunsTyped /\ DOMAIN task = DOMAIN child
  BY InvSplit, ProcTypes
<1>2. ASSUME UNCHANGED child
      PROVE  Grown /\ TakenKept
  BY <1>2, UnchangedKept, KeptGrown
<1>3. None \in {None} \cup DOMAIN child /\ <<>> \in Seq(ReadLines)
  OBVIOUS
<1>4. \A prog \in Program : prog \in Seq(Lines)
  BY ProgramAssumption
<1>5. ASSUME NEW next \in Interface, ChangeState(next)
      PROVE  Grown /\ TakenKept /\ RunsTyped'
  <2>1. CASE curr = "Term"
    <3>1. Kept
      BY <1>5, <2>1, ProcTypes, KilledEffect DEF ChangeState, Leave
    <3>2. aborted' \subseteq DOMAIN child
      BY <1>5, <2>1, AbortEffect DEF ChangeState, Leave
    <3>3. DOMAIN child' = DOMAIN child
      BY <3>1 DEF Kept
    <3>4. RunsTyped'
      BY <1>1, <1>3, <1>5, <3>2, <3>3 DEF RunsTyped, ChangeState, NoOutput
    <3>5. QED
      BY <3>1, <3>4, KeptGrown
  <2>2. CASE curr # "Term"
    <3>1. UNCHANGED <<child, aborted>>
      BY <1>5, <2>2 DEF ChangeState, Leave
    <3>2. RunsTyped'
      BY <1>1, <1>3, <1>5, <3>1 DEF RunsTyped, ChangeState, NoOutput
    <3>3. QED
      BY <1>2, <3>1, <3>2
  <2>3. QED
    BY <2>1, <2>2
<1>6. ASSUME NEW prog \in Program, RunCommand(prog)
      PROVE  Grown /\ TakenKept /\ RunsTyped'
  <2>1. behind' \subseteq DOMAIN child /\ stdout' \in Seq(ReadLines)
    BY <1>1, <1>3, <1>6 DEF RunCommand, Emptied
  <2>2. UNCHANGED <<output, aborted>>
    BY <1>6 DEF RunCommand
  <2>3. CASE UNCHANGED <<child, task, process, process_out, phase>>
    BY <1>1, <1>2, <2>1, <2>2, <2>3 DEF RunsTyped
  <2>4. CASE Spawned("term", prog) /\ process' = Len(child) + 1 /\ process_out' = Len(child) + 1
    <3>1. Grown /\ TakenKept
      BY <1>4, <2>4, SpawnGrown
    <3>2. /\ DOMAIN child' = DOMAIN child \cup {Len(child) + 1}
          /\ task' \in Seq(TaskState) /\ DOMAIN task' = DOMAIN child'
      BY <1>4, <2>4, SpawnEffect
    <3>3. QED
      BY <1>1, <2>1, <2>2, <2>4, <3>1, <3>2 DEF RunsTyped
  <2>5. QED
    BY <1>6, <2>3, <2>4 DEF RunCommand
<1>7. ASSUME NEW prog \in Seq(Lines), Spawned("script", prog),
             UNCHANGED <<termVars, stdout, aborted, behind>>
      PROVE  Grown /\ TakenKept /\ RunsTyped'
  <2>1. Grown /\ TakenKept
    BY <1>7, SpawnGrown
  <2>2. /\ DOMAIN child' = DOMAIN child \cup {Len(child) + 1}
        /\ task' \in Seq(TaskState) /\ DOMAIN task' = DOMAIN child'
    BY <1>7, SpawnEffect
  <2>3. QED
    BY <1>1, <1>7, <2>1, <2>2 DEF RunsTyped, termVars
<1>8. ASSUME NEW prog \in Program, RunScript(prog)
      PROVE  Grown /\ TakenKept /\ RunsTyped'
  <2>1. CASE Spawned("script", prog)
    BY <1>4, <1>7, <1>8, <2>1 DEF RunScript
  <2>2. CASE UNCHANGED <<child, task>>
    BY <1>1, <1>2, <1>8, <2>2 DEF RunsTyped, RunScript, termVars
  <2>3. QED
    BY <1>8, <2>1, <2>2 DEF RunScript
<1>9. CASE RunLast
  <2>1. last_script[1] \in Program
    BY <1>9, InvSplit DEF RunLast, ScreenTyped
  <2>2. QED
    BY <1>4, <1>7, <1>9, <2>1 DEF RunLast
<1>10. ASSUME process # None, TakeOutput, UNCHANGED <<stdout, task, behind>>
       PROVE  Grown /\ TakenKept /\ RunsTyped'
  <2>1. /\ Kept /\ process' = None /\ process_out' = None
        /\ aborted' \subseteq DOMAIN child
        /\ output'.run = process /\ output'.lines = stdout
    BY <1>10, TakeOutputEffect
  <2>2. DOMAIN child' = DOMAIN child
    BY <2>1 DEF Kept
  <2>3. QED
    BY <1>1, <1>10, <2>1, <2>2, KeptGrown DEF RunsTyped
<1>11. CASE CheckStarted
  <2>1. process # None
    BY <1>11 DEF CheckStarted, ProcInv
  <2>2. CASE UNCHANGED <<child, termVars, aborted>>
    BY <1>1, <1>2, <1>11, <2>2 DEF RunsTyped, CheckStarted, termVars
  <2>3. CASE TakeOutput
    BY <1>10, <1>11, <2>1, <2>3 DEF CheckStarted
  <2>4. QED
    BY <1>11, <2>2, <2>3 DEF CheckStarted
<1>12. CASE PollCommand
  BY <1>10, <1>12 DEF PollCommand
<1>13. CASE KillCommand
  <2>1. Kept
    BY <1>13, ProcTypes, KilledEffect DEF KillCommand
  <2>2. DOMAIN child' = DOMAIN child
    BY <2>1 DEF Kept
  <2>3. RunsTyped'
    BY <1>1, <1>13, <2>2 DEF RunsTyped, KillCommand
  <2>4. QED
    BY <2>1, <2>3, KeptGrown
<1>14. CASE CloseOutput
  BY <1>1, <1>2, <1>3, <1>14 DEF RunsTyped, CloseOutput, NoOutput
<1>15. ASSUME NEW p \in {"Ducky", "Bork"}, ChoosePage(p)
       PROVE  Grown /\ TakenKept /\ RunsTyped'
  BY <1>1, <1>2, <1>15 DEF RunsTyped, ChoosePage, termVars
<1>16. CASE LeavePage
  BY <1>1, <1>2, <1>16 DEF RunsTyped, LeavePage, termVars
<1>17. QED
  BY <1>5, <1>6, <1>8, <1>9, <1>11, <1>12, <1>13, <1>14, <1>15, <1>16 DEF Screen

(* The pool and the processes that end by themselves.                      *)
LEMMA PoolTyped ==
  ASSUME ProcInv, Bash \/ PoolReap
  PROVE  Grown /\ TakenKept /\ RunsTyped'
<1>1. RunsTyped /\ DOMAIN task = DOMAIN child
  BY InvSplit, ProcTypes
<1>2. CASE Bash
  <2>1. Spawned("pool", <<>>) /\ <<>> \in Seq(Lines)
    BY <1>2 DEF Bash
  <2>2. Grown /\ TakenKept
    BY <2>1, SpawnGrown
  <2>3. /\ DOMAIN child' = DOMAIN child \cup {Len(child) + 1}
        /\ task' \in Seq(TaskState) /\ DOMAIN task' = DOMAIN child'
    BY <2>1, SpawnEffect
  <2>4. QED
    BY <1>1, <1>2, <2>2, <2>3 DEF RunsTyped, Bash, termVars
<1>3. CASE PoolReap
  <2>1. Kept
    BY <1>3, PoolReapEffect
  <2>2. DOMAIN child' = DOMAIN child
    BY <2>1 DEF Kept
  <2>3. RunsTyped'
    BY <1>1, <1>3, <2>2 DEF RunsTyped, PoolReap, termVars
  <2>4. QED
    BY <2>1, <2>3, KeptGrown
<1>4. QED
  BY <1>2, <1>3

LEMMA ChildTyped ==
  ASSUME ProcInv, NEW c \in DOMAIN child,
         \/ Write(c) \/ End(c) \/ Broken(c) \/ Start(c)
         \/ Eof(c) \/ ScriptReap(c)
  PROVE  /\ Grown /\ TakenKept /\ RunsTyped'
         /\ DOMAIN child' = DOMAIN child
         /\ UNCHANGED <<screenVars, termVars, stdout, aborted, behind>>
         /\ task' = task \/ \E v \in TaskState : task' = [task EXCEPT ![c] = v]
<1>1. RunsTyped /\ DOMAIN task = DOMAIN child
  BY InvSplit, ProcTypes
<1>2. UNCHANGED <<screenVars, termVars, stdout, aborted, behind>>
  BY DEF Write, End, Broken, Ends, Start, Eof, ScriptReap
<1>3. task' = task \/ \E v \in TaskState : task' = [task EXCEPT ![c] = v]
  BY DEF Write, End, Broken, Ends, Start, Eof, ScriptReap,
       OtherStream, TaskState
<1>4. task' \in Seq(TaskState) /\ DOMAIN task' = DOMAIN child
  BY <1>1, <1>3, TaskEffect DEF RunsTyped
<1>5. Grown /\ TakenKept /\ DOMAIN child' = DOMAIN child
  <2>1. CASE Write(c)
    BY <2>1, WriteEffect
  <2>2. CASE End(c) \/ Broken(c)
    <3>1. child' = [child EXCEPT ![c].state = "ended"]
      BY <2>2 DEF End, Broken, Ends
    <3>2. Kept
      BY <3>1, StateEffect
    <3>3. QED
      BY <3>2, KeptGrown DEF Kept
  <2>3. CASE Start(c) \/ Eof(c)
    BY <2>3, UnchangedKept, KeptGrown DEF Start, Eof
  <2>4. CASE ScriptReap(c)
    <3>1. child' = [child EXCEPT ![c].state = "reaped"]
      BY <2>4 DEF ScriptReap
    <3>2. Kept
      BY <3>1, StateEffect
    <3>3. QED
      BY <3>2, KeptGrown DEF Kept
  <2>5. QED
    BY <2>1, <2>2, <2>3, <2>4
<1>6. RunsTyped'
  BY <1>1, <1>2, <1>4, <1>5 DEF RunsTyped, termVars
<1>7. QED
  BY <1>2, <1>3, <1>5, <1>6

LEMMA ReadTyped ==
  ASSUME ProcInv, NEW c \in DOMAIN child, ReadLine(c)
  PROVE  Grown /\ RunsTyped'
<1>1. RunsTyped /\ DOMAIN task = DOMAIN child /\ stdout \in Seq(ReadLines)
  BY InvSplit, ProcTypes
<1>2. Grown /\ DOMAIN child' = DOMAIN child
  BY ReadEffect
<1>3. task' \in Seq(TaskState) /\ DOMAIN task' = DOMAIN child
  <2>1. \E v \in TaskState : task' = [task EXCEPT ![c] = v]
    BY DEF ReadLine, TaskState, OtherStream
  <2>2. QED
    BY <2>1, TaskEffect
<1>4. stdout' \in Seq(ReadLines)
  <2>1. PICK t \in Stream : t = task[c]
    BY DEF ReadLine
  <2>2. PICK n \in Nat : n = child[c].taken[t]
    BY ChildFields
  <2> DEFINE l == [child |-> c, stream |-> t, n |-> n + 1]
  <2>3. c \in 1 .. MaxRun
    BY ProcTypes, SizesAssumption DEF ProcInv
  <2>4. l \in ReadLines
    BY <2>3 DEF ReadLines
  <2>5. stdout' = stdout \/ stdout' = Append(stdout, l)
    BY <2>1, <2>2 DEF ReadLine
  <2> HIDE DEF l
  <2>6. QED
    BY <1>1, <2>4, <2>5
<1>5. UNCHANGED <<screenVars, termVars, aborted, behind>>
  BY DEF ReadLine
<1>6. QED
  BY <1>1, <1>2, <1>3, <1>4, <1>5 DEF RunsTyped, termVars

LEMMA ProcInvStep ==
  ASSUME ProcInv, [ProcNext]_procVars
  PROVE  ProcInv' /\ Grown
<1>1. Grown /\ RunsTyped'
  <2>1. CASE Screen
    BY <2>1, HandlerTyped
  <2>2. CASE Bash \/ PoolReap
    BY <2>2, PoolTyped
  <2>3. ASSUME NEW c \in DOMAIN child,
               \/ Write(c) \/ End(c) \/ Broken(c) \/ Start(c)
               \/ Reader(c) \/ ScriptReap(c)
        PROVE  Grown /\ RunsTyped'
    BY <2>3, ChildTyped, ReadTyped DEF Reader
  <2>4. CASE UNCHANGED procVars
    <3>1. Grown
      BY <2>4, UnchangedKept, KeptGrown DEF procVars
    <3>2. RunsTyped'
      BY <2>4, InvSplit DEF RunsTyped, procVars, termVars
    <3>3. QED
      BY <3>1, <3>2
  <2>5. QED
    BY <2>1, <2>2, <2>3, <2>4 DEF ProcNext
<1>2. QED
  BY <1>1, ScreenStep, InvJoin

LEMMA ProcInvInit ==
  ASSUME ProcInit
  PROVE  ProcInv
<1>1. /\ <<>> \in Seq(ReadLines) /\ <<>> \in Seq(ChildType) /\ <<>> \in Seq(TaskState)
      /\ DOMAIN <<>> = {} /\ Len(<<>>) = 0
  OBVIOUS
<1>2. ProcTypeOK
  BY <1>1 DEF ProcInit, ProcTypeOK, NoOutput, Interface, ChildType, TaskState
<1>3. QED
  BY <1>1, <1>2, SizesAssumption DEF ProcInit, ProcInv, Counts

LEMMA ProcInvariant ==
  ProcSpec => []ProcInv
<1>1. ProcInit => ProcInv
  BY ProcInvInit
<1>2. ProcInv /\ [ProcNext]_procVars => ProcInv'
  BY ProcInvStep
<1>3. QED
  BY <1>1, <1>2, PTL DEF ProcSpec

(* The screen, the pool, their tasks and their commands keep their types,  *)
(* whatever is started, killed or left when.                               *)
THEOREM ProcessesTypeCorrect == ProcSpec => []ProcTypeOK
<1>1. ProcInv => ProcTypeOK
  BY DEF ProcInv
<1>2. QED
  BY <1>1, ProcInvariant, PTL

-----------------------------------------------------------------------------
(* A step that leaves the terminal's command, and starts none for it; only *)
(* a reader adds to what was read.                                         *)
Steady ==
  /\ Grown
  /\ UNCHANGED <<process, process_out, aborted, behind>>
  /\ curr = "Term" => curr' = "Term"
  /\ \A c \in DOMAIN child' : child'[c].keeper = "term" => c \in DOMAIN child
  /\ \A c \in DOMAIN child : task'[c] # "ended" => task[c] # "ended"

Quiet == Steady /\ TakenKept /\ stdout' = stdout

(* A step after which the terminal runs no command, nor does the system.   *)
StopsCommand ==
  /\ Grown /\ DOMAIN child' = DOMAIN child
  /\ process' = None /\ task' = task
  /\ curr # "Term" \/ process \notin DOMAIN child \/ child'[process].state # "running"

LEMMA SpawnSteady ==
  ASSUME ProcInv, NEW keeper \in {"script", "pool"}, NEW prog \in Seq(Lines),
         Spawned(keeper, prog), UNCHANGED <<process, process_out, aborted, behind, curr, stdout>>
  PROVE  Quiet
<1>1. Grown /\ TakenKept
  BY SpawnGrown
<1>2. /\ DOMAIN child' = DOMAIN child \cup {Len(child) + 1}
      /\ child'[Len(child) + 1].keeper = keeper
      /\ \A c \in DOMAIN child : task'[c] = task[c]
  BY SpawnEffect
<1>3. QED
  BY <1>1, <1>2 DEF Quiet, Steady

LEMMA SameQuiet ==
  ASSUME ProcInv, UNCHANGED <<child, task, process, process_out, aborted, behind, stdout>>,
         curr = "Term" => curr' = "Term"
  PROVE  Quiet
<1>1. Grown /\ TakenKept
  BY UnchangedKept, KeptGrown
<1>2. QED
  BY <1>1 DEF Quiet, Steady

LEMMA TakeStops ==
  ASSUME ProcInv, process # None, TakeOutput, UNCHANGED task
  PROVE  StopsCommand
<1>1. Kept /\ child'[process].state = "reaped" /\ process' = None
  BY TakeOutputEffect
<1>2. QED
  BY <1>1, KeptGrown DEF StopsCommand, Kept

LEMMA ChildQuiet ==
  ASSUME ProcInv, NEW c \in DOMAIN child,
         \/ Write(c) \/ End(c) \/ Broken(c) \/ Start(c)
         \/ Eof(c) \/ ScriptReap(c)
  PROVE  Quiet
<1>1. /\ Grown /\ TakenKept /\ DOMAIN child' = DOMAIN child
      /\ UNCHANGED <<screenVars, termVars, stdout, aborted, behind>>
  BY ChildTyped
<1>2. DOMAIN task = DOMAIN child
  BY ProcTypes
<1>3. \A d \in DOMAIN child : task'[d] # "ended" => task[d] # "ended"
  BY <1>2 DEF Write, End, Broken, Ends, Start, Eof, ScriptReap, Stream
<1>4. QED
  BY <1>1, <1>3 DEF Quiet, Steady, screenVars, termVars

LEMMA ReadSteady ==
  ASSUME ProcInv, NEW c \in DOMAIN child, ReadLine(c)
  PROVE  Steady
<1>1. Grown /\ DOMAIN child' = DOMAIN child
  BY ReadEffect
<1>2. DOMAIN task = DOMAIN child
  BY ProcTypes
<1>3. \A d \in DOMAIN child : task'[d] # "ended" => task[d] # "ended"
  BY <1>2 DEF ReadLine, Stream
<1>4. UNCHANGED <<screenVars, termVars, aborted, behind>>
  BY DEF ReadLine
<1>5. QED
  BY <1>1, <1>3, <1>4 DEF Steady, screenVars, termVars

LEMMA StepKinds ==
  ASSUME ProcInv, [ProcNext]_procVars
  PROVE  \/ Quiet \/ StopsCommand
         \/ \E c \in DOMAIN child : ReadLine(c)
         \/ \E prog \in Program : RunCommand(prog)
<1>1. \A prog \in Program : prog \in Seq(Lines)
  BY ProgramAssumption
<1>2. ASSUME NEW next \in Interface, ChangeState(next)
      PROVE  Quiet \/ StopsCommand
  <2>1. CASE curr = "Term"
    <3>1. Kept /\ (process \in DOMAIN child => child'[process].state # "running")
      BY <1>2, <2>1, ProcTypes, KilledEffect DEF ChangeState, Leave
    <3>2. process' = None /\ task' = task
      BY <1>2, <2>1 DEF ChangeState
    <3>3. QED
      BY <3>1, <3>2, KeptGrown DEF StopsCommand, Kept
  <2>2. CASE curr # "Term" /\ next = "Term"
    <3>1. process' = None /\ UNCHANGED <<child, task>>
      BY <1>2, <2>2 DEF ChangeState, Leave
    <3>2. QED
      BY <2>2, <3>1, UnchangedKept, KeptGrown DEF StopsCommand
  <2>3. CASE curr # "Term" /\ next # "Term"
    <3>1. UNCHANGED <<child, task, process, process_out, aborted, behind, stdout>>
      BY <1>2, <2>3 DEF ChangeState, Leave
    <3>2. QED
      BY <2>3, <3>1, SameQuiet
  <2>4. QED
    BY <2>1, <2>2, <2>3
<1>3. ASSUME NEW prog \in Program, RunScript(prog)
      PROVE  Quiet
  <2>1. UNCHANGED <<process, process_out, aborted, behind, curr, stdout>>
    BY <1>3 DEF RunScript, termVars
  <2>2. Spawned("script", prog) \/ UNCHANGED <<child, task>>
    BY <1>3 DEF RunScript
  <2>3. QED
    BY <1>1, <2>1, <2>2, SpawnSteady, SameQuiet
<1>4. CASE RunLast
  <2>1. last_script[1] \in Program
    BY <1>4, InvSplit DEF RunLast, ScreenTyped
  <2>2. /\ UNCHANGED <<process, process_out, aborted, behind, curr, stdout>>
        /\ Spawned("script", last_script[1])
    BY <1>4 DEF RunLast, termVars, screenVars
  <2>3. QED
    BY <1>1, <2>1, <2>2, SpawnSteady
<1>5. CASE CheckStarted
  <2>1. process # None /\ UNCHANGED <<curr, stdout, task, behind>>
    BY <1>5 DEF CheckStarted, ProcInv
  <2>2. CASE UNCHANGED <<child, termVars, aborted>>
    BY <2>1, <2>2, SameQuiet DEF termVars
  <2>3. CASE TakeOutput
    BY <2>1, <2>3, TakeStops
  <2>4. QED
    BY <1>5, <2>2, <2>3 DEF CheckStarted
<1>6. CASE PollCommand
  BY <1>6, TakeStops DEF PollCommand
<1>7. CASE KillCommand
  <2>1. Kept /\ (process \in DOMAIN child => child'[process].state # "running")
    BY <1>7, ProcTypes, KilledEffect DEF KillCommand
  <2>2. process' = None /\ task' = task
    BY <1>7 DEF KillCommand
  <2>3. QED
    BY <2>1, <2>2, KeptGrown DEF StopsCommand, Kept
<1>8. CASE CloseOutput
  BY <1>8, SameQuiet DEF CloseOutput, screenVars
<1>9. ASSUME NEW p \in {"Ducky", "Bork"}, ChoosePage(p)
      PROVE  Quiet
  BY <1>9, SameQuiet DEF ChoosePage, termVars
<1>10. CASE LeavePage
  BY <1>10, SameQuiet DEF LeavePage, termVars
<1>11. CASE Bash
  <2>1. /\ Spawned("pool", <<>>) /\ <<>> \in Seq(Lines)
        /\ UNCHANGED <<process, process_out, aborted, behind, curr, stdout>>
    BY <1>11 DEF Bash, termVars, screenVars
  <2>2. QED
    BY <2>1, SpawnSteady
<1>12. CASE PoolReap
  <2>1. Kept
    BY <1>12, PoolReapEffect
  <2>2. UNCHANGED <<process, process_out, aborted, behind, curr, stdout, task>>
    BY <1>12 DEF PoolReap, termVars, screenVars
  <2>3. QED
    BY <2>1, <2>2, KeptGrown DEF Quiet, Steady, Kept
<1>13. ASSUME NEW c \in DOMAIN child,
              \/ Write(c) \/ End(c) \/ Broken(c) \/ Start(c)
              \/ Eof(c) \/ ScriptReap(c)
       PROVE  Quiet
  BY <1>13, ChildQuiet
<1>14. CASE UNCHANGED procVars
  BY <1>14, SameQuiet DEF procVars, screenVars, termVars
<1>15. QED
  BY <1>2, <1>3, <1>4, <1>5, <1>6, <1>7, <1>8, <1>9, <1>10, <1>11, <1>12, <1>13, <1>14
     DEF ProcNext, Screen, Reader

(* A terminal's command is started: it is the last of them.                *)
LEMMA RunCommandEffect ==
  ASSUME ProcInv,
         NEW prog \in Program, RunCommand(prog)
  PROVE  /\ Grown /\ process = None /\ output = NoOutput /\ curr = "Term" /\ curr' = "Term"
         /\ stdout' = <<>> /\ UNCHANGED <<output, aborted>>
         /\ behind' = {c \in DOMAIN child : child[c].keeper = "term" /\ task[c] # "ended"}
         /\ \/ UNCHANGED <<child, task>> /\ process' = None
            \/ /\ DOMAIN child' = DOMAIN child \cup {process'} /\ process' \notin DOMAIN child
               /\ process_out' = process'
               /\ child'[process'].keeper = "term"
               /\ \A s \in Stream :
                    child'[process'].taken[s] = 0 /\ child'[process'].written[s] = <<>>
               /\ \A c \in DOMAIN child : task'[c] = task[c]
               /\ task'[process'] \in {"none", "queued"}
<1>1. prog \in Seq(Lines)
  BY ProgramAssumption
<1>2. /\ process = None /\ output = NoOutput /\ curr = "Term" /\ curr' = "Term"
      /\ stdout' = <<>> /\ UNCHANGED <<output, aborted>>
      /\ behind' = {c \in DOMAIN child : child[c].keeper = "term" /\ task[c] # "ended"}
  BY ProcTypes DEF RunCommand, InTerm, Emptied, IsReader
<1>3. CASE UNCHANGED <<child, task, process, process_out, phase>>
  BY <1>2, <1>3, UnchangedKept, KeptGrown
<1>4. CASE Spawned("term", prog) /\ process' = Len(child) + 1 /\ process_out' = Len(child) + 1
  <2>1. Grown
    BY <1>1, <1>4, SpawnGrown
  <2>2. /\ DOMAIN child' = DOMAIN child \cup {Len(child) + 1}
        /\ Len(child) + 1 \notin DOMAIN child
        /\ child'[Len(child) + 1].keeper = "term"
        /\ \A s \in Stream :
             child'[Len(child) + 1].taken[s] = 0 /\ child'[Len(child) + 1].written[s] = <<>>
        /\ \A c \in DOMAIN child : task'[c] = task[c]
        /\ task'[Len(child) + 1] \in {"none", "queued"}
    BY <1>1, <1>4, SpawnEffect
  <2>3. QED
    BY <1>2, <1>4, <2>1, <2>2
<1>5. QED
  BY <1>3, <1>4 DEF RunCommand

LEMMA UnseenStep ==
  ASSUME ProcInv, NothingRunsUnseen,
         [ProcNext]_procVars
  PROVE  NothingRunsUnseen'
<1>1. SUFFICES ASSUME NEW c \in DOMAIN child', child'[c].keeper = "term", child'[c].state = "running"
               PROVE  process' = c /\ curr' = "Term"
  BY DEF NothingRunsUnseen, IsReader
<1>2. ASSUME Grown, c \in DOMAIN child
      PROVE  process = c /\ curr = "Term"
  BY <1>1, <1>2 DEF NothingRunsUnseen, IsReader, Grown
<1>3. ASSUME Steady
      PROVE  process' = c /\ curr' = "Term"
  BY <1>1, <1>2, <1>3 DEF Steady
<1>4. CASE StopsCommand
  BY <1>1, <1>2, <1>4 DEF StopsCommand
<1>5. ASSUME NEW prog \in Program, RunCommand(prog)
      PROVE  process' = c /\ curr' = "Term"
  <2>1. process = None /\ None \notin DOMAIN child /\ Grown
    BY <1>5, ProcTypes, RunCommandEffect
  <2>2. c \notin DOMAIN child
    BY <1>2, <2>1
  <2>3. QED
    BY <1>1, <1>5, <2>2, RunCommandEffect
<1>6. ASSUME NEW d \in DOMAIN child, ReadLine(d)
      PROVE  process' = c /\ curr' = "Term"
  BY <1>3, <1>6, ReadSteady
<1>7. QED
  BY <1>3, <1>4, <1>5, <1>6, StepKinds DEF Quiet

(* No command of the terminal runs behind the screen, for any number of    *)
(* commands and whenever they end by themselves.                           *)
THEOREM NothingRunsUnseenCorrect == ProcSpec => []NothingRunsUnseen
<1>1. ProcInit => NothingRunsUnseen
  BY DEF ProcInit, NothingRunsUnseen
<1>2. ProcInv /\ NothingRunsUnseen /\ [ProcNext]_procVars => NothingRunsUnseen'
  BY UnseenStep
<1>3. QED
  BY <1>1, <1>2, ProcInvariant, PTL DEF ProcSpec

-----------------------------------------------------------------------------
(* What a sequence of lines read has of one stream of a command: the good  *)
(* ones among the first lines that the command wrote, in order.            *)
PlacesOf(q, c, s) == {i \in DOMAIN q : q[i].child = c /\ q[i].stream = s}

InOrder(q, c, s) == \A i, j \in PlacesOf(q, c, s) : i < j => q[i].n < q[j].n

HasGood(q, c, s, w, m) ==
  \A n \in 1 .. m : w[n] = "good" <=> \E k \in PlacesOf(q, c, s) : q[k].n = n

(* The first m lines were read. *)
ReadFirst(q, c, s, w, m) ==
  /\ InOrder(q, c, s)
  /\ \A i \in PlacesOf(q, c, s) : q[i].n <= m
  /\ HasGood(q, c, s, w, m)

LEMMA ReadFirstGrows ==
  ASSUME NEW q, NEW c, NEW s, NEW w, NEW v, NEW m \in Nat,
         \A n \in 1 .. m : v[n] = w[n],
         ReadFirst(q, c, s, w, m)
  PROVE  ReadFirst(q, c, s, v, m)
BY DEF ReadFirst, HasGood

LEMMA PlacesAppend ==
  ASSUME NEW q \in Seq(ReadLines), NEW l \in ReadLines, NEW c, NEW s
  PROVE  /\ Append(q, l) \in Seq(ReadLines)
         /\ \A i \in DOMAIN q : Append(q, l)[i] = q[i] /\ i \in Int /\ i < Len(q) + 1 /\ q[i] \in ReadLines
         /\ Append(q, l)[Len(q) + 1] = l /\ Len(q) + 1 \notin DOMAIN q
         /\ PlacesOf(Append(q, l), c, s) =
              IF l.child = c /\ l.stream = s THEN PlacesOf(q, c, s) \cup {Len(q) + 1} ELSE PlacesOf(q, c, s)
         /\ PlacesOf(q, c, s) \subseteq DOMAIN q
<1>1. /\ Append(q, l) \in Seq(ReadLines)
      /\ DOMAIN Append(q, l) = DOMAIN q \cup {Len(q) + 1}
      /\ Len(q) + 1 \notin DOMAIN q
      /\ Append(q, l)[Len(q) + 1] = l
      /\ \A i \in DOMAIN q : Append(q, l)[i] = q[i]
  BY AppendOne
<1>2. \A i \in DOMAIN q : i \in Int /\ i < Len(q) + 1 /\ q[i] \in ReadLines
  OBVIOUS
<1>3. QED
  BY <1>1, <1>2 DEF PlacesOf

LEMMA LinesReadType ==
  ASSUME NEW q \in Seq(ReadLines), NEW c, NEW s
  PROVE  \A i \in PlacesOf(q, c, s) : q[i].n \in Nat
<1>1. \A i \in PlacesOf(q, c, s) : q[i] \in ReadLines
  BY DEF PlacesOf
<1>2. QED
  BY <1>1 DEF ReadLines

(* A line of something else leaves it.                                     *)
LEMMA ReadFirstOther ==
  ASSUME NEW q \in Seq(ReadLines), NEW l \in ReadLines, NEW c, NEW s, NEW w, NEW m,
         ~ (l.child = c /\ l.stream = s), ReadFirst(q, c, s, w, m)
  PROVE  ReadFirst(Append(q, l), c, s, w, m)
<1>1. PlacesOf(Append(q, l), c, s) = PlacesOf(q, c, s)
  BY PlacesAppend
<1>2. \A i \in PlacesOf(q, c, s) : Append(q, l)[i] = q[i]
  BY PlacesAppend
<1>3. QED
  BY <1>1, <1>2 DEF ReadFirst, InOrder, HasGood

(* The next line is read: a good one is added, a bad one is left out.      *)
LEMMA ReadFirstGood ==
  ASSUME NEW q \in Seq(ReadLines), NEW l \in ReadLines, NEW w, NEW m \in Nat,
         l.n = m + 1, w[m + 1] = "good", ReadFirst(q, l.child, l.stream, w, m)
  PROVE  ReadFirst(Append(q, l), l.child, l.stream, w, m + 1)
<1> DEFINE P == PlacesOf(q, l.child, l.stream)
           p == Append(q, l)
           new == Len(q) + 1
<1>1. /\ PlacesOf(p, l.child, l.stream) = P \cup {new}
      /\ \A i \in P : p[i] = q[i] /\ i \in Int /\ i < new /\ q[i] \in ReadLines
      /\ p[new] = l /\ new \in Int
  BY PlacesAppend
<1>2. \A i \in P : q[i].n \in Int /\ q[i].n <= m
  BY <1>1 DEF ReadFirst, ReadLines
<1>3. /\ \A i, j \in P : i < j => q[i].n < q[j].n
      /\ \A n \in 1 .. m : w[n] = "good" <=> \E k \in P : q[k].n = n
  BY DEF ReadFirst, InOrder, HasGood
<1> HIDE DEF P, p, new
<1>4. \A i, j \in P \cup {new} : i < j => p[i].n < p[j].n
  BY <1>1, <1>2, <1>3
<1>5. \A i \in P \cup {new} : p[i].n <= m + 1
  BY <1>1, <1>2
<1>6. \A n \in 1 .. m + 1 : w[n] = "good" <=> \E k \in P \cup {new} : p[k].n = n
  <2>1. ASSUME NEW n \in 1 .. m
        PROVE  w[n] = "good" <=> \E k \in P \cup {new} : p[k].n = n
    BY <1>1, <1>3
  <2>2. w[m + 1] = "good" /\ p[new].n = m + 1
    BY <1>1
  <2>3. QED
    BY <2>1, <2>2
<1>7. QED
  BY <1>1, <1>4, <1>5, <1>6 DEF p, ReadFirst, InOrder, HasGood

LEMMA ReadFirstBad ==
  ASSUME NEW q \in Seq(ReadLines), NEW c, NEW s, NEW w, NEW m \in Nat,
         w[m + 1] # "good", ReadFirst(q, c, s, w, m)
  PROVE  ReadFirst(q, c, s, w, m + 1)
<1>1. \A i \in PlacesOf(q, c, s) : q[i] \in ReadLines
  BY DEF PlacesOf
<1>2. \A i \in PlacesOf(q, c, s) : q[i].n \in Nat /\ q[i].n <= m
  BY <1>1 DEF ReadFirst, ReadLines
<1>3. HasGood(q, c, s, w, m + 1)
  BY <1>2 DEF ReadFirst, HasGood
<1>4. QED
  BY <1>2, <1>3 DEF ReadFirst

(* A task that reads is that of a command of the terminal. *)
TaskKind == \A c \in DOMAIN child : task[c] \in Stream => child[c].keeper = "term"

(* The command that the terminal runs has its reader, which nobody has     *)
(* aborted; whoever else may still read was counted as late.               *)
RunIsOwn ==
  process # None =>
    /\ child[process].keeper = "term" /\ process_out = process /\ process \notin aborted
    /\ \A c \in DOMAIN child :
         child[c].keeper = "term" /\ task[c] # "ended" => c \in {process} \cup behind
    /\ \A i \in DOMAIN stdout : stdout[i].child \in {process} \cup behind

(* What was read of it is the first lines that it wrote. *)
OrderInv ==
  process # None =>
    \A s \in Stream :
      ReadFirst(stdout, process, s, child[process].written[s], child[process].taken[s])

RunInv == TaskKind /\ RunIsOwn /\ OrderInv

LEMMA TaskKindStep ==
  ASSUME ProcInv, TaskKind, [ProcNext]_procVars
  PROVE  TaskKind'
<1>1. SUFFICES ASSUME NEW c \in DOMAIN child', task'[c] \in Stream
               PROVE  child'[c].keeper = "term"
  BY DEF TaskKind
<1>2. DOMAIN task = DOMAIN child
  BY ProcTypes
<1>3. Grown
  BY ProcInvStep
<1>4. ASSUME c \in DOMAIN child, task[c] \in Stream
      PROVE  child'[c].keeper = "term"
  BY <1>3, <1>4 DEF TaskKind, Grown
<1>5. ASSUME UNCHANGED task
      PROVE  child'[c].keeper = "term"
  <2>1. DOMAIN child' = DOMAIN task'
    BY ProcInvStep, ProcTypes DEF ProcInv, ProcTypeOK
  <2>2. QED
    BY <1>1, <1>2, <1>4, <1>5, <2>1
<1>6. ASSUME NEW keeper \in {"term", "script", "pool"}, NEW prog \in Seq(Lines),
             Spawned(keeper, prog)
      PROVE  child'[c].keeper = "term"
  <2>1. /\ DOMAIN child' = DOMAIN child \cup {Len(child) + 1}
        /\ \A d \in DOMAIN child : task'[d] = task[d]
        /\ task'[Len(child) + 1] \in {"none", "queued"}
    BY <1>6, SpawnEffect
  <2>2. QED
    BY <1>1, <1>4, <2>1 DEF Stream
<1>7. \A prog \in Program : prog \in Seq(Lines)
  BY ProgramAssumption
<1>8. CASE Screen
  <2>1. \/ UNCHANGED task
        \/ \E keeper \in {"term", "script", "pool"} :
             \E prog \in Seq(Lines) : Spawned(keeper, prog)
    <3>1. ASSUME RunLast
          PROVE  \E prog \in Seq(Lines) : Spawned("script", prog)
      <4>1. last_script[1] \in Program
        BY <3>1, InvSplit DEF RunLast, ScreenTyped
      <4>2. QED
        BY <1>7, <3>1, <4>1 DEF RunLast
    <3>2. ASSUME NEW prog \in Program, RunCommand(prog)
          PROVE  UNCHANGED task \/ Spawned("term", prog)
      BY <3>2 DEF RunCommand
    <3>3. ASSUME NEW prog \in Program, RunScript(prog)
          PROVE  UNCHANGED task \/ Spawned("script", prog)
      BY <3>3 DEF RunScript
    <3>4. ASSUME CheckStarted \/ PollCommand \/ KillCommand \/ CloseOutput
                 \/ LeavePage
          PROVE  UNCHANGED task
      BY <3>4 DEF CheckStarted, PollCommand, KillCommand, CloseOutput, LeavePage
    <3>5. ASSUME NEW p \in {"Ducky", "Bork"}, ChoosePage(p)
          PROVE  UNCHANGED task
      BY <3>5 DEF ChoosePage
    <3>6. ASSUME NEW next \in Interface, ChangeState(next)
          PROVE  UNCHANGED task
      BY <3>6 DEF ChangeState
    <3>7. QED
      BY <1>7, <1>8, <3>1, <3>2, <3>3, <3>4, <3>5, <3>6 DEF Screen
  <2>2. QED
    BY <1>5, <1>6, <2>1
<1>9. CASE Bash
  <2>1. Spawned("pool", <<>>) /\ <<>> \in Seq(Lines)
    BY <1>9 DEF Bash
  <2>2. QED
    BY <1>6, <2>1
<1>10. CASE PoolReap
  BY <1>5, <1>10 DEF PoolReap
<1>11. ASSUME NEW d \in DOMAIN child,
              \/ Write(d) \/ End(d) \/ Broken(d) \/ Start(d)
              \/ Reader(d) \/ ScriptReap(d)
       PROVE  child'[c].keeper = "term"
  <2>1. DOMAIN child' = DOMAIN child
    BY <1>11, ChildTyped, ReadEffect DEF Reader
  <2>2. CASE Write(d) \/ End(d) \/ Broken(d)
    BY <1>5, <2>2 DEF Write, End, Broken, Ends
  <2>3. CASE Start(d) /\ c = d
    BY <1>1, <1>2, <2>1, <2>3 DEF Start, IsReader, Stream
  <2>4. CASE Reader(d) /\ c = d
    BY <1>4, <2>1, <2>4 DEF Reader, ReadLine, Eof
  <2>5. CASE ScriptReap(d) /\ c = d
    BY <1>1, <1>2, <2>1, <2>5 DEF ScriptReap, Stream
  <2>6. CASE (Start(d) \/ Reader(d) \/ ScriptReap(d)) /\ c # d
    <3>1. task'[c] = task[c]
      BY <1>2, <2>1, <2>6 DEF Start, Reader, ReadLine, Eof, ScriptReap
    <3>2. QED
      BY <1>1, <1>4, <2>1, <3>1
  <2>7. QED
    BY <1>11, <2>2, <2>3, <2>4, <2>5, <2>6
<1>12. CASE UNCHANGED procVars
  BY <1>5, <1>12 DEF procVars
<1>13. QED
  BY <1>8, <1>9, <1>10, <1>11, <1>12 DEF ProcNext

(* The line that a reader reads is the next one; it is added to what was   *)
(* read if it is good, unless the reader was aborted.                      *)
LEMMA ReadLineEffect ==
  ASSUME ProcInv, NEW c \in DOMAIN child, ReadLine(c)
  PROVE  \E t \in Stream, m \in Nat :
           /\ t = task[c] /\ m = child[c].taken[t] /\ m + 1 <= Len(child[c].written[t])
           /\ \/ stdout' = stdout /\ (c \in aborted \/ child[c].written[t][m + 1] # "good")
              \/ \E l \in ReadLines :
                   /\ l.child = c /\ l.stream = t /\ l.n = m + 1
                   /\ child[c].written[t][m + 1] = "good" /\ stdout' = Append(stdout, l)
<1>1. PICK t \in Stream : t = task[c]
  BY DEF ReadLine
<1>2. PICK m \in Nat : m = child[c].taken[t]
  BY ChildFields
<1>3. PICK w \in Seq(Quality) : w = child[c].written[t]
  BY ChildFields
<1>4. m + 1 <= Len(w)
  BY <1>1, <1>2, <1>3, ReadEffect
<1>5. w[m + 1] \in {"good", "bad"}
  BY <1>4 DEF Quality
<1> DEFINE l == [child |-> c, stream |-> t, n |-> m + 1]
<1>6. c \in 1 .. MaxRun
  BY ProcTypes, SizesAssumption DEF ProcInv
<1>7. l \in ReadLines
  BY <1>6 DEF ReadLines
<1>8. \/ stdout' = stdout /\ (c \in aborted \/ w[m + 1] = "bad")
      \/ w[m + 1] # "bad" /\ stdout' = Append(stdout, l)
  BY <1>1, <1>2, <1>3 DEF ReadLine
<1>9. l.child = c /\ l.stream = t /\ l.n = m + 1
  OBVIOUS
<1> HIDE DEF l
<1>10. QED
  BY <1>1, <1>2, <1>3, <1>4, <1>5, <1>7, <1>8, <1>9

LEMMA OwnStep ==
  ASSUME ProcInv, TaskKind, RunIsOwn,
         [ProcNext]_procVars
  PROVE  RunIsOwn'
<1>1. process \in {None} \cup DOMAIN child /\ DOMAIN task = DOMAIN child
      /\ stdout \in Seq(ReadLines)
  BY ProcTypes
<1>2. ASSUME Steady, \A i \in DOMAIN stdout' : stdout'[i].child \in {process} \cup behind \/ process = None
      PROVE  RunIsOwn'
  BY <1>1, <1>2 DEF Steady, Grown, RunIsOwn
<1>3. CASE Quiet
  BY <1>2, <1>3 DEF Quiet, RunIsOwn
<1>4. CASE StopsCommand
  BY <1>4 DEF StopsCommand, RunIsOwn
<1>5. ASSUME NEW c \in DOMAIN child, ReadLine(c), process # None
      PROVE  \A i \in DOMAIN stdout' : stdout'[i].child \in {process} \cup behind
  <2>1. c \in {process} \cup behind
    <3>1. task[c] \in Stream /\ task[c] # "ended"
      BY <1>5 DEF ReadLine, Stream
    <3>2. QED
      BY <1>5, <3>1 DEF TaskKind, RunIsOwn
  <2>2. \/ stdout' = stdout
        \/ \E l \in ReadLines : l.child = c /\ stdout' = Append(stdout, l)
    BY <1>5, ReadLineEffect
  <2>3. ASSUME NEW l \in ReadLines, l.child = c, stdout' = Append(stdout, l)
        PROVE  \A i \in DOMAIN stdout' : stdout'[i].child \in {process} \cup behind
    <3>1. /\ DOMAIN stdout' = DOMAIN stdout \cup {Len(stdout) + 1}
          /\ stdout'[Len(stdout) + 1] = l
          /\ \A i \in DOMAIN stdout : stdout'[i] = stdout[i]
      BY <1>1, <2>3, AppendOne
    <3>2. QED
      BY <1>5, <2>1, <2>3, <3>1 DEF RunIsOwn
  <2>4. QED
    BY <1>5, <2>2, <2>3 DEF RunIsOwn
<1>6. ASSUME NEW c \in DOMAIN child, ReadLine(c)
      PROVE  RunIsOwn'
  BY <1>2, <1>5, <1>6, ReadSteady
<1>7. ASSUME NEW prog \in Program, RunCommand(prog)
      PROVE  RunIsOwn'
  <2>1. stdout' = <<>> /\ UNCHANGED aborted /\ Grown
        /\ behind' = {c \in DOMAIN child : child[c].keeper = "term" /\ task[c] # "ended"}
    BY <1>7, RunCommandEffect
  <2>2. CASE process' = None
    BY <2>2 DEF RunIsOwn
  <2>3. CASE /\ DOMAIN child' = DOMAIN child \cup {process'} /\ process' \notin DOMAIN child
             /\ process_out' = process' /\ child'[process'].keeper = "term"
             /\ \A c \in DOMAIN child : task'[c] = task[c]
    <3>1. process' \notin aborted'
      BY <2>1, <2>3, ProcTypes
    <3>2. ASSUME NEW c \in DOMAIN child', child'[c].keeper = "term", task'[c] # "ended"
          PROVE  c \in {process'} \cup behind'
      BY <2>1, <2>3, <3>2 DEF Grown
    <3>3. DOMAIN stdout' = {}
      BY <2>1
    <3>4. QED
      BY <2>3, <3>1, <3>2, <3>3 DEF RunIsOwn
  <2>4. QED
    BY <1>7, <2>2, <2>3, RunCommandEffect
<1>8. QED
  BY <1>3, <1>4, <1>6, <1>7, StepKinds

LEMMA OrderStep ==
  ASSUME ProcInv, RunIsOwn, OrderInv,
         [ProcNext]_procVars
  PROVE  OrderInv'
<1>1. stdout \in Seq(ReadLines)
  BY ProcTypes
<1>2. CASE StopsCommand
  BY <1>2 DEF StopsCommand, OrderInv
<1>3. ASSUME Steady, process # None, NEW s \in Stream
      PROVE  \E p \in DOMAIN child, m \in Nat :
               /\ p = process /\ p = process' /\ m = child[p].taken[s]
               /\ p \notin aborted
               /\ ReadFirst(stdout, p, s, child'[p].written[s], m)
  <2>1. PICK p \in DOMAIN child : p = process
    BY <1>3, ProcTypes
  <2>2. PICK m \in Nat : m = child[p].taken[s]
    BY ChildFields
  <2>3. m <= Len(child[p].written[s]) /\ Len(child[p].written[s]) \in Nat
    BY <2>2, ChildFields DEF ProcInv, Counts
  <2>4. \A n \in 1 .. m : child'[p].written[s][n] = child[p].written[s][n]
    BY <1>3, <2>3 DEF Steady, Grown
  <2>5. ReadFirst(stdout, p, s, child[p].written[s], m)
    BY <1>3, <2>1, <2>2 DEF OrderInv
  <2>6. ReadFirst(stdout, p, s, child'[p].written[s], m)
    BY <2>4, <2>5, ReadFirstGrows
  <2>7. p = process' /\ p \notin aborted
    BY <1>3, <2>1 DEF Steady, RunIsOwn
  <2>8. QED
    BY <2>1, <2>2, <2>6, <2>7
<1>4. CASE Quiet
  <2>1. SUFFICES ASSUME process' # None, NEW s \in Stream
                 PROVE  ReadFirst(stdout', process', s, child'[process'].written[s], child'[process'].taken[s])
    BY DEF OrderInv
  <2>2. Steady /\ process # None
    BY <1>4, <2>1 DEF Quiet, Steady
  <2>3. PICK p \in DOMAIN child, m \in Nat :
               /\ p = process /\ p = process' /\ m = child[p].taken[s]
               /\ ReadFirst(stdout, p, s, child'[p].written[s], m)
    BY <1>3, <2>2
  <2>4. stdout' = stdout /\ m = child'[p].taken[s]
    BY <1>4, <2>3 DEF Quiet, TakenKept
  <2>5. QED
    BY <2>3, <2>4
<1>5. ASSUME NEW c \in DOMAIN child, ReadLine(c)
      PROVE  OrderInv'
  <2>1. SUFFICES ASSUME process' # None, NEW s \in Stream
                 PROVE  ReadFirst(stdout', process', s, child'[process'].written[s], child'[process'].taken[s])
    BY DEF OrderInv
  <2>2. Steady /\ process # None
    BY <1>5, <2>1, ReadSteady DEF Steady
  <2>3. PICK p \in DOMAIN child, m \in Nat :
               /\ p = process /\ p = process' /\ m = child[p].taken[s]
               /\ p \notin aborted
               /\ ReadFirst(stdout, p, s, child'[p].written[s], m)
    BY <1>3, <2>2
  <2>4. PICK t \in Stream, k \in Nat :
           /\ t = task[c] /\ k = child[c].taken[t]
           /\ \/ stdout' = stdout /\ (c \in aborted \/ child[c].written[t][k + 1] # "good")
              \/ \E l \in ReadLines :
                   /\ l.child = c /\ l.stream = t /\ l.n = k + 1
                   /\ child[c].written[t][k + 1] = "good" /\ stdout' = Append(stdout, l)
    BY <1>5, ReadLineEffect
  <2>5. child'[p].written[s] = child[p].written[s]
        /\ child'[p].taken[s] = IF p = c /\ s = t THEN m + 1 ELSE m
    BY <1>5, <2>3, <2>4, ReadEffect
  <2>6. PICK w : w = child'[p].written[s]
    OBVIOUS
  <2>7. ReadFirst(stdout, p, s, w, m)
    BY <2>3, <2>6
  <2>8. CASE p = c /\ s = t
    <3>1. m = k /\ w = child[c].written[t]
      BY <2>3, <2>4, <2>5, <2>6, <2>8
    <3>2. ReadFirst(stdout', p, s, w, m + 1)
      <4>1. CASE stdout' = stdout
        <5>1. w[m + 1] # "good" \/ \E l \in ReadLines : stdout' = Append(stdout, l)
          BY <2>3, <2>4, <2>8, <3>1
        <5>2. \A l \in ReadLines : stdout # Append(stdout, l)
          BY <1>1
        <5>3. QED
          BY <1>1, <2>7, <4>1, <5>1, <5>2, ReadFirstBad
      <4>2. CASE \E l \in ReadLines :
                   /\ l.child = c /\ l.stream = t /\ l.n = k + 1
                   /\ child[c].written[t][k + 1] = "good" /\ stdout' = Append(stdout, l)
        <5>1. PICK l \in ReadLines :
                   /\ l.child = p /\ l.stream = s /\ l.n = m + 1
                   /\ w[m + 1] = "good" /\ stdout' = Append(stdout, l)
          BY <2>8, <3>1, <4>2
        <5>2. ReadFirst(Append(stdout, l), l.child, l.stream, w, m + 1)
          BY <1>1, <2>7, <5>1, ReadFirstGood
        <5>3. QED
          BY <5>1, <5>2
      <4>3. QED
        BY <2>4, <4>1, <4>2
    <3>3. QED
      BY <2>3, <2>5, <2>6, <2>8, <3>2
  <2>9. CASE ~ (p = c /\ s = t)
    <3>1. ReadFirst(stdout', p, s, w, m)
      <4>1. CASE stdout' = stdout
        BY <2>7, <4>1
      <4>2. CASE \E l \in ReadLines : l.child = c /\ l.stream = t /\ stdout' = Append(stdout, l)
        BY <1>1, <2>7, <2>9, <4>2, ReadFirstOther
      <4>3. QED
        BY <2>4, <4>1, <4>2
    <3>2. QED
      BY <2>3, <2>5, <2>6, <2>9, <3>1
  <2>10. QED
    BY <2>8, <2>9
<1>6. ASSUME NEW prog \in Program, RunCommand(prog)
      PROVE  OrderInv'
  <2>1. SUFFICES ASSUME process' # None, NEW s \in Stream
                 PROVE  ReadFirst(stdout', process', s, child'[process'].written[s], child'[process'].taken[s])
    BY DEF OrderInv
  <2>2. stdout' = <<>> /\ child'[process'].taken[s] = 0
    BY <1>6, <2>1, RunCommandEffect
  <2>3. \A c, w : ReadFirst(<<>>, c, s, w, 0)
    BY DEF ReadFirst, InOrder, HasGood, PlacesOf
  <2>4. QED
    BY <2>2, <2>3
<1>7. QED
  BY <1>2, <1>4, <1>5, <1>6, StepKinds

(* What is shown for a command keeps its explanation: the command has only *)
(* written more since.                                                     *)
LEMMA OutputStep ==
  ASSUME ProcInv, RunIsOwn, OrderInv,
         OutputExplained, [ProcNext]_procVars
  PROVE  OutputExplained'
<1> DEFINE Shown(q, c, s, w) ==
             /\ InOrder(q, c, s)
             /\ \A i \in PlacesOf(q, c, s) : q[i].n <= Len(w) /\ HasGood(q, c, s, w, q[i].n)
<1>1. OutputExplained <=>
        (output.run # None =>
           /\ \A s \in Stream : Shown(output.lines, output.run, s, child[output.run].written[s])
           /\ \A i \in DOMAIN output.lines : output.lines[i].child \in {output.run} \cup behind)
  BY DEF OutputExplained, InOrder, PlacesOf, HasGood
<1>2. OutputExplained' <=>
        (output'.run # None =>
           /\ \A s \in Stream : Shown(output'.lines, output'.run, s, child'[output'.run].written[s])
           /\ \A i \in DOMAIN output'.lines : output'.lines[i].child \in {output'.run} \cup behind')
  BY DEF OutputExplained, InOrder, PlacesOf, HasGood
<1>3. Grown /\ RunsTyped
  BY ProcInvStep, InvSplit
<1>4. ASSUME UNCHANGED output, output.run # None => UNCHANGED behind
      PROVE  OutputExplained'
  <2>1. SUFFICES ASSUME output.run # None
                 PROVE  \A s \in Stream : Shown(output.lines, output.run, s, child'[output.run].written[s])
    BY <1>1, <1>2, <1>4
  <2>2. PICK c \in DOMAIN child : c = output.run
    BY <1>3, <2>1 DEF RunsTyped
  <2>3. PICK q \in Seq(ReadLines) : q = output.lines
    BY <1>3 DEF RunsTyped
  <2>4. ASSUME NEW s \in Stream
        PROVE  Shown(q, c, s, child'[c].written[s])
    <3>1. Shown(q, c, s, child[c].written[s])
      BY <1>1, <2>1, <2>2, <2>3
    <3>2. /\ Len(child[c].written[s]) \in Nat
          /\ Len(child[c].written[s]) <= Len(child'[c].written[s])
          /\ \A n \in 1 .. Len(child[c].written[s]) : child'[c].written[s][n] = child[c].written[s][n]
      BY <1>3, ChildFields DEF Grown
    <3>3. child'[c].written[s] \in Seq(Quality)
      <4>1. child'[c] \in ChildType
        BY <1>3 DEF Grown
      <4>2. QED
        BY <4>1 DEF ChildType
    <3>4. Len(child'[c].written[s]) \in Nat
      BY <3>3
    <3>5. \A i \in PlacesOf(q, c, s) : q[i].n \in Nat
      BY LinesReadType
    <3>6. ASSUME NEW i \in PlacesOf(q, c, s)
          PROVE  q[i].n <= Len(child'[c].written[s]) /\ HasGood(q, c, s, child'[c].written[s], q[i].n)
      <4>1. PICK n \in Nat : n = q[i].n
        BY <3>5
      <4>2. n <= Len(child[c].written[s]) /\ HasGood(q, c, s, child[c].written[s], n)
        BY <3>1, <4>1
      <4>3. \A m \in 1 .. n : child'[c].written[s][m] = child[c].written[s][m]
        BY <3>2, <4>2
      <4>4. HasGood(q, c, s, child'[c].written[s], n)
        BY <4>2, <4>3 DEF HasGood
      <4>5. QED
        BY <3>2, <3>4, <4>1, <4>2, <4>4
    <3>7. QED
      BY <3>1, <3>6
  <2>5. QED
    BY <2>2, <2>3, <2>4
<1>5. ASSUME output'.run = None
      PROVE  OutputExplained'
  BY <1>2, <1>5
<1>6. ASSUME process # None, TakeOutput, UNCHANGED behind
      PROVE  OutputExplained'
  <2>1. output'.run = process /\ output'.lines = stdout /\ Kept
    BY <1>6, TakeOutputEffect
  <2>2. PICK p \in DOMAIN child : p = process
    BY <1>6, ProcTypes
  <2>3. PICK q \in Seq(ReadLines) : q = stdout
    BY ProcTypes
  <2>4. ASSUME NEW s \in Stream
        PROVE  Shown(q, p, s, child'[p].written[s])
    <3>1. PICK w \in Seq(Quality) : w = child[p].written[s]
      BY ChildFields
    <3>2. PICK m \in Nat : m = child[p].taken[s]
      BY ChildFields
    <3>3. ReadFirst(q, p, s, w, m) /\ m <= Len(w)
      BY <1>6, <2>2, <2>3, <3>1, <3>2 DEF OrderInv, ProcInv, Counts
    <3>4. \A i \in PlacesOf(q, p, s) : q[i].n \in Nat
      BY LinesReadType
    <3>5. \A i \in PlacesOf(q, p, s) : q[i].n <= Len(w) /\ HasGood(q, p, s, w, q[i].n)
      BY <3>3, <3>4 DEF ReadFirst, HasGood
    <3>6. child'[p].written[s] = w
      BY <2>1, <3>1 DEF Kept
    <3>7. QED
      BY <3>3, <3>5, <3>6 DEF ReadFirst
  <2>5. \A i \in DOMAIN stdout : stdout[i].child \in {process} \cup behind
    BY <1>6 DEF RunIsOwn
  <2>6. QED
    BY <1>2, <1>6, <2>1, <2>2, <2>3, <2>4, <2>5
<1> HIDE DEF Shown
<1>7. CASE Screen
  <2>1. ASSUME NEW next \in Interface, ChangeState(next)
        PROVE  OutputExplained'
    BY <1>4, <1>5, <2>1 DEF ChangeState, NoOutput
  <2>2. ASSUME NEW prog \in Program, RunCommand(prog)
        PROVE  OutputExplained'
    BY <1>4, <2>2 DEF RunCommand, NoOutput
  <2>3. ASSUME NEW prog \in Program, RunScript(prog)
        PROVE  OutputExplained'
    BY <1>4, <2>3 DEF RunScript, termVars
  <2>4. CASE CheckStarted
    BY <1>4, <1>6, <2>4 DEF CheckStarted, termVars, ProcInv
  <2>5. CASE PollCommand
    BY <1>6, <2>5 DEF PollCommand
  <2>6. CASE KillCommand
    BY <1>4, <2>6 DEF KillCommand
  <2>7. CASE CloseOutput
    BY <1>5, <2>7 DEF CloseOutput, NoOutput
  <2>8. ASSUME NEW p \in {"Ducky", "Bork"}, ChoosePage(p)
        PROVE  OutputExplained'
    BY <1>4, <2>8 DEF ChoosePage, termVars
  <2>9. CASE LeavePage \/ RunLast
    BY <1>4, <2>9 DEF LeavePage, RunLast, termVars
  <2>10. QED
    BY <1>7, <2>1, <2>2, <2>3, <2>4, <2>5, <2>6, <2>7, <2>8, <2>9 DEF Screen
<1>8. CASE Bash \/ PoolReap
  BY <1>4, <1>8 DEF Bash, PoolReap, termVars
<1>9. ASSUME NEW c \in DOMAIN child,
             \/ Write(c) \/ End(c) \/ Broken(c) \/ Start(c)
             \/ Reader(c) \/ ScriptReap(c)
      PROVE  OutputExplained'
  BY <1>4, <1>9 DEF Write, End, Broken, Ends, Start, Reader,
       ReadLine, Eof, ScriptReap, termVars
<1>10. CASE UNCHANGED procVars
  BY <1>4, <1>10 DEF procVars, termVars
<1>11. QED
  BY <1>7, <1>8, <1>9, <1>10 DEF ProcNext

(* What the terminal shows for a command are the first lines that it       *)
(* wrote, and lines of commands whose readers were late, for any commands, *)
(* workers and pipes.                                                      *)
THEOREM OutputExplainedCorrect == ProcSpec => []OutputExplained
<1>1. ProcInit => RunInv /\ OutputExplained
  BY DEF ProcInit, RunInv, TaskKind, RunIsOwn, OrderInv, OutputExplained, NoOutput
<1>2. ProcInv /\ RunInv /\ [ProcNext]_procVars => RunInv'
  BY TaskKindStep, OwnStep, OrderStep DEF RunInv
<1>3. ProcInv /\ RunInv /\ OutputExplained /\ [ProcNext]_procVars => OutputExplained'
  BY OutputStep DEF RunInv
<1>4. QED
  BY <1>1, <1>2, <1>3, ProcInvariant, PTL DEF ProcSpec
=============================================================================
