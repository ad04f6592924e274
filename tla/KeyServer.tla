----------------------------- MODULE KeyServer -----------------------------
(***************************************************************************)
(* The event loop of the key server (bin/key-server/src/main.rs) with what *)
(* it drives: the driver's states, the layout's poll, the functions bound  *)
(* to the grid, the queue to the HID thread and, between two turns of the  *)
(* loop, the layer commands of the configuration RPC.                      *)
(*                                                                         *)
(* The loop takes the layout's write lock once to tick the drivers and     *)
(* once to poll the layout, so that the RPC, which takes the same lock,    *)
(* runs before a tick or between tick and poll and never inside either.    *)
(* The HID thread takes no lock: it runs at any time.                      *)
(*                                                                         *)
(* A driver's u16 state is abstracted to whether it is high.               *)
(***************************************************************************)
EXTENDS LayerOps, FiniteSets

CONSTANTS
  Input,        \* the inputs of the driver
  Bindings,     \* the bound grid cells in the order poll visits them
  NumCells,     \* width * height of the grid
  Function,     \* the functions that a layer may hold
  InitLayers,   \* the layers of layout.json
  AddedLayers,  \* the layers that the RPC may add
  MaxLayers,    \* bound: the RPC adds no layer beyond this many
  MaxQueue      \* bound: poll waits while this many messages are unread

Cells == 0 .. NumCells - 1

NoFunction == [kind |-> "None"]

(* A layer of the stack: its functions, and a number that tells it from    *)
(* another with the same ones, for the functions are objects, each with a  *)
(* prev_state of its own.                                                  *)
Numbers   == 0 .. MaxLayers - 1
InitStack == [i \in DOMAIN InitLayers |-> [row |-> InitLayers[i], no |-> i - 1]]
Layer     == {InitStack[i] : i \in DOMAIN InitLayers} \cup [row : AddedLayers, no : Numbers]

(* A function, by its layer and cell, wherever in the stack its layer is.  *)
Places        == {k \in Layer \X Cells : k[2] + 1 \in DOMAIN k[1].row}
FunctionOf(k) == k[1].row[k[2] + 1]
ShiftKeys     == {k \in Places : FunctionOf(k).kind = "Shift"}
KeyKeys       == {k \in Places : FunctionOf(k).kind = "Key"}
KeyOf(k)      == FunctionOf(k).key
Keys          == {KeyOf(k) : k \in KeyKeys}

ASSUME BoundsAssumption ==
  /\ NumCells \in Nat \ {0} /\ MaxLayers \in Nat /\ Len(InitLayers) <= MaxLayers
  /\ IsFiniteSet(AddedLayers)

(* A function that names a layer names it by an index. *)
ASSUME FunctionAssumption ==
  \A f \in Function : f.kind \in {"Shift", "Switch"} => f.layer \in Nat

(* The layout binds a cell once: see EachHasItsCells of module LayoutGrid. *)
ASSUME BindingsAssumption ==
  /\ Bindings \in Seq([cell : Cells, input : Input])
  /\ Bindings # <<>>
  /\ \A i, j \in DOMAIN Bindings : Bindings[i].cell = Bindings[j].cell => i = j

ASSUME LayersAssumption ==
  /\ InitLayers \in Seq(Seq(Function))
  /\ \A i \in DOMAIN InitLayers : Len(InitLayers[i]) = NumCells
  /\ AddedLayers \subseteq Seq(Function)

VARIABLES
  input,        \* external: which inputs are actuated
  state,        \* ExternalDriver.state, as of the last tick that succeeded
  layers,       \* Layout.layer_stack, without the functions' own state
  cur_layer,    \* Layout.cur_layer
  shift_from,   \* Layout.shift_from
  down,         \* the functions whose prev_state is high
  pc,           \* where the event loop is
  at,           \* the binding that poll looks at next
  commands,     \* poll's list of ReturnCommands
  queue,        \* the messages the HID thread has not received
  pressed,      \* external: the keys held in the HID thread's Keyboard
  report,       \* external: the keys down as the host was last told
  failed,       \* history: the last report did not get through
  shared        \* history: the keys that two functions of the stack have had

layoutVars == <<layers, cur_layer, shift_from>>
loopVars   == <<pc, at, commands>>
hidVars    == <<queue, pressed, report, failed>>
vars       == <<input, state, layoutVars, down, loopVars, hidVars, shared>>

Lay == [layers |-> layers, cur_layer |-> cur_layer, shift_from |-> shift_from]

Becomes(lay) ==
  /\ layers' = lay.layers
  /\ cur_layer' = lay.cur_layer
  /\ shift_from' = lay.shift_from

(* The functions of a stack, and the keys that two of them have.           *)
InStack(stack) == {k \in Places : \E i \in DOMAIN stack : stack[i] = k[1]}

SharedIn(stack) ==
  {KeyOf(k) : k \in {k \in KeyKeys \cap InStack(stack) :
                       \E j \in KeyKeys \cap InStack(stack) : j # k /\ KeyOf(j) = KeyOf(k)}}

Init ==
  /\ input = [i \in Input |-> FALSE]
  /\ state = input
  /\ layers = InitStack
  /\ cur_layer = 0
  /\ shift_from = <<>>
  /\ down = {}
  /\ pc = "tick"
  /\ at = 1
  /\ commands = <<>>
  /\ queue = <<>>
  /\ pressed = {}
  /\ report = {}
  /\ failed = FALSE
  /\ shared = SharedIn(InitStack)

-----------------------------------------------------------------------------
(* A key is actuated or let go. *)
Actuate(i) ==
  /\ input' = [input EXCEPT ![i] = ~@]
  /\ UNCHANGED <<state, layoutVars, down, loopVars, hidVars, shared>>

(* layout.write().tick(): the driver module answers with its inputs, or    *)
(* the call fails and the states of the last tick stay.                    *)
Tick ==
  /\ pc = "tick"
  /\ pc' = "poll"
  /\ state' = input
  /\ UNCHANGED <<input, layoutVars, down, at, commands, hidVars, shared>>

TickFails ==
  /\ pc = "tick"
  /\ pc' = "poll"
  /\ UNCHANGED <<input, state, layoutVars, down, at, commands, hidVars, shared>>

(* layout.write().poll(), up to the loop over the addresses. *)
StartPoll ==
  /\ pc = "poll"
  /\ pc' = IF layers = <<>> THEN "tick" ELSE "scan"
  /\ at' = 1
  /\ UNCHANGED <<input, state, layoutVars, down, commands, hidVars, shared>>

-----------------------------------------------------------------------------
(* The layers are searched from the current one down for a function at the *)
(* cell. The search ends, by a panic, at a layer that has no such cell or  *)
(* at once if the current layer does not exist.                            *)
HasCell(i, c) == c < Len(layers[i + 1].row)

Stops(c) == {i \in 0 .. cur_layer : ~HasCell(i, c) \/ layers[i + 1].row[c + 1] # NoFunction}

Panics(c) ==
  \/ ~HasLayer(Lay, cur_layer)
  \/ Stops(c) # {} /\ ~HasCell(Max(Stops(c)), c)

(* The function that poll finds at the cell, if there is one. *)
Found(c) == <<layers[Max(Stops(c)) + 1], c>>

(* FunctionInterface::event of function f at place k, called with a state  *)
(* that is high or not: what it sends to the HID thread ...                *)
Hold(key)    == [op |-> "Hold", key |-> key]
Release(key) == [op |-> "Release", key |-> key]
SendReport   == [op |-> "Send"]

(* The host is not told of a release. *)
BugSilentRelease(f, was, high) ==
  CASE f.kind = "Key" /\ high /\ ~was -> <<Hold(f.key), SendReport>>
    [] f.kind = "Key" /\ ~high /\ was -> <<Release(f.key)>>
    [] OTHER -> <<>>

Messages(f, was, high) ==
  CASE f.kind = "Key" /\ high /\ ~was -> <<Hold(f.key), SendReport>>
    [] f.kind = "Key" /\ ~high /\ was -> <<Release(f.key), SendReport>>
    [] OTHER -> <<>>

(* A Shift function that, like Switch, forgets that its key was down. *)
BugShiftEveryPoll(k, f, was, high) ==
  CASE f.kind = "Shift" /\ high         -> <<[op |-> "Shift", layer |-> f.layer, by |-> k]>>
    [] f.kind = "Shift" /\ ~high /\ was -> <<[op |-> "UnShift", layer |-> f.layer, by |-> k]>>
    [] f.kind = "Switch" /\ high        -> <<[op |-> "Switch", layer |-> f.layer, by |-> k]>>
    [] f.kind \in {"Up", "Down"}        -> <<[op |-> f.kind, by |-> k]>>
    [] OTHER -> <<>>

(* ... what it asks of the layout, if anything. A Switch function never    *)
(* writes prev_state, so that it sees a rising edge at every poll while    *)
(* its key is down; Up and Down do not look at the state. The field "by"   *)
(* is a history of who asked.                                              *)
Commands(k, f, was, high) ==
  CASE f.kind = "Shift" /\ high /\ ~was -> <<[op |-> "Shift", layer |-> f.layer, by |-> k]>>
    [] f.kind = "Shift" /\ ~high /\ was -> <<[op |-> "UnShift", layer |-> f.layer, by |-> k]>>
    [] f.kind = "Switch" /\ high        -> <<[op |-> "Switch", layer |-> f.layer, by |-> k]>>
    [] f.kind \in {"Up", "Down"}        -> <<[op |-> f.kind, by |-> k]>>
    [] OTHER -> <<>>

(* prev_state is written on a press only. *)
BugDownForever(k, f, high) ==
  IF f.kind \in {"Key", "Shift"} /\ high THEN down \cup {k} ELSE down

(* ... and its prev_state. *)
DownAfter(k, f, high) ==
  IF f.kind \in {"Key", "Shift"} /\ high THEN down \cup {k} ELSE down \ {k}

Event(k, high) ==
  LET f   == FunctionOf(k)
      was == k \in down
  IN  /\ queue' = queue \o Messages(f, was, high)
      /\ commands' = commands \o Commands(k, f, was, high)
      /\ down' = DownAfter(k, f, high)

(* One binding: the function that is found gets the cell's state.          *)
ScanCell ==
  LET c == Bindings[at].cell
  IN  /\ pc = "scan"
      /\ Len(queue) < MaxQueue
      /\ IF Panics(c) \/ Stops(c) = {}
         THEN UNCHANGED <<queue, commands, down>>
         ELSE Event(Found(c), state[Bindings[at].input])
      /\ pc' = CASE Panics(c) -> "panicked"
                 [] ~Panics(c) /\ at = Len(Bindings) -> "eval"
                 [] OTHER -> pc
      /\ at' = IF at = Len(Bindings) THEN 1 ELSE at + 1
      /\ UNCHANGED <<input, state, layoutVars, pressed, report, failed, shared>>

(* After the loop the commands are evaluated in the order they were asked. *)
EvalNext ==
  /\ pc = "eval"
  /\ commands # <<>>
  /\ Becomes(EvalCommand(Lay, Head(commands)))
  /\ commands' = Tail(commands)
  /\ UNCHANGED <<input, state, down, pc, at, hidVars, shared>>

EndPoll ==
  /\ pc = "eval"
  /\ commands = <<>>
  /\ pc' = "tick"
  /\ UNCHANGED <<input, state, layoutVars, down, at, commands, hidVars, shared>>

-----------------------------------------------------------------------------
(* The HID thread receives a message; the current HID is "usb".            *)
Deliver ==
  /\ queue # <<>>
  /\ queue' = Tail(queue)
  /\ LET msg == Head(queue)
     IN  \/ msg.op = "Hold" /\ pressed' = pressed \cup {msg.key} /\ UNCHANGED <<report, failed>>
         \/ msg.op = "Release" /\ pressed' = pressed \ {msg.key} /\ UNCHANGED <<report, failed>>
         \/ msg.op = "Send" /\ report' = pressed /\ failed' = FALSE /\ UNCHANGED pressed
  /\ UNCHANGED <<input, state, layoutVars, down, loopVars, shared>>

(* Keyboard::send fails, which is logged; the report is not repeated.      *)
ReportFails ==
  /\ queue # <<>>
  /\ Head(queue).op = "Send"
  /\ queue' = Tail(queue)
  /\ failed' = TRUE
  /\ UNCHANGED <<input, state, layoutVars, down, loopVars, pressed, report, shared>>

HidThread == Deliver \/ ReportFails

-----------------------------------------------------------------------------
(* The RPC's layer commands. A layer that is removed takes the prev_state  *)
(* of its functions with it.                                               *)
LockFree == pc \in {"tick", "poll"}

RpcSwitch(index) ==
  /\ LockFree
  /\ Becomes(SwitchLayer(Lay, index))
  /\ UNCHANGED <<input, state, down, loopVars, hidVars, shared>>

RpcUp ==
  /\ LockFree
  /\ Becomes(UpLayer(Lay))
  /\ UNCHANGED <<input, state, down, loopVars, hidVars, shared>>

RpcDown ==
  /\ LockFree
  /\ Becomes(DownLayer(Lay))
  /\ UNCHANGED <<input, state, down, loopVars, hidVars, shared>>

(* The least number that no layer of the stack has. *)
IsFresh(no) ==
  LET used == {layers[i].no : i \in DOMAIN layers}
  IN  no \notin used /\ \A n \in Numbers : n < no => n \in used

RpcAdd(row, no) ==
  /\ LockFree
  /\ Len(layers) < MaxLayers
  /\ IsFresh(no)
  /\ Becomes(AddLayer(Lay, [row |-> row, no |-> no]))
  /\ shared' = shared \cup SharedIn(layers')
  /\ UNCHANGED <<input, state, down, loopVars, hidVars>>

RpcRemove(index) ==
  /\ LockFree
  /\ HasLayer(Lay, index)
  /\ Becomes(RemoveLayer(Lay, index))
  /\ down' = {k \in down : k[1] # layers[index + 1]}
  /\ UNCHANGED <<input, state, loopVars, hidVars, shared>>

(* An operator who removes only a layer that the RPC added and that        *)
(* nothing uses: as in LayerStack, and none of its functions is down.      *)
Unused(index) ==
  /\ index >= Len(InitLayers)
  /\ index > cur_layer
  /\ \A i \in DOMAIN shift_from : index > shift_from[i].start
  /\ \A k \in down, i \in DOMAIN layers : layers[i] = k[1] => i # index + 1

Indices == 0 .. MaxLayers

-----------------------------------------------------------------------------
Loop == Tick \/ TickFails \/ StartPoll \/ ScanCell \/ EvalNext \/ EndPoll

Others ==
  \/ \E i \in Input : Actuate(i)
  \/ HidThread
  \/ \E index \in Indices : RpcSwitch(index)
  \/ RpcUp
  \/ RpcDown
  \/ \E row \in AddedLayers, no \in Numbers : RpcAdd(row, no)

Next == Loop \/ Others \/ \E index \in Indices : RpcRemove(index)

CarefulNext ==
  Loop \/ Others \/ \E index \in Indices : Unused(index) /\ RpcRemove(index)

Spec == Init /\ [][Next]_vars

(* The loop and the HID thread each go on; a driver that is asked again    *)
(* and again answers again and again.                                      *)
Fairness ==
  /\ SF_vars(Tick)
  /\ WF_vars(StartPoll)
  /\ WF_vars(ScanCell)
  /\ WF_vars(EvalNext)
  /\ WF_vars(EndPoll)
  /\ WF_vars(HidThread)

CarefulSpec == Init /\ [][CarefulNext]_vars /\ Fairness

-----------------------------------------------------------------------------
Command ==
  [op : {"Shift", "UnShift", "Switch"}, layer : Nat, by : Places]
    \cup [op : {"Up", "Down"}, by : Places]

Message == [op : {"Hold", "Release"}, key : Keys] \cup {SendReport}

TypeOK ==
  /\ input \in [Input -> BOOLEAN]
  /\ state \in [Input -> BOOLEAN]
  /\ layers \in Seq(Layer)
  /\ cur_layer \in Nat
  /\ shift_from \in Seq(ShiftRecord)
  /\ down \subseteq Places
  /\ pc \in {"tick", "poll", "scan", "eval", "panicked"}
  /\ at \in DOMAIN Bindings
  /\ commands \in Seq(Command)
  /\ queue \in Seq(Message)
  /\ pressed \subseteq Keys
  /\ report \subseteq Keys
  /\ failed \in BOOLEAN
  /\ shared \subseteq Keys

(* Whatever the keys and a careful operator do, and in whatever order,     *)
(* poll never indexes a layer or a cell that is not there, which would end *)
(* the event loop.                                                         *)
LoopLives == pc # "panicked"

(* What LoopLives needs of the operator besides: a layer that the RPC adds *)
(* has a function for every cell, which add_layer does not ask.            *)
FullRows == \A row \in AddedLayers : Len(row) >= NumCells

(* What the HID thread holds once it has read its queue: the last message  *)
(* about a key decides.                                                    *)
HeldInTheEnd(key) ==
  LET about == {i \in DOMAIN queue : queue[i].op # "Send" /\ queue[i].key = key}
  IN  IF about = {} THEN key \in pressed ELSE queue[Max(about)].op = "Hold"

(* The Key functions and the HID thread agree, through the queue between   *)
(* them, on which keys are down: no press or release is lost or reordered  *)
(* on the way, whatever layer is current by the time of each and whatever  *)
(* layers the RPC adds or removes meanwhile. What the thread holds, a      *)
(* function holds down; what a function holds down, the thread holds, but  *)
(* for keys that two functions have had at once. The host has been told of *)
(* the last change, unless that report failed.                             *)
HidAgrees ==
  /\ \A key \in Keys :
       LET by == {k \in down \cap KeyKeys : KeyOf(k) = key}
       IN  /\ HeldInTheEnd(key) => by # {}
           /\ by # {} /\ key \notin shared => HeldInTheEnd(key)
  /\ queue = <<>> /\ ~failed => report = pressed

InputOf(k) == Bindings[CHOOSE i \in DOMAIN Bindings : Bindings[i].cell = k[2]].input

(* What the Key function is said to do, "acts as normal key": after a poll *)
(* that saw the key's input off, once the HID thread has caught up and if  *)
(* its report got through, the key is up for the host.                     *)
KeyActsNormal ==
  pc = "tick" /\ queue = <<>> /\ ~failed =>
    \A k \in KeyKeys \cap InStack(layers) :
      KeyOf(k) \notin shared /\ ~state[InputOf(k)] => KeyOf(k) \notin report

(* The layout sees what LayerStack specifies: the Shift functions whose    *)
(* key is down, but for those whose command poll has yet to evaluate.      *)
Asked(k)     == \E i \in DOMAIN commands : commands[i].by = k
SettledHeld  == {k \in ShiftKeys : ~(k \in down <=> Asked(k))}

TargetOf == [k \in ShiftKeys |-> FunctionOf(k).layer]

LS == INSTANCE LayerStack WITH
        InitLayers <- InitStack,
        InitTarget <- TargetOf,
        TargetVars <- {},
        MaxShifts  <- Cardinality(ShiftKeys),
        held       <- SettledHeld,
        target     <- TargetOf

LayersImplement == LS!CarefulSpec

(* A Key function that poll goes on to find has its key up for the host    *)
(* once the input stays off, and down once it stays on, unless the last    *)
(* report failed: the report follows the input through the driver's cache, *)
(* the function's prev_state and the HID thread, whatever other keys and   *)
(* the RPC do to the layers between.                                       *)
Finds(k) ==
  /\ pc = "scan"
  /\ Bindings[at].cell = k[2]
  /\ HasLayer(Lay, cur_layer)
  /\ Stops(k[2]) # {}
  /\ k = Found(k[2])

ReportFollows ==
  \A k \in KeyKeys :
    []<>Finds(k) /\ <>[](KeyOf(k) \notin shared) =>
      /\ <>[](~input[InputOf(k)]) => <>[](failed \/ KeyOf(k) \notin report)
      /\ <>[](input[InputOf(k)])  => <>[](failed \/ KeyOf(k) \in report)
=============================================================================
