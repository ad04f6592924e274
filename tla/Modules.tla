------------------------------- MODULE Modules -------------------------------
(***************************************************************************)
(* Driver and function modules (modules.rs, driver/mod.rs), and those who  *)
(* call them: the main task, which loads the drivers, builds the layout    *)
(* and then ticks and polls for ever, and the configuration RPC, which     *)
(* adds and removes layers.                                                *)
(*                                                                         *)
(* Each module has a thread, a queue of requests and one instance for each *)
(* load_data that succeeded, which it knows by a number. A caller waits    *)
(* for its answer, with the layout's lock held, before it goes on.         *)
(*                                                                         *)
(* A driver is one state; that of a whole driver is as that of Mcp23017.   *)
(* Which functions of the layers are reached by a poll is left open: it is *)
(* what KeyServer and LayoutGrid are about.                                *)
(***************************************************************************)
EXTENDS Integers, Sequences, SequencesExt

CONSTANTS
  Module,       \* the modules that were found
  Driver,       \* the drivers that are configured
  Func,         \* the external functions that a layer may have
  ModuleOf,     \* the module that each driver and each function names
  Input,        \* the driver whose state each function is bound to
  States,       \* the states that each driver's hardware may have
  BaseLayer,    \* the functions of layout.json
  AddedLayers,  \* the sets of functions that an added layer may have
  MaxLayers,    \* bound: the RPC adds no layer beyond this many
  MaxLoads      \* bound: a module loads no more than this many instances

ASSUME InputAssumption == Input \in [Func -> Driver]
ASSUME LayersAssumption == BaseLayer \subseteq Func /\ AddedLayers \subseteq SUBSET Func
ASSUME StatesAssumption == DOMAIN States = Driver /\ \A d \in Driver : States[d] \subseteq Nat
ASSUME ModuleAssumption == DOMAIN ModuleOf = Driver \cup Func /\ Driver \cap Func = {}

VARIABLES
  device,       \* external: the state of each driver's hardware
  loaded,       \* external: the instances of each module, with what they were told last
  queue,        \* the callers whose requests a module has not yet served
  call,         \* what each caller waits for, and its answer
  pc,           \* where the main task is
  lock,         \* who has the layout's write lock
  todo,         \* what each caller has yet to load, tick or poll
  built,        \* the functions that a caller has built of a layer
  id,           \* ExternalDriver.id
  state,        \* ExternalDriver.state
  layers,       \* the external functions of each layer
  recent,       \* history: the states each driver's hardware had since the last tick began
  stale,        \* history: the drivers whose last poll failed
  polled,       \* history: the functions reached by the last poll
  refused       \* history: those of them whose event failed

modVars == <<device, loaded, queue>>
drvVars == <<id, state, stale>>
history == <<recent, polled, refused>>
vars == <<modVars, call, pc, lock, todo, built, drvVars, layers, history>>

State  == UNION {States[d] : d \in Driver}
Caller == {"main", "rpc"}

None    == -1   \* not loaded, not told
Failed  == -2
Pending == -3
NoCall  == [kind |-> "none"]

Init ==
  /\ device \in {v \in [Driver -> State] : \A d \in Driver : v[d] \in States[d]}
  /\ loaded = [m \in Module |-> <<>>]
  /\ queue = [m \in Module |-> <<>>]
  /\ call = [c \in Caller |-> NoCall]
  /\ pc = "load"
  /\ lock = "free"
  /\ todo = [main |-> Driver, rpc |-> {}]
  /\ built = [c \in Caller |-> {}]
  /\ id = [d \in Driver |-> None]
  /\ state = [d \in Driver |-> None]
  /\ layers = <<>>
  /\ recent = [d \in Driver |-> {device[d]}]
  /\ stale = {}
  /\ polled = {}
  /\ refused = {}

-----------------------------------------------------------------------------
(* load_function to driver_set: find the module, or fail at once; send it  *)
(* the request with a channel for the answer.                              *)
Request(c, kind, what, i, told) ==
  LET m == ModuleOf[what]
      found == m \in Module
  IN  /\ call[c] = NoCall
      /\ call' = [call EXCEPT ![c] = [kind |-> kind, what |-> what, id |-> i, state |-> told,
                                      answer |-> IF found THEN Pending ELSE Failed]]
      /\ queue' = IF found THEN [queue EXCEPT ![m] = Append(@, c)] ELSE queue
      /\ UNCHANGED <<device, loaded>>

(* ModuleManager::receive. *)
Answered(c, kind) == call[c].kind = kind /\ call[c].answer # Pending

Receive(c) == call' = [call EXCEPT ![c] = NoCall] /\ UNCHANGED modVars

(* The instance is the last, whichever it is that was loaded. *)
BugInstance(m, i) == Len(loaded[m])

Instance(m, i) == i + 1

Load(m, r) ==
  /\ r.kind = "load"
  /\ Len(loaded[m]) < MaxLoads
  /\ loaded' = [loaded EXCEPT ![m] = Append(@, [what |-> r.what, told |-> None])]
  /\ call' = [call EXCEPT ![Head(queue[m])].answer = Len(loaded[m])]

PollDevice(m, r) ==
  /\ r.kind = "poll"
  /\ call' = [call EXCEPT ![Head(queue[m])].answer = device[loaded[m][Instance(m, r.id)].what]]
  /\ UNCHANGED loaded

Event(m, r) ==
  /\ r.kind = "event"
  /\ loaded' = [loaded EXCEPT ![m][Instance(m, r.id)].told = r.state]
  /\ call' = [call EXCEPT ![Head(queue[m])].answer = 0]

(* An error that the module returns, or an exception of Python. *)
Fail(m) ==
  /\ call' = [call EXCEPT ![Head(queue[m])].answer = Failed]
  /\ UNCHANGED loaded

(* The loop of a module's thread. *)
Serve(m) ==
  /\ queue[m] # <<>>
  /\ LET r == call[Head(queue[m])]
     IN  Load(m, r) \/ PollDevice(m, r) \/ Event(m, r) \/ Fail(m)
  /\ queue' = [queue EXCEPT ![m] = Tail(@)]
  /\ UNCHANGED <<device, pc, lock, todo, built, drvVars, layers, history>>

Change(d) ==
  /\ \E s \in States[d] \ {device[d]} :
       /\ device' = [device EXCEPT ![d] = s]
       /\ recent' = [recent EXCEPT ![d] = @ \cup {s}]
  /\ UNCHANGED <<loaded, queue, call, pc, lock, todo, built, drvVars, layers, polled, refused>>

-----------------------------------------------------------------------------
(* DriverManager::load and ExternalDriver::new: one driver after another   *)
(* is loaded and polled, and the server exits if either fails.             *)
LoadDriver(d) ==
  /\ pc = "load" /\ d \in todo.main /\ \A e \in todo.main : id[e] = None
  /\ Request("main", "load", d, None, None)
  /\ UNCHANGED <<pc, lock, todo, built, drvVars, layers, history>>

DriverLoaded ==
  /\ pc = "load" /\ Answered("main", "load")
  /\ LET r == call.main
     IN  IF r.answer = Failed
         THEN pc' = "exit" /\ id' = id
         ELSE pc' = pc /\ id' = [id EXCEPT ![r.what] = r.answer]
  /\ Receive("main")
  /\ UNCHANGED <<lock, todo, built, state, stale, layers, history>>

FirstPoll(d) ==
  /\ pc = "load" /\ d \in todo.main /\ id[d] # None
  /\ Request("main", "poll", d, id[d], None)
  /\ UNCHANGED <<pc, lock, todo, built, drvVars, layers, history>>

FirstPolled ==
  /\ pc = "load" /\ Answered("main", "poll")
  /\ LET r == call.main
     IN  IF r.answer = Failed
         THEN pc' = "exit" /\ UNCHANGED <<state, todo>>
         ELSE /\ pc' = pc
              /\ state' = [state EXCEPT ![r.what] = r.answer]
              /\ todo' = [todo EXCEPT !.main = @ \ {r.what}]
  /\ Receive("main")
  /\ UNCHANGED <<lock, built, id, stale, layers, history>>

StartBuild ==
  /\ pc = "load" /\ todo.main = {}
  /\ pc' = "build"
  /\ todo' = [todo EXCEPT !.main = BaseLayer]
  /\ UNCHANGED <<modVars, call, lock, built, drvVars, layers, history>>

-----------------------------------------------------------------------------
(* ExternalFunction::new, by the layout's builder or by add_layer: where   *)
(* it fails the layer has no function.                                     *)
Builds(c) ==
  \/ c = "main" /\ pc = "build"
  \/ c = "rpc" /\ lock = "rpc"

Build(c, f) ==
  /\ Builds(c) /\ f \in todo[c]
  /\ Request(c, "load", f, None, None)
  /\ UNCHANGED <<pc, lock, todo, built, drvVars, layers, history>>

(* A function that cannot be loaded is taken for the first of its module.  *)
BugCells(r) == {[func |-> r.what, id |-> IF r.answer = Failed THEN 0 ELSE r.answer]}

Cells(r) == IF r.answer = Failed THEN {} ELSE {[func |-> r.what, id |-> r.answer]}

Built(c) ==
  /\ Builds(c) /\ Answered(c, "load")
  /\ LET r == call[c]
     IN  /\ todo' = [todo EXCEPT ![c] = @ \ {r.what}]
         /\ built' = [built EXCEPT ![c] = @ \cup Cells(r)]
  /\ Receive(c)
  /\ UNCHANGED <<pc, lock, drvVars, layers, history>>

IsBuilt(c) == Builds(c) /\ todo[c] = {} /\ call[c] = NoCall

(* layout.json is built: the RPC starts. *)
EndBuild ==
  /\ IsBuilt("main")
  /\ pc' = "tick"
  /\ layers' = <<built.main>>
  /\ built' = [built EXCEPT !.main = {}]
  /\ UNCHANGED <<modVars, call, lock, todo, drvVars, history>>

-----------------------------------------------------------------------------
Started == pc \in {"tick", "poll"}

Takes(who) == lock = "free" /\ lock' = who

Command == Started /\ Takes("rpc") /\ UNCHANGED <<modVars, call, pc, drvVars, history>>

(* Command::AddLayer: the lock is held while the functions are built.      *)
AddLayer(layer) ==
  /\ Command
  /\ Len(layers) < MaxLayers
  /\ todo' = [todo EXCEPT !.rpc = layer]
  /\ UNCHANGED <<built, layers>>

(* A row that is too long ends add_layer after the functions of the rows   *)
(* before it have been built: they are dropped, but not by their modules.  *)
AbortLayer ==
  /\ lock = "rpc" /\ call.rpc = NoCall
  /\ lock' = "free"
  /\ todo' = [todo EXCEPT !.rpc = {}]
  /\ built' = [built EXCEPT !.rpc = {}]
  /\ UNCHANGED <<modVars, call, pc, drvVars, layers, history>>

EndLayer ==
  /\ IsBuilt("rpc")
  /\ lock' = "free"
  /\ layers' = Append(layers, built.rpc)
  /\ built' = [built EXCEPT !.rpc = {}]
  /\ UNCHANGED <<modVars, call, pc, todo, drvVars, history>>

(* Command::RemoveLayer. *)
RemoveLayer(i) ==
  /\ Started /\ lock = "free"
  /\ layers' = RemoveAt(layers, i)
  /\ UNCHANGED <<modVars, call, pc, lock, todo, built, drvVars, history>>

-----------------------------------------------------------------------------
(* layout.write().tick() *)
StartTick ==
  /\ pc = "tick" /\ todo.main = {} /\ Takes("main")
  /\ todo' = [todo EXCEPT !.main = Driver]
  /\ recent' = [d \in Driver |-> {device[d]}]
  /\ stale' = {}
  /\ UNCHANGED <<modVars, call, pc, built, id, state, layers, polled, refused>>

(* ExternalDriver::tick *)
TickDriver(d) ==
  /\ pc = "tick" /\ d \in todo.main
  /\ Request("main", "poll", d, id[d], None)
  /\ UNCHANGED <<pc, lock, todo, built, drvVars, layers, history>>

(* A poll that fails is tried again. *)
BugTicked(r) == IF r.answer = Failed THEN {} ELSE {r.what}

(* The drivers that need no further poll, and what is kept of the answer.  *)
Ticks(r) == {r.what}

BugKept(r) == r.answer

Kept(r) == IF r.answer = Failed THEN state[r.what] ELSE r.answer

DriverTicked ==
  /\ pc = "tick" /\ Answered("main", "poll")
  /\ LET r == call.main
     IN  /\ state' = [state EXCEPT ![r.what] = Kept(r)]
         /\ stale' = IF r.answer = Failed THEN stale \cup {r.what} ELSE stale
         /\ todo' = [todo EXCEPT !.main = @ \ Ticks(r)]
  /\ Receive("main")
  /\ UNCHANGED <<pc, lock, built, id, layers, history>>

EndTick ==
  /\ pc = "tick" /\ lock = "main" /\ todo.main = {} /\ call.main = NoCall
  /\ pc' = "poll"
  /\ lock' = "free"
  /\ UNCHANGED <<modVars, call, todo, built, drvVars, layers, history>>

-----------------------------------------------------------------------------
(* layout.write().poll() reaches some of the functions. *)
StartPoll ==
  /\ pc = "poll" /\ todo.main = {} /\ Takes("main")
  /\ \E reached \in SUBSET UNION ToSet(layers) :
       /\ todo' = [todo EXCEPT !.main = reached]
       /\ polled' = reached
  /\ refused' = {}
  /\ UNCHANGED <<modVars, call, pc, built, drvVars, layers, recent>>

(* ExternalFunction::event, at each poll whatever the state was before. *)
SendEvent(x) ==
  /\ pc = "poll" /\ x \in todo.main
  /\ Request("main", "event", x.func, x.id, state[Input[x.func]])
  /\ UNCHANGED <<pc, lock, todo, built, drvVars, layers, history>>

EventSent ==
  /\ pc = "poll" /\ Answered("main", "event")
  /\ LET x == [func |-> call.main.what, id |-> call.main.id]
     IN  /\ todo' = [todo EXCEPT !.main = @ \ {x}]
         /\ refused' = IF call.main.answer = Failed THEN refused \cup {x} ELSE refused
  /\ Receive("main")
  /\ UNCHANGED <<pc, lock, built, drvVars, layers, recent, polled>>

EndPoll ==
  /\ pc = "poll" /\ lock = "main" /\ todo.main = {} /\ call.main = NoCall
  /\ pc' = "tick"
  /\ lock' = "free"
  /\ UNCHANGED <<modVars, call, todo, built, drvVars, layers, history>>

-----------------------------------------------------------------------------
Main ==
  \/ \E d \in Driver : LoadDriver(d) \/ FirstPoll(d) \/ TickDriver(d)
  \/ DriverLoaded \/ FirstPolled \/ StartBuild
  \/ \E f \in BaseLayer : Build("main", f)
  \/ Built("main") \/ EndBuild
  \/ DriverTicked \/ EndTick
  \/ pc = "poll" /\ \E x \in todo.main : SendEvent(x)
  \/ EventSent \/ EndPoll

(* What the RPC does with the lock, once it has it. *)
Rpc ==
  \/ \E f \in todo.rpc : Build("rpc", f)
  \/ Built("rpc") \/ AbortLayer \/ EndLayer

Commands ==
  \/ \E layer \in AddedLayers : AddLayer(layer)
  \/ \E i \in DOMAIN layers : RemoveLayer(i)

Next ==
  \/ \E d \in Driver : Change(d)
  \/ \E m \in Module : Serve(m)
  \/ Main \/ StartTick \/ StartPoll \/ Rpc \/ Commands

(* Every task and thread runs, every call of a module returns, and the     *)
(* layout's lock, which tokio gives in the order it is asked for, is       *)
(* given to the main task in the end.                                      *)
Fairness ==
  /\ WF_vars(Main) /\ WF_vars(Rpc)
  /\ SF_vars(StartTick) /\ SF_vars(StartPoll)
  /\ \A m \in Module : WF_vars(Serve(m))

Spec == Init /\ [][Next]_vars /\ Fairness

-----------------------------------------------------------------------------
Cell == [func : Func, id : Nat]

Calls ==
  {NoCall} \cup [kind : {"load", "poll", "event"}, what : Driver \cup Func,
                 id : Nat \cup {None}, state : State \cup {None}, answer : Nat \cup {Failed, Pending}]

(* The variables keep their types; a running server has every driver       *)
(* loaded, with a state, whatever fails afterwards.                        *)
TypeOK ==
  /\ device \in [Driver -> State] /\ \A d \in Driver : device[d] \in States[d]
  /\ \A m \in Module :
       /\ loaded[m] \in Seq([what : Driver \cup Func, told : State \cup {None}])
       /\ queue[m] \in Seq(Caller)
  /\ call \in [Caller -> Calls]
  /\ pc \in {"load", "build", "tick", "poll", "exit"}
  /\ lock \in {"free"} \cup Caller
  /\ \A c \in Caller : todo[c] \subseteq Driver \cup Func \cup Cell /\ built[c] \subseteq Cell
  /\ id \in [Driver -> Nat \cup {None}]
  /\ state \in [Driver -> State \cup {None}]
  /\ layers \in Seq(SUBSET Cell)
  /\ pc \in {"build", "tick", "poll"} => \A d \in Driver : id[d] # None /\ state[d] # None

IsInstance(what, i) ==
  LET instances == loaded[ModuleOf[what]]
  IN  i + 1 \in DOMAIN instances /\ instances[i + 1].what = what

(* Each driver and each function of a layer has its own instance, however  *)
(* the loads of main task and RPC, those that fail and those of layers     *)
(* that were dropped again followed on each other.                         *)
OwnInstance ==
  /\ \A d \in Driver : id[d] # None => IsInstance(d, id[d])
  /\ \A i \in DOMAIN layers : \A x \in layers[i] : IsInstance(x.func, x.id)
  /\ \A i, j \in DOMAIN layers : i # j => layers[i] \cap layers[j] = {}

(* After a poll, each function it reached was told a state that its        *)
(* driver's hardware has had since the tick before began, unless the poll  *)
(* of the driver or the event of the function failed.                      *)
FunctionsTold ==
  pc = "tick" /\ lock # "main" =>
    \A x \in polled \ refused :
      Input[x.func] \notin stale =>
        loaded[ModuleOf[x.func]][x.id + 1].told \in recent[Input[x.func]]

(* The main task polls again and again, whatever the modules answer and    *)
(* the RPC asks for, unless the server exits as it starts.                 *)
LoopGoesOn == []<>(pc \in {"poll", "exit"}) /\ []<>(pc \in {"tick", "exit"})
=============================================================================
