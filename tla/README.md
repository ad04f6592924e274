# A TLA+ model of lmklib's key server

lmklib is the software of a Linux macro keyboard. Its core is the key server
(`src/bin/key-server`), which reads the state of inputs from drivers, looks the
functions bound to them up in a stack of layers, calls the functions, and sends
what they ask for to the host by way of an HID, to other programs, or back to
the layer stack. A configuration RPC changes the layers and the variables that
the functions use while all that runs.

This directory holds TLA+ modules of the key server, TLC configurations that
check them on small instances, and theorems that TLAPS proves for every
instance. `PROJECT.json` lists the runs, the theorems, the lines of source that
each definition stands for, and the hazards of the code.

To parse, check and prove one by hand:

    tlasany KeyServer.tla
    tlc -workers 2 -config MCKeyServer.cfg MCKeyServer
    tlapm LayerStackProofs.tla

Contents: [the system](#the-system), [the modules](#the-modules),
[the runs](#the-runs), [fairness](#fairness), [what is proved](#what-is-proved),
[what the model found](#what-the-model-found),
[what is left out](#what-is-left-out), [the plan](#the-plan).

## The system

### Threads and what they share

One process has these threads (all the paths are under
`src/bin/key-server/src` unless they say otherwise):

- the *event loop* (`main.rs` 271-275): takes the layout's write lock and ticks
  the drivers, gives it back, takes it again and polls the layout, and begins
  again at once;
- the *RPC thread* (`main.rs` 262-269, `config_rpc.rs` 66-193): serves one
  request at a time from a nanomsg REP socket and takes the layout's lock, and
  others, for each command;
- the *device thread* (`config_rpc.rs` 17-45): joins the clients' sockets to the
  server's, nothing else;
- the *HID thread* (`function/hid.rs` 192-421): reads an unbounded channel and
  writes the current HID, which is the usb gadget, uinput, or a module;
- *one thread per HID module* (`modules.rs` 355-450) and per function or driver
  module, each with a channel, the latter two with replies;
- the *MIDI thread* (`function/midi.rs` 44-177) and the *command reaper*
  (`function/cmd.rs` 29-53);
- if the screen's module is loaded, *one thread that calls its handlers* (it is
  an HID module) and the *workers of its own runtime*, which read what its
  commands write and wait for its scripts (`src/lib/ws-1in5-driver/src/lib.rs`).

The clients of the RPC are processes of their own (`src/bin/key-server-cli`), or
the screen's thread.

So what interleaves is: the RPC between a tick and a poll, or between two turns
of the loop; the HID thread and the module threads at any point of anything;
the requests of several clients, among them ones whose clients have given up;
the child processes and the tasks that read from them; the physical keys at any
time; and the end of the process, at any point.

Locks are held one within another in several places (layout, then variables or
modules). All threads take them in the same order and no cycle was found, so
there is no module about that.

### Components

| component | state it keeps | operations | interacts by | what makes it correct |
|---|---|---|---|---|
| layer stack (`layout.rs` 251-391) | `layer_stack`, `cur_layer`, `shift_from` | switch, up, down, shift, unshift, add, remove | commands returned by functions; RPC under the write lock | the current layer exists, and so does each that a shift returns to; releases restore the layer |
| event loop and poll (`main.rs`, `layout.rs` 421-567) | drivers' states, place in the scan, list of commands | tick, scan of the addresses, evaluation of commands | lock of the layout; channel to the HID thread | no panic; every change of a key is passed on, once and in order |
| layout grid (`layout.rs` 12-248, 361-386, 574-597) | addresses, the cells bound to each, layers | read, bind, build, add a layer, save | `layout.json` | addresses do not share cells; poll visits the cells that an address has; a saved layout loads |
| functions (`function/mod.rs`, `keyboard.rs`, `mouse.rs`, ...) | each a `prev_state` | `event` | messages and `ReturnCommand`s | act on edges, release what they hold |
| variables (`variables.rs`) | by name, a list of watch channels; each reader a parsed copy | get, set, update, remove, to_json; `Variable::data` | watch channels; `variables.json`, `layout.json` | one value per variable; typed; what is saved is read back |
| HID controller (`function/hid.rs`) | current HID, what each holds | hold, release, text, send, switch, command | unbounded channels | nothing stays held; the host knows what is held |
| driver cache (`driver/mod.rs`, `modules.rs` 101-162) | per driver its states as of the last tick | tick, read, set | request and reply with a module's thread | a failed tick keeps the last states |
| module manager (`modules.rs`) | loaded modules, their threads | load, find, event, poll, set | channels, condition variables | each request gets its own answer |
| configuration RPC (`config_rpc.rs`, `src/lib/key-rpc`) | none but its sockets | the commands | REQ/REP with 100 ms timeouts | each call takes effect once, at one moment, or is given up and does so at most once; a save that succeeded can be read; nothing stops the thread |
| MIDI controller (`function/midi.rs`) | notes, channels, the synthesizer's queue | note, bend, instrument, constant and by key | channel | every note that goes on goes off |
| mouse functions (`function/mouse.rs`) | `prev_state`, or the time of the last motion | move, scroll, click | channel to the HID thread | motion is reported, with what is held |
| command pool (`function/cmd.rs`) | child processes | spawn, reap | mutex | children are reaped |
| nanomsg, output, log functions, frontend | none, or a `prev_state` | `event` | external | - |
| mcp23017 driver (`src/lib/mcp23017-driver`) | pins, inputs | load, poll, set | I2C | the scan gives each key its state |
| ws-1in5 screen (`src/lib/ws-1in5-driver`) | the interface that is shown, and of each its own: a terminal with its command, lists of scripts, variables | the HID messages | RPC client, child processes, tasks that read from them | no command runs unseen; the output shown is the command's; who writes is read |
| hid-interface, gadget-service, clients | none | one shot | files, sockets | - |

### What is hard about it

Each of these is a row of "hazards" in `PROJECT.json`, with the line where it
bites and the properties that would catch it:

- shifts overlap, and are closed in another order than they were made;
- the layer changes under a key that is down, so that its release goes to
  another function;
- the RPC takes layers away while indices into them are kept;
- the layers' commands of one poll are applied after the scan, all on the state
  that the ones before leave;
- a variable is many channels and many copies, renewed at different times,
  narrowed at different times, and saved from one of them;
- files are emptied before they are written, and the server may end in between;
- a request outlives the call that it was made for, and so may its reply;
- a request that gets no reply, or makes the thread panic, must not be the end of
  the RPC, but the latter is;
- the tasks that read a command's output wait by blocking, cannot be aborted,
  never end by themselves, and share what they read;
- a switch of HID is a message among the messages, applied long after it was
  asked for, while keys are down;
- a usb report fails; a driver does not answer;
- a matrix is walked by arithmetic that is right for some of its places;
- indices that were right go out of date (`ToggleHid`, `cur_layer`).

## The modules

| module | models | its actions are |
|---|---|---|
| `LayerOps` | the operations on the layer stack, as functions on a record `[layers, cur_layer, shift_from]`, used by the next three. Indices are `usize`: `0 - 1` wraps to `UsizeMax` | (operators) |
| `LayerStack` | which layer is current, whoever asks. The abstract specification that `KeyServer` implements | `PressShift`, `ReleaseShift`, `SelectLayer`, `MoveUp`, `MoveDown`, `AppendLayer`, `DropLayer` one for each `ReturnCommand` and RPC command; `Retarget` is `SetVariable` of the layer of a Shift |
| `ShiftNesting` | `LayerStack` with history variables `base` (where the oldest open shift was made) and `nested` (has each release closed the newest shift?) | as above |
| `KeyServer` | the event loop, step by step, with driver, poll, functions, queue, HID thread and RPC | `Tick`/`TickFails`, `StartPoll`, `ScanCell` (one address of poll: find the function, call its `event`), `EvalNext` (one `ReturnCommand`), `EndPoll`; `Deliver`, `ReportFails` (the HID thread); `Actuate` (a physical key); `RpcSwitch` ... `RpcRemove` |
| `HidController` | the HID functions, the HID thread with usb, uinput and modules, the modules' threads | `Press`, `ReleaseKey` (a function's `event`), `SetModes` (RPC), `ToUsb`, `UsbSend`, `UsbSendFails`, `ToUinput`, `ToUinputFails`, `ToModule`, `Switch`, `SendCommand` (the branches of the thread, and what fails in them), `ModuleReceives`, `ModuleFails`; `Repeat` (a poll in which a ConstMove, ConstScroll, Move or Scroll moves the mouse) |
| `Variables` | channels, readers, RPC, saving, restart | `BuildLayout`, `AddFunction`, `DropFunction`, `SetVariable`, `SendNext` (an update goes to one channel after the other), `Read`, `OpenFile`, `WriteFile`, `WriteFails`, `SaveLayout`, `Restart` |
| `LayoutGrid` | `layout.json`, the grid, the walk of poll, short rows, saving | `ReadAddress`, `ReadLayer`, `Build`, `Poll`, `AddLayer`, `SaveLayout`, `Restart` |
| `Mcp23017` | the driver of the I2C expander, the server's cache of its states, and the Output and Flip functions | `BuildBindings`, `SetUp` (one binding), `StartTick`, one for each I2C transfer of a scan (`RaiseRow`, `ReadCell`, `LowerRow`, `ReadInput`) and for its failure (`MatrixFails`, `InputFails`), `ReadOutput`, `EndTick`; `Press`, `ReleaseKey` (a function's `event`); `Toggle` (a physical contact) |
| `Modules` | driver and function modules with their threads, the drivers' states, external functions, the main task from its start, and the RPC's adding and removing of layers | `Serve` (a module answers one request), `LoadDriver`, `FirstPoll`, `StartBuild`, `EndBuild` (start), `StartTick`, `TickDriver`, `EndTick`, `StartPoll`, `SendEvent`, `EndPoll` (the loop), each request with an action for its answer; `AddLayer`, `Build`, `Built`, `AbortLayer`, `EndLayer`, `RemoveLayer` (RPC); `Change` (the hardware) |
| `Midi` | the MIDI functions, their parameters, the controller and the synthesizer | `Press`, `ReleaseKey` (an `event` of Note, ConstPitchBend, Instrument), `Bend` (one of PitchBend), each with its message sent or lost; `SetParam` (RPC) |
| `RpcCommands` | what each command does and answers, as functions on a record `[lay, value]` and on the files; it uses `LayerOps` | (operators) |
| `RpcCalls` | what the RPC promises its clients. The abstract specification that `ConfigRpc` implements | `Invoke`, `TakeEffect` (a call's one moment), `BeginSave`, `Return`, `GiveUp`, `Forget`, `Crash`, `Restart` |
| `ConfigRpc` | the clients' calls and their timeouts, the queue of requests, the RPC thread step by step, the files, a server that ends and starts again | `Invoke`, `Return`, `Timeout` (a client); `DropInvalid`, `Serve`, `CreateFile`, `WriteFile`, `WriteReply` (the thread); `Crash`, `Restart` |
| `Processes` | the screen's change of interfaces, its terminal and its script interface, the reader and waiter tasks on the workers of its runtime, the command pool, and the processes with their pipes | `ChangeState`, `RunCommand`, `CheckStarted`, `PollCommand`, `KillCommand`, `CloseOutput`, `ChoosePage`, `LeavePage`, `RunScript`, `RunLast` (the screen's handlers); `Start`, `ReadLine`, `Eof`, `ScriptReap` (tasks); `Bash`, `PoolReap` (the pool); `Write`, `End`, `Broken` (a process) |
| `LayerOpsProofs` | lemmas about the operators of `LayerOps`, for the three modules that use them | |
| `LayerStackProofs`, `KeyServerProofs`, `HidControllerProofs`, `ConfigRpcProofs`, `ModulesProofs`, `Mcp23017Proofs`, `MidiProofs` | the theorems; the first is also about `ShiftNesting` and `Variables`, the second also about `Processes`, and the last also about `LayoutGrid` | |
| `MC...` | one for each module that is checked, with the values of the constants | |

How they fit. `KeyServer` uses the same `LayerOps` as `LayerStack` and is shown
to implement it (`LayersImplement`, `INSTANCE LayerStack WITH ...`): `LayerStack`
says what the layers do if each operation is one step and each Shift function
sees both edges of its key, and `KeyServer` shows that collecting commands
during a scan and evaluating them afterwards, with the RPC in between polls,
amounts to that. The refinement mapping takes for "held" the Shift functions
whose `prev_state` is high, but for those whose command is still in poll's list.
`HidController` takes up where the `queue` of `KeyServer` ends, with all kinds of
messages and HIDs and every call that may fail, and assumes what `KeyServer` is about (that a function sees
both edges). `Mcp23017` is what is behind `KeyServer`'s `Tick`: there a tick
copies the inputs in one step or fails, here it is a sequence of transfers
during which the contacts change. `Modules` is what lies between the two: the
requests that a tick and an event of an external function are made of, with
several drivers. `Midi` is another of the ends that functions
have, beside `HidController`, and the command pool of `Processes` is a third. The
rest of `Processes` takes up where a message of `HidController` reaches the
screen's module. `ConfigRpc` is how the RPC's actions in `KeyServer`, `Variables`
and `LayoutGrid` come about: there a command is one step at any time, and
`ConfigRpc` implements `RpcCalls`, in which that is what a command is. It serves
all commands on one layer stack and one variable, and leaves to the other
modules what the event loop does meanwhile. `Variables` and `LayoutGrid` stand for the parts of the state that
`KeyServer` keeps constant.

### How state and actions correspond to the code

- A function is an object in a layer with a `prev_state`. The models keep the
  set of those whose `prev_state` is high (`down`, `held`). A u16 state is
  abstracted to whether it is high; the functions modelled compare it with
  nothing else.
- A lock held over a whole operation makes it one action. In `KeyServer`, poll
  is many actions under one lock (so that the HID thread, which takes none, may
  run within it), and `LockFree` keeps the RPC out of it.
- A panic of the event loop is a state with no step of the loop (`pc =
  "panicked"`, `alive = FALSE`, `status = "panicked"`); the other threads go on.
- An I2C transfer that fails may have taken effect or not; nothing is repeated.
- A call to a HID that fails is logged and not repeated. A report of usb leaves
  the host with the one before (`ReportFails`, `UsbSendFails`). A press or release
  on uinput is lost, and a text there goes on with its next key, so that any of
  its items may be left down (`ToUinputFails`). A call into a module, or the
  sending of the message to it, is lost (`ModuleFails`).
- A layer that the RPC adds may hold any function, Shift and Key functions
  included. Its functions are objects, each with a `prev_state`, so that a layer
  of the stack is its functions with a number (`no`) that tells it from another
  that was made from the same ones.
- A parameter that a function's constructor maps (`Variable::map`) is built from a
  text of one type and renewed from texts of another. `Parses` has the texts of
  the first, `Reads` those of the second, and `Mapping` and `Unmapping` are what
  the constructor and `ftype` make of a value.
- `report` is what the host was last told, `pressed` and `held` what the HID
  library's `Keyboard` and `Mouse` hold. These libraries are not in the
  repository and are modelled from how `hid.rs` uses them.
- A save is two steps where the code opens the file (which empties it) and then
  writes it (`OpenFile`, `WriteFile` in `Variables`; `CreateFile`, `WriteFile` in
  `ConfigRpc`, where a crash may come between). `Variables!SaveLayout` and
  `LayoutGrid!SaveLayout` take one step for `layout.json`, as what they are about
  is what a save that succeeded contains.
- A call of the RPC is the message in its client's socket (`call`), the one in
  the server's queue (`queue`) and what the thread has of it (`request`,
  `reply`). The sockets of a client are told apart by `n`, as each call makes a
  new one. The device and the transport keep the requests in order and lose
  none while both ends live. A socket connects again after 100 ms, when its call
  has been given up, so that a request is not repeated to a server that has
  started again.
- A command that a screen runs is the sequence of lines that it writes and to
  which stream. A task of the runtime is where it is: queued, at a read of one
  of the streams, waiting for a child, ended. `Child::kill` succeeds and reaps
  nothing; a terminal's command that was killed is never waited for.
- History variables (`base`, `nested`, `kept`, `settled`, `saved`, `failed`,
  `shared`, `seen`, `low`, `missed`, `want`, `unsure`, `lost`, `bender`, `given`, the field
  `by` of a command, `recent`, `stale`, `polled`, `refused`, `served`, `read`, `behind`) are read by properties only, never by a
  guard, but for `missed` of `HidController`, of which the bound `FewMissed` is.
- Definitions whose names begin with `Bug` are plausible errors in the code;
  nothing uses them. Each property is shown to fail when one of them replaces
  the definition after it (`mutants` in `PROJECT.json`).

### Careful operators

The server lets the RPC remove any layer, change the target of a Shift or the
note of a Note whose key is down, and make a ToggleHid's list shorter, and lets
a function switch the HID while keys are down. Each of these can break it. So
that the rest can be said, `LayerStack`, `KeyServer`, `HidController` and `Midi` have
two specifications: `Spec`, in which anything that the code accepts happens, and
`CarefulSpec`, which differs in the guards of these commands alone. The careful
operator of `KeyServer` removes a layer only if the RPC added it, if it is above
the current layer and above every layer that an open shift returns to, and if
none of its functions is down (a Key that is removed while it is down is never
released). Without them:

- the current top layer is removed, `cur_layer` is left beyond the stack
  (`layout.rs` 335-343), and poll's slice of the layers (545) panics: `LoopLives`
  fails under `KeyServer!Spec`;
- a key that is down while the HID is switched is released on the new HID and
  stays held on the old one (`function/hid.rs` 398): `HeldIsDown` fails under
  `HidController!Spec`;
- a Note whose note is set while its key is down releases another note than it
  played (`function/midi.rs` 677): `NotesEnd` fails under `Midi!Spec`.

## The runs

| run | module, specification | bounds | shows |
|---|---|---|---|
| `layer_stack` | `LayerStack` via `ShiftNesting`, careful | 3 Shift keys (two share one variable), up to 4 layers, 3 open shifts | `LayerInRange`, `ShiftRecordsMatchHeld`, `NestedReleaseRestores` |
| `key_server` | `KeyServer`, careful, fair | 2 inputs, a row of 2 cells, 2 layers and one more of two kinds, queue of 2 | `LoopLives`, `HidAgrees`, `LayersImplement`, `ReportFollows` |
| `stuck_key` | the same | the same | a violation: `KeyActsNormal` |
| `variables` | `Variables`, `VarSpec` | 2 names, 3 readers of which 2 are mapped, 3 texts of 2 types, up to 3 channels per name | `ReadersShareValue`, `SavedSurvive` |
| `hid_controller` | `HidController`, careful | 9 functions, of which 2 may be down at once, 3 items, of which 1 may be missed at a time, usb, uinput and a module, 2 unread messages before an event | `HeldIsDown`, `ReportCurrent` |
| `layout_grid` | `LayoutGrid`, `GridSpec` | a 3 by 2 grid, all files of up to 2 addresses | `EachHasItsCells`, `PollsWhatIsBound`, `GridSurvives` |
| `modules` | `Modules`, fair | 2 drivers of one module, 2 functions of another and one of none, 2 layers, 2 instances per module | `OwnInstance`, `FunctionsTold`, `LoopGoesOn` |
| `mcp23017` | `Mcp23017`, `Spec` | 2 chips, 4 lists of up to 4 bindings, 3 functions | `ScanTruthful`, `RowsRecover`, `OutputKept` |
| `ghost_key` | the same | the same | a violation: `PointIsItsKey` |
| `midi` | `Midi`, careful | two layouts of 3 functions, 2 channels, 4 states of a PitchBend | `NotesEnd`, `LastBendEnds`, `BendFollows` |
| `processes` | `Processes`, fair | 2 commands on 2 workers, 2 kinds of command, pipes of 1 line | `NothingRunsUnseen`, `OutputExplained`, `EndedReaped`, `WritersServed` |
| `config_rpc` | `ConfigRpc`, fair | 2 clients with 2 calls each, of 5 and 4 commands | `ReadsStay`, `CallsImplement`, `RequestsServed` |

Each passing run checks its module's type invariant as well.

Why the bounds are enough:

- *Layer stack.* What goes wrong with shifts needs two open shifts and a third
  to be released between them; two keys with one target are needed to tell "the
  last entry to this layer" from "the entry of this key". Four layers leave one
  above every target. The theorems then have no bound.
- *Key server.* The layers of `layout.json` are a Shift beside a Key, and above
  them a layer that lets the Shift through and covers the Key with a Switch back.
  One of the layers that the RPC may add has a Key and a Shift of its own: its
  functions are down, and its shift is open, while the layer moves in and out of
  sight, and it is removed and added again. The other has a Down, and an empty
  cell through which the layer's own Key is found again. So there are two Shifts
  to one layer and two Keys. The cells are bound in another order than the
  grid's, so that the order of the scan and of the evaluation differ from the
  order of the cells. Poll goes on if fewer than two messages are unread, so that
  a change and its report wait while the next is sent. No row of the run is
  short, so that `LoopLives` has its hypothesis `FullRows`.
- *Variables.* Two readers of one name are the least that can disagree, and that
  an update reaches one after the other, with a third that is alone; the third
  channel of a name is one that a dropped reader left behind. The reader that is
  alone is a period, built from milliseconds, which then reads Durations only;
  one of the others is a velocity, which narrows one of the two numbers to the
  other when it is built and not when it is updated.
- *HID controller.* Every kind of function once; a modifier that a text, a
  shortcut and a key all use; a mouse button; an item with no uinput code; a
  toggle whose list goes through a module, a name that no HID has and uinput. A
  shortcut puts six messages in the queue at once, so that the bound on when
  events are taken still lets many be unread. Two functions down at once
  (`MaxDown`) are an item that is held and whatever interferes with it or
  switches; a text, a shortcut or a switch has done what it does when its key
  goes down. One item of one HID may be missed at a time (`MaxMissed`), and any
  number after one another. The mouse moves in one message or in two before its report.
- *Layout grid.* Widths 0 to 3, roots up to one beyond the grid and sizes up to
  4 in a grid of 3 by 2 give each of the comparisons both outcomes at its
  boundary, with two addresses for overlaps.
- *mcp23017.* Two rows are the least that one can be mistaken for another; they
  are on two chips and the matrix is inverted. A binding before the matrix and
  outputs after it make offsets matter. A Flip and an Output function act on
  the same output, so that either may come first in a poll, and an Output
  function is bound to an index of the matrix. The other two lists use a pin
  twice, and a pin of a chip that there is not.
- *Modules.* Two drivers of one module have the numbers 0 and 1, and so have a
  function of `layout.json` and one of the added layer, unless a load fails or a
  layer is dropped half built. The hardware of the second driver does not change
  and has a state of its own, so that an answer for the wrong driver shows. Of
  the layer that is added one function has no module. Any request may fail.
- *Midi.* Two Notes that may share a note, the second of two bends on the same
  channel as the first or on the other, of the same amount or not, and a
  PitchBend between them, of scale 1, 3/2 (inverted) or -1. Notes and bends have no state in common, so that they
  are in different layouts. The states given are the least, the greatest and
  the two next to the middle.
- *Processes.* Two commands on two workers are the least with which two readers
  that never end take all of them; two readers are the least that can mix their
  lines. One command fills the pipe of stderr and its reader's buffer
  (`PipeSize` 1) while its reader waits for stdout; the other ends its reader by
  a line that is no UTF-8 and then writes to a pipe that is closed. Both may be
  run in the terminal or as a script, twice, and a command of the pool may take
  the place of either.
- *Configuration RPC.* Two calls of one client are the least of which the second
  may get the first one's answer, or be overtaken by it; two clients the least of
  which one reads what the other changes. The commands given are of every sort
  that the thread tells apart: one that only reads, one that removes a layer and
  so makes a later one panic, both saves, the setting of a variable, and one
  that gets no reply. The other commands differ from these in what
  `RpcCommands` says of them alone.

Deadlock is checked in all of them but `processes` and `config_rpc`: the physical
keys, or a restart, may always move. In those two the commands and the calls are
used up in the end, a server whose `layout.json` is torn does not start again,
and nothing is left to happen.

### What the properties say

- `LayerInRange`: the layers that poll and unshift index without a check exist.
- `ShiftRecordsMatchHeld`: for each layer, as many open shifts as Shift keys to
  it that are down; none is lost and none is left over. It relates the stack of
  shifts to the keys however they overlap, duplicates included.
- `NestedReleaseRestores`: shifts closed in the opposite order to that in which
  they were made restore the layer, whatever the RPC did in between.
- `HidAgrees`: the functions' `prev_state`, the queue, and what the HID thread
  holds are consistent at every point of every interleaving, with layers added
  and removed between. What is held, a function holds down, without exception;
  what a function holds down is held unless two functions have had that key at
  once (`shared`), for the release of one is a release of both. What is held, the
  host was told, unless the last report failed.
- `LayersImplement`: `KeyServer` implements `LayerStack`.
- `ReportFollows` (liveness): a Key that poll goes on to find has its state
  reported to the host in the end, unless the last report failed.
- `HeldIsDown`, `ReportCurrent`: what the HIDs hold and what the host knows, of
  keys, buttons and motion, against what the functions hold down, over switches,
  texts and shortcuts; a failed report is the only way for the host to be out of
  date, and a failed call the only way for an HID to hold what no function does,
  of the items of that call alone and until the next call about them that
  succeeds. That two functions of one item, or a text and a Hold, release it for
  each other is how the code is, and `Shared` leaves it out of one of the two
  directions. `TypeOK` of `HidController` says as well that the event loop survives a
  ToggleHid whose list is made longer.
- `ReadersShareValue`, `SavedSurvive`: the variable seen through its channels,
  copies and files is one value: a reader that has nothing unseen has the value
  that GetVariable answers, or while an update goes from channel to channel and
  has not reached its own, the one before, and no other. It says so of the values
  that the type of the reader's updates accepts, which for a mapped reader is not
  the type that it was built with. `VarTypeOK` of `Variables` says that it is typed,
  also after a restart with a file saved while it was not.
- `EachHasItsCells`, `PollsWhatIsBound`, `GridSurvives`: the grid, as bound, as
  polled, as saved and as read back.

- `ScanTruthful`: each state that the functions are given is how its contact was
  at some point of the scan, whatever changed or failed meanwhile.
- `RowsRecover`: a failure leaves a row high for one scan at most.
- `OutputKept`: what an output was set to, what its pin has, what the driver
  answers and what the cache has agree, though a Flip looks at the cache alone.

- `OwnInstance`: the numbers by which modules know their instances stay right,
  whichever loads failed and whichever layers were dropped or removed.
- `FunctionsTold`: from the hardware through two modules, two requests, the
  drivers' states and the RPC's commands in between, what a function is told is
  no older than the tick before, unless the code logged a failure.
- `LoopGoesOn` (liveness): no failure and no command of the RPC stops the loop.

- `NothingRunsUnseen`: over changes of interface, to the terminal itself as well,
  kills, failed starts and ends at the wrong moment, the terminal never loses
  the handle of a command that runs.
- `OutputExplained`: what is shown as a command's output has its lines in order
  and without gaps, from both streams; the only foreign lines are those that
  earlier commands' readers had not yet read when it was started. The run shows
  that they occur.
- `EndedReaped`, `WritersServed` (liveness): what has ended is waited for and what
  writes is read, but for what the model shows to happen: all workers taken by
  readers that never end, and a reader that waits for the wrong stream.

- `CallsImplement`: `ConfigRpc` implements `RpcCalls`. The moment of a call is when
  it is served or its file is written. The mapping takes from the history
  variable `served` what the thread has decided and not yet written back, and
  for late requests those in the queue, or being saved, whose calls are over.
- `ReadsStay`: a client that has given up a SetVariable and then reads the
  variable does not see its old request take effect afterwards: the one thread
  serves a client's requests in their order.
- `RequestsServed` (liveness): neither a request that gets no reply nor a client
  that has gone keeps the thread from the next, unless it has panicked for a
  layer that does not exist (`layout.rs` 396), which ends the RPC, and nothing
  else of the server, for good.

- `NotesEnd`: no note sounds without a key, however many keys share it.
- `LastBendEnds`: the amount alone tells overlapping bends apart well enough for
  the channel bent last.
- `BendFollows`: the two halves of the arithmetic of a PitchBend meet.

## Fairness

Four specifications have fairness. In `KeyServer!CarefulSpec` the steps of the
event loop and of the HID thread are weakly fair: they are threads that the
system schedules and none of these steps waits for anything but its own data
(the lock of the layout is held by the RPC for one command at a time). `Tick` is
strongly fair: a call of a driver may fail, and fail again, but a driver that is
asked again and again answers again and again; without it the states would
never change, and nothing could be said about the host. Of the HID thread it is
that it goes on which is fair (`HidThread`), not that its reports get through:
each may fail, and all of them may. The keys and the RPC are
not fair: nobody need press or ask anything. `ReportFollows` assumes of a Key only
what the code makes necessary, that poll goes on to find it (`[]<>Finds(k)`), and
`stuck_key` shows what happens otherwise.

In `Modules!Spec` the steps of the main task, of the RPC once it has the lock, and
of the modules' threads are weakly fair: tasks and threads are scheduled, and
each call of a module is assumed to return, with a result or an error, of which
neither is fair (a module may fail for ever). To take the lock is strongly
fair for the main task, for the RPC may take it in between any number of times:
tokio's lock is given in the order in which it is asked for. The RPC need not
ask, and the hardware need not change.

In `ConfigRpc!Spec` the steps of the RPC thread are weakly fair: it is scheduled,
and gets the locks in the end. Clients need not call, and whether a reply reaches
a client before its timeout is left open.

In `ProcSpec` the pool's thread, the tasks that have begun, and the end of a
command that writes to a closed pipe are weakly fair. The start of a task is
strongly fair: a worker that is free takes tasks from the runtime's queue, and
others may take it in between, but none is passed over for ever. The commands
themselves are not fair: one need not write, and need not end.

## What is proved

Each theorem is about every value of the constants: any number of layers, keys,
functions, items, clients, commands, drivers, modules, messages, bindings and rows
of a matrix, and any bounds. The assumptions are those of the modules, named there.

| module | theorem | says |
|---|---|---|
| `LayerStackProofs` | `TypeCorrect` | `Spec => []TypeOK`, for any operator |
| | `LayerInRangeCorrect` | `CarefulSpec => []LayerInRange` |
| | `ShiftRecordsCorrect` | `CarefulSpec => []ShiftRecordsMatchHeld` |
| | `NestTypeCorrect` | `NestSpec => []NestTypeOK` |
| | `NestedReleaseCorrect` | `NestSpec => NestedReleaseRestores` |
| `LayerStackProofs`, of `Variables` | `VariablesTypeCorrect` | `VarSpec => []VarTypeOK` |
| | `ReadersShareValueCorrect` | `VarSpec => []ReadersShareValue` |
| | `SavedSurviveCorrect` | `VarSpec => SavedSurvive` |
| `KeyServerProofs` | `TypeCorrect` | `Spec => []TypeOK`, for any operator |
| | `LoopLivesCorrect` | `FullRows => (CarefulSpec => []LoopLives)` |
| | `HidAgreesCorrect` | `CarefulSpec => []HidAgrees` |
| | `LayersImplemented` | `LS!TargetsExist => (CarefulSpec => LayersImplement)` |
| `KeyServerProofs`, of `Processes` | `ProcessesTypeCorrect` | `ProcSpec => []ProcTypeOK` |
| | `NothingRunsUnseenCorrect` | `ProcSpec => []NothingRunsUnseen` |
| | `OutputExplainedCorrect` | `ProcSpec => []OutputExplained` |
| `HidControllerProofs` | `ReportCorrect` | `Spec => []ReportCurrent`, for any operator |
| | `TypeCorrect` | `CarefulSpec => []TypeOK` |
| | `HeldCorrect` | `CarefulSpec => []HeldIsDown` |
| `ConfigRpcProofs` | `TypeCorrect` | `Spec => []TypeOK` |
| | `ReadsStayCorrect` | `Spec => []ReadsStay` |
| | `CallsImplemented` | `Spec => CallsImplement` |
| `ModulesProofs` | `TypeCorrect` | `Spec => []TypeOK` |
| | `OwnInstanceCorrect` | `Spec => []OwnInstance` |
| | `FunctionsToldCorrect` | `Spec => []FunctionsTold` |
| `Mcp23017Proofs` | `TypeCorrect` | `Spec => []TypeOK` |
| | `ScanTruthfulCorrect` | `Spec => []ScanTruthful` |
| | `RowsRecoverCorrect` | `Spec => []RowsRecover` |
| | `OutputKeptCorrect` | `Spec => []OutputKept` |
| `MidiProofs` | `MidiTypeCorrect` | `Spec => []TypeOK`, for any operator |
| | `MidiNotesEnd` | `CarefulSpec => []NotesEnd` |
| | `MidiLastBendEnds` | `CarefulSpec => []LastBendEnds` |
| | `MidiBendFollows` | `Spec => BendFollows`, for any operator |
| `MidiProofs`, of `LayoutGrid` | `GridTypeCorrect` | `GridSpec => []GridTypeOK` |
| | `EachHasItsCellsCorrect` | `GridSpec => []EachHasItsCells` |
| | `PollsWhatIsBoundCorrect` | `GridSpec => []PollsWhatIsBound` |
| | `GridSurvivesCorrect` | `GridSpec => []GridSurvives` |

Two theorems have a hypothesis on the constants besides the modules'
assumptions. `FullRows`: a layer that the RPC adds has a function for every cell;
`add_layer` does not ask it (`layout.rs` 361-376), and without it the loop does
panic. `LS!TargetsExist`: the layer of each Shift function, also of the layers that the
RPC adds, is one of `layout.json`; this is looked at neither when that is read nor
when a layer is added, and a Shift to a layer that is not there is ignored, while
its release may close another Shift's entry. `TypeCorrect` of
`HidController` is of `CarefulSpec` because `TypeOK` says as well that the event
loop lives and that a toggle's place is one of its modes, which the RPC may
break by making the list of modes shorter. The theorems about
`Variables`, `LayoutGrid` and `Processes` are in modules that extend another component
as well, with which they share nothing; the names that every component has, such as
`Init` and `TypeOK`, have a prefix in these three.

What the assumptions stand for: `BindingsAssumption` (`KeyServer`) says that no
cell is bound twice, which is what `EachHasItsCells` of `LayoutGrid` shows of the
layout that is built; `FunctionAssumption` and `LayersAssumption`, that layers
are named by indices, that a layer of `layout.json` has all its cells, and that
one that the RPC may add is a sequence of functions, of any kind and length;
`BoundsAssumption`, that `layout.json` has no more layers than the bound on them
(`MaxLayers`) and that finitely many layers are offered to the RPC;
`ReaderAssumption` (`Variables`), that what a constructor makes of a value it was
given is of the type that the reader then has, and that what `ftype` makes of
that is of the type that it is built from;
`ShortcutAssumption` (`HidController`), that what a shortcut presses are keys and
modifiers, never buttons, as the types of its fields say; `ValueAssumption` (`RpcCommands`), that
no value is the model's mark of an unset variable.

### The layer stack

1. `TypeOK` is inductive. Its lemmas, in `LayerOpsProofs`, say that each operator
   of `LayerOps` maps a well-typed stack to one; `unshift` and its search for the
   newest shift to a layer are the only ones that need more than their definition.
2. `LayerInRange` needs a strengthening: that every Shift key's target exists,
   without which a shift would be made to no layer, and `TypeOK`. Removing a
   layer preserves it because a careful operator removes only above every index
   in use.
3. `ShiftRecordsMatchHeld` is an equality of two cardinalities per layer. A press
   adds one key to one and one entry to the other; a release removes one of
   each, because the equality itself says that there is an entry to be found;
   removing the entry from the middle of the sequence shifts those above it
   down by one, and a bijection between the places before and after keeps the
   counts for the other layers. A layer that is retargeted moves no key that is
   down. The proof needs that all keys that are down have a target that exists.
4. `NestedReleaseRestores` needs the strengthening that, as long as every release
   has closed the newest shift, the oldest open shift starts at `base`.

### The event loop

1. `TypeOK` is inductive: a function that poll finds is one of a layer of the
   stack (`Places`), so that messages are about keys of a Key function there.
2. `LayersInv` adds that the stack keeps at least as many layers as `layout.json`
   has (a careful operator removes only what was added), that all indices in use
   exist, and that what is down is a Shift or a Key function of a layer that is
   in the stack. With `FullRows`, no cell is missing from a layer that is there, so
   no scan panics (`LivesInv`).
3. `HidAgrees` needs `HidInv`: for each key, the last message about it in the
   queue, or what the thread holds if there is none, is a hold only if a function
   of that key is down, and is one if a function is and no two had the key at once
   (`Agrees`); keys that two functions of the stack have are among those
   (`SharedIn`); and the queue ends with a report, or is empty and the host is up to
   date, or the last report failed (`ReportPending`). Removing
   a layer preserves it because none of its functions is down.
4. `LayersImplement`: the commands that poll has collected and not yet evaluated
   are at most one for each function, of cells already scanned, and each fits
   whether its function is down (`CommandsInv`). The functions that are settled,
   as the refinement mapping has it, match the open shifts one to one
   (`ShiftsSettled`); this is what `LayerStack` proves of its own `held` and is
   needed here for the release of a Shift to find its entry. Then each action
   is one of `LayerStack` or a stutter.

### The HID controller

1. `ReportCurrent`: every change in the queue has its report behind it, before
   any switch of HIDs (`PendingReported`), and for each device the host is up to
   date, or the last report failed, or one is in the queue and will be written
   to usb (`ReportInv`).
2. `HeldIsDown`: whatever is held and not missed (`Sure`), or is about to be, is
   released later in the same queue or its function is down and nothing that is
   queued moves the release to another HID (`LeaveInv`); and what one function
   alone holds down is on its way to the current HID, or held or missed by it
   (`May`), with no release behind it (`KeepInv`). A call that fails makes its item
   a missed one, which leaves `Sure` no larger and `May` no smaller; one that
   succeeds and is about the item makes it sure again (`ThreadDelivers`,
   `ModuleTakes`). Both are about queues of any length, through which a message
   passes from the controller's queue to that of a module.

### The configuration RPC

1. `OrderInv` orders what belongs to a client in the queue, in the thread and in
   its call: requests are queued in the order of their numbers, all later than
   the last that has taken effect and none later than the client's calls; an
   answer is the reply to the request of its number.
2. `ReadsStay` needs that nothing is queued by which the client would set the
   variable (`ReadInv`).
3. `CallsImplement`: with `OrderInv`, `Serve` and `WriteFile` are the moment at
   which a call takes effect, `CreateFile` is `BeginSave`, and the other actions
   are those of their names or stutter. `RpcCalls` states no fairness, so that
   this is the whole of the property.

### The module manager

The invariant (`Inv` of `ModulesProofs`) says for each task what it can be waiting
for where it is (`CallInv`), that an answer, once given, stays true until it is
taken (`AnswerInv`): the instance loaded is there and is what was asked for, the
state polled is one the hardware has had since the tick began, the function told
has the state of the event. That stays true because only the caller itself could
ask for an event of an instance that it is about to get, and an instance in use
is never replaced. `ApartInv` keeps the cells that tasks are building apart from
each other and from those in use; `ToldInv` says of the functions that a poll has
reached so far what `FunctionsTold` says when it has ended.

### Mcp23017

`Offset`, the index of a binding's first state, is the number of states of the
bindings before it, `Cardinality(Before(n))`, so that it needs no induction over the
list: `OffsetNext` says that it grows by the binding's own, and from that
`SpansApart` that the ranges of `pin_map` never overlap. `PointAt` and `PointIn` say
which contact the k-th state of a matrix is of, for any width and height. The
invariant `Inv` is about the middle of a scan:

1. `PinsInv`: the pins of a binding that is set up are its own, and those in output
   mode are the ones that are written. It comes from `Reuses`, which refuses a pin
   that is used again, and it is what keeps bindings from disturbing each other.
2. `ScanInv`: what has been read so far is as long as the bindings that have been
   passed, and `map` has their ranges; within a matrix it is as long as the rows and
   columns that have been passed.
3. `RowsInv`: a matrix that has been read has no row high; the one that is being
   read has none that it has left; and if the scan began with every row low, none is
   high but the one that is looked at. `RowsRecover` follows when the scan ends.
4. `TruthInv`: each state read so far is in `seen` with its contact. The hard step is
   `ReadCell` (`CellIsSo`): an input is high if it has a contact with any row that is
   high, and by 1 and 3 only one row that its column has contacts with can be.
   `ScanTruthful` follows when the scan ends. Without `low` it is false, which the run
   `ghost_key` shows.
5. `OutputInv`: an output's pin and the state that it remembers are what it was set
   to. `set` finds the binding by its range (`FindIs`: one at most, and of an output
   its own index), so that it changes no other (`SetOnly`); a scan changes rows only,
   which by 1 are no outputs. `OutputKept` follows when the scan ends.

### Midi

1. `TypeOK` of `Midi` is inductive. The one hard fact is that the bend of a
   PitchBend function is at most 16384 (`BendInRange`): its clamped value is in
   `-d .. d`, and each branch is a quotient whose dividend is at most `16384 * d`.
2. `NotesEnd` is inductive, given `TypeOK`: a NoteOff ends its note however many
   keys hold it, and any other note keeps the key that held it.
3. `LastBendEnds` needs what the code relies on when it compares `last_bend`
   (`LastKnown`): unless the last bend was not sent, its channel is bent by
   `last_bend`. So a key that is released without being the last cannot be the
   one that accounts for the bend.
4. `BendFollows` is about the bends of two states. The clamped value is monotone
   in the state (`ClampedOrdered`, `ProductsOrdered`), the quotient of each half is
   monotone in it (`QuotientsOrdered`), and the halves meet at 8192, which the one
   never exceeds and the other never falls below (`BendOrdered`). `PitchInv` says
   that a channel that a PitchBend function bent last has the bend of the state
   that the function was last given.

### Variables

1. `VarInv` adds to `VarTypeOK` that each variable of variables.json has a channel, that
   no reader is twice in the stack or in `layout.json`, that while the layout is
   built the stack has the readers of `layout.json` so far, and that an update under
   way has passed the first channel while no layout is built and nothing saved
   (`SendingAlone`). A reader is dropped from its one place, and the others keep
   theirs.
2. `ReadersShareValue` needs `ShareInv`: the channels that an update has reached have
   the text of the first, and those that it has not have that of the last, which
   is the value before (`ChannelsAgree`); and a reader that has nothing unseen has
   the text of its channel or what it is mapped to (`HasValue`), if the type of its
   updates accepts that. So the text of a reader's channel is what it was told
   (`Told`). A new channel is given the value of the first; one that a dropped
   reader left is renewed with the others.
3. `SavedSurvive` needs `SaveInv`. Only the first channel of a name matters to it, as
   values are saved from that one, so that of an update only the first step does.
   The definitions that are about to be written are
   those of the variables (`PendingNow`), so that the file has what is then said
   to be kept (`FileKept`); all readers of a variable that was settled are in
   `layout.json` with one default (`SettledIn`); and while the layout is built again, a
   variable has the value of `variables.json`, or that of the first of its readers
   that is built (`Starting`). After a server that ended with `variables.json`
   emptied, there are only the layout's variables, of which what was settled is known.

### Layout grid

1. `GridInv` is `GridTypeOK`, `EachHasItsCells` and `AllProper`: an address that is bound
   has a width that is not 0 and fits the grid. An address of `layout.json` becomes
   addresses that are apart from each other (`ExpandType`), and the cells of one that
   fits are cells of the grid, by what a quotient and a remainder are bounded by
   (`CellInGrid`). So binding them, numbered from the last one on, gives each cell
   to one (`BindEffect`).
2. What poll walks is what was bound: from the left edge, the k-th cell of the walk is
   at `k % width` and `k \div width` below the root (`WalkIsBound`). The walk is a
   recursive function, and so is the number of cells of a layer that the RPC adds
   (`CellsIn`). Both are followed by an induction over an interval that is stated
   with a set, the numbers for which it holds (`IntervalInduction`), because the
   library's induction takes an operator.
3. `PollsWhatIsBound` needs `Explained`: the loop panics only at a matrix off the
   left edge or at a short layer. A cell of a matrix at the left edge has an index
   within every full layer (`IndexInGrid`).
4. `GridSurvives` needs `SizesFit`, that no layer has more cells than the grid, and
   `SavedInv`: the addresses in a saved file claim the cells of the grid as it was
   saved (`SavedAs`), and while it is read, what is bound are the addresses up to
   the place read (`ReadSoFar`). None of them is then refused (`SavedCanBind`), and
   neither is a full layer, which is saved in rows of the grid's width
   (`ChunksCells`, `ChunksFull`).

### Processes

1. `ProcInv` adds to `ProcTypeOK` that no more lines were read from a pipe than were
   written to it, and that the handler that sleeps has a command to look at when it
   wakes. Every step does one thing to the processes (`Grown`): some may have
   written more, ended, or been started.
2. `NothingRunsUnseen` is inductive with it. A step leaves the terminal's command, and
   starts none for it (`Steady`), or the terminal runs none after it, and the one
   that it ran has ended (`StopsCommand`), or it starts one when it ran none (`StepKinds`).
   That no other command runs by then is the invariant itself.
3. `OutputExplained` needs three facts about the command that the terminal runs.
   `TaskKind`: a task that reads is that of a terminal's command. `RunIsOwn`: its
   reader was not aborted, and any other that has not ended was counted as late when
   stdout was emptied, so whose lines are in stdout is known. `OrderInv`: the lines of it in
   stdout are the good ones among the first that it wrote to each stream
   (`ReadFirst`), as many as were read. An aborted reader loses the line that it has
   read, which is why `RunIsOwn` is needed for `OrderInv`. Once the output is shown
   only what was written grows (`OutputStep`).

## What is only model-checked

- `ReportFollows`, `LoopGoesOn`, `RequestsServed`, `EndedReaped` and
  `WritersServed`, because liveness under fairness is out of the prover's reach.

Every other property that a passing run checks is stated by a theorem.

## What the model found

Two runs expect a violation; each states what a comment says and finds that the
code does otherwise (`findings` in `PROJECT.json`):

1. `stuck_key`: a Key that is covered by another layer while it is down stays
   down for the host.
2. `ghost_key`: a transfer that fails while a row of a matrix is high leaves it
   high, and in the next scan its keys read as keys of the other rows.

Seen while modelling, and not worth a run each:

- two Shift keys released in the order in which they were pressed leave the
  keyboard on a shifted layer with no key down (`layout.rs` 316-326), which is why
  `NestedReleaseRestores` speaks of the opposite order;
- a ConstPitchBend that is released leaves its channel bent all the way down
  (`function/midi.rs` 716-722), or as it was if another channel was bent since,
  which is why `LastBendEnds` speaks of the channel bent last;
- `threshold < threshold` is never true (`function/mouse.rs` 211, 268): with a
  threshold that is not above 0, Move and Scroll move at every poll;
- the list of bork scripts is never filled, as its loop fills the one of ducky
  scripts (`src/lib/ws-1in5-driver/src/lib.rs` 1585): no bork script is ever run;
- a terminal's command that was killed is never waited for, and stays a zombie as
  long as the server runs (the same file, from 1320);
- `abort` does not end a reader, which waits by blocking; at the end of both
  streams it spins, and holds a worker of the runtime for good;
- a Layer command after a RemoveLayer that left `cur_layer` beyond the stack ends
  the RPC thread (`layout.rs` 396);
- a server that ends between the two steps of SaveLayout does not start again
  (`config_rpc.rs` 149, `main.rs` 256-258);
- a screen whose Variables interface is entered again keeps the focus that it had
  (`focus_x` is not reset), where `src/lib/ws-1in5-driver/README.md` 23 begins at
  the first;
- the queue to the HID thread has no bound: an HID that blocks lets it grow with
  every event (`function/hid.rs` 194). A matrix of width 0 is divided by before
  its size is checked (`layout.rs` 98). A matrix that cannot be read is given as
  zeros and not as an error (`src/lib/mcp23017-driver/src/lib.rs` 438). Two Flips
  of one output in one poll both look at the cache of the tick before;
- the README says that a matrix "takes a list of inputs from a driver and binds
  them in a grid with a given width on the layout"
  (`src/bin/key-server/README.md` 101), wherever its root is; poll walks it so
  only at the left edge (`layout.rs` 463), which is why `PollsWhatIsBound` is
  about such matrices alone;
- an external function that its module cannot load leaves an empty cell, and a
  layout that is saved then has lost it (`modules.rs` 83, `layout.rs` 583);
- a module is never told that a function is dropped, so that each layer added and
  removed leaves its instances in their modules (`layout.rs` 340, 371-373);
- the comment on `Input::new` says that `on_state` "will invert High to Low when
  true" (`src/lib/mcp23017-driver/src/lib.rs` 257); the code inverts when it is
  false (275);
- a Note's velocity is narrowed to "0-127" when the function is built
  (`function/midi.rs` 662-663), but not when its variable is set later
  (`variables.rs` 144-147);
- a variable that names the period of a ConstScroll or Scroll, or the note of a
  Note, is read once as the milliseconds, or the Note, that it is; the constructor
  then maps the reader (`function/mouse.rs` 121-122, 245-247, `function/midi.rs`
  661), and every later value is parsed as a Duration, or as a number
  (`variables.rs` 140-154). A text that built the reader is then an update that
  it logs and ignores, which is why `ReadersShareValue` speaks of the texts that
  the reader's updates may be;
- a text or the release of a key on uinput that fails leaves keys held there until
  the next message about them (`function/hid.rs` 237-380), as a report of usb that
  fails leaves the host with the one before (386);
- `src/lib/mcp23017-driver/README.md` 9 says that the x pins of a matrix are
  outputs and the y pins inputs, and `src/lib/mcp23017-driver/src/lib.rs` 155-157
  the opposite;
- `threshold` of a PitchBend is never read; a state of 0 makes it send 16384, one
  more than a bend may be, and a scale of 0 sends 0 rather than "8192 is no bend"
  (`function/midi.rs` 751-777).

## What is left out

- The functions that send to nanomsg sockets (`function/nng.rs`): a message per
  event, serialised from the state, and no state but the socket, which is
  external. The same holds of Log.
- The mcp3008 driver, which reads eight channels of a chip over SPI on request:
  pure I/O, with no state that outlives a call.
- `frontend.rs` (parses a file once, at start), the installer of the gadget
  (external commands once, in order), the hid-interface (forwards the writes to
  its files to an external library), `kout`, and the interface of modules
  (declarations).
- Of the screen: drawing, the editing of text and the cursors, which depend on
  font metrics, the pages of a long output, the `ctl` modifier, and the branch in
  which `try_wait` gives an error. Text and cursors decide which command is run,
  and the model runs any.
- The numbers of Move and Scroll: by how much the mouse moves is a sigmoid in
  floating point. That it moves, and when that is reported, is modelled.
- How values are converted to and from Python and JSON, but for what is
  narrowed or refused.
- The libraries for HID, MIDI and nanomsg, which are submodules or crates that
  the repository does not contain.
- Texts and names character by character: a text of a function is the set of items
  that are pressed and released for it, one of a variable is whether each reader
  accepts it and what the reader makes of it, a name is a model value. What a
  module does with a text is its own matter: it is taken to leave nothing down.
- That poll skips an address whose driver there is not (`layout.rs` 534-536):
  `KeyServer` and `LayoutGrid` have the addresses that poll does visit.
- Build modes: `cur_layer - 1` is modelled as in a release build (`cross.sh`),
  where it wraps.
- Constant parameters of functions, which have no state.
- A specification of a driver's tick as one step: `ScanTruthful` says what it
  would say.

## The plan

Done: the modules that the plan names are all there, and every safety property and
refinement that a run checks is proved.

Left to prove, none of which a run checks yet: that `Modules` implements an abstract
specification of one driver and one function, in which a load is one step; and that
`Variables` implements one register for each name.
