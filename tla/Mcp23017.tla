------------------------------ MODULE Mcp23017 ------------------------------
(***************************************************************************)
(* A driver of the key server, from the wires to the functions: the module *)
(* mcp23017-driver, which scans and sets the pins of its chips over I2C,   *)
(* the cache of its states in the server (ExternalDriver, modules.rs) and  *)
(* the functions that set outputs (Output and Flip, function/output.rs).   *)
(*                                                                         *)
(* The event loop waits for the answer to each call of the driver, so that *)
(* a scan never overlaps the functions. The contacts of a matrix open and  *)
(* close at any time, also during a scan, and any I2C transfer may fail.   *)
(*                                                                         *)
(* A state is whether it is high: the driver knows only 0 and u16::MAX.    *)
(***************************************************************************)
EXTENDS Naturals, FiniteSets, Sequences, SequencesExt

CONSTANTS
  Chips,        \* how many chips the driver has
  Configs,      \* the driver's data: the lists of bindings that it may be given
  Function,     \* the keys that are bound to an Output or a Flip function
  Def           \* what each of them does

Pin == 0 .. 16 * Chips - 1

Matrix == [kind : {"Matrix"}, x : Seq(Nat), y : Seq(Nat), invert : BOOLEAN]
Input  == [kind : {"Input"}, pin : Nat, on_state : BOOLEAN]
Output == [kind : {"Output"}, pin : Nat]

Definition == [kind : {"Output"}, idx : Nat, value : BOOLEAN] \cup [kind : {"Flip"}, idx : Nat]

ASSUME ChipsAssumption == Chips \in Nat
ASSUME ConfigsAssumption ==
  /\ Configs \subseteq Seq(Matrix \cup Input \cup Output)
  /\ \A config \in Configs : \A n \in DOMAIN config :
       config[n].kind = "Matrix" => config[n].x # <<>> /\ config[n].y # <<>>
ASSUME FunctionAssumption == Def \in [Function -> Definition]

VARIABLES
  config,       \* the bindings, MCP23017Driver.pins once they are set up
  phase,        \* "load", "tick" (the driver scans), "poll" (the functions act),
                \*   "failed" (the server did not start)
  at,           \* the binding to be set up next; 0 before and after the load
  outputs,      \* the pins in output mode
  high,         \* the output pins that are high
  out,          \* Output.state of the bindings that are an Output
  scan,         \* where the scan is and what it has read, see Scan
  pin_map,      \* MCP23017Driver.pin_map
  state,        \* ExternalDriver.state
  down,         \* the functions whose prev_state is high
  polled,       \* the functions that have had an event in this poll
  closed,       \* external: the contacts <<input, output>> of matrices that are
                \*   closed and the single inputs <<pin>> that are high
  seen,         \* history: each contact with each way it was during the last scan
  low,          \* history: whether that scan began with every row low
  missed,       \* history: the bindings that it could not read
  want,         \* history: what each output, by index, was last set to
  unsure        \* history: the output pins whose last write failed

chipVars    == <<outputs, high, out>>
driverVars  == <<scan, pin_map, state>>
historyVars == <<seen, low, missed, want, unsure>>
vars == <<config, phase, at, chipVars, driverVars, down, polled, closed, historyVars>>

-----------------------------------------------------------------------------
(* The pins of a binding; of a matrix, those that are read and those, one  *)
(* for each row, that are set high in turn.                                *)
PinsOf(b) == IF b.kind = "Matrix" THEN b.x \o b.y ELSE <<b.pin>>

Columns(b) == IF b.invert THEN b.y ELSE b.x
Rows(b)    == IF b.invert THEN b.x ELSE b.y

(* The contacts of a binding in the order of its states. *)
Points(b) ==
  IF b.kind = "Matrix"
  THEN LET width == Len(Columns(b))
       IN  [k \in 1 .. width * Len(Rows(b)) |->
              <<Columns(b)[((k - 1) % width) + 1], Rows(b)[((k - 1) \div width) + 1]>>]
  ELSE <<<<b.pin>>>>

OfKind(kind) == {n \in DOMAIN config : config[n].kind = kind}

(* The index of the first state of a binding: how many states the bindings *)
(* before it have.                                                         *)
Before(n) == UNION {{m} \X DOMAIN Points(config[m]) : m \in 1 .. n - 1}

Offset(n) == Cardinality(Before(n))

Contacts == UNION {ToSet(Points(config[n])) : n \in OfKind("Matrix") \cup OfKind("Input")}

AllRows == UNION {ToSet(Rows(config[n])) : n \in OfKind("Matrix")}

-----------------------------------------------------------------------------
NewScan == [n |-> 1, row |-> 1, column |-> 0, part |-> <<>>, reading |-> <<>>, map |-> <<>>]

Init ==
  /\ config \in Configs
  /\ phase = "load"
  /\ at = 0
  /\ outputs = {}
  /\ high = {}
  /\ out = [n \in OfKind("Output") |-> FALSE]
  /\ scan = NewScan
  /\ pin_map = <<>>
  /\ state = <<>>
  /\ down = {}
  /\ polled = {}
  /\ closed = {}
  /\ seen = {}
  /\ low = TRUE
  /\ missed = {}
  /\ want = [idx \in {Offset(n) : n \in OfKind("Output")} |-> FALSE]
  /\ unsure = {}

(* A contact opens or closes. *)
Toggle(q) ==
  /\ closed' = SymDiff(closed, {q})
  /\ seen' = IF phase = "tick" THEN seen \cup {<<q, q \notin closed>>} ELSE seen
  /\ UNCHANGED <<config, phase, at, chipVars, driverVars, down, polled, low, missed, want, unsure>>

-----------------------------------------------------------------------------
(* from_data: the pins are looked at, then the chips are reset, then the   *)
(* bindings are set up one by one.                                         *)
Fails == phase' = "failed" /\ UNCHANGED <<at, chipVars>>

BuildBindings ==
  /\ phase = "load"
  /\ at = 0
  /\ \/ /\ \A n \in DOMAIN config : ToSet(PinsOf(config[n])) \subseteq Pin
        /\ at' = 1
        /\ UNCHANGED <<phase, chipVars>>
     \/ Fails
  /\ UNCHANGED <<config, driverVars, down, polled, closed, historyVars>>

(* A pin may be used again. *)
BugReuses(n) == FALSE

Reuses(n) ==
  LET pins == PinsOf(config[n])
      used == UNION {ToSet(PinsOf(config[m])) : m \in 1 .. n - 1}
  IN  ~IsInjective(pins) \/ ToSet(pins) \cap used # {}

(* The columns of a matrix are set up as outputs. *)
BugOutputPins(b) ==
  CASE b.kind = "Matrix" -> ToSet(Columns(b))
    [] b.kind = "Output" -> {b.pin}
    [] OTHER             -> {}

OutputPins(b) ==
  CASE b.kind = "Matrix" -> ToSet(Rows(b))
    [] b.kind = "Output" -> {b.pin}
    [] OTHER             -> {}

SetUp ==
  /\ phase = "load"
  /\ at \in DOMAIN config
  /\ \/ /\ ~Reuses(at)
        /\ at' = at + 1
        /\ outputs' = (outputs \ ToSet(PinsOf(config[at]))) \cup OutputPins(config[at])
        /\ high' = high \ OutputPins(config[at])
        /\ UNCHANGED <<phase, out>>
     \/ Fails
  /\ UNCHANGED <<config, driverVars, down, polled, closed, historyVars>>

(* The server polls a driver when it has loaded it and then, in the event  *)
(* loop, once before each poll of the layout.                              *)
StartTick ==
  /\ \/ phase = "load" /\ at > Len(config) /\ at' = at
     \/ phase = "poll" /\ at' = 0
  /\ phase' = "tick"
  /\ scan' = NewScan
  /\ polled' = {}
  /\ seen' = {<<q, q \in closed>> : q \in Contacts}
  /\ low' = (AllRows \cap high = {})
  /\ missed' = {}
  /\ UNCHANGED <<config, chipVars, pin_map, state, down, closed, want, unsure>>

-----------------------------------------------------------------------------
(* MCP23017Driver::poll, one I2C transfer after another.                   *)
Binding == config[scan.n]

Reading(kind) == phase = "tick" /\ scan.n \in DOMAIN config /\ Binding.kind = kind

(* On to the next binding, with the states that this one has been read as. *)
Moved(values) ==
  [n       |-> scan.n + 1,
   row     |-> 1,
   column  |-> 0,
   part    |-> <<>>,
   reading |-> scan.reading \o values,
   map     |-> Append(scan.map, [start |-> Len(scan.reading),
                                 end   |-> Len(scan.reading) + Len(values)])]

(* A binding that cannot be read has no states. *)
BugZeros(count) == <<>>

Zeros(count) == [k \in 1 .. count |-> FALSE]

(* A binding that cannot be read has every state 0. *)
Missed ==
  /\ scan' = Moved(Zeros(Len(Points(Binding))))
  /\ missed' = missed \cup {scan.n}

ScanFrame ==
  UNCHANGED <<config, phase, at, outputs, out, pin_map, state, down, polled, closed,
              seen, low, want, unsure>>

RowPin == Rows(Binding)[scan.row]

RaiseRow ==
  /\ Reading("Matrix")
  /\ scan.column = 0
  /\ high' = high \cup {RowPin}
  /\ scan' = [scan EXCEPT !.column = 1]
  /\ UNCHANGED missed
  /\ ScanFrame

(* What an input reads, while its row and perhaps others are high. *)
InputIsHigh(pin) == \E o \in high : <<pin, o>> \in closed

ReadCell ==
  /\ Reading("Matrix")
  /\ scan.column \in DOMAIN Columns(Binding)
  /\ scan' = [scan EXCEPT !.column = @ + 1,
                          !.part = Append(@, InputIsHigh(Columns(Binding)[scan.column]))]
  /\ UNCHANGED <<high, missed>>
  /\ ScanFrame

(* Rows are left high. *)
BugAfterRow == high

AfterRow == high \ {RowPin}

LowerRow ==
  /\ Reading("Matrix")
  /\ scan.column > Len(Columns(Binding))
  /\ high' = AfterRow
  /\ scan' = IF scan.row = Len(Rows(Binding))
             THEN Moved(scan.part)
             ELSE [scan EXCEPT !.row = @ + 1, !.column = 0]
  /\ UNCHANGED missed
  /\ ScanFrame

(* A transfer fails, and with it the reading of the matrix: its row stays  *)
(* as it is. One that was to set the row may have done so nevertheless.    *)
MatrixFails ==
  /\ Reading("Matrix")
  /\ \/ UNCHANGED high
     \/ scan.column = 0 /\ high' = high \cup {RowPin}
     \/ scan.column > Len(Columns(Binding)) /\ high' = high \ {RowPin}
  /\ Missed
  /\ ScanFrame

ReadInput ==
  /\ Reading("Input")
  /\ scan' = Moved(<<(<<Binding.pin>> \in closed) = Binding.on_state>>)
  /\ UNCHANGED <<high, missed>>
  /\ ScanFrame

InputFails ==
  /\ Reading("Input")
  /\ Missed
  /\ UNCHANGED high
  /\ ScanFrame

(* An output is not read but remembered. *)
ReadOutput ==
  /\ Reading("Output")
  /\ scan' = Moved(<<out[scan.n]>>)
  /\ UNCHANGED <<high, missed>>
  /\ ScanFrame

EndTick ==
  /\ phase = "tick"
  /\ scan.n > Len(config)
  /\ phase' = "poll"
  /\ pin_map' = scan.map
  /\ state' = scan.reading
  /\ UNCHANGED <<config, at, chipVars, scan, down, polled, closed, historyVars>>

-----------------------------------------------------------------------------
(* MCP23017Driver::set: the first binding whose range has the index ...    *)
Find(idx) == {n \in DOMAIN pin_map : pin_map[n].start <= idx /\ idx < pin_map[n].end}

Written(pin, value) == IF value THEN high \cup {pin} ELSE high \ {pin}

(* ... which remembers its state, whether or not it can be written.        *)
SetOutput(n, value) ==
  LET pin == config[n].pin
  IN  /\ out' = [out EXCEPT ![n] = value]
      /\ \/ high' = Written(pin, value) /\ unsure' = unsure \ {pin}
         \/ high' \in {high, Written(pin, value)} /\ unsure' = unsure \cup {pin}

(* Only an Output can be set. *)
Set(idx, value) ==
  /\ IF Find(idx) # {} /\ config[Min(Find(idx))].kind = "Output"
     THEN SetOutput(Min(Find(idx)), value)
     ELSE UNCHANGED <<out, high, unsure>>
  /\ want' = [i \in DOMAIN want |-> IF i = idx THEN value ELSE want[i]]

(* ExternalDriver::poll, of the cache. *)
Cached(idx) == idx + 1 \in DOMAIN state /\ state[idx + 1]

(* FunctionInterface::event of an Output or a Flip function. *)
Press(f) ==
  /\ phase = "poll" /\ at = 0
  /\ f \notin down \cup polled
  /\ Set(Def[f].idx, IF Def[f].kind = "Flip" THEN ~Cached(Def[f].idx) ELSE Def[f].value)
  /\ down' = down \cup {f}
  /\ polled' = polled \cup {f}
  /\ UNCHANGED <<config, phase, at, outputs, driverVars, closed, seen, low, missed>>

ReleaseKey(f) ==
  /\ phase = "poll"
  /\ f \in down \ polled
  /\ down' = down \ {f}
  /\ polled' = polled \cup {f}
  /\ UNCHANGED <<config, phase, at, chipVars, driverVars, closed, historyVars>>

-----------------------------------------------------------------------------
Next ==
  \/ \E q \in Contacts : Toggle(q)
  \/ BuildBindings
  \/ SetUp
  \/ StartTick
  \/ RaiseRow \/ ReadCell \/ LowerRow \/ MatrixFails
  \/ ReadInput \/ InputFails \/ ReadOutput
  \/ EndTick
  \/ \E f \in Function : Press(f)
  \/ \E f \in Function : ReleaseKey(f)

Spec == Init /\ [][Next]_vars

-----------------------------------------------------------------------------
Span == [start : Nat, end : Nat]

Scan ==
  [n : Nat, row : Nat, column : Nat, part : Seq(BOOLEAN), reading : Seq(BOOLEAN), map : Seq(Span)]

TypeOK ==
  /\ config \in Configs
  /\ phase \in {"load", "tick", "poll", "failed"}
  /\ at \in 0 .. Len(config) + 1
  /\ high \subseteq outputs /\ outputs \subseteq Pin
  /\ out \in [OfKind("Output") -> BOOLEAN]
  /\ scan \in Scan
  /\ pin_map \in Seq(Span)
  /\ state \in Seq(BOOLEAN)
  /\ down \subseteq Function /\ polled \subseteq Function
  /\ closed \subseteq Contacts
  /\ seen \subseteq Contacts \X BOOLEAN
  /\ low \in BOOLEAN
  /\ missed \subseteq DOMAIN config
  /\ want \in [{Offset(n) : n \in OfKind("Output")} -> BOOLEAN]
  /\ unsure \subseteq Pin

(* The contacts whose states the last scan has read. *)
ReadPoints(n) ==
  IF phase = "poll" /\ n \notin missed THEN DOMAIN Points(config[n]) ELSE {}

StateWasSo(n, k) ==
  LET value == state[Offset(n) + k]
      was   == IF config[n].kind = "Input" THEN value = config[n].on_state ELSE value
  IN  <<Points(config[n])[k], was>> \in seen

(* What the functions are given is how each contact really was at some     *)
(* point of the last scan, wherever in the list its binding is, however    *)
(* the contacts changed meanwhile and whatever bindings could not be read, *)
(* if no row was high when the scan began.                                 *)
ScanTruthful ==
  low => \A n \in OfKind("Matrix") \cup OfKind("Input") :
           \A k \in ReadPoints(n) : StateWasSo(n, k)

(* What the driver says of a matrix: "Each y pin is set high then the x    *)
(* pins are scanned and, high inputs are taken as on and low are off for   *)
(* that point in the matrix."                                              *)
PointIsItsKey == \A n \in OfKind("Matrix") : \A k \in ReadPoints(n) : StateWasSo(n, k)

(* A row that a failure leaves high is low again after the next scan in    *)
(* which the matrix can be read, so that it spoils no scan after that.     *)
RowsRecover ==
  phase = "poll" => \A n \in OfKind("Matrix") \ missed : ToSet(Rows(config[n])) \cap high = {}

(* The outputs that functions have set since the last tick. *)
Touched == {Def[f].idx : f \in polled \cap down}

(* A scan never disturbs an output, and what an output was set to is what  *)
(* its pin has, if it could be written, and what the server next polls.    *)
OutputKept ==
  \A n \in OfKind("Output") :
    LET idx == Offset(n)
    IN  /\ phase \in {"tick", "poll"} /\ config[n].pin \notin unsure =>
             ((config[n].pin \in high) <=> want[idx])
        /\ phase = "poll" /\ idx \notin Touched => (Cached(idx) <=> want[idx])
=============================================================================
