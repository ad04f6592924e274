-------------------------------- MODULE Midi --------------------------------
(***************************************************************************)
(* The MIDI functions (Note, ConstPitchBend, PitchBend, Instrument), the   *)
(* controller that they share, and the synthesizer (function/midi.rs).     *)
(*                                                                         *)
(* A function waits, with the controller locked, until the controller's    *)
(* thread has sent its message or has failed to, so that an event is one   *)
(* step; a message that is not sent is logged and lost. The parameters are *)
(* variables, which the RPC sets at any time. Each function sees both      *)
(* edges of its key.                                                       *)
(***************************************************************************)
EXTENDS Integers, FiniteSets

CONSTANTS
  Channel,
  Function,
  Layouts,      \* the sets of functions that the layout may consist of
  Kind,         \* the kind of each function
  Params,       \* what the parameters of each function may be set to
  Given,        \* the states that a PitchBend function may be given
  NoBend        \* last_bend before the first bend

Kinds == {"Note", "ConstPitchBend", "PitchBend", "Instrument"}

U7  == 0 .. 127
U8  == 0 .. 255
U16 == 0 .. 65535

NoteParam  == [channel : Channel, note : U8, velocity : U8]
ConstParam == [channel : Channel, bend : U16]
ProgramParam == [channel : Channel, program : U7]
(* The scale is the fraction scale / unit; threshold is never read. *)
PitchParam == [channel : Channel, invert : BOOLEAN, scale : Int, unit : Nat \ {0}]

ParamOf(kind) ==
  CASE kind = "Note"           -> NoteParam
    [] kind = "ConstPitchBend" -> ConstParam
    [] kind = "PitchBend"      -> PitchParam
    [] kind = "Instrument"     -> ProgramParam

ASSUME LayoutsAssumption == Layouts \subseteq SUBSET Function
ASSUME KindAssumption == Kind \in [Function -> Kinds]
ASSUME ParamsAssumption ==
  /\ DOMAIN Params = Function
  /\ \A f \in Function : \A p \in Params[f] : p \in ParamOf(Kind[f])
ASSUME GivenAssumption == Given \subseteq U16
ASSUME NoBendAssumption == NoBend \notin U16

VARIABLES
  down,         \* the functions whose prev_state is high
  param,        \* what each function of the layout reads its variables as
  last_bend,    \* MidiController.last_bend
  sounding,     \* external: the notes <<channel, note>> that the synthesizer plays
  bend,         \* external: the bend of each of its channels
  program,      \* external: the instrument of each of its channels
  lost,         \* history: the notes whose last message was not sent
  astray,       \* history: the channels whose last bend was not sent
  bender,       \* history: the function and the channel of the last bend, or <<>>
  given         \* history: the state that each PitchBend function was last given
                \*   since its parameters were set, or -1

synth   == <<sounding, bend, program>>
history == <<lost, astray, bender, given>>
vars    == <<down, param, last_bend, synth, history>>

Bound == DOMAIN param

OfKind(kind) == {f \in Bound : Kind[f] = kind}

(* "8192 is no bend" *)
Straight == 8192

(* What new narrows, each time that a function is built. *)
Narrowed(p) ==
  [p EXCEPT !.bend = IF p.bend > 16383 THEN 16383 ELSE p.bend]

Built(f) == IF Kind[f] = "ConstPitchBend" THEN {Narrowed(p) : p \in Params[f]} ELSE Params[f]

Init ==
  /\ down = {}
  /\ \E layout \in Layouts :
       param \in {p \in [layout -> UNION {Built(f) : f \in layout}] :
                     \A f \in layout : p[f] \in Built(f)}
  /\ last_bend = NoBend
  /\ sounding = {}
  /\ bend = [c \in Channel |-> Straight]
  /\ program = [c \in Channel |-> 0]
  /\ lost = {}
  /\ astray = {}
  /\ bender = <<>>
  /\ given = [f \in OfKind("PitchBend") |-> -1]

-----------------------------------------------------------------------------
(* hold_note and release_note; a NoteOn with velocity 0 is a NoteOff. *)
SendNote(f, on, sent) ==
  LET note == <<param[f].channel, param[f].note>>
  IN  /\ sounding' = CASE ~sent -> sounding
                       [] sent /\ on -> sounding \cup {note}
                       [] sent /\ ~on -> sounding \ {note}
      /\ lost' = IF sent THEN lost \ {note} ELSE lost \cup {note}
      /\ UNCHANGED <<last_bend, bend, program, astray, bender>>

(* MidiController::pitch_bend, which remembers the amount even if it       *)
(* cannot be sent.                                                         *)
SendBend(f, amount, sent) ==
  LET channel == param[f].channel
  IN  /\ last_bend' = amount
      /\ bend' = IF sent THEN [bend EXCEPT ![channel] = amount] ELSE bend
      /\ astray' = IF sent THEN astray \ {channel} ELSE astray \cup {channel}
      /\ bender' = <<f, channel>>
      /\ UNCHANGED <<sounding, program, lost>>

SendProgram(f, sent) ==
  /\ program' = IF sent THEN [program EXCEPT ![param[f].channel] = param[f].program] ELSE program
  /\ UNCHANGED <<last_bend, sounding, bend, lost, astray, bender>>

SendNothing == UNCHANGED <<last_bend, synth, lost, astray, bender>>

-----------------------------------------------------------------------------
(* FunctionInterface::event of all but PitchBend, when a key goes down ... *)
Press(f, sent) ==
  /\ f \notin down
  /\ CASE Kind[f] = "Note"           -> SendNote(f, param[f].velocity > 0, sent)
       [] Kind[f] = "ConstPitchBend" -> SendBend(f, param[f].bend, sent)
       [] Kind[f] = "Instrument"     -> SendProgram(f, sent)
  /\ down' = down \cup {f}
  /\ UNCHANGED <<param, given>>

(* The comparison is the wrong way round. *)
BugIsLast(f) == last_bend = NoBend \/ last_bend # param[f].bend

(* A bend is taken back only if it is the last. *)
IsLast(f) == last_bend \in {NoBend, param[f].bend}

(* A NoteOn is sent again. *)
BugRelease(f, sent) ==
  CASE Kind[f] = "Note"                        -> SendNote(f, param[f].velocity > 0, sent)
    [] Kind[f] = "ConstPitchBend" /\ IsLast(f) -> SendBend(f, 0, sent)
    [] OTHER                                   -> SendNothing

Release(f, sent) ==
  CASE Kind[f] = "Note"                        -> SendNote(f, FALSE, sent)
    [] Kind[f] = "ConstPitchBend" /\ IsLast(f) -> SendBend(f, 0, sent)
    [] OTHER                                   -> SendNothing

(* ... and when it comes up. *)
ReleaseKey(f, sent) ==
  /\ f \in down
  /\ Release(f, sent)
  /\ down' = down \ {f}
  /\ UNCHANGED <<param, given>>

-----------------------------------------------------------------------------
(* PitchBend, in fractions of Denominator(p). The code calculates in f64,  *)
(* which may round to the next whole bend.                                 *)
Denominator(p) == 16383 * p.unit

(* Only from below. *)
BugClamped(n, d) == IF n < -d THEN -d ELSE n

Clamped(n, d) == IF n > d THEN d ELSE IF n < -d THEN -d ELSE n

Val(p, state) ==
  Clamped((IF p.invert THEN 16383 - 2 * state ELSE 2 * state - 16383) * p.scale, Denominator(p))

(* The sign is lost. *)
BugBendOf(p, state) ==
  LET d == Denominator(p)
      n == Val(p, state)
  IN  CASE n < 0 -> ((d + n) * 8192) \div d
        [] n > 0 -> (8193 * d - 8190 * n) \div d
        [] n = 0 -> 0

BendOf(p, state) ==
  LET d == Denominator(p)
      n == Val(p, state)
  IN  CASE n < 0 -> ((d - n) * 8192) \div d
        [] n > 0 -> (8193 * d - 8190 * n) \div d
        [] n = 0 -> 0

(* PitchBend::event, at every poll. *)
Bend(f, state, sent) ==
  /\ SendBend(f, BendOf(param[f], state), sent)
  /\ given' = [given EXCEPT ![f] = state]
  /\ UNCHANGED <<down, param>>

(* Command::SetVariable of a parameter. *)
SetParam(f, p) ==
  /\ param' = [param EXCEPT ![f] = p]
  /\ given' = [g \in DOMAIN given |-> IF g = f THEN -1 ELSE given[g]]
  /\ UNCHANGED <<down, last_bend, synth, lost, astray, bender>>

-----------------------------------------------------------------------------
Keys == Bound \ OfKind("PitchBend")

Events ==
  \/ \E f \in Keys, sent \in BOOLEAN : Press(f, sent)
  \/ \E f \in Keys, sent \in BOOLEAN : ReleaseKey(f, sent)
  \/ \E f \in OfKind("PitchBend"), state \in Given, sent \in BOOLEAN : Bend(f, state, sent)

Next == Events \/ \E f \in Bound : \E p \in Params[f] : SetParam(f, p)

(* An operator who sets the parameters of a function only while it is up.  *)
CarefulNext == Events \/ \E f \in Bound \ down : \E p \in Params[f] : SetParam(f, p)

Spec        == Init /\ [][Next]_vars
CarefulSpec == Init /\ [][CarefulNext]_vars

-----------------------------------------------------------------------------
Note == Channel \X U8

TypeOK ==
  /\ Bound \in Layouts
  /\ down \subseteq Keys
  /\ \A f \in Bound : param[f] \in ParamOf(Kind[f])
  /\ last_bend \in U16 \cup {NoBend}
  /\ sounding \subseteq Note
  /\ bend \in [Channel -> U16]
  /\ program \in [Channel -> U7]
  /\ lost \subseteq Note
  /\ astray \subseteq Channel
  /\ (bender = <<>> \/ bender \in Function \X Channel)
  /\ given \in [OfKind("PitchBend") -> Given \cup {-1}]

(* A note that sounds is that of a Note function whose key is down, unless *)
(* the last message of it was lost, however many functions share the note. *)
NotesEnd ==
  sounding \ lost \subseteq {<<param[f].channel, param[f].note>> : f \in OfKind("Note") \cap down}

(* The channel that a ConstPitchBend was the last to bend is bent as much  *)
(* as one that is down says, or not at all as far as the code is concerned *)
(* (0), however many overlap and whatever was lost before.                 *)
LastBendEnds ==
  /\ bender # <<>>
  /\ Kind[bender[1]] = "ConstPitchBend"
  /\ bender[2] \notin astray
  => \/ bend[bender[2]] = 0
     \/ \E f \in OfKind("ConstPitchBend") \cap down :
          param[f].channel = bender[2] /\ param[f].bend = bend[bender[2]]

(* A PitchBend function bends its channel the further one way the higher   *)
(* its state, on both sides of the middle and whatever its scale; a        *)
(* negative scale turns the way about, as invert does.                     *)
Rises(p) == p.invert <=> p.scale >= 0

BendFollows ==
  [][ \A f \in OfKind("PitchBend") :
        /\ bender = <<f, param[f].channel>> /\ bender' = bender
        /\ given[f] # -1 /\ given[f] <= given'[f]
        /\ param[f].channel \notin astray \cup astray'
        => IF Rises(param[f])
           THEN bend[param[f].channel] <= bend'[param[f].channel]
           ELSE bend[param[f].channel] >= bend'[param[f].channel] ]_vars
=============================================================================
