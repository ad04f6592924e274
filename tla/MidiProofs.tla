----------------------------- MODULE MidiProofs -----------------------------
(* Theorems about module Midi, for any channels, functions and layouts,    *)
(* and for everything that their parameters may be set to; and, in the     *)
(* second half, about LayoutGrid.                                          *)
EXTENDS Midi, LayoutGrid, TLAPS, FiniteSetTheorems, WellFoundedInduction

(* A clamped value is one of -d .. d. *)
LEMMA ClampedInRange ==
  ASSUME NEW n \in Int, NEW d \in Nat \ {0}
  PROVE  Clamped(n, d) \in -d .. d
BY DEF Clamped

(* A quotient is bounded if its dividend is. *)
LEMMA QuotientInRange ==
  ASSUME NEW x \in Nat, NEW d \in Nat \ {0}, NEW b \in Nat, x <= b * d
  PROVE  x \div d \in 0 .. b
<1> DEFINE q == x \div d
<1>1. q \in Int /\ q * d <= x /\ x < (q + 1) * d
  BY SMTT(30)
<1> HIDE DEF q
<1>2. q >= 0
  BY <1>1, SMTT(30)
<1>3. q <= b
  BY <1>1, SMTT(30)
<1>4. QED
  BY <1>1, <1>2, <1>3 DEF q

Bends == 0 .. 16384

(* Whatever the state, the scale and whether it is inverted, a bend is one *)
(* of 0 .. 16384: the cast to u16 never saturates.                         *)
LEMMA BendInRange ==
  ASSUME NEW p \in PitchParam, NEW state \in U16
  PROVE  BendOf(p, state) \in Bends
<1> DEFINE d == Denominator(p)
           n == Val(p, state)
<1>1. d \in Nat \ {0}
  BY DEF Denominator, PitchParam
<1>2. n \in -d .. d
  <2> DEFINE m == IF p.invert THEN 16383 - 2 * state ELSE 2 * state - 16383
  <2>1. m \in Int /\ p.scale \in Int
    BY DEF PitchParam, U16
  <2> HIDE DEF m
  <2>2. m * p.scale \in Int
    BY <2>1
  <2>3. QED
    BY <1>1, <2>2, ClampedInRange DEF Val, m
<1>3. BendOf(p, state) = CASE n < 0 -> ((d - n) * 8192) \div d
                           [] n > 0 -> (8193 * d - 8190 * n) \div d
                           [] n = 0 -> 0
  BY DEF BendOf
<1> HIDE DEF d, n
<1>4. CASE n < 0
  <2> DEFINE x == (d - n) * 8192
  <2>1. x \in Nat /\ x <= 16384 * d
    BY <1>1, <1>2, <1>4
  <2>2. BendOf(p, state) = x \div d
    BY <1>1, <1>2, <1>3, <1>4
  <2> HIDE DEF x
  <2>3. x \div d \in 0 .. 16384
    BY <1>1, <2>1, QuotientInRange
  <2>4. QED
    BY <2>2, <2>3 DEF Bends
<1>5. CASE n > 0
  <2> DEFINE x == 8193 * d - 8190 * n
  <2>1. x \in Nat /\ x <= 16384 * d
    BY <1>1, <1>2, <1>5
  <2>2. BendOf(p, state) = x \div d
    BY <1>1, <1>2, <1>3, <1>5
  <2> HIDE DEF x
  <2>3. x \div d \in 0 .. 16384
    BY <1>1, <2>1, QuotientInRange
  <2>4. QED
    BY <2>2, <2>3 DEF Bends
<1>6. CASE n = 0
  BY <1>3, <1>6 DEF Bends
<1>7. QED
  BY <1>1, <1>2, <1>4, <1>5, <1>6

LEMMA BendsAreWords == \A amount \in Bends : amount \in U16
BY DEF Bends, U16

Capped(amount) == IF amount > 16383 THEN 16383 ELSE amount

LEMMA CappedAreWords == \A amount \in U16 : Capped(amount) \in U16
BY DEF Capped, U16

-----------------------------------------------------------------------------
(* The part of TypeOK that a message can change. *)
Sent ==
  /\ last_bend \in U16 \cup {NoBend}
  /\ sounding \subseteq Note
  /\ bend \in [Channel -> U16]
  /\ program \in [Channel -> U7]
  /\ lost \subseteq Note
  /\ astray \subseteq Channel
  /\ (bender = <<>> \/ bender \in Function \X Channel)

LEMMA NoteKeepsTypes ==
  ASSUME Sent, NEW f \in Bound, param[f] \in NoteParam,
         NEW on \in BOOLEAN, NEW sent \in BOOLEAN, SendNote(f, on, sent)
  PROVE  Sent'
<1> DEFINE note == <<param[f].channel, param[f].note>>
<1>1. note \in Note
  BY DEF NoteParam, Note
<1>2. sounding' \in {sounding, sounding \cup {note}, sounding \ {note}}
  BY Zenon DEF SendNote
<1>3. lost' \in {lost \ {note}, lost \cup {note}}
  BY Zenon DEF SendNote
<1>4. /\ last_bend' = last_bend /\ bend' = bend /\ program' = program
      /\ astray' = astray /\ bender' = bender
  BY Zenon DEF SendNote
<1> HIDE DEF note
<1>5. sounding' \subseteq Note /\ lost' \subseteq Note
  BY <1>1, <1>2, <1>3 DEF Sent
<1>6. QED
  BY <1>4, <1>5 DEF Sent, Note

LEMMA BendKeepsTypes ==
  ASSUME Sent, Bound \subseteq Function, NEW f \in Bound, param[f].channel \in Channel,
         NEW amount \in U16, NEW sent \in BOOLEAN, SendBend(f, amount, sent)
  PROVE  Sent'
<1> DEFINE c == param[f].channel
<1>1. bend' \in {bend, [bend EXCEPT ![c] = amount]}
  BY Zenon DEF SendBend
<1>2. astray' \in {astray \ {c}, astray \cup {c}}
  BY Zenon DEF SendBend
<1>3. /\ last_bend' = amount /\ bender' = <<f, c>>
      /\ sounding' = sounding /\ program' = program /\ lost' = lost
  BY Zenon DEF SendBend
<1>4. c \in Channel
  OBVIOUS
<1> HIDE DEF c
<1>5. bend' \in [Channel -> U16] /\ astray' \subseteq Channel
  BY <1>1, <1>2, <1>4 DEF Sent
<1>6. bender' \in Function \X Channel
  BY <1>3, <1>4
<1>7. QED
  BY <1>3, <1>5, <1>6 DEF Sent, Note

LEMMA ProgramKeepsTypes ==
  ASSUME Sent, NEW f \in Bound, param[f] \in ProgramParam,
         NEW sent \in BOOLEAN, SendProgram(f, sent)
  PROVE  Sent'
BY DEF Sent, SendProgram, ProgramParam, Note

(* What a function reads is of its kind, also when it is built. *)
LEMMA BuiltTyped ==
  ASSUME NEW f \in Function, NEW p \in Built(f)
  PROVE  p \in ParamOf(Kind[f])
<1>1. CASE Kind[f] = "ConstPitchBend"
  <2>1. PICK q \in Params[f] : p = Narrowed(q)
    BY <1>1 DEF Built
  <2>2. q \in ConstParam
    BY <1>1, ParamsAssumption DEF ParamOf
  <2>3. Narrowed(q) \in ConstParam
    <3>1. q.bend \in U16
      BY <2>2 DEF ConstParam
    <3>2. Capped(q.bend) \in U16
      BY <3>1, CappedAreWords
    <3>3. Narrowed(q) = [q EXCEPT !.bend = Capped(q.bend)]
      BY DEF Narrowed, Capped
    <3>4. QED
      BY <2>2, <3>2, <3>3 DEF ConstParam
  <2>4. QED
    BY <1>1, <2>1, <2>3 DEF ParamOf
<1>2. CASE Kind[f] # "ConstPitchBend"
  BY <1>2, ParamsAssumption DEF Built
<1>3. QED
  BY <1>1, <1>2

(* The rest of TypeOK. *)
Read ==
  /\ Bound \in Layouts
  /\ down \subseteq Keys
  /\ \A f \in Bound : param[f] \in ParamOf(Kind[f])
  /\ given \in [OfKind("PitchBend") -> Given \cup {-1}]

LEMMA TypesAreBoth == TypeOK <=> Read /\ Sent
BY DEF TypeOK, Read, Sent

LEMMA InitTypes == Init => TypeOK
<1> SUFFICES ASSUME Init PROVE TypeOK
  OBVIOUS
<1>1. PICK fs \in Layouts :
        /\ param \in [fs -> UNION {Built(f) : f \in fs}]
        /\ \A f \in fs : param[f] \in Built(f)
  BY DEF Init
<1>2. Bound = fs /\ Bound \subseteq Function
  BY <1>1, LayoutsAssumption DEF Bound
<1>3. \A f \in Bound : param[f] \in ParamOf(Kind[f])
  BY <1>1, <1>2, BuiltTyped
<1>4. bend \in [Channel -> U16] /\ program \in [Channel -> U7]
  <2>1. Straight \in U16 /\ 0 \in U7
    BY DEF Straight, U16, U7
  <2>2. QED
    BY <2>1 DEF Init
<1>5. QED
  BY <1>1, <1>2, <1>3, <1>4 DEF Init, TypeOK

LEMMA PressTypes ==
  ASSUME TypeOK, NEW f \in Keys, NEW sent \in BOOLEAN, Press(f, sent)
  PROVE  TypeOK'
<1>1. Read /\ Sent /\ f \in Bound /\ Bound \subseteq Function
  BY TypesAreBoth, LayoutsAssumption DEF Read, Keys
<1>2. Kind[f] \in {"Note", "ConstPitchBend", "Instrument"}
  BY <1>1, KindAssumption DEF Keys, OfKind, Kinds
<1>3. param[f] \in ParamOf(Kind[f])
  BY <1>1 DEF Read
<1>4. Sent'
  <2>1. CASE Kind[f] = "Note"
    <3>1. SendNote(f, param[f].velocity > 0, sent)
      BY <2>1 DEF Press
    <3>2. param[f] \in NoteParam
      BY <2>1, <1>3 DEF ParamOf
    <3>3. (param[f].velocity > 0) \in BOOLEAN
      OBVIOUS
    <3>4. QED
      BY <1>1, <3>1, <3>2, <3>3, NoteKeepsTypes
  <2>2. CASE Kind[f] = "ConstPitchBend"
    <3>1. SendBend(f, param[f].bend, sent)
      BY <2>2 DEF Press
    <3>2. param[f].channel \in Channel /\ param[f].bend \in U16
      BY <2>2, <1>3 DEF ParamOf, ConstParam
    <3>3. QED
      BY <1>1, <3>1, <3>2, BendKeepsTypes
  <2>3. CASE Kind[f] = "Instrument"
    <3>1. SendProgram(f, sent)
      BY <2>3 DEF Press
    <3>2. param[f] \in ProgramParam
      BY <2>3, <1>3 DEF ParamOf
    <3>3. QED
      BY <1>1, <3>1, <3>2, ProgramKeepsTypes
  <2>4. QED
    BY <1>2, <2>1, <2>2, <2>3
<1>5. Read'
  BY <1>1 DEF Read, Press, Bound, Keys, OfKind
<1>6. QED
  BY <1>4, <1>5 DEF TypeOK, Read, Sent

LEMMA ReleaseTypes ==
  ASSUME TypeOK, NEW f \in Keys, NEW sent \in BOOLEAN, ReleaseKey(f, sent)
  PROVE  TypeOK'
<1>1. Read /\ Sent /\ f \in Bound /\ Bound \subseteq Function
  BY TypesAreBoth, LayoutsAssumption DEF Read, Keys
<1>2. param[f] \in ParamOf(Kind[f])
  BY <1>1 DEF Read
<1>3. Release(f, sent)
  BY DEF ReleaseKey
<1>4. Sent'
  <2>1. CASE Kind[f] = "Note"
    <3>1. SendNote(f, FALSE, sent)
      BY <1>3, <2>1 DEF Release
    <3>2. param[f] \in NoteParam
      BY <2>1, <1>2 DEF ParamOf
    <3>3. QED
      BY <1>1, <3>1, <3>2, NoteKeepsTypes
  <2>2. CASE Kind[f] = "ConstPitchBend" /\ IsLast(f)
    <3>1. SendBend(f, 0, sent)
      BY <1>3, <2>2 DEF Release
    <3>2. param[f].channel \in Channel
      BY <2>2, <1>2 DEF ParamOf, ConstParam
    <3>3. 0 \in U16
      BY DEF U16
    <3>4. QED
      BY <1>1, <3>1, <3>2, <3>3, BendKeepsTypes
  <2>3. CASE Kind[f] # "Note" /\ ~(Kind[f] = "ConstPitchBend" /\ IsLast(f))
    <3>1. SendNothing
      BY <1>3, <2>3 DEF Release
    <3>2. QED
      BY <1>1, <3>1 DEF SendNothing, synth, Sent, Note
  <2>4. QED
    BY <2>1, <2>2, <2>3
<1>5. Read'
  BY <1>1 DEF Read, ReleaseKey, Bound, Keys, OfKind
<1>6. QED
  BY <1>4, <1>5 DEF TypeOK, Read, Sent

LEMMA BendTypes ==
  ASSUME TypeOK, NEW f \in OfKind("PitchBend"), NEW state \in Given, NEW sent \in BOOLEAN,
         Bend(f, state, sent)
  PROVE  TypeOK'
<1>1. Read /\ Sent /\ f \in Bound /\ Bound \subseteq Function
  BY TypesAreBoth, LayoutsAssumption DEF Read, OfKind
<1>2. param[f] \in PitchParam
  BY <1>1 DEF Read, OfKind, ParamOf
<1>3. BendOf(param[f], state) \in U16
  <2>1. state \in U16
    BY GivenAssumption
  <2>2. BendOf(param[f], state) \in Bends
    BY <1>2, <2>1, BendInRange
  <2>3. QED
    BY <2>2, BendsAreWords
<1>4. SendBend(f, BendOf(param[f], state), sent)
  BY DEF Bend
<1>5. param[f].channel \in Channel
  BY <1>2 DEF PitchParam
<1>6. Sent'
  BY <1>1, <1>3, <1>4, <1>5, BendKeepsTypes
<1>7. Read'
  BY <1>1 DEF Read, Bend, Bound, Keys, OfKind
<1>8. QED
  BY <1>6, <1>7 DEF TypeOK, Read, Sent

LEMMA SetParamTypes ==
  ASSUME TypeOK, NEW f \in Bound, NEW p \in Params[f], SetParam(f, p)
  PROVE  TypeOK'
<1>1. Read /\ Sent /\ f \in Function
  BY TypesAreBoth, LayoutsAssumption DEF Read
<1>2. p \in ParamOf(Kind[f])
  BY <1>1, ParamsAssumption
<1>3. Bound' = Bound /\ \A g \in Bound : param'[g] = IF g = f THEN p ELSE param[g]
  BY DEF SetParam, Bound
<1>4. OfKind("PitchBend")' = OfKind("PitchBend") /\ Keys' = Keys
  BY <1>3 DEF OfKind, Keys
<1>5. given' \in [OfKind("PitchBend") -> Given \cup {-1}]
  BY <1>1 DEF SetParam, Read
<1>6. Read'
  BY <1>1, <1>2, <1>3, <1>4, <1>5 DEF Read, SetParam
<1>7. Sent'
  BY <1>1 DEF Sent, SetParam, synth, Note
<1>8. QED
  BY <1>6, <1>7 DEF TypeOK, Read, Sent

LEMMA StepTypes == TypeOK /\ [Next]_vars => TypeOK'
<1> SUFFICES ASSUME TypeOK, [Next]_vars PROVE TypeOK'
  OBVIOUS
<1>1. ASSUME NEW f \in Keys, NEW sent \in BOOLEAN, Press(f, sent) PROVE TypeOK'
  BY <1>1, PressTypes
<1>2. ASSUME NEW f \in Keys, NEW sent \in BOOLEAN, ReleaseKey(f, sent) PROVE TypeOK'
  BY <1>2, ReleaseTypes
<1>3. ASSUME NEW f \in OfKind("PitchBend"), NEW state \in Given, NEW sent \in BOOLEAN,
             Bend(f, state, sent)
      PROVE  TypeOK'
  BY <1>3, BendTypes
<1>4. ASSUME NEW f \in Bound, NEW p \in Params[f], SetParam(f, p) PROVE TypeOK'
  BY <1>4, SetParamTypes
<1>5. CASE UNCHANGED vars
  BY <1>5 DEF vars, synth, history, TypeOK, Bound, Keys, OfKind, Note
<1>6. QED
  BY <1>1, <1>2, <1>3, <1>4, <1>5 DEF Next, Events

(* Parameters, messages and what the synthesizer is told keep their types, *)
(* whoever sets which parameter when.                                      *)
THEOREM MidiTypeCorrect == Spec => []TypeOK
BY InitTypes, StepTypes, PTL DEF Spec

(* So they do if the operator is careful. *)
LEMMA CarefulTypeCorrect == CarefulSpec => []TypeOK
<1>1. [CarefulNext]_vars => [Next]_vars
  BY DEF CarefulNext, Next
<1>2. QED
  BY <1>1, InitTypes, StepTypes, PTL DEF CarefulSpec

-----------------------------------------------------------------------------
(* NotesEnd, note by note. *)
Held(note) ==
  \E f \in OfKind("Note") \cap down : note = <<param[f].channel, param[f].note>>

Ends == \A note \in sounding \ lost : Held(note)

LEMMA EndsIsNotesEnd == Ends <=> NotesEnd
BY DEF Ends, Held, NotesEnd

(* A message lets at most its own note sound, and a NoteOff not even that, *)
(* if it counts as lost where it is not sent.                              *)
LEMMA NoteEffect ==
  ASSUME NEW f \in Bound, NEW on \in BOOLEAN, NEW sent \in BOOLEAN, SendNote(f, on, sent),
         NEW note, note = <<param[f].channel, param[f].note>>
  PROVE  \A n \in sounding' \ lost' : (n \in sounding \ lost /\ n # note) \/ (n = note /\ on)
<1>1. CASE ~sent
  <2>1. sounding' = sounding /\ lost' = lost \cup {note}
    BY <1>1, Zenon DEF SendNote
  <2>2. QED
    BY <2>1, Zenon
<1>2. CASE sent /\ on
  <2>1. sounding' = sounding \cup {note} /\ lost' = lost \ {note}
    BY <1>2, Zenon DEF SendNote
  <2>2. QED
    BY <1>2, <2>1
<1>3. CASE sent /\ ~on
  <2>1. sounding' = sounding \ {note} /\ lost' = lost \ {note}
    BY <1>3, Zenon DEF SendNote
  <2>2. QED
    BY <2>1, Zenon
<1>4. QED
  BY <1>1, <1>2, <1>3

(* The kind of a function of the layout that has a key. *)
LEMMA KeyKinds ==
  ASSUME TypeOK, NEW f \in Keys
  PROVE  f \in Bound /\ Kind[f] \in {"Note", "ConstPitchBend", "Instrument"}
<1>1. Bound \in Layouts
  BY DEF TypeOK
<1>2. f \in Bound /\ Kind[f] # "PitchBend" /\ f \in Function
  BY <1>1, LayoutsAssumption DEF Keys, OfKind
<1>3. QED
  BY <1>2, KindAssumption DEF Kinds

LEMMA PressEnds ==
  ASSUME TypeOK, Ends, NEW f \in Keys, NEW sent \in BOOLEAN, Press(f, sent)
  PROVE  Ends'
<1>1. param' = param /\ down' = down \cup {f} /\ OfKind("Note")' = OfKind("Note")
  BY DEF Press, OfKind, Bound
<1>2. \A n : Held(n) => Held(n)'
  BY <1>1 DEF Held
<1>3. CASE Kind[f] = "Note"
  <2> DEFINE note == <<param[f].channel, param[f].note>>
             on == param[f].velocity > 0
  <2>1. SendNote(f, on, sent) /\ f \in Bound
    BY <1>3, KeyKinds DEF Press
  <2>2. \A n \in sounding' \ lost' : n \in sounding \ lost \/ n = note
    <3>1. on \in BOOLEAN
      OBVIOUS
    <3>2. QED
      BY <2>1, <3>1, NoteEffect
  <2>3. \A n : n = note => Held(n)'
    BY <1>1, <1>3, <2>1 DEF Held, OfKind
  <2> HIDE DEF note, on
  <2>4. QED
    BY <1>2, <2>2, <2>3 DEF Ends
<1>4. CASE Kind[f] # "Note"
  <2>1. sounding' = sounding /\ lost' = lost
    <3>1. CASE Kind[f] = "ConstPitchBend"
      BY <3>1, Zenon DEF Press, SendBend
    <3>2. CASE Kind[f] = "Instrument"
      BY <3>2, Zenon DEF Press, SendProgram
    <3>3. QED
      BY <1>4, <3>1, <3>2, KeyKinds
  <2>2. QED
    BY <1>2, <2>1 DEF Ends
<1>5. QED
  BY <1>3, <1>4

LEMMA ReleaseEnds ==
  ASSUME TypeOK, Ends, NEW f \in Keys, NEW sent \in BOOLEAN, ReleaseKey(f, sent)
  PROVE  Ends'
<1>1. param' = param /\ down' = down \ {f} /\ OfKind("Note")' = OfKind("Note")
  BY DEF ReleaseKey, OfKind, Bound
<1>2. Release(f, sent) /\ f \in Bound
  BY KeyKinds DEF ReleaseKey
<1>3. CASE Kind[f] = "Note"
  <2> DEFINE note == <<param[f].channel, param[f].note>>
  <2>1. SendNote(f, FALSE, sent)
    BY <1>2, <1>3 DEF Release
  <2>2. \A n \in sounding' \ lost' : n \in sounding \ lost /\ n # note
    BY <1>2, <2>1, NoteEffect
  <2>3. \A n : Held(n) /\ n # note => Held(n)'
    BY <1>1 DEF Held
  <2> HIDE DEF note
  <2>4. QED
    BY <2>2, <2>3 DEF Ends
<1>4. CASE Kind[f] # "Note"
  <2>1. sounding' = sounding /\ lost' = lost
    BY <1>2, <1>4, Zenon DEF Release, SendBend, SendNothing, synth
  <2>2. \A n : Held(n) => Held(n)'
    BY <1>1, <1>4 DEF Held, OfKind
  <2>3. QED
    BY <2>1, <2>2 DEF Ends
<1>5. QED
  BY <1>3, <1>4

(* The parameters of a function may change while its key is up. *)
LEMMA SetParamKeeps ==
  ASSUME NEW f \in Bound \ down, NEW p, SetParam(f, p)
  PROVE  /\ down' = down /\ \A kind : OfKind(kind)' = OfKind(kind)
         /\ \A g \in Bound \cap down : param'[g] = param[g]
BY DEF SetParam, OfKind, Bound

LEMMA SetParamEnds ==
  ASSUME Ends, NEW f \in Bound \ down, NEW p, SetParam(f, p)
  PROVE  Ends'
<1>1. \A n : Held(n) => Held(n)'
  BY SetParamKeeps DEF Held, OfKind
<1>2. sounding' = sounding /\ lost' = lost
  BY DEF SetParam, synth
<1>3. QED
  BY <1>1, <1>2 DEF Ends

(* Whichever notes are shared, whenever messages are lost and whatever the *)
(* parameters are set to between the presses, no note is left hanging: one *)
(* that sounds is held, or its last message was lost.                      *)
THEOREM MidiNotesEnd == CarefulSpec => []NotesEnd
<1>1. Init => Ends
  BY DEF Init, Ends
<1>2. TypeOK /\ Ends /\ [CarefulNext]_vars => Ends'
  <2> SUFFICES ASSUME TypeOK, Ends, [CarefulNext]_vars PROVE Ends'
    OBVIOUS
  <2>1. ASSUME NEW f \in Keys, NEW sent \in BOOLEAN, Press(f, sent) PROVE Ends'
    BY <2>1, PressEnds
  <2>2. ASSUME NEW f \in Keys, NEW sent \in BOOLEAN, ReleaseKey(f, sent) PROVE Ends'
    BY <2>2, ReleaseEnds
  <2>3. ASSUME NEW f \in OfKind("PitchBend"), NEW state \in Given, NEW sent \in BOOLEAN,
               Bend(f, state, sent)
        PROVE  Ends'
    BY <2>3 DEF Bend, SendBend, Ends, Held, OfKind, Bound
  <2>4. ASSUME NEW f \in Bound \ down, NEW p \in Params[f], SetParam(f, p) PROVE Ends'
    BY <2>4, SetParamEnds
  <2>5. CASE UNCHANGED vars
    BY <2>5 DEF vars, synth, history, Ends, Held, OfKind, Bound
  <2>6. QED
    BY <2>1, <2>2, <2>3, <2>4, <2>5 DEF CarefulNext, Events
<1>3. QED
  BY <1>1, <1>2, CarefulTypeCorrect, EndsIsNotesEnd, PTL DEF CarefulSpec

-----------------------------------------------------------------------------
(* LastBendEnds, strengthened by what ConstPitchBend relies on: unless the *)
(* last bend was not sent, last_bend is what its channel is bent by.       *)
Backed(c) ==
  \/ bend[c] = 0
  \/ \E f \in OfKind("ConstPitchBend") \cap down : param[f].channel = c /\ param[f].bend = bend[c]

LastKnown ==
  bender # <<>> /\ bender[2] \notin astray =>
    /\ bend[bender[2]] = last_bend
    /\ Kind[bender[1]] = "ConstPitchBend" => Backed(bender[2])

LEMMA KnownIsEnough == LastKnown => LastBendEnds
BY DEF LastKnown, Backed, LastBendEnds

(* A bend is the last one, whether it is sent or not. *)
LEMMA BendEffect ==
  ASSUME TypeOK, NEW f \in Bound, NEW c \in Channel, c = param[f].channel,
         NEW amount, NEW sent \in BOOLEAN, SendBend(f, amount, sent)
  PROVE  /\ bender' = <<f, c>> /\ last_bend' = amount
         /\ c \notin astray' => bend'[c] = amount
<1>1. /\ bender' = <<f, c>> /\ last_bend' = amount
      /\ bend' = IF sent THEN [bend EXCEPT ![c] = amount] ELSE bend
      /\ astray' = IF sent THEN astray \ {c} ELSE astray \cup {c}
  BY Zenon DEF SendBend
<1>2. DOMAIN bend = Channel
  BY DEF TypeOK
<1>3. CASE sent
  BY <1>1, <1>2, <1>3
<1>4. CASE ~sent
  BY <1>1, <1>4
<1>5. QED
  BY <1>3, <1>4

LEMMA ConstChannel ==
  ASSUME TypeOK, NEW f \in Bound, Kind[f] = "ConstPitchBend"
  PROVE  param[f].channel \in Channel
BY DEF TypeOK, ParamOf, ConstParam

LEMMA PressKnown ==
  ASSUME TypeOK, LastKnown, NEW f \in Keys, NEW sent \in BOOLEAN, Press(f, sent)
  PROVE  LastKnown'
<1>1. param' = param /\ down' = down \cup {f} /\ \A kind : OfKind(kind)' = OfKind(kind)
  BY DEF Press, OfKind, Bound
<1>2. f \in Bound
  BY KeyKinds
<1>3. CASE Kind[f] = "ConstPitchBend"
  <2>1. SendBend(f, param[f].bend, sent)
    BY <1>3, Zenon DEF Press
  <2>2. PICK c \in Channel : c = param[f].channel
    BY <1>2, <1>3, ConstChannel
  <2>3. /\ bender' = <<f, c>> /\ last_bend' = param[f].bend
        /\ c \notin astray' => bend'[c] = param[f].bend
    BY <1>2, <2>1, <2>2, BendEffect
  <2>4. f \in OfKind("ConstPitchBend")' \cap down'
    BY <1>1, <1>2, <1>3 DEF OfKind
  <2>5. QED
    BY <1>1, <2>2, <2>3, <2>4 DEF LastKnown, Backed
<1>4. CASE Kind[f] # "ConstPitchBend"
  <2>1. bender' = bender /\ bend' = bend /\ astray' = astray /\ last_bend' = last_bend
    <3>1. CASE Kind[f] = "Note"
      BY <3>1, Zenon DEF Press, SendNote
    <3>2. CASE Kind[f] = "Instrument"
      BY <3>2, Zenon DEF Press, SendProgram
    <3>3. QED
      BY <1>4, <3>1, <3>2, KeyKinds
  <2>2. QED
    BY <1>1, <2>1 DEF LastKnown, Backed
<1>5. QED
  BY <1>3, <1>4

(* A function that is not the last to bend the channel leaves it to the    *)
(* one that is: its own amount is another.                                 *)
LEMMA ReleaseKnown ==
  ASSUME TypeOK, LastKnown, NEW f \in Keys, NEW sent \in BOOLEAN, ReleaseKey(f, sent)
  PROVE  LastKnown'
<1>1. param' = param /\ down' = down \ {f} /\ \A kind : OfKind(kind)' = OfKind(kind)
  BY DEF ReleaseKey, OfKind, Bound
<1>2. f \in Bound /\ Release(f, sent)
  BY KeyKinds DEF ReleaseKey
<1>3. CASE Kind[f] = "ConstPitchBend" /\ IsLast(f)
  <2>1. SendBend(f, 0, sent)
    BY <1>2, <1>3, Zenon DEF Release
  <2>2. PICK c \in Channel : c = param[f].channel
    BY <1>2, <1>3, ConstChannel
  <2>3. /\ bender' = <<f, c>> /\ last_bend' = 0
        /\ c \notin astray' => bend'[c] = 0
    BY <1>2, <2>1, <2>2, BendEffect
  <2>4. QED
    BY <2>3 DEF LastKnown, Backed
<1>4. CASE ~(Kind[f] = "ConstPitchBend" /\ IsLast(f))
  <2>1. bender' = bender /\ bend' = bend /\ astray' = astray /\ last_bend' = last_bend
    BY <1>2, <1>4, Zenon DEF Release, SendNote, SendNothing, synth
  <2>2. Kind[f] = "ConstPitchBend" => last_bend # param[f].bend
    BY <1>4 DEF IsLast
  <2>3. QED
    BY <1>1, <2>1, <2>2 DEF LastKnown, Backed, OfKind
<1>5. QED
  BY <1>3, <1>4

LEMMA PitchKnown ==
  ASSUME TypeOK, LastKnown, NEW f \in OfKind("PitchBend"), NEW state \in Given,
         NEW sent \in BOOLEAN, Bend(f, state, sent)
  PROVE  LastKnown'
<1>1. f \in Bound /\ Kind[f] = "PitchBend"
  BY DEF OfKind
<1>2. PICK c \in Channel : c = param[f].channel
  BY <1>1 DEF TypeOK, ParamOf, PitchParam
<1>3. PICK amount : amount = BendOf(param[f], state)
  OBVIOUS
<1>4. /\ bender' = <<f, c>> /\ last_bend' = amount
      /\ c \notin astray' => bend'[c] = amount
  BY <1>1, <1>2, <1>3, BendEffect DEF Bend
<1>5. QED
  BY <1>1, <1>4 DEF LastKnown

LEMMA SetParamKnown ==
  ASSUME LastKnown, NEW f \in Bound \ down, NEW p, SetParam(f, p)
  PROVE  LastKnown'
<1>1. /\ bender' = bender /\ bend' = bend /\ astray' = astray /\ last_bend' = last_bend
  BY DEF SetParam, synth
<1>2. QED
  BY <1>1, SetParamKeeps DEF LastKnown, Backed, OfKind

(* However many ConstPitchBend keys overlap on however many channels, and  *)
(* whichever messages were lost before: the channel that one of them bent  *)
(* last is bent by one that is down, or was told 0.                        *)
THEOREM MidiLastBendEnds == CarefulSpec => []LastBendEnds
<1>1. Init => LastKnown
  BY DEF Init, LastKnown
<1>2. TypeOK /\ LastKnown /\ [CarefulNext]_vars => LastKnown'
  <2> SUFFICES ASSUME TypeOK, LastKnown, [CarefulNext]_vars PROVE LastKnown'
    OBVIOUS
  <2>1. ASSUME NEW f \in Keys, NEW sent \in BOOLEAN, Press(f, sent) PROVE LastKnown'
    BY <2>1, PressKnown
  <2>2. ASSUME NEW f \in Keys, NEW sent \in BOOLEAN, ReleaseKey(f, sent) PROVE LastKnown'
    BY <2>2, ReleaseKnown
  <2>3. ASSUME NEW f \in OfKind("PitchBend"), NEW state \in Given, NEW sent \in BOOLEAN,
               Bend(f, state, sent)
        PROVE  LastKnown'
    BY <2>3, PitchKnown
  <2>4. ASSUME NEW f \in Bound \ down, NEW p \in Params[f], SetParam(f, p) PROVE LastKnown'
    BY <2>4, SetParamKnown
  <2>5. CASE UNCHANGED vars
    BY <2>5 DEF vars, synth, history, LastKnown, Backed, OfKind, Bound
  <2>6. QED
    BY <2>1, <2>2, <2>3, <2>4, <2>5 DEF CarefulNext, Events
<1>3. QED
  BY <1>1, <1>2, CarefulTypeCorrect, KnownIsEnough, PTL DEF CarefulSpec

-----------------------------------------------------------------------------
(* A PitchBend, from one state to the next. *)

LEMMA QuotientsOrdered ==
  ASSUME NEW x \in Nat, NEW y \in Nat, NEW d \in Nat \ {0}, x <= y
  PROVE  x \div d <= y \div d
<1> DEFINE q == x \div d
           r == y \div d
<1>1. q \in Int /\ q * d <= x /\ x < (q + 1) * d
  BY SMTT(30)
<1>2. r \in Int /\ r * d <= y /\ y < (r + 1) * d
  BY SMTT(30)
<1> HIDE DEF q, r
<1>3. q * d < (r + 1) * d
  BY <1>1, <1>2, SMTT(30)
<1>4. q < r + 1
  BY <1>1, <1>2, <1>3, SMTT(30)
<1>5. q <= r
  BY <1>1, <1>2, <1>4
<1>6. QED
  BY <1>5 DEF q, r

LEMMA QuotientBelow ==
  ASSUME NEW x \in Nat, NEW d \in Nat \ {0}, NEW b \in Nat, x < (b + 1) * d
  PROVE  x \div d <= b
<1> DEFINE q == x \div d
<1>1. q \in Int /\ q * d <= x
  BY SMTT(30)
<1> HIDE DEF q
<1>2. q < b + 1
  BY <1>1, SMTT(30)
<1>3. QED
  BY <1>1, <1>2 DEF q

LEMMA QuotientAbove ==
  ASSUME NEW x \in Nat, NEW d \in Nat \ {0}, NEW b \in Nat, b * d <= x
  PROVE  b <= x \div d
<1> DEFINE q == x \div d
<1>1. q \in Int /\ x < (q + 1) * d
  BY SMTT(30)
<1> HIDE DEF q
<1>2. b < q + 1
  BY <1>1, SMTT(30)
<1>3. QED
  BY <1>1, <1>2 DEF q

(* What BendOf makes of a value, which is n / d. *)
BendAt(n, d) ==
  CASE n < 0 -> ((d - n) * 8192) \div d
    [] n > 0 -> (8193 * d - 8190 * n) \div d
    [] n = 0 -> 0

(* The middle is no exception: a value is 0 only if the scale is. *)
LEMMA BendFalls ==
  ASSUME NEW d \in Nat \ {0}, NEW n \in -d .. d, NEW m \in -d .. d, n <= m, n = 0 <=> m = 0
  PROVE  BendAt(n, d) >= BendAt(m, d)
<1>1. CASE n = 0
  BY <1>1 DEF BendAt
<1>2. CASE m < 0
  <2> DEFINE x == (d - n) * 8192
             y == (d - m) * 8192
  <2>1. x \in Nat /\ y \in Nat /\ y <= x
    BY <1>2
  <2>2. BendAt(n, d) = x \div d /\ BendAt(m, d) = y \div d
    BY <1>2 DEF BendAt
  <2>3. x \div d \in Int /\ y \div d \in Int
    BY <2>1
  <2> HIDE DEF x, y
  <2>4. y \div d <= x \div d
    BY <2>1, QuotientsOrdered
  <2>5. QED
    BY <2>2, <2>3, <2>4
<1>3. CASE n > 0
  <2> DEFINE x == 8193 * d - 8190 * n
             y == 8193 * d - 8190 * m
  <2>1. x \in Nat /\ y \in Nat /\ y <= x
    BY <1>3
  <2>2. BendAt(n, d) = x \div d /\ BendAt(m, d) = y \div d
    BY <1>3 DEF BendAt
  <2>3. x \div d \in Int /\ y \div d \in Int
    BY <2>1
  <2> HIDE DEF x, y
  <2>4. y \div d <= x \div d
    BY <2>1, QuotientsOrdered
  <2>5. QED
    BY <2>2, <2>3, <2>4
<1>4. CASE n < 0 /\ m > 0
  <2> DEFINE x == (d - n) * 8192
             y == 8193 * d - 8190 * m
  <2>1. x \in Nat /\ 8192 * d <= x
    BY <1>4
  <2>2. y \in Nat /\ y < (8192 + 1) * d
    BY <1>4
  <2>3. BendAt(n, d) = x \div d /\ BendAt(m, d) = y \div d
    BY <1>4 DEF BendAt
  <2>4. x \div d \in Int /\ y \div d \in Int
    BY <2>1, <2>2
  <2> HIDE DEF x, y
  <2>5. 8192 <= x \div d
    BY <2>1, QuotientAbove
  <2>6. y \div d <= 8192
    BY <2>2, QuotientBelow
  <2>7. QED
    BY <2>3, <2>4, <2>5, <2>6
<1>5. QED
  BY <1>1, <1>2, <1>3, <1>4

LEMMA ClampedOrdered ==
  ASSUME NEW d \in Nat \ {0}, NEW n \in Int, NEW m \in Int, n <= m
  PROVE  Clamped(n, d) <= Clamped(m, d)
BY DEF Clamped

LEMMA ClampedZero ==
  ASSUME NEW d \in Nat \ {0}, NEW n \in Int
  PROVE  Clamped(n, d) = 0 <=> n = 0
BY DEF Clamped

LEMMA ProductsOrdered ==
  ASSUME NEW a \in Int, NEW b \in Int, NEW s \in Int, a <= b
  PROVE  /\ s >= 0 => a * s <= b * s
         /\ s < 0 => b * s <= a * s
OBVIOUS

LEMMA ProductZero ==
  ASSUME NEW a \in Int, a # 0, NEW s \in Int
  PROVE  a * s = 0 <=> s = 0
OBVIOUS

(* How far a state is from the middle, twice: never 0. *)
Distance(p, state) == IF p.invert THEN 16383 - 2 * state ELSE 2 * state - 16383

LEMMA ValIs ==
  ASSUME NEW p \in PitchParam, NEW state \in U16
  PROVE  /\ Denominator(p) \in Nat \ {0}
         /\ Distance(p, state) \in Int /\ Distance(p, state) # 0
         /\ Distance(p, state) * p.scale \in Int
         /\ Val(p, state) = Clamped(Distance(p, state) * p.scale, Denominator(p))
         /\ Val(p, state) \in -Denominator(p) .. Denominator(p)
         /\ Val(p, state) = 0 <=> p.scale = 0
<1>1. Denominator(p) \in Nat \ {0}
  BY DEF Denominator, PitchParam
<1>2. p.scale \in Int /\ p.invert \in BOOLEAN /\ state \in Int
  BY DEF PitchParam, U16
<1>3. Distance(p, state) \in Int /\ Distance(p, state) # 0
  BY <1>2 DEF Distance
<1>4. Val(p, state) = Clamped(Distance(p, state) * p.scale, Denominator(p))
  BY DEF Val, Distance
<1>5. PICK a \in Int : a = Distance(p, state) /\ a # 0
  BY <1>3
<1>6. PICK s \in Int : s = p.scale
  BY <1>2
<1>7. PICK d \in Nat \ {0} : d = Denominator(p)
  BY <1>1
<1>8. a * s \in Int /\ (a * s = 0 <=> s = 0)
  BY <1>5, ProductZero
<1>9. Clamped(a * s, d) \in -d .. d /\ (Clamped(a * s, d) = 0 <=> a * s = 0)
  BY <1>8, ClampedInRange, ClampedZero
<1>10. QED
  BY <1>1, <1>3, <1>4, <1>5, <1>6, <1>7, <1>8, <1>9

LEMMA BendOrdered ==
  ASSUME NEW p \in PitchParam, NEW old \in U16, NEW new \in U16, old <= new
  PROVE  IF Rises(p) THEN BendOf(p, old) <= BendOf(p, new) ELSE BendOf(p, old) >= BendOf(p, new)
<1>1. PICK d \in Nat \ {0} : d = Denominator(p)
  BY ValIs
<1>2. PICK s \in Int : s = p.scale
  BY DEF PitchParam
<1>3. PICK n \in -d .. d : n = Val(p, old)
  BY <1>1, ValIs
<1>4. PICK m \in -d .. d : m = Val(p, new)
  BY <1>1, ValIs
<1>5. n = 0 <=> m = 0
  BY <1>3, <1>4, ValIs
<1>6. BendOf(p, old) = BendAt(n, d) /\ BendOf(p, new) = BendAt(m, d)
  BY <1>1, <1>3, <1>4 DEF BendOf, BendAt
<1>7. PICK a \in Int : a = Distance(p, old)
  BY ValIs
<1>8. PICK b \in Int : b = Distance(p, new)
  BY ValIs
<1>9. n = Clamped(a * s, d) /\ m = Clamped(b * s, d) /\ a * s \in Int /\ b * s \in Int
  BY <1>1, <1>2, <1>3, <1>4, <1>7, <1>8, ValIs
<1>10. IF p.invert THEN b <= a ELSE a <= b
  BY <1>7, <1>8 DEF Distance, U16
<1>11. CASE Rises(p)
  <2>1. b * s <= a * s
    <3>1. CASE s >= 0
      <4>1. b <= a
        BY <1>2, <1>10, <1>11, <3>1 DEF Rises
      <4>2. QED
        BY <3>1, <4>1, ProductsOrdered
    <3>2. CASE s < 0
      <4>1. a <= b
        BY <1>2, <1>10, <1>11, <3>2 DEF Rises
      <4>2. QED
        BY <3>2, <4>1, ProductsOrdered
    <3>3. QED
      BY <3>1, <3>2
  <2>2. m <= n
    BY <1>9, <2>1, ClampedOrdered
  <2>3. BendAt(m, d) >= BendAt(n, d)
    BY <1>5, <2>2, BendFalls
  <2>4. QED
    BY <1>6, <1>11, <2>3
<1>12. CASE ~Rises(p)
  <2>1. a * s <= b * s
    <3>1. CASE s >= 0
      <4>1. a <= b
        BY <1>2, <1>10, <1>12, <3>1 DEF Rises
      <4>2. QED
        BY <3>1, <4>1, ProductsOrdered
    <3>2. CASE s < 0
      <4>1. b <= a
        BY <1>2, <1>10, <1>12, <3>2 DEF Rises
      <4>2. QED
        BY <3>2, <4>1, ProductsOrdered
    <3>3. QED
      BY <3>1, <3>2
  <2>2. n <= m
    BY <1>9, <2>1, ClampedOrdered
  <2>3. BendAt(n, d) >= BendAt(m, d)
    BY <1>5, <2>2, BendFalls
  <2>4. QED
    BY <1>6, <1>12, <2>3
<1>13. QED
  BY <1>11, <1>12

(* A channel that a PitchBend function was the last to bend is bent as its *)
(* parameters and the state it was last given say.                         *)
BentSo(f) ==
  bender = <<f, param[f].channel>> /\ given[f] # -1 /\ param[f].channel \notin astray
  => bend[param[f].channel] = BendOf(param[f], given[f])

PitchInv == \A f \in OfKind("PitchBend") : BentSo(f)

Follows(f) ==
  /\ bender = <<f, param[f].channel>> /\ bender' = bender
  /\ given[f] # -1 /\ given[f] <= given'[f]
  /\ param[f].channel \notin astray \cup astray'
  => IF Rises(param[f])
     THEN bend[param[f].channel] <= bend'[param[f].channel]
     ELSE bend[param[f].channel] >= bend'[param[f].channel]

LEMMA PitchTypes ==
  ASSUME TypeOK, NEW f \in OfKind("PitchBend")
  PROVE  /\ f \in Bound /\ param[f] \in PitchParam /\ param[f].channel \in Channel
         /\ given[f] \in U16 \cup {-1}
         /\ bend[param[f].channel] \in U16
<1>1. f \in Bound /\ param[f] \in PitchParam
  BY DEF TypeOK, OfKind, ParamOf
<1>2. param[f].channel \in Channel
  BY <1>1 DEF PitchParam
<1>3. QED
  BY <1>1, <1>2, GivenAssumption DEF TypeOK

LEMMA NotGivenFirst ==
  ASSUME NEW old \in U16 \cup {-1}, old # -1
  PROVE  ~(old <= -1)
BY DEF U16

(* Where nothing has bent a channel, nothing has to be shown. *)
LEMMA UnbentFollows ==
  ASSUME TypeOK, NEW f \in OfKind("PitchBend"),
         bender' # bender \/ bend' = bend \/ given'[f] = -1
  PROVE  Follows(f)
<1>1. PICK old \in U16 \cup {-1} : old = given[f]
  BY PitchTypes
<1>2. CASE bender' # bender
  BY <1>2, Zenon DEF Follows
<1>3. CASE bend' = bend
  <2>1. PICK c \in Channel, b \in U16 : c = param[f].channel /\ b = bend[c]
    BY PitchTypes
  <2>2. b <= b /\ b >= b
    BY DEF U16
  <2>3. bend[c] <= bend'[c] /\ bend[c] >= bend'[c]
    BY <1>3, <2>1, <2>2
  <2>4. QED
    BY <2>1, <2>3, Zenon DEF Follows
<1>4. CASE given'[f] = -1
  <2>1. ~(old # -1 /\ old <= -1)
    BY NotGivenFirst
  <2>2. ~(given[f] # -1 /\ given[f] <= given'[f])
    BY <1>1, <1>4, <2>1, Zenon
  <2>3. QED
    BY <2>2, Zenon DEF Follows
<1>5. QED
  BY <1>2, <1>3, <1>4

(* Another function's event bends with its own name or not at all. *)
LEMMA KeyEffect ==
  ASSUME TypeOK, NEW g \in Keys, NEW sent \in BOOLEAN, Press(g, sent) \/ ReleaseKey(g, sent)
  PROVE  /\ param' = param /\ given' = given /\ g \notin OfKind("PitchBend")
         /\ \/ bender' = <<g, param[g].channel>>
            \/ bender' = bender /\ bend' = bend /\ astray' = astray
<1>1. param' = param /\ given' = given /\ g \notin OfKind("PitchBend")
  BY DEF Press, ReleaseKey, Keys
<1>2. \/ \E on : SendNote(g, on, sent)
      \/ \E amount : SendBend(g, amount, sent)
      \/ SendProgram(g, sent)
      \/ SendNothing
  <2>1. CASE Press(g, sent)
    <3>1. CASE Kind[g] = "Note"
      <4>1. SendNote(g, param[g].velocity > 0, sent)
        BY <2>1, <3>1, Zenon DEF Press
      <4>2. QED
        BY <4>1, Zenon
    <3>2. CASE Kind[g] = "ConstPitchBend"
      BY <2>1, <3>2, Zenon DEF Press
    <3>3. CASE Kind[g] = "Instrument"
      BY <2>1, <3>3, Zenon DEF Press
    <3>4. QED
      BY <3>1, <3>2, <3>3, KeyKinds
  <2>2. CASE ReleaseKey(g, sent)
    BY <2>2, Zenon DEF ReleaseKey, Release
  <2>3. QED
    BY <2>1, <2>2
<1>3. \/ bender' = <<g, param[g].channel>>
      \/ bender' = bender /\ bend' = bend /\ astray' = astray
  BY <1>2, Zenon DEF SendNote, SendBend, SendProgram, SendNothing, synth
<1>4. QED
  BY <1>1, <1>3

LEMMA PitchStep ==
  ASSUME TypeOK, PitchInv, [Next]_vars
  PROVE  PitchInv' /\ \A f \in OfKind("PitchBend") : Follows(f)
<1>1. ASSUME NEW g \in Keys, NEW sent \in BOOLEAN, Press(g, sent) \/ ReleaseKey(g, sent)
      PROVE  PitchInv' /\ \A f \in OfKind("PitchBend") : Follows(f)
  <2>1. /\ param' = param /\ given' = given /\ g \notin OfKind("PitchBend")
        /\ \/ bender' = <<g, param[g].channel>>
           \/ bender' = bender /\ bend' = bend /\ astray' = astray
    BY <1>1, KeyEffect
  <2>2. OfKind("PitchBend")' = OfKind("PitchBend")
    BY <2>1 DEF OfKind, Bound
  <2>3. ASSUME NEW f \in OfKind("PitchBend")
        PROVE  BentSo(f)' /\ Follows(f)
    <3>1. CASE bender' = <<g, param[g].channel>>
      <4>1. PICK x, y : x = param[f].channel /\ y = param[g].channel
        OBVIOUS
      <4>2. <<g, y>> # <<f, x>>
        BY <2>1
      <4>3. bender' # <<f, param[f].channel>>
        BY <3>1, <4>1, <4>2, Zenon
      <4>4. QED
        BY <2>1, <4>3, Zenon DEF BentSo, Follows
    <3>2. CASE bender' = bender /\ bend' = bend /\ astray' = astray
      BY <2>1, <3>2, UnbentFollows DEF PitchInv, BentSo
    <3>3. QED
      BY <2>1, <3>1, <3>2
  <2>4. QED
    BY <2>2, <2>3 DEF PitchInv
<1>2. ASSUME NEW g \in OfKind("PitchBend"), NEW state \in Given, NEW sent \in BOOLEAN,
             Bend(g, state, sent)
      PROVE  PitchInv' /\ \A f \in OfKind("PitchBend") : Follows(f)
  <2>1. PICK p \in PitchParam : p = param[g]
    BY PitchTypes
  <2>2. PICK c \in Channel : c = p.channel
    BY <2>1 DEF PitchParam
  <2>3. PICK amount : amount = BendOf(p, state)
    OBVIOUS
  <2>4. /\ bender' = <<g, c>>
        /\ c \notin astray' => bend'[c] = amount
    BY <1>2, <2>1, <2>2, <2>3, BendEffect, PitchTypes DEF Bend
  <2>5. param' = param /\ given'[g] = state
    BY <1>2 DEF Bend, TypeOK
  <2>6. OfKind("PitchBend")' = OfKind("PitchBend")
    BY <2>5 DEF OfKind, Bound
  <2>7. ASSUME NEW f \in OfKind("PitchBend"), f # g
        PROVE  BentSo(f)' /\ Follows(f)
    <3>1. PICK x : x = param[f].channel
      OBVIOUS
    <3>2. <<g, c>> # <<f, x>>
      BY <2>7
    <3>3. bender' # <<f, param[f].channel>>
      BY <2>4, <3>1, <3>2, Zenon
    <3>4. QED
      BY <2>5, <3>3, Zenon DEF BentSo, Follows
  <2>8. BentSo(g)'
    BY <2>1, <2>2, <2>3, <2>4, <2>5 DEF BentSo
  <2>9. Follows(g)
    <3> SUFFICES ASSUME bender = <<g, c>>, given[g] # -1, given[g] <= state, c \notin astray \cup astray'
                 PROVE  IF Rises(p) THEN bend[c] <= bend'[c] ELSE bend[c] >= bend'[c]
      BY <2>1, <2>2, <2>5 DEF Follows
    <3>1. PICK old \in U16 : old = given[g]
      BY PitchTypes
    <3>2. PICK new \in U16 : new = state
      BY GivenAssumption
    <3>3. bend[c] = BendOf(p, old) /\ bend'[c] = BendOf(p, new)
      BY <2>1, <2>2, <2>3, <2>4, <3>1, <3>2 DEF PitchInv, BentSo
    <3>4. old <= new
      BY <3>1, <3>2
    <3>5. IF Rises(p) THEN BendOf(p, old) <= BendOf(p, new) ELSE BendOf(p, old) >= BendOf(p, new)
      BY <3>4, BendOrdered
    <3>6. QED
      BY <3>3, <3>5
  <2>10. QED
    BY <2>6, <2>7, <2>8, <2>9 DEF PitchInv
<1>3. ASSUME NEW g \in Bound, NEW p \in Params[g], SetParam(g, p)
      PROVE  PitchInv' /\ \A f \in OfKind("PitchBend") : Follows(f)
  <2>1. /\ bender' = bender /\ bend' = bend /\ astray' = astray
        /\ Bound' = Bound /\ OfKind("PitchBend")' = OfKind("PitchBend")
    BY <1>3 DEF SetParam, synth, OfKind, Bound
  <2>2. ASSUME NEW f \in OfKind("PitchBend")
        PROVE  BentSo(f)'
    <3>1. CASE f = g
      <4>1. given'[f] = -1
        BY <1>3, <3>1 DEF SetParam, TypeOK
      <4>2. QED
        BY <4>1 DEF BentSo
    <3>2. CASE f # g
      <4>1. given'[f] = given[f] /\ param'[f] = param[f]
        BY <1>3, <3>2 DEF SetParam, TypeOK
      <4>2. QED
        BY <2>1, <4>1 DEF PitchInv, BentSo
    <3>3. QED
      BY <3>1, <3>2
  <2>3. QED
    BY <2>1, <2>2, UnbentFollows DEF PitchInv
<1>4. CASE UNCHANGED vars
  <2>1. UNCHANGED <<bender, bend, astray, param, given>>
    BY <1>4 DEF vars, synth, history
  <2>2. QED
    BY <2>1, UnbentFollows DEF PitchInv, BentSo, OfKind, Bound
<1>5. QED
  BY <1>1, <1>2, <1>3, <1>4 DEF Next, Events

(* For any scale, range of states and layout, and whichever messages are   *)
(* lost: two bends of one PitchBend function on its channel, with none in  *)
(* between and its parameters as they were, are in the order of the states *)
(* that PitchBend::event was given.                                        *)
THEOREM MidiBendFollows == Spec => BendFollows
<1>1. Init => PitchInv
  BY DEF Init, PitchInv, BentSo
<1>2. TypeOK /\ PitchInv /\ [Next]_vars => PitchInv'
  BY PitchStep
<1>3. TypeOK /\ PitchInv /\ [Next]_vars => [\A f \in OfKind("PitchBend") : Follows(f)]_vars
  BY PitchStep
<1>4. QED
  BY <1>1, <1>2, <1>3, MidiTypeCorrect, PTL DEF Spec, BendFollows, Follows

-----------------------------------------------------------------------------
(***************************************************************************)
(* Module LayoutGrid: how addresses share a grid, how poll walks it and    *)
(* how it is saved, for a grid of any size and any files and layers.       *)
(***************************************************************************)

(* What a function on an interval and a concatenation are as sequences. *)
LEMMA FunctionIsSeq ==
  ASSUME NEW S, NEW n \in Nat, NEW f \in [1 .. n -> S]
  PROVE  f \in Seq(S) /\ Len(f) = n /\ DOMAIN f = 1 .. n
OBVIOUS

LEMMA SeqLength ==
  ASSUME NEW S, NEW s \in Seq(S)
  PROVE  Len(s) \in Nat /\ DOMAIN s = 1 .. Len(s) /\ \A i \in 1 .. Len(s) : s[i] \in S
OBVIOUS

LEMMA SameSeq ==
  ASSUME NEW S, NEW s \in Seq(S), NEW t \in Seq(S), Len(s) = Len(t),
         \A i \in DOMAIN s : s[i] = t[i]
  PROVE  s = t
OBVIOUS

LEMMA ConcatProperties ==
  ASSUME NEW S, NEW s \in Seq(S), NEW t \in Seq(S)
  PROVE  /\ s \o t \in Seq(S) /\ Len(s \o t) = Len(s) + Len(t)
         /\ \A i \in 1 .. Len(s) : (s \o t)[i] = s[i]
         /\ \A i \in 1 .. Len(t) : (s \o t)[Len(s) + i] = t[i]
OBVIOUS


(* Induction over an interval: a set that has 0 and, with each number, the *)
(* next one, has them all.                                                 *)
LEMMA IntervalInduction ==
  ASSUME NEW n \in Nat, NEW P,
         0 \in P,
         \A j \in 1 .. n : j - 1 \in P => j \in P
  PROVE  0 .. n \subseteq P
<1> DEFINE Rest == (0 .. n) \ P
<1> SUFFICES ASSUME Rest # {}
             PROVE  FALSE
  OBVIOUS
<1> DEFINE R == OpToRel(<, Nat)
<1>1. IsWellFoundedOn(R, Nat)
  BY NatLessThanWellFounded DEF R
<1>2. PICK m \in Rest : \A y \in Rest : ~ (<<y, m>> \in R)
  <2>1. Rest \subseteq Nat
    OBVIOUS
  <2> HIDE DEF Rest, R
  <2>2. QED
    BY <1>1, <2>1, WFMin
<1>3. m \in 1 .. n
  OBVIOUS
<1>4. m - 1 \in 0 .. n /\ <<m - 1, m>> \in R
  BY <1>3 DEF OpToRel
<1>5. m - 1 \in P
  BY <1>2, <1>4
<1>6. QED
  BY <1>3, <1>5

(* The sums of the first rows of a layer. *)
IsSum(f, shape) ==
  /\ f \in [0 .. Len(shape) -> Nat]
  /\ f[0] = 0
  /\ \A j \in 1 .. Len(shape) : f[j] = f[j - 1] + shape[j]

LEMMA SumExists ==
  ASSUME NEW shape \in Seq(Nat)
  PROVE  \E f : IsSum(f, shape)
<1> DEFINE n == Len(shape)
           Sum(f, k) == /\ f \in [0 .. k -> Nat]
                        /\ f[0] = 0
                        /\ \A j \in 1 .. k : f[j] = f[j - 1] + shape[j]
           P == {k \in 0 .. n : \E f : Sum(f, k)}
<1>1. 0 \in P
  <2>1. Sum([j \in 0 .. 0 |-> 0], 0)
    OBVIOUS
  <2> HIDE DEF Sum
  <2>2. \E f : Sum(f, 0)
    BY <2>1
  <2>3. QED
    BY <2>2
<1>2. ASSUME NEW k \in 1 .. n, k - 1 \in P
      PROVE  k \in P
  <2>1. PICK f : Sum(f, k - 1)
    BY <1>2
  <2>2. shape[k] \in Nat /\ f[k - 1] \in Nat
    BY <2>1
  <2> DEFINE g == [j \in 0 .. k |-> IF j = k THEN f[k - 1] + shape[k] ELSE f[j]]
  <2>3. g \in [0 .. k -> Nat]
    BY <2>1, <2>2
  <2>4. g[0] = 0
    BY <2>1
  <2>5. \A j \in 1 .. k : g[j] = g[j - 1] + shape[j]
    BY <2>1
  <2>6. Sum(g, k)
    BY <2>3, <2>4, <2>5
  <2> HIDE DEF Sum, g
  <2>7. \E h : Sum(h, k)
    BY <2>6
  <2>8. QED
    BY <2>7
<1>3. 0 .. n \subseteq P
  <2> HIDE DEF P
  <2>1. n \in Nat
    OBVIOUS
  <2>2. QED
    BY <1>1, <1>2, <2>1, IntervalInduction
<1>4. n \in P
  <2> HIDE DEF P
  <2>1. n \in 0 .. n
    OBVIOUS
  <2>2. QED
    BY <1>3, <2>1
<1>5. QED
  BY <1>4 DEF IsSum

LEMMA SumUnique ==
  ASSUME NEW shape \in Seq(Nat), NEW f, NEW g, IsSum(f, shape),
         g = [j \in 0 .. Len(shape) |-> IF j = 0 THEN 0 ELSE g[j - 1] + shape[j]]
  PROVE  g[Len(shape)] = f[Len(shape)]
<1> DEFINE P == {k \in 0 .. Len(shape) : g[k] = f[k]}
<1>1. 0 \in P
  BY DEF IsSum
<1>2. ASSUME NEW k \in 1 .. Len(shape), k - 1 \in P
      PROVE  k \in P
  <2>1. g[k] = g[k - 1] + shape[k] /\ f[k] = f[k - 1] + shape[k]
    BY DEF IsSum
  <2>2. QED
    BY <1>2, <2>1
<1>3. 0 .. Len(shape) \subseteq P
  <2> HIDE DEF P
  <2>1. Len(shape) \in Nat
    OBVIOUS
  <2>2. QED
    BY <1>1, <1>2, <2>1, IntervalInduction
<1>4. Len(shape) \in P
  <2> HIDE DEF P
  <2>1. Len(shape) \in 0 .. Len(shape)
    OBVIOUS
  <2>2. QED
    BY <1>3, <2>1
<1>5. QED
  BY <1>4

LEMMA CellsInIs ==
  ASSUME NEW shape \in Seq(Nat), NEW f, IsSum(f, shape)
  PROVE  CellsIn(shape) = f[Len(shape)]
<1> DEFINE Is(g) == g = [j \in 0 .. Len(shape) |-> IF j = 0 THEN 0 ELSE g[j - 1] + shape[j]]
           cells == CHOOSE g : Is(g)
<1>1. Is(f)
  <2>1. DOMAIN f = 0 .. Len(shape)
    BY DEF IsSum
  <2>2. \A j \in 0 .. Len(shape) : f[j] = IF j = 0 THEN 0 ELSE f[j - 1] + shape[j]
    BY DEF IsSum
  <2>3. f = [j \in DOMAIN f |-> f[j]]
    BY DEF IsSum
  <2>4. QED
    BY <2>1, <2>2, <2>3
<1>2. Is(cells)
  <2> HIDE DEF Is
  <2>1. QED
    BY <1>1
<1>3. CellsIn(shape) = cells[Len(shape)]
  BY DEF CellsIn
<1>4. QED
  <2> HIDE DEF cells
  <2>1. QED
    BY <1>2, <1>3, SumUnique

LEMMA CellsInType ==
  ASSUME NEW shape \in Seq(Nat)
  PROVE  CellsIn(shape) \in Nat
<1>1. PICK f : IsSum(f, shape)
  BY SumExists
<1>2. Len(shape) \in 0 .. Len(shape)
  OBVIOUS
<1>3. f[Len(shape)] \in Nat
  BY <1>1, <1>2 DEF IsSum
<1>4. QED
  BY <1>1, <1>3, CellsInIs

(* A layer that add_layer takes has no more cells than the grid. *)
LEMMA CellsInBound ==
  ASSUME NEW shape \in Seq(Nat), Accepts(shape)
  PROVE  CellsIn(shape) <= Width * Height
<1>1. Width \in Nat /\ Height \in Nat
  BY SizeAssumption
<1>2. PICK f : IsSum(f, shape)
  BY SumExists
<1>3. PICK n \in Nat : n = Len(shape)
  OBVIOUS
<1>4. n <= Height /\ \A j \in 1 .. n : shape[j] \in Nat /\ shape[j] <= Width
  BY <1>3 DEF Accepts
<1> DEFINE P == {k \in 0 .. n : f[k] <= Width * k}
<1>5. 0 \in P
  BY <1>1, <1>2, <1>3 DEF IsSum
<1>6. ASSUME NEW k \in 1 .. n, k - 1 \in P
      PROVE  k \in P
  <2>1. f[k] = f[k - 1] + shape[k] /\ f[k - 1] \in Nat
    BY <1>2, <1>3 DEF IsSum
  <2>2. Width * k = Width * (k - 1) + Width
    BY <1>1
  <2>3. Width * (k - 1) \in Nat /\ Width * k \in Nat
    BY <1>1
  <2>4. f[k - 1] <= Width * (k - 1)
    BY <1>6
  <2>5. shape[k] <= Width /\ shape[k] \in Nat
    BY <1>4
  <2>6. f[k] <= Width * k
    BY <1>1, <2>1, <2>2, <2>3, <2>4, <2>5
  <2>7. QED
    BY <2>6
<1>7. n \in P
  <2> HIDE DEF P
  <2>1. 0 .. n \subseteq P
    BY <1>5, <1>6, IntervalInduction
  <2>2. n \in 0 .. n
    BY <1>3
  <2>3. QED
    BY <2>1, <2>2
<1>8. f[n] <= Width * n /\ f[n] \in Nat
  BY <1>2, <1>3, <1>7 DEF IsSum
<1>9. Width * n <= Width * Height
  BY <1>1, <1>4
<1>10. Width * n \in Nat /\ Width * Height \in Nat
  BY <1>1
<1>11. f[n] <= Width * Height
  BY <1>8, <1>9, <1>10
<1>12. QED
  BY <1>2, <1>3, <1>11, CellsInIs

(* Quotient and remainder. *)
LEMMA Quotient ==
  ASSUME NEW k \in Nat, NEW w \in Nat \ {0}
  PROVE  /\ k \div w \in Nat /\ k % w \in 0 .. w - 1
         /\ k = (w * (k \div w)) + (k % w)
<1>1. k \div w \in Int /\ k % w \in 0 .. w - 1 /\ k = (w * (k \div w)) + (k % w)
  OBVIOUS
<1>2. PICK q \in Int, r \in 0 .. w - 1 : q = k \div w /\ r = k % w /\ k = w * q + r
  BY <1>1
<1>3. ASSUME q < 0
      PROVE  FALSE
  <2>1. q <= -1
    BY <1>3
  <2>2. w * q <= -w
    BY <2>1
  <2>3. w * q \in Int
    OBVIOUS
  <2>4. QED
    BY <1>2, <2>2, <2>3
<1>4. QED
  BY <1>1, <1>2, <1>3

LEMMA QuotientType ==
  ASSUME NEW k \in Nat, NEW w \in Nat \ {0}
  PROVE  k % w \in Nat /\ k \div w \in Nat
BY Quotient

LEMMA RowBelow ==
  ASSUME NEW k \in Nat, NEW n \in Nat, NEW w \in Nat \ {0}, n % w = 0, k < n
  PROVE  k \div w < n \div w
<1>1. k = (w * (k \div w)) + (k % w) /\ k \div w \in Nat /\ k % w \in 0 .. w - 1
  BY Quotient
<1>2. n = w * (n \div w) /\ n \div w \in Nat
  BY Quotient
<1>3. PICK p \in Nat, q \in Nat, r \in 0 .. w - 1 : p = k \div w /\ q = n \div w /\ r = k % w
  BY <1>1, <1>2
<1>4. k = w * p + r /\ n = w * q
  BY <1>1, <1>2, <1>3
<1>5. ASSUME p >= q
      PROVE  FALSE
  <2>1. w * p >= w * q
    BY <1>5
  <2>2. w * p \in Nat /\ w * q \in Nat
    OBVIOUS
  <2>3. QED
    BY <1>4, <2>1, <2>2
<1>6. QED
  BY <1>3, <1>5

-----------------------------------------------------------------------------
Address == Matrix \cup Point

(* An address that the builder takes. *)
Proper(a) == ~DividesByZero(a) /\ Fits(a)

LEMMA AddressKinds ==
  ASSUME NEW a \in Address
  PROVE  /\ a.root \in Nat \X Nat
         /\ \/ a.kind = "point" /\ a \in Point
            \/ a.kind = "matrix" /\ a \in Matrix /\ a.size \in Nat /\ a.width \in Nat
BY DEF Address, Matrix, Point

(* All cells that such an address asks for are in the grid. *)
LEMMA CellInGrid ==
  ASSUME NEW a \in Address, Proper(a), NEW k \in 0 .. SizeOf(a) - 1
  PROVE  CellOf(a, k) \in Cells
<1>1. Width \in Nat /\ Height \in Nat
  BY SizeAssumption
<1>2. CASE a.kind = "point"
  BY <1>2 DEF Proper, Fits, CellOf
<1>3. CASE a.kind = "matrix"
  <2>1. /\ a.size \in Nat /\ a.width \in Nat \ {0} /\ a.size % a.width = 0
        /\ a.root \in Cells
        /\ a.root[1] + a.width <= Width
        /\ a.root[2] + (a.size \div a.width) <= Height
        /\ k \in Nat /\ k < a.size
    BY <1>3, AddressKinds DEF Proper, DividesByZero, Fits, SizeOf
  <2>2. PICK w \in Nat \ {0}, n \in Nat : w = a.width /\ n = a.size
    BY <2>1
  <2>3. PICK x \in Nat, y \in Nat : x = a.root[1] /\ y = a.root[2]
    BY <2>1 DEF Cells
  <2>4. k % w \in 0 .. w - 1 /\ k \div w \in Nat /\ k \div w < n \div w /\ n \div w \in Nat
    BY <2>1, <2>2, Quotient, RowBelow
  <2>5. x + w <= Width /\ y + (n \div w) <= Height
    BY <2>1, <2>2, <2>3
  <2>6. PICK p \in Nat, r \in Nat, q \in Nat : p = k \div w /\ r = k % w /\ q = n \div w
    BY <2>4
  <2>7. x + r \in 0 .. Width - 1 /\ y + p \in 0 .. Height - 1
    BY <1>1, <2>4, <2>5, <2>6
  <2>8. CellOf(a, k) = <<x + r, y + p>>
    BY <1>3, <2>2, <2>3, <2>6 DEF CellOf
  <2>9. QED
    BY <2>7, <2>8 DEF Cells
<1>4. QED
  BY <1>2, <1>3, AddressKinds

LEMMA ClaimsInGrid ==
  ASSUME NEW a \in Address, Proper(a)
  PROVE  Claims(a) \subseteq Cells
BY CellInGrid DEF Claims

-----------------------------------------------------------------------------
(* No two of the addresses that one of layout.json becomes have a cell in  *)
(* common.                                                                 *)
Apart(as) ==
  \A i, j \in DOMAIN as : Claims(as[i]) \cap Claims(as[j]) # {} => i = j

LEMMA PointClaims ==
  ASSUME NEW c \in Nat \X Nat
  PROVE  /\ PointAt(c) \in Address
         /\ Claims(PointAt(c)) = {c}
<1>1. PointAt(c).kind = "point" /\ PointAt(c).root = c
  BY DEF PointAt
<1>2. PointAt(c) \in Address
  BY DEF Address, Point, PointAt
<1>3. 0 .. SizeOf(PointAt(c)) - 1 = {0}
  BY <1>1 DEF SizeOf
<1>4. \A k : CellOf(PointAt(c), k) = c
  BY <1>1 DEF CellOf
<1>5. QED
  BY <1>2, <1>3, <1>4 DEF Claims

LEMMA ExpandType ==
  ASSUME NEW a \in Address \cup Line
  PROVE  Expand(a) \in Seq(Address) /\ Apart(Expand(a))
<1>1. CASE a.kind = "row"
  <2>1. a.size \in Nat /\ a.root \in Nat
    BY <1>1 DEF Address, Matrix, Point, Line
  <2>2. Expand(a) = [i \in 1 .. a.size |-> PointAt(<<i - 1, a.root>>)]
    BY <1>1 DEF Expand
  <2>3. \A i \in 1 .. a.size : <<i - 1, a.root>> \in Nat \X Nat
    BY <2>1
  <2>4. Expand(a) \in Seq(Address)
    <3>1. \A i \in 1 .. a.size : PointAt(<<i - 1, a.root>>) \in Address
      BY <2>3, PointClaims
    <3>2. Expand(a) \in [1 .. a.size -> Address]
      BY <2>2, <3>1
    <3>3. QED
      BY <2>1, <3>2, FunctionIsSeq
  <2>5. \A i \in 1 .. a.size : Claims(Expand(a)[i]) = {<<i - 1, a.root>>}
    BY <2>2, <2>3, PointClaims
  <2>6. DOMAIN Expand(a) = 1 .. a.size
    BY <2>2
  <2>7. \A i, j \in 1 .. a.size : {<<i - 1, a.root>>} \cap {<<j - 1, a.root>>} # {} => i = j
    BY <2>1
  <2>8. Apart(Expand(a))
    BY <2>5, <2>6, <2>7 DEF Apart
  <2>9. QED
    BY <2>4, <2>8
<1>2. CASE a.kind = "column"
  <2>1. a.size \in Nat /\ a.root \in Nat
    BY <1>2 DEF Address, Matrix, Point, Line
  <2>2. Expand(a) = [i \in 1 .. a.size |-> PointAt(<<a.root, i - 1>>)]
    BY <1>2 DEF Expand
  <2>3. \A i \in 1 .. a.size : <<a.root, i - 1>> \in Nat \X Nat
    BY <2>1
  <2>4. Expand(a) \in Seq(Address)
    <3>1. \A i \in 1 .. a.size : PointAt(<<a.root, i - 1>>) \in Address
      BY <2>3, PointClaims
    <3>2. Expand(a) \in [1 .. a.size -> Address]
      BY <2>2, <3>1
    <3>3. QED
      BY <2>1, <3>2, FunctionIsSeq
  <2>5. \A i \in 1 .. a.size : Claims(Expand(a)[i]) = {<<a.root, i - 1>>}
    BY <2>2, <2>3, PointClaims
  <2>6. DOMAIN Expand(a) = 1 .. a.size
    BY <2>2
  <2>7. \A i, j \in 1 .. a.size : {<<a.root, i - 1>>} \cap {<<a.root, j - 1>>} # {} => i = j
    BY <2>1
  <2>8. Apart(Expand(a))
    BY <2>5, <2>6, <2>7 DEF Apart
  <2>9. QED
    BY <2>4, <2>8
<1>3. CASE a.kind \notin {"row", "column"}
  <2>1. a \in Address
    BY <1>3 DEF Line
  <2>2. Expand(a) = <<a>>
    BY <1>3 DEF Expand
  <2>3. Expand(a) \in Seq(Address) /\ DOMAIN Expand(a) = {1}
    BY <2>1, <2>2
  <2>4. QED
    BY <2>3 DEF Apart
<1>4. QED
  BY <1>1, <1>2, <1>3

(* One of layout.json's addresses is refused before a matrix of width 0    *)
(* could be among what it becomes.                                         *)
LEMMA ExpandProper ==
  ASSUME NEW a \in Address \cup Line, ~DividesByZero(a),
         NEW i \in DOMAIN Expand(a), CanBind(Expand(a)[i])
  PROVE  Proper(Expand(a)[i])
<1>1. Fits(Expand(a)[i])
  BY DEF CanBind
<1>2. CASE a.kind \in {"row", "column"}
  <2>1. a.size \in Nat
    BY <1>2 DEF Address, Matrix, Point, Line
  <2>2. Expand(a)[i].kind = "point"
    BY <1>2, <2>1 DEF Expand, PointAt
  <2>3. QED
    BY <1>1, <2>2 DEF Proper, DividesByZero
<1>3. CASE a.kind \notin {"row", "column"}
  <2>1. Expand(a) = <<a>>
    BY <1>3 DEF Expand
  <2>2. Expand(a)[i] = a
    BY <2>1
  <2>3. QED
    BY <1>1, <2>2 DEF Proper
<1>4. QED
  BY <1>2, <1>3

LEMMA GridMaxIsGreatest ==
  ASSUME NEW n \in Nat, NEW S \in SUBSET (1 .. n), S # {}
  PROVE  Max(S) \in S /\ \A x \in S : Max(S) >= x
<1> DEFINE Above == {n - x : x \in S}
           R == OpToRel(<, Nat)
<1>1. Above \subseteq Nat /\ Above # {}
  OBVIOUS
<1>2. IsWellFoundedOn(R, Nat)
  BY NatLessThanWellFounded DEF R
<1>3. PICK d \in Above : \A e \in Above : ~ (<<e, d>> \in R)
  <2> HIDE DEF Above, R
  <2>1. QED
    BY <1>1, <1>2, WFMin
<1>4. PICK z \in S : d = n - z
  OBVIOUS
<1>5. ASSUME NEW x \in S
      PROVE  z >= x
  <2>1. n - x \in Above /\ n - x \in Nat /\ d \in Nat
    BY <1>1
  <2>2. ~ (n - x < d)
    BY <1>3, <2>1 DEF R, OpToRel
  <2>3. QED
    BY <1>4, <2>1, <2>2
<1>6. \E m \in S : \A x \in S : m >= x
  BY <1>5
<1>7. QED
  BY <1>6 DEF Max

AllProper == \A i \in DOMAIN addresses : Proper(addresses[i])

(* What binding some addresses makes of the grid. *)
LEMMA BindEffect ==
  ASSUME addresses \in Seq(Address), layout \in [Cells -> 0 .. Len(addresses)],
         AllProper, EachHasItsCells,
         NEW as \in Seq(Address), Apart(as),
         \A i \in DOMAIN as : Proper(as[i]) /\ CanBind(as[i]),
         Bind(as)
  PROVE  /\ addresses' \in Seq(Address)
         /\ layout' \in [Cells -> 0 .. Len(addresses')]
         /\ AllProper' /\ EachHasItsCells'
<1> DEFINE n == Len(addresses)
           m == Len(as)
           Claiming(c) == {i \in DOMAIN as : c \in Claims(as[i])}
<1>1. /\ addresses' = addresses \o as
      /\ layout' = [c \in Cells |->
           IF Claiming(c) = {} THEN layout[c] ELSE n + Max(Claiming(c))]
  BY DEF Bind
<1>2. /\ n \in Nat /\ m \in Nat /\ DOMAIN as = 1 .. m /\ DOMAIN addresses = 1 .. n
      /\ addresses' \in Seq(Address) /\ Len(addresses') = n + m
      /\ \A i \in 1 .. n : addresses'[i] = addresses[i]
      /\ \A i \in 1 .. m : addresses'[n + i] = as[i]
  <2>1. n \in Nat /\ m \in Nat /\ DOMAIN as = 1 .. m /\ DOMAIN addresses = 1 .. n
    BY SeqLength
  <2>2. /\ addresses \o as \in Seq(Address) /\ Len(addresses \o as) = n + m
        /\ \A i \in 1 .. n : (addresses \o as)[i] = addresses[i]
        /\ \A i \in 1 .. m : (addresses \o as)[n + i] = as[i]
    <3>1. ASSUME NEW s \in Seq(Address), NEW t \in Seq(Address)
          PROVE  /\ s \o t \in Seq(Address) /\ Len(s \o t) = Len(s) + Len(t)
                 /\ \A i \in 1 .. Len(s) : (s \o t)[i] = s[i]
                 /\ \A i \in 1 .. Len(t) : (s \o t)[Len(s) + i] = t[i]
      BY ConcatProperties
    <3>2. QED
      BY <3>1, Zenon
  <2>3. QED
    BY <1>1, <2>1, <2>2, Zenon
<1>3. /\ \A i \in 1 .. n + m : i > n => i - n \in 1 .. m /\ i = n + (i - n)
      /\ layout \in [Cells -> 0 .. n]
  <2>1. ASSUME NEW a \in Nat, NEW b \in Nat, NEW i \in 1 .. a + b, i > a
        PROVE  i - a \in 1 .. b /\ i = a + (i - a)
    BY <2>1
  <2>2. layout \in [Cells -> 0 .. n]
    OBVIOUS
  <2> HIDE DEF n, m
  <2>3. QED
    BY <1>2, <2>1, <2>2
<1> HIDE DEF n, m
<1>4. ASSUME NEW c \in Cells
      PROVE  /\ Claiming(c) = {} => layout'[c] = layout[c] /\ layout[c] \in 0 .. n
             /\ \A i \in Claiming(c) : layout'[c] = n + i /\ i \in 1 .. m
  <2>1. layout'[c] = IF Claiming(c) = {} THEN layout[c] ELSE n + Max(Claiming(c))
    BY <1>1
  <2>2. ASSUME NEW i \in Claiming(c)
        PROVE  Max(Claiming(c)) = i /\ i \in 1 .. m
    <3>1. Claiming(c) \in SUBSET (1 .. m) /\ Claiming(c) # {}
      BY <1>2, <2>2
    <3>2. Max(Claiming(c)) \in Claiming(c)
      <4> HIDE DEF Claiming
      <4>1. QED
        BY <1>2, <3>1, GridMaxIsGreatest
    <3>3. QED
      BY <1>2, <2>2, <3>1, <3>2 DEF Apart
  <2> HIDE DEF Claiming
  <2>3. QED
    BY <1>3, <2>1, <2>2
<1>5. layout' \in [Cells -> 0 .. n + m]
  <2>1. ASSUME NEW c \in Cells
        PROVE  layout'[c] \in 0 .. n + m
    <3> HIDE DEF Claiming
    <3>1. CASE Claiming(c) = {}
      BY <1>2, <1>4, <3>1
    <3>2. CASE Claiming(c) # {}
      <4>1. PICK i \in Claiming(c) : TRUE
        BY <3>2
      <4>2. layout'[c] = n + i /\ i \in 1 .. m
        BY <1>4, <4>1
      <4>3. QED
        BY <1>2, <4>2
    <3>3. QED
      BY <3>1, <3>2
  <2>2. layout' = [c \in Cells |-> layout'[c]]
    BY <1>1
  <2>3. QED
    BY <2>1, <2>2
<1>6. AllProper'
  <2>1. ASSUME NEW i \in 1 .. n + m
        PROVE  Proper(addresses'[i])
    <3>1. CASE i <= n
      <4>1. i \in 1 .. n
        BY <1>2, <3>1
      <4>2. QED
        BY <1>2, <4>1 DEF AllProper
    <3>2. CASE i > n
      <4>1. i - n \in 1 .. m /\ i = n + (i - n)
        BY <1>3, <3>2
      <4>2. QED
        BY <1>2, <4>1
    <3>3. QED
      BY <1>2, <3>1, <3>2
  <2>2. DOMAIN addresses' = 1 .. n + m
    BY <1>2
  <2>3. QED
    BY <2>1, <2>2 DEF AllProper
<1>7. EachHasItsCells'
  <2>1. ASSUME NEW i \in 1 .. n
        PROVE  Claims(addresses'[i]) = {c \in Cells : layout'[c] = i}
    <3>1. Claims(addresses'[i]) = {c \in Cells : layout[c] = i}
      BY <1>2 DEF EachHasItsCells
    <3>2. ASSUME NEW c \in Cells
          PROVE  layout'[c] = i <=> layout[c] = i
      <4>1. ASSUME NEW j \in Claiming(c)
            PROVE  layout[c] = 0
        BY <4>1 DEF CanBind, IsFree
      <4> HIDE DEF Claiming
      <4>2. CASE Claiming(c) = {}
        BY <1>4, <4>2
      <4>3. CASE Claiming(c) # {}
        <5>1. PICK j \in Claiming(c) : TRUE
          BY <4>3
        <5>2. layout'[c] = n + j /\ j \in 1 .. m /\ layout[c] = 0
          BY <1>4, <4>1, <5>1
        <5>3. QED
          BY <1>2, <5>2
      <4>4. QED
        BY <4>2, <4>3
    <3>3. QED
      BY <3>1, <3>2
  <2>2. ASSUME NEW i \in 1 .. m
        PROVE  Claims(addresses'[n + i]) = {c \in Cells : layout'[c] = n + i}
    <3>1. addresses'[n + i] = as[i] /\ i \in DOMAIN as
      BY <1>2
    <3>2. Claims(as[i]) \subseteq Cells
      <4>1. as[i] \in Address
        BY <1>2, SeqLength
      <4>2. Proper(as[i])
        BY <3>1
      <4>3. QED
        BY <4>1, <4>2, ClaimsInGrid
    <3>3. ASSUME NEW c \in Cells
          PROVE  layout'[c] = n + i <=> c \in Claims(as[i])
      <4>1. i \in Claiming(c) <=> c \in Claims(as[i])
        BY <3>1
      <4> HIDE DEF Claiming
      <4>2. CASE Claiming(c) = {}
        <5>1. layout'[c] \in 0 .. n
          BY <1>4, <4>2
        <5>2. ~ (i \in Claiming(c)) /\ layout'[c] # n + i
          BY <1>2, <4>2, <5>1
        <5>3. QED
          BY <4>1, <5>2
      <4>3. CASE Claiming(c) # {}
        <5>1. PICK j \in Claiming(c) : TRUE
          BY <4>3
        <5>2. layout'[c] = n + j /\ j \in 1 .. m
          BY <1>4, <5>1
        <5>3. i \in Claiming(c) => layout'[c] = n + i
          BY <1>4
        <5>4. layout'[c] = n + i => i = j
          BY <1>2, <5>2
        <5>5. QED
          BY <4>1, <5>1, <5>3, <5>4
      <4>4. QED
        BY <4>2, <4>3
    <3>4. QED
      BY <3>1, <3>2, <3>3
  <2>3. ASSUME NEW i \in 1 .. n + m
        PROVE  Claims(addresses'[i]) = {c \in Cells : layout'[c] = i}
    <3>1. CASE i <= n
      <4>1. i \in 1 .. n
        BY <1>2, <3>1
      <4>2. QED
        BY <2>1, <4>1
    <3>2. CASE i > n
      <4>1. PICK j \in 1 .. m : i = n + j
        <5>1. i - n \in 1 .. m /\ i = n + (i - n)
          BY <1>3, <3>2
        <5>2. QED
          BY <5>1
      <4>2. QED
        BY <2>2, <4>1
    <3>3. QED
      BY <1>2, <3>1, <3>2
  <2>4. DOMAIN addresses' = 1 .. n + m
    BY <1>2
  <2> HIDE DEF Claiming
  <2>5. QED
    BY <2>3, <2>4 DEF EachHasItsCells
<1>8. QED
  BY <1>2, <1>5, <1>6, <1>7

-----------------------------------------------------------------------------
(* One cell further in a matrix of width w: in the next row if this one is *)
(* full.                                                                   *)
LEMMA NextPlace ==
  ASSUME NEW w \in Nat \ {0}, NEW k \in Nat \ {0}
  PROVE  LET x == ((k - 1) % w) + 1
             y == (k - 1) \div w
         IN  /\ x % w = 0 => k % w = 0 /\ k \div w = y + 1
             /\ x % w # 0 => k % w = x /\ k \div w = y
<1>1. PICK q \in Nat, r \in 0 .. w - 1 :
        q = (k - 1) \div w /\ r = (k - 1) % w /\ k - 1 = (w * q) + r
  BY Quotient
<1>2. CASE r + 1 = w
  <2>1. (r + 1) % w = 0
    BY <1>2
  <2>2. k = w * (q + 1)
    BY <1>1, <1>2
  <2>3. k % w = 0 /\ k \div w = q + 1
    BY <2>2
  <2>4. QED
    BY <1>1, <2>1, <2>3
<1>3. CASE r + 1 < w
  <2>1. (r + 1) % w = r + 1 /\ r + 1 # 0
    BY <1>3
  <2>2. k = (w * q) + (r + 1) /\ r + 1 \in 0 .. w - 1
    BY <1>1, <1>3
  <2>3. k % w = r + 1 /\ k \div w = q
    BY <2>2
  <2>4. QED
    BY <1>1, <2>1, <2>3
<1>4. QED
  BY <1>1, <1>2, <1>3

(* Poll walks a matrix at the left edge as the matrix is bound. *)
LEMMA WalkIsBound ==
  ASSUME NEW a \in Address, Proper(a), AtLeftEdge(a)
  PROVE  PolledAsBound(a)
<1>1. CASE a.kind = "point"
  BY <1>1 DEF PolledAsBound, PolledCell, CellOf
<1>2. CASE a.kind = "matrix"
  <2>1. a.size \in Nat /\ a.width \in Nat \ {0} /\ a.root \in Nat \X Nat /\ a.root[1] = 0
    BY <1>2, AddressKinds DEF Proper, DividesByZero, AtLeftEdge
  <2>2. PICK w \in Nat \ {0}, n \in Nat, y \in Nat :
          w = a.width /\ n = a.size /\ a.root = <<0, y>>
    BY <2>1
  <2>3. SizeOf(a) = n
    BY <1>2, <2>2 DEF SizeOf
  <2> DEFINE Place(c) == IF (c[1] + 1) % w = 0 THEN <<0, c[2] + 1>> ELSE <<c[1] + 1, c[2]>>
             Is(g) == g = [k \in 0 .. n |-> IF k = 0 THEN <<0, y>> ELSE Place(g[k - 1])]
             f == [k \in 0 .. n |-> <<k % w, y + (k \div w)>>]
             walk == CHOOSE g : Is(g)
  <2>4. Walk(a) = walk
    BY <2>2, <2>3 DEF Walk
  <2>5. ASSUME NEW k \in 0 .. n
        PROVE  f[k] = IF k = 0 THEN <<0, y>> ELSE Place(f[k - 1])
    <3>1. CASE k = 0
      <4>1. 0 % w = 0 /\ 0 \div w = 0
        OBVIOUS
      <4>2. QED
        BY <3>1, <4>1
    <3>2. CASE k # 0
      <4>1. k \in Nat \ {0} /\ k - 1 \in 0 .. n
        BY <3>2
      <4>2. PICK x \in Nat, z \in Nat :
              x = (k - 1) % w /\ z = (k - 1) \div w
        <5>1. k - 1 \in Nat
          BY <4>1
        <5>2. (k - 1) % w \in Nat /\ (k - 1) \div w \in Nat
          BY <5>1, QuotientType
        <5>3. QED
          BY <5>2
      <4>3. f[k - 1] = <<x, y + z>>
        BY <4>1, <4>2
      <4>4. /\ (x + 1) % w = 0 => k % w = 0 /\ k \div w = z + 1
            /\ (x + 1) % w # 0 => k % w = x + 1 /\ k \div w = z
        BY <4>1, <4>2, NextPlace
      <4>5. f[k] = <<k % w, y + (k \div w)>>
        OBVIOUS
      <4> HIDE DEF f
      <4>6. Place(f[k - 1]) = IF (x + 1) % w = 0 THEN <<0, y + z + 1>> ELSE <<x + 1, y + z>>
        BY <4>3
      <4>7. y + (z + 1) = y + z + 1
        OBVIOUS
      <4> HIDE DEF Place
      <4>8. QED
        BY <3>2, <4>4, <4>5, <4>6, <4>7
    <3>3. QED
      BY <3>1, <3>2
  <2>6. Is(f)
    <3>1. f = [k \in 0 .. n |-> f[k]]
      OBVIOUS
    <3> HIDE DEF f, Place
    <3>2. QED
      BY <2>5, <3>1
  <2>7. Is(walk)
    <3> HIDE DEF Is, f
    <3>1. QED
      BY <2>6
  <2> DEFINE P == {k \in 0 .. n : walk[k] = f[k]}
  <2>8. 0 \in P
    <3>1. walk[0] = <<0, y>>
      <4> HIDE DEF walk, Place
      <4>1. QED
        BY <2>7
    <3>2. f[0] = <<0, y>>
      <4> HIDE DEF f, Place
      <4>1. QED
        BY <2>5
    <3> HIDE DEF walk, f
    <3>3. QED
      BY <3>1, <3>2
  <2>9. ASSUME NEW k \in 1 .. n, k - 1 \in P
        PROVE  k \in P
    <3>1. walk[k] = Place(walk[k - 1])
      <4> HIDE DEF walk, Place
      <4>1. k \in 0 .. n /\ k # 0
        OBVIOUS
      <4>2. \A j \in 0 .. n : walk[j] = IF j = 0 THEN <<0, y>> ELSE Place(walk[j - 1])
        BY <2>7, Zenon
      <4>3. QED
        BY <4>1, <4>2
    <3>2. f[k] = Place(f[k - 1])
      <4> HIDE DEF f, Place
      <4>1. QED
        BY <2>5
    <3> HIDE DEF walk, f, Place
    <3>3. QED
      BY <2>9, <3>1, <3>2
  <2>10. \A k \in 0 .. n : walk[k] = f[k]
    <3>1. 0 .. n \subseteq P
      <4> HIDE DEF P
      <4>1. QED
        BY <2>8, <2>9, IntervalInduction
    <3> HIDE DEF walk, f
    <3>2. QED
      BY <3>1
  <2>11. ASSUME NEW k \in 0 .. n - 1
         PROVE  PolledCell(a, k) = CellOf(a, k)
    <3>1. k \in 0 .. n
      OBVIOUS
    <3>2. PolledCell(a, k) = walk[k]
      BY <1>2, <2>4 DEF PolledCell
    <3>3. f[k] = <<k % w, y + (k \div w)>>
      BY <3>1
    <3>4. PICK r \in Nat, q \in Nat : r = k % w /\ q = k \div w
      <4>1. k % w \in Nat /\ k \div w \in Nat
        BY <3>1, QuotientType
      <4>2. QED
        BY <4>1
    <3>5. CellOf(a, k) = <<0 + r, y + q>>
      BY <1>2, <2>2, <3>4 DEF CellOf
    <3> HIDE DEF f, walk
    <3>6. QED
      BY <2>10, <3>1, <3>2, <3>3, <3>4, <3>5
  <2>12. QED
    BY <2>3, <2>11 DEF PolledAsBound
<1>3. QED
  BY <1>1, <1>2, AddressKinds

-----------------------------------------------------------------------------
GridInv == GridTypeOK /\ EachHasItsCells /\ AllProper

LEMMA FreshGrid ==
  ASSUME addresses' = <<>>, layout' = Empty, layers' = <<>>
  PROVE  /\ addresses' \in Seq(Matrix \cup Point)
         /\ layout' \in [Cells -> 0 .. Len(addresses')]
         /\ layers' \in Seq(Nat)
         /\ EachHasItsCells' /\ AllProper'
<1>1. DOMAIN addresses' = {} /\ Len(addresses') = 0
  OBVIOUS
<1>2. layout' \in [Cells -> 0 .. Len(addresses')]
  BY <1>1 DEF Empty
<1>3. EachHasItsCells' /\ AllProper'
  BY <1>1 DEF EachHasItsCells, AllProper
<1>4. QED
  BY <1>2, <1>3

LEMMA GridInvInit ==
  ASSUME GridInit
  PROVE  GridInv
<1>1. /\ file \in File /\ saved = <<>> /\ status = "reading" /\ at = 1
      /\ addresses = <<>> /\ layout = Empty /\ layers = <<>>
  BY FilesAssumption DEF GridInit
<1>2. DOMAIN addresses = {} /\ Len(addresses) = 0
  BY <1>1
<1>3. layout \in [Cells -> 0 .. Len(addresses)]
  BY <1>1, <1>2 DEF Empty
<1>4. addresses \in Seq(Matrix \cup Point) /\ layers \in Seq(Nat)
  BY <1>1
<1>5. GridTypeOK
  BY <1>1, <1>3, <1>4 DEF GridTypeOK
<1>6. EachHasItsCells /\ AllProper
  BY <1>2 DEF EachHasItsCells, AllProper
<1>7. QED
  BY <1>5, <1>6 DEF GridInv

(* A layer of n cells in rows. *)
LEMMA ChunksType ==
  ASSUME NEW n \in Nat
  PROVE  Chunks(n) \in Seq(Nat)
<1>1. Width \in Nat \ {0}
  BY SizeAssumption
<1>2. n \div Width \in Nat /\ n % Width \in Nat
  BY <1>1, QuotientType
<1>3. [j \in 1 .. n \div Width |-> Width] \in Seq(Nat)
  BY <1>1, <1>2, FunctionIsSeq
<1>4. (IF n % Width = 0 THEN <<>> ELSE <<n % Width>>) \in Seq(Nat)
  BY <1>2
<1>5. QED
  BY <1>3, <1>4 DEF Chunks

LEMMA SavedFileType ==
  ASSUME GridTypeOK, SaveLayout
  PROVE  /\ file' \in File
         /\ file'.bound = addresses
         /\ DOMAIN file'.layers = DOMAIN layers
         /\ \A l \in DOMAIN layers : file'.layers[l] = Chunks(layers[l])
<1>1. file' = [bound |-> addresses, layers |-> [l \in DOMAIN layers |-> Chunks(layers[l])]]
  BY DEF SaveLayout, SavedBound
<1>2. layers \in Seq(Nat) /\ addresses \in Seq(Matrix \cup Point)
  BY DEF GridTypeOK
<1>3. [l \in DOMAIN layers |-> Chunks(layers[l])] \in Seq(Seq(Nat))
  <2>1. Len(layers) \in Nat /\ DOMAIN layers = 1 .. Len(layers)
        /\ \A l \in 1 .. Len(layers) : layers[l] \in Nat
    BY <1>2, SeqLength
  <2>2. [l \in DOMAIN layers |-> Chunks(layers[l])] \in [1 .. Len(layers) -> Seq(Nat)]
    BY <2>1, ChunksType
  <2>3. QED
    BY <2>1, <2>2, FunctionIsSeq
<1>4. addresses \in Seq(Matrix \cup Point \cup Line)
  BY <1>2
<1>5. QED
  BY <1>1, <1>3, <1>4 DEF File

(* What reading an address does. *)
LEMMA ReadAddressEffect ==
  ASSUME GridTypeOK, ReadAddress
  PROVE  /\ status = "reading" /\ at \in DOMAIN file.bound
         /\ file.bound[at] \in Address \cup Line
         /\ UNCHANGED <<file, saved, layers>>
         /\ \/ /\ ~DividesByZero(file.bound[at])
               /\ \A i \in DOMAIN Expand(file.bound[at]) :
                    CanBind(Expand(file.bound[at])[i])
               /\ at' = at + 1 /\ Bind(Expand(file.bound[at])) /\ UNCHANGED status
            \/ /\ ~ (/\ ~DividesByZero(file.bound[at])
                     /\ \A i \in DOMAIN Expand(file.bound[at]) :
                          CanBind(Expand(file.bound[at])[i]))
               /\ status' = "failed" /\ UNCHANGED <<at, addresses, layout>>
<1>1. status = "reading" /\ at <= Len(file.bound) /\ UNCHANGED <<file, saved, layers>>
  BY DEF ReadAddress
<1>2. at \in Nat \ {0} /\ file.bound \in Seq(Matrix \cup Point \cup Line)
  BY DEF GridTypeOK, File
<1>3. at \in DOMAIN file.bound /\ file.bound[at] \in Address \cup Line
  BY <1>1, <1>2 DEF Address
<1>4. QED
  BY <1>1, <1>3, Zenon DEF ReadAddress

LEMMA ReadAddressStep ==
  ASSUME GridInv, ReadAddress
  PROVE  GridInv'
<1> DEFINE a == file.bound[at]
<1>1. /\ status = "reading" /\ a \in Address \cup Line
      /\ UNCHANGED <<file, saved, layers>>
  BY ReadAddressEffect DEF GridInv
<1>2. /\ addresses \in Seq(Address) /\ layout \in [Cells -> 0 .. Len(addresses)]
      /\ at \in Nat \ {0}
  BY DEF GridInv, GridTypeOK, Address
<1>3. CASE /\ ~DividesByZero(a)
           /\ \A i \in DOMAIN Expand(a) : CanBind(Expand(a)[i])
           /\ at' = at + 1 /\ Bind(Expand(a)) /\ UNCHANGED status
  <2>1. PICK b : b = a
    OBVIOUS
  <2> HIDE DEF a
  <2>2. Expand(b) \in Seq(Address) /\ Apart(Expand(b))
    BY <1>1, <2>1, ExpandType
  <2>3. \A i \in DOMAIN Expand(b) : Proper(Expand(b)[i]) /\ CanBind(Expand(b)[i])
    BY <1>1, <1>3, <2>1, ExpandProper
  <2>4. PICK as \in Seq(Address) : as = Expand(b)
    BY <2>2
  <2>5. Apart(as) /\ Bind(as) /\ \A i \in DOMAIN as : Proper(as[i]) /\ CanBind(as[i])
    BY <1>3, <2>1, <2>2, <2>3, <2>4
  <2>6. /\ addresses' \in Seq(Address)
        /\ layout' \in [Cells -> 0 .. Len(addresses')]
        /\ AllProper' /\ EachHasItsCells'
    BY <1>2, <2>5, BindEffect DEF GridInv
  <2>7. GridTypeOK'
    BY <1>1, <1>2, <1>3, <2>6 DEF GridInv, GridTypeOK, Address
  <2>8. QED
    BY <2>6, <2>7 DEF GridInv
<1>4. CASE status' = "failed" /\ UNCHANGED <<at, addresses, layout>>
  BY <1>1, <1>4 DEF GridInv, GridTypeOK, EachHasItsCells, AllProper
<1>5. QED
  BY <1>3, <1>4, ReadAddressEffect DEF GridInv

LEMMA GridInvStep ==
  ASSUME GridInv, [GridNext]_gridVars
  PROVE  GridInv'
<1>1. CASE ReadAddress
  BY <1>1, ReadAddressStep
<1>2. ASSUME UNCHANGED <<addresses, layout>>, status' \in {"reading", "running", "failed", "panicked"},
             file' \in File, saved' = <<>> \/ saved' \in Seq([Cells -> Nat]),
             at' \in Nat \ {0}, layers' \in Seq(Nat)
      PROVE  GridInv'
  BY <1>2 DEF GridInv, GridTypeOK, EachHasItsCells, AllProper
<1>3. /\ status \in {"reading", "running", "failed", "panicked"}
      /\ file \in File /\ (saved = <<>> \/ saved \in Seq([Cells -> Nat]))
      /\ at \in Nat \ {0} /\ layers \in Seq(Nat)
      /\ layout \in [Cells -> 0 .. Len(addresses)]
      /\ Len(addresses) \in Nat
  BY DEF GridInv, GridTypeOK
<1>4. CASE ReadLayer
  <2>1. PICK n \in Nat : n = Width * Height
    BY SizeAssumption
  <2>2. /\ UNCHANGED <<addresses, layout, file, saved>>
        /\ \/ at' = at + 1 /\ layers' = Append(layers, Width * Height) /\ UNCHANGED status
           \/ status' = "failed" /\ UNCHANGED <<at, layers>>
    BY <1>4 DEF ReadLayer
  <2>3. Append(layers, n) \in Seq(Nat) /\ at + 1 \in Nat \ {0}
    BY <1>3
  <2>4. layers' \in Seq(Nat) /\ at' \in Nat \ {0}
    BY <1>3, <2>1, <2>2, <2>3, Zenon
  <2>5. QED
    BY <1>2, <1>3, <2>2, <2>4
<1>5. CASE Build
  BY <1>2, <1>3, <1>5 DEF Build
<1>6. ASSUME NEW i, NEW l, Poll(i, l)
      PROVE  GridInv'
  BY <1>2, <1>3, <1>6 DEF Poll
<1>7. ASSUME NEW shape \in Shapes, AddLayer(shape)
      PROVE  GridInv'
  <2>1. shape \in Seq(Nat)
    BY ShapesAssumption
  <2>2. CellsIn(shape) \in Nat
    BY <2>1, CellsInType
  <2>3. layers' \in Seq(Nat)
    BY <1>3, <1>7, <2>2 DEF AddLayer
  <2>4. QED
    BY <1>2, <1>3, <1>7, <2>3 DEF AddLayer
<1>8. CASE SaveLayout
  <2>1. file' \in File
    BY <1>8, SavedFileType DEF GridInv
  <2>2. saved' = <<layout>> /\ UNCHANGED <<status, at, addresses, layout, layers>>
    BY <1>8 DEF SaveLayout
  <2>3. layout \in [Cells -> Nat]
    <3>1. 0 .. Len(addresses) \subseteq Nat
      BY <1>3
    <3>2. QED
      BY <1>3, <3>1
  <2>4. saved' \in Seq([Cells -> Nat])
    BY <2>2, <2>3
  <2>5. QED
    BY <1>2, <1>3, <2>1, <2>2, <2>4
<1>9. CASE Restart
  <2>1. /\ status' = "reading" /\ at' = 1 /\ addresses' = <<>> /\ layout' = Empty
        /\ layers' = <<>> /\ UNCHANGED <<file, saved>>
    BY <1>9 DEF Restart, Fresh
  <2>2. /\ addresses' \in Seq(Matrix \cup Point)
        /\ layout' \in [Cells -> 0 .. Len(addresses')]
        /\ layers' \in Seq(Nat)
        /\ EachHasItsCells' /\ AllProper'
    BY <2>1, FreshGrid
  <2>3. QED
    BY <1>3, <2>1, <2>2 DEF GridInv, GridTypeOK
<1>10. CASE UNCHANGED gridVars
  BY <1>2, <1>3, <1>10 DEF gridVars
<1>11. QED
  BY <1>1, <1>4, <1>5, <1>6, <1>7, <1>8, <1>9, <1>10 DEF GridNext

LEMMA GridInvariant ==
  GridSpec => []GridInv
<1>1. GridInit => GridInv
  BY GridInvInit
<1>2. GridInv /\ [GridNext]_gridVars => GridInv'
  BY GridInvStep
<1>3. QED
  BY <1>1, <1>2, PTL DEF GridSpec

(* The layout keeps its type, for a grid of any size, any layout.json and  *)
(* any layers that the RPC adds.                                           *)
THEOREM GridTypeCorrect == GridSpec => []GridTypeOK
<1>1. GridInv => GridTypeOK
  BY DEF GridInv
<1>2. QED
  BY <1>1, GridInvariant, PTL

(* In whatever order rows, columns, points and matrices are bound, each    *)
(* has all the cells that it asks for and none takes a cell from another.  *)
THEOREM EachHasItsCellsCorrect == GridSpec => []EachHasItsCells
<1>1. GridInv => EachHasItsCells
  BY DEF GridInv
<1>2. QED
  BY <1>1, GridInvariant, PTL

-----------------------------------------------------------------------------
(* Why the event loop may have ended. *)
Explained ==
  status = "panicked" =>
    \/ \E i \in DOMAIN addresses : ~AtLeftEdge(addresses[i])
    \/ \E l \in DOMAIN layers : layers[l] < Width * Height

LEMMA IndexInGrid ==
  ASSUME NEW c \in Cells
  PROVE  Index(c) \in Nat /\ Index(c) < Width * Height
<1>1. PICK x \in Nat, y \in Nat : c = <<x, y>> /\ x < Width /\ y < Height
  BY SizeAssumption DEF Cells
<1>2. PICK w \in Nat, h \in Nat : w = Width /\ h = Height
  BY SizeAssumption
<1>3. y * w \in Nat /\ h * w \in Nat /\ (y + 1) * w = (y * w) + w
  OBVIOUS
<1>4. (y + 1) * w <= h * w
  BY <1>1, <1>2
<1>5. x + (y * w) \in Nat /\ x + (y * w) < h * w
  BY <1>1, <1>2, <1>3, <1>4
<1>6. h * w = w * h
  OBVIOUS
<1>7. QED
  BY <1>1, <1>2, <1>5, <1>6 DEF Index

LEMMA ExplainedStep ==
  ASSUME GridInv, Explained, [GridNext]_gridVars
  PROVE  Explained'
<1>1. ASSUME NEW i \in DOMAIN addresses, NEW l \in DOMAIN layers, Poll(i, l),
             status' = "panicked", status # "panicked"
      PROVE  Explained'
  <2>1. PICK c \in Polled(addresses[i]) : Index(c) >= layers[l]
    BY <1>1 DEF Poll
  <2>2. /\ addresses[i] \in Address /\ Proper(addresses[i]) /\ layers[l] \in Nat
        /\ UNCHANGED <<addresses, layers>>
    BY <1>1 DEF GridInv, GridTypeOK, AllProper, Address, Poll
  <2>3. CASE ~AtLeftEdge(addresses[i])
    BY <2>2, <2>3 DEF Explained
  <2>4. CASE AtLeftEdge(addresses[i])
    <3>1. PICK k \in 0 .. SizeOf(addresses[i]) - 1 : c = PolledCell(addresses[i], k)
      BY <2>1 DEF Polled
    <3>2. PICK a \in Address : a = addresses[i] /\ Proper(a)
      BY <2>2
    <3>3. c = CellOf(a, k)
      BY <2>4, <3>1, <3>2, WalkIsBound DEF PolledAsBound
    <3>4. c \in Cells
      BY <3>1, <3>2, <3>3, CellInGrid
    <3>5. layers[l] < Width * Height
      <4>1. Index(c) \in Nat /\ Index(c) < Width * Height
        BY <3>4, IndexInGrid
      <4>2. Width * Height \in Nat
        BY SizeAssumption
      <4>3. QED
        BY <2>1, <2>2, <4>1, <4>2
    <3>6. QED
      BY <2>2, <3>5 DEF Explained
  <2>5. QED
    BY <2>3, <2>4
<1>2. ASSUME status' # "panicked"
      PROVE  Explained'
  BY <1>2 DEF Explained
<1>3. ASSUME UNCHANGED <<status, addresses, layers>>
      PROVE  Explained'
  BY <1>3 DEF Explained
<1>4. ASSUME NEW i, NEW l, Poll(i, l)
      PROVE  UNCHANGED <<addresses, layers>> /\ status' \in {status, "panicked"}
  BY <1>4 DEF Poll
<1>5. CASE ReadAddress
  BY <1>2, <1>5, ReadAddressEffect DEF GridInv
<1>6. CASE ReadLayer \/ Build \/ Restart
  BY <1>2, <1>6 DEF ReadLayer, Build, Restart, Fresh
<1>7. ASSUME NEW shape \in Shapes, AddLayer(shape)
      PROVE  Explained'
  BY <1>2, <1>7 DEF AddLayer
<1>8. CASE SaveLayout
  BY <1>2, <1>8 DEF SaveLayout
<1>9. ASSUME NEW i \in DOMAIN addresses, NEW l \in DOMAIN layers, Poll(i, l)
      PROVE  Explained'
  BY <1>1, <1>2, <1>3, <1>4, <1>9
<1>10. CASE UNCHANGED gridVars
  BY <1>3, <1>10 DEF gridVars
<1>11. QED
  BY <1>5, <1>6, <1>7, <1>8, <1>9, <1>10 DEF GridNext

LEMMA PollsAsBound ==
  ASSUME GridInv, Explained
  PROVE  PollsWhatIsBound
<1>1. ASSUME NEW i \in DOMAIN addresses, AtLeftEdge(addresses[i])
      PROVE  PolledAsBound(addresses[i])
  <2>1. addresses[i] \in Address /\ Proper(addresses[i])
    BY DEF GridInv, GridTypeOK, AllProper, Address
  <2>2. PICK a \in Address : a = addresses[i]
    BY <2>1
  <2>3. QED
    BY <1>1, <2>1, <2>2, WalkIsBound
<1>2. QED
  BY <1>1 DEF Explained, PollsWhatIsBound

(* A matrix of any width at the left edge is walked as it is bound, and    *)
(* the event loop ends only for a matrix elsewhere or a layer that the RPC *)
(* added too short.                                                        *)
THEOREM PollsWhatIsBoundCorrect == GridSpec => []PollsWhatIsBound
<1>1. GridInit => Explained
  BY DEF GridInit, Explained
<1>2. GridInv /\ Explained /\ [GridNext]_gridVars => Explained'
  BY ExplainedStep
<1>3. GridInv /\ Explained => PollsWhatIsBound
  BY PollsAsBound
<1>4. QED
  BY <1>1, <1>2, <1>3, GridInvariant, PTL DEF GridSpec

-----------------------------------------------------------------------------
(* The rows that a layer of n cells is cut into have n cells. *)
LEMMA ChunksAre ==
  ASSUME NEW n \in Nat, NEW q \in Nat, NEW r \in Nat,
         q = n \div Width, r = n % Width
  PROVE  /\ Chunks(n) \in Seq(Nat)
         /\ Len(Chunks(n)) = IF r = 0 THEN q ELSE q + 1
         /\ \A j \in 1 .. q : Chunks(n)[j] = Width
         /\ r # 0 => Chunks(n)[q + 1] = r
<1> DEFINE rows == [j \in 1 .. q |-> Width]
<1>1. rows \in Seq(Nat) /\ Len(rows) = q
  BY SizeAssumption, FunctionIsSeq
<1>2. \A j \in 1 .. q : rows[j] = Width
  OBVIOUS
<1> HIDE DEF rows
<1>3. CASE r = 0
  <2>1. Chunks(n) = rows \o <<>>
    BY <1>3 DEF Chunks, rows
  <2>2. Chunks(n) = rows
    BY <1>1, <2>1
  <2>3. QED
    BY <1>1, <1>2, <1>3, <2>2
<1>4. CASE r # 0
  <2>1. Chunks(n) = rows \o <<r>>
    BY <1>4 DEF Chunks, rows
  <2>2. QED
    BY <1>1, <1>2, <1>4, <2>1
<1>5. QED
  BY <1>3, <1>4

LEMMA ChunksCells ==
  ASSUME NEW n \in Nat
  PROVE  CellsIn(Chunks(n)) = n
<1>1. PICK w \in Nat \ {0} : w = Width
  BY SizeAssumption
<1>2. n \div w \in Nat /\ n % w \in Nat
  BY QuotientType
<1>3. PICK q \in Nat, r \in Nat : q = n \div w /\ r = n % w
  BY <1>2
<1>4. n = (w * q) + r
  BY <1>1, <1>3, Quotient
<1>5. PICK s \in Seq(Nat) :
        /\ s = Chunks(n)
        /\ Len(s) = IF r = 0 THEN q ELSE q + 1
        /\ \A j \in 1 .. q : s[j] = w
        /\ r # 0 => s[q + 1] = r
  <2>1. q = n \div Width /\ r = n % Width
    BY <1>1, <1>3
  <2>2. /\ Chunks(n) \in Seq(Nat)
        /\ Len(Chunks(n)) = IF r = 0 THEN q ELSE q + 1
        /\ \A j \in 1 .. q : Chunks(n)[j] = Width
        /\ r # 0 => Chunks(n)[q + 1] = r
    BY <2>1, ChunksAre
  <2>3. QED
    BY <1>1, <2>2
<1> DEFINE f == [j \in 0 .. Len(s) |-> IF j <= q THEN w * j ELSE n]
<1>6. f \in [0 .. Len(s) -> Nat]
  <2>1. \A j \in 0 .. Len(s) : w * j \in Nat
    OBVIOUS
  <2>2. QED
    BY <2>1
<1>7. f[0] = 0
  BY <1>5
<1>8. ASSUME NEW j \in 1 .. Len(s)
      PROVE  f[j] = f[j - 1] + s[j]
  <2>1. j \in 0 .. Len(s) /\ j - 1 \in 0 .. Len(s) /\ j - 1 <= q
    BY <1>5
  <2>2. f[j - 1] = w * (j - 1) /\ f[j] = IF j <= q THEN w * j ELSE n
    BY <2>1
  <2>3. CASE j <= q
    <3>1. s[j] = w
      BY <1>5, <2>3
    <3>2. w * j = (w * (j - 1)) + w
      OBVIOUS
    <3> HIDE DEF f
    <3>3. QED
      BY <2>2, <2>3, <3>1, <3>2
  <2>4. CASE j > q
    <3>1. j = q + 1 /\ j - 1 = q /\ r # 0 /\ s[j] = r
      BY <1>5, <2>1, <2>4
    <3> HIDE DEF f
    <3>2. QED
      BY <1>4, <2>2, <2>4, <3>1
  <2>5. QED
    BY <2>3, <2>4
<1>9. f[Len(s)] = n
  <2>1. Len(s) \in 0 .. Len(s) /\ Len(s) \in Nat
    OBVIOUS
  <2>2. CASE r = 0
    <3>1. Len(s) = q /\ n = w * q
      BY <1>4, <1>5, <2>2
    <3>2. QED
      BY <2>1, <3>1
  <2>3. CASE r # 0
    <3>1. Len(s) > q
      BY <1>5, <2>3
    <3>2. QED
      BY <2>1, <3>1
  <2>4. QED
    BY <2>2, <2>3
<1>10. IsSum(f, s)
  BY <1>6, <1>7, <1>8 DEF IsSum
<1> HIDE DEF f
<1>11. QED
  BY <1>5, <1>9, <1>10, CellsInIs

(* A layer with as many cells as the grid is saved in the grid's shape.    *)
LEMMA ChunksFull ==
  Chunks(Width * Height) = FullShape
<1>1. PICK w \in Nat \ {0}, h \in Nat \ {0} : w = Width /\ h = Height
  BY SizeAssumption
<1>2. w * h \in Nat /\ (w * h) \div w = h /\ (w * h) % w = 0
  OBVIOUS
<1>3. Chunks(Width * Height) = [j \in 1 .. h |-> w] \o <<>>
  BY <1>1, <1>2 DEF Chunks
<1>4. [j \in 1 .. h |-> w] \in Seq(Nat)
  BY <1>1, FunctionIsSeq
<1>5. [j \in 1 .. h |-> w] \o <<>> = [j \in 1 .. h |-> w]
  <2>1. \A s \in Seq(Nat) : s \o <<>> = s
    OBVIOUS
  <2>2. QED
    BY <1>4, <2>1, Zenon
<1>6. QED
  BY <1>1, <1>3, <1>5 DEF FullShape

-----------------------------------------------------------------------------
SizesFit == \A l \in DOMAIN layers : layers[l] <= Width * Height

LEMMA SizesFitStep ==
  ASSUME GridInv, SizesFit, [GridNext]_gridVars
  PROVE  SizesFit'
<1>1. layers \in Seq(Nat)
  BY DEF GridInv, GridTypeOK
<1>2. PICK area \in Nat : area = Width * Height
  BY SizeAssumption
<1>3. ASSUME NEW n \in Nat, n <= area, layers' = Append(layers, n)
      PROVE  SizesFit'
  <2>1. \A l \in DOMAIN layers' : layers'[l] \in {layers[k] : k \in DOMAIN layers} \cup {n}
    BY <1>1, <1>3
  <2>2. QED
    BY <1>2, <1>3, <2>1 DEF SizesFit
<1>4. CASE UNCHANGED layers
  BY <1>4 DEF SizesFit
<1>5. CASE layers' = <<>>
  BY <1>5 DEF SizesFit
<1>6. CASE ReadLayer
  <2>1. layers' = Append(layers, area) \/ UNCHANGED layers
    BY <1>2, <1>6 DEF ReadLayer
  <2>2. QED
    BY <1>3, <1>4, <2>1
<1>7. ASSUME NEW shape \in Shapes, AddLayer(shape)
      PROVE  SizesFit'
  <2>1. shape \in Seq(Nat) /\ Accepts(shape) /\ layers' = Append(layers, CellsIn(shape))
    BY <1>7, ShapesAssumption DEF AddLayer
  <2>2. CellsIn(shape) \in Nat /\ CellsIn(shape) <= area
    BY <1>2, <2>1, CellsInType, CellsInBound
  <2>3. QED
    BY <1>3, <2>1, <2>2
<1>8. ASSUME NEW i, NEW l, Poll(i, l)
      PROVE  UNCHANGED layers
  BY <1>8 DEF Poll
<1>9. CASE ReadAddress \/ Build \/ SaveLayout \/ UNCHANGED gridVars
  BY <1>4, <1>9 DEF ReadAddress, Build, SaveLayout, gridVars
<1>10. CASE Restart
  BY <1>5, <1>10 DEF Restart, Fresh
<1>11. QED
  BY <1>4, <1>6, <1>7, <1>8, <1>9, <1>10 DEF GridNext

Short == \E l \in DOMAIN file.layers : CellsIn(file.layers[l]) < Width * Height

(* layout.json, once the server has written it: its addresses have the     *)
(* cells that they had in the grid, and its layers are whole or short.     *)
SavedAs(grid) ==
  /\ file.bound \in Seq(Address)
  /\ grid \in [Cells -> 0 .. Len(file.bound)]
  /\ \A i \in DOMAIN file.bound :
       /\ Proper(file.bound[i])
       /\ Claims(file.bound[i]) = {c \in Cells : grid[c] = i}
  /\ \A l \in DOMAIN file.layers : file.layers[l] = FullShape \/ Short

(* While it is read, the addresses are those that have been read so far.   *)
ReadSoFar ==
  /\ status = "reading" =>
       /\ Len(addresses) = IF at <= Len(file.bound) THEN at - 1 ELSE Len(file.bound)
       /\ \A i \in DOMAIN addresses : i \in DOMAIN file.bound /\ addresses[i] = file.bound[i]
  /\ status \in {"running", "panicked"} => addresses = file.bound
  /\ status = "failed" => Short

SavedInv ==
  saved # <<>> => \E grid : saved = <<grid>> /\ SavedAs(grid) /\ ReadSoFar

LEMMA SavedSoFar ==
  ASSUME NEW grid, saved = <<grid>>, SavedAs(grid), ReadSoFar
  PROVE  SavedInv
BY DEF SavedInv

(* Nothing that matters here changes. *)
LEMMA SavedAsSame ==
  ASSUME NEW grid, SavedAs(grid), file' = file
  PROVE  SavedAs(grid)' /\ Short' = Short
BY DEF SavedAs, Short

(* No address of such a file is refused. *)
LEMMA SavedCanBind ==
  ASSUME GridInv, NEW grid, SavedAs(grid), ReadSoFar, ReadAddress
  PROVE  /\ at' = at + 1 /\ UNCHANGED <<status, file, saved>>
         /\ addresses' = Append(addresses, file.bound[at])
<1>1. /\ status = "reading" /\ at \in DOMAIN file.bound
      /\ UNCHANGED <<file, saved, layers>>
  BY ReadAddressEffect DEF GridInv
<1>2. file.bound \in Seq(Address) /\ at \in Nat \ {0} /\ at <= Len(file.bound)
  BY <1>1 DEF SavedAs
<1>3. PICK a \in Address : a = file.bound[at]
  BY <1>1, <1>2
<1>4. Proper(a) /\ Claims(a) = {c \in Cells : grid[c] = at}
  BY <1>1, <1>3 DEF SavedAs
<1>5. a.kind \notin {"row", "column"}
  BY AddressKinds
<1>6. Expand(a) = <<a>>
  BY <1>5 DEF Expand
<1>7. /\ addresses \in Seq(Address) /\ layout \in [Cells -> 0 .. Len(addresses)]
      /\ Len(addresses) \in Nat /\ DOMAIN addresses = 1 .. Len(addresses)
      /\ Len(addresses) = at - 1
  BY <1>1, <1>2 DEF GridInv, GridTypeOK, Address, ReadSoFar
<1>8. ASSUME NEW c \in Cells, c \in Claims(a), layout[c] # 0
      PROVE  FALSE
  <2>1. PICK i \in 1 .. Len(addresses) : layout[c] = i
    BY <1>7, <1>8
  <2>2. i \in DOMAIN addresses /\ i \in DOMAIN file.bound /\ addresses[i] = file.bound[i]
    BY <1>1, <1>7, <2>1 DEF ReadSoFar
  <2>3. c \in Claims(addresses[i])
    BY <2>1, <2>2 DEF GridInv, EachHasItsCells
  <2>4. c \in Claims(file.bound[i])
    BY <2>2, <2>3
  <2>5. grid[c] = i
    BY <2>2, <2>4 DEF SavedAs
  <2>6. grid[c] = at
    BY <1>4, <1>8
  <2>7. QED
    BY <1>2, <1>7, <2>1, <2>5, <2>6
<1>9. CanBind(a)
  BY <1>4, <1>8 DEF CanBind, IsFree, Proper
<1>10. ~DividesByZero(a) /\ \A i \in DOMAIN Expand(a) : CanBind(Expand(a)[i])
  BY <1>4, <1>6, <1>9 DEF Proper
<1>11. at' = at + 1 /\ Bind(Expand(a)) /\ UNCHANGED status
  BY <1>3, <1>10, ReadAddressEffect DEF GridInv
<1>12. addresses' = addresses \o <<a>>
  BY <1>6, <1>11 DEF Bind
<1>13. addresses' = Append(addresses, a)
  <2>1. \A s \in Seq(Address) : s \o <<a>> = Append(s, a)
    OBVIOUS
  <2>2. QED
    BY <1>7, <1>12, <2>1
<1>14. QED
  BY <1>1, <1>3, <1>11, <1>13

LEMMA SavedReadAddress ==
  ASSUME GridInv, SavedInv, ReadAddress
  PROVE  SavedInv'
<1> SUFFICES ASSUME saved' # <<>>
             PROVE  SavedInv'
  BY DEF SavedInv
<1>1. saved' = saved /\ file' = file /\ status = "reading" /\ at \in DOMAIN file.bound
  BY ReadAddressEffect DEF GridInv
<1>2. PICK grid : saved = <<grid>> /\ SavedAs(grid) /\ ReadSoFar
  BY <1>1 DEF SavedInv
<1>3. /\ at' = at + 1 /\ UNCHANGED <<status, file, saved>>
      /\ addresses' = Append(addresses, file.bound[at])
  BY <1>2, SavedCanBind
<1>4. PICK n \in Nat : n = Len(file.bound) /\ DOMAIN file.bound = 1 .. n
  BY <1>2 DEF SavedAs
<1>5. at \in 1 .. n /\ addresses \in Seq(Address) /\ Len(addresses) = at - 1
  BY <1>1, <1>2, <1>4 DEF ReadSoFar, GridInv, GridTypeOK, Address
<1>6. Len(addresses') = at /\ DOMAIN addresses' = 1 .. at
      /\ addresses'[at] = file.bound[at]
      /\ \A i \in 1 .. at - 1 : addresses'[i] = addresses[i] /\ i \in DOMAIN addresses
  <2>1. PICK s \in Seq(Address) : s = addresses /\ Len(s) = at - 1
    BY <1>5
  <2>2. PICK a \in Address : a = file.bound[at]
    BY <1>1, <1>2 DEF SavedAs
  <2>3. addresses' = Append(s, a)
    BY <1>3, <2>1, <2>2
  <2>4. QED
    BY <1>5, <2>1, <2>2, <2>3
<1>7. ASSUME NEW i \in DOMAIN addresses'
      PROVE  i \in DOMAIN file.bound /\ addresses'[i] = file.bound[i]
  <2>1. CASE i = at
    BY <1>1, <1>6, <2>1
  <2>2. CASE i # at
    <3>1. i \in 1 .. at - 1
      BY <1>5, <1>6, <2>2
    <3>2. QED
      BY <1>1, <1>2, <1>6, <3>1 DEF ReadSoFar
  <2>3. QED
    BY <2>1, <2>2
<1>8. Len(addresses') = IF at' <= Len(file.bound) THEN at' - 1 ELSE Len(file.bound)
  BY <1>3, <1>4, <1>5, <1>6
<1>9. ReadSoFar'
  BY <1>1, <1>3, <1>7, <1>8 DEF ReadSoFar
<1>10. SavedAs(grid)'
  BY <1>1, <1>2, SavedAsSame
<1>11. QED
  BY <1>1, <1>2, <1>9, <1>10 DEF SavedInv

(* What is saved is the grid as it is. *)
LEMMA SavedSaveLayout ==
  ASSUME GridInv, SizesFit, SaveLayout
  PROVE  SavedInv'
<1>1. /\ file' \in File
      /\ file'.bound = addresses
      /\ DOMAIN file'.layers = DOMAIN layers
      /\ \A l \in DOMAIN layers : file'.layers[l] = Chunks(layers[l])
  BY SavedFileType DEF GridInv
<1>2. status = "running" /\ saved' = <<layout>> /\ UNCHANGED <<status, at, addresses, layout, layers>>
  BY DEF SaveLayout
<1>3. addresses \in Seq(Address) /\ layout \in [Cells -> 0 .. Len(addresses)] /\ layers \in Seq(Nat)
  BY DEF GridInv, GridTypeOK, Address
<1>4. ASSUME NEW l \in DOMAIN file'.layers, file'.layers[l] # FullShape
      PROVE  Short'
  <2>1. PICK n \in Nat : n = layers[l]
    BY <1>1, <1>3
  <2>2. n <= Width * Height /\ file'.layers[l] = Chunks(n)
    BY <1>1, <2>1 DEF SizesFit
  <2>3. n # Width * Height
    BY <1>4, <2>2, ChunksFull
  <2>4. CellsIn(file'.layers[l]) = n
    BY <2>2, ChunksCells
  <2>5. n < Width * Height
    <3>1. Width * Height \in Nat
      BY SizeAssumption
    <3>2. QED
      BY <2>2, <2>3, <3>1
  <2>6. QED
    BY <2>4, <2>5 DEF Short
<1>5. PICK grid : grid = layout
  OBVIOUS
<1>6. SavedAs(grid)'
  BY <1>1, <1>3, <1>4, <1>5 DEF SavedAs, GridInv, AllProper, EachHasItsCells
<1>7. ReadSoFar'
  BY <1>1, <1>2 DEF ReadSoFar
<1>8. QED
  BY <1>2, <1>5, <1>6, <1>7 DEF SavedInv

LEMMA SavedStep ==
  ASSUME GridInv, SizesFit, SavedInv, [GridNext]_gridVars
  PROVE  SavedInv'
<1>1. CASE ReadAddress
  BY <1>1, SavedReadAddress
<1>2. CASE SaveLayout
  BY <1>2, SavedSaveLayout
<1>3. ASSUME UNCHANGED <<file, saved>>,
             ASSUME NEW grid, SavedAs(grid), ReadSoFar, Short' = Short
             PROVE  ReadSoFar'
      PROVE  SavedInv'
  <2> SUFFICES ASSUME saved # <<>>
               PROVE  SavedInv'
    BY <1>3 DEF SavedInv
  <2>1. PICK grid : saved = <<grid>> /\ SavedAs(grid) /\ ReadSoFar
    BY DEF SavedInv
  <2>2. SavedAs(grid)' /\ Short' = Short
    BY <1>3, <2>1, SavedAsSame
  <2>3. ReadSoFar'
    BY <1>3, <2>1, <2>2
  <2>4. QED
    BY <1>3, <2>1, <2>2, <2>3 DEF SavedInv
<1>4. CASE ReadLayer
  <2> DEFINE l == at - Len(file.bound)
  <2>1. /\ status = "reading" /\ l \in DOMAIN file.layers
        /\ UNCHANGED <<file, saved, addresses>>
        /\ \/ file.layers[l] = FullShape /\ at' = at + 1 /\ UNCHANGED status
           \/ file.layers[l] # FullShape /\ status' = "failed"
    BY <1>4 DEF ReadLayer
  <2>2. file.layers \in Seq(Seq(Nat)) /\ at \in Nat
    BY DEF GridInv, GridTypeOK, File
  <2>3. ASSUME NEW grid, SavedAs(grid), ReadSoFar, Short' = Short
        PROVE  ReadSoFar'
    <3>1. PICK n \in Nat : n = Len(file.bound)
      BY <2>3 DEF SavedAs
    <3>2. at > n
      <4>1. l \in Nat \ {0}
        BY <2>1, <2>2
      <4>2. QED
        BY <2>2, <3>1, <4>1
    <3>3. CASE file.layers[l] = FullShape /\ at' = at + 1 /\ UNCHANGED status
      <4>1. Len(addresses) = n
        BY <2>1, <2>2, <2>3, <3>1, <3>2 DEF ReadSoFar
      <4>2. ~ (at' <= n)
        BY <2>2, <3>2, <3>3
      <4>3. QED
        BY <2>1, <2>3, <3>1, <3>3, <4>1, <4>2 DEF ReadSoFar
    <3>4. CASE file.layers[l] # FullShape /\ status' = "failed"
      <4>1. Short
        BY <2>1, <2>3, <3>4 DEF SavedAs
      <4>2. QED
        BY <2>3, <3>4, <4>1 DEF ReadSoFar
    <3>5. QED
      BY <2>1, <3>3, <3>4
  <2>4. QED
    BY <1>3, <2>1, <2>3
<1>5. CASE Build
  <2>1. /\ status = "reading" /\ at > Len(file.bound) + Len(file.layers)
        /\ status' = "running" /\ UNCHANGED <<file, saved, at, addresses>>
    BY <1>5 DEF Build
  <2>2. /\ Len(file.layers) \in Nat /\ at \in Nat
        /\ addresses \in Seq(Address)
    BY DEF GridInv, GridTypeOK, File, Address
  <2>3. ASSUME NEW grid, SavedAs(grid), ReadSoFar, Short' = Short
        PROVE  ReadSoFar'
    <3>1. file.bound \in Seq(Address) /\ Len(file.bound) \in Nat
      BY <2>3 DEF SavedAs
    <3>2. Len(addresses) = Len(file.bound)
      <4>1. PICK n \in Nat, m \in Nat : n = Len(file.bound) /\ m = Len(file.layers)
        BY <2>2, <3>1
      <4>2. ~ (at <= n)
        <5>1. at > n + m
          BY <2>1, <4>1, Zenon
        <5>2. QED
          BY <2>2, <5>1
      <4>3. QED
        BY <2>1, <2>3, <4>1, <4>2 DEF ReadSoFar
    <3>3. \A i \in DOMAIN addresses : addresses[i] = file.bound[i]
      BY <2>1, <2>3 DEF ReadSoFar
    <3>4. addresses = file.bound
      BY <2>2, <3>1, <3>2, <3>3, SameSeq
    <3>5. QED
      BY <2>1, <3>4 DEF ReadSoFar
  <2>4. QED
    BY <1>3, <2>1, <2>3
<1>6. ASSUME NEW i, NEW l, Poll(i, l)
      PROVE  SavedInv'
  <2>1. /\ status = "running" /\ status' \in {"running", "panicked"}
        /\ UNCHANGED <<file, saved, addresses>>
    BY <1>6 DEF Poll
  <2>2. ASSUME NEW grid, SavedAs(grid), ReadSoFar, Short' = Short
        PROVE  ReadSoFar'
    BY <2>1, <2>2 DEF ReadSoFar
  <2>3. QED
    BY <1>3, <2>1, <2>2
<1>7. ASSUME NEW shape, AddLayer(shape)
      PROVE  SavedInv'
  <2>1. status = "running" /\ UNCHANGED <<status, file, saved, at, addresses>>
    BY <1>7 DEF AddLayer
  <2>2. ASSUME NEW grid, SavedAs(grid), ReadSoFar, Short' = Short
        PROVE  ReadSoFar'
    BY <2>1, <2>2 DEF ReadSoFar
  <2>3. QED
    BY <1>3, <2>1, <2>2
<1>8. CASE Restart
  <2>1. status' = "reading" /\ at' = 1 /\ addresses' = <<>> /\ UNCHANGED <<file, saved>>
    BY <1>8 DEF Restart, Fresh
  <2>2. ASSUME NEW grid, SavedAs(grid), ReadSoFar, Short' = Short
        PROVE  ReadSoFar'
    <3>1. Len(file.bound) \in Nat
      BY <2>2 DEF SavedAs
    <3>2. DOMAIN addresses' = {} /\ Len(addresses') = 0
      BY <2>1
    <3>3. 0 = IF 1 <= Len(file.bound) THEN 1 - 1 ELSE Len(file.bound)
      BY <3>1
    <3>4. QED
      BY <2>1, <3>2, <3>3 DEF ReadSoFar
  <2>3. QED
    BY <1>3, <2>1, <2>2
<1>9. CASE UNCHANGED gridVars
  <2>1. UNCHANGED <<status, file, saved, at, addresses>>
    BY <1>9 DEF gridVars
  <2>2. ASSUME NEW grid, SavedAs(grid), ReadSoFar, Short' = Short
        PROVE  ReadSoFar'
    BY <2>1, <2>2 DEF ReadSoFar
  <2>3. QED
    BY <1>3, <2>1, <2>2
<1>10. QED
  BY <1>1, <1>2, <1>4, <1>5, <1>6, <1>7, <1>8, <1>9 DEF GridNext

LEMMA SavedSurvives ==
  ASSUME GridInv, SavedInv
  PROVE  GridSurvives
<1>1. ASSUME saved # <<>>, status = "running"
      PROVE  saved = <<layout>>
  <2>1. PICK grid : saved = <<grid>> /\ SavedAs(grid) /\ ReadSoFar
    BY <1>1 DEF SavedInv
  <2>2. addresses = file.bound
    BY <1>1, <2>1 DEF ReadSoFar
  <2>3. PICK n \in Nat : n = Len(addresses) /\ DOMAIN addresses = 1 .. n
    BY DEF GridInv, GridTypeOK
  <2>4. grid \in [Cells -> 0 .. n] /\ layout \in [Cells -> 0 .. n]
    BY <2>1, <2>2, <2>3 DEF SavedAs, GridInv, GridTypeOK
  <2>5. ASSUME NEW c \in Cells, NEW i \in 1 .. n
        PROVE  layout[c] = i <=> grid[c] = i
    <3>1. Claims(addresses[i]) = {d \in Cells : layout[d] = i}
      BY <2>3 DEF GridInv, EachHasItsCells
    <3>2. Claims(addresses[i]) = {d \in Cells : grid[d] = i}
      BY <2>1, <2>2, <2>3 DEF SavedAs
    <3>3. QED
      BY <3>1, <3>2
  <2>6. ASSUME NEW c \in Cells
        PROVE  layout[c] = grid[c]
    <3>1. layout[c] \in 0 .. n /\ grid[c] \in 0 .. n
      BY <2>4
    <3>2. CASE layout[c] # 0
      BY <2>5, <3>1, <3>2
    <3>3. CASE grid[c] # 0
      BY <2>5, <3>1, <3>3
    <3>4. QED
      BY <3>2, <3>3
  <2>7. layout = grid
    BY <2>4, <2>6
  <2>8. QED
    BY <2>1, <2>7
<1>2. ASSUME saved # <<>>, status = "failed"
      PROVE  Short
  BY <1>2 DEF SavedInv, ReadSoFar
<1>3. QED
  BY <1>1, <1>2 DEF GridSurvives, Short

(* However a grid was bound, and whatever layers the RPC added: the server *)
(* starts with the layout.json that it wrote and has the grid that it had, *)
(* unless a layer that it wrote was too short.                             *)
THEOREM GridSurvivesCorrect == GridSpec => []GridSurvives
<1>1. GridInit => SizesFit /\ SavedInv
  BY DEF GridInit, SizesFit, SavedInv
<1>2. GridInv /\ SizesFit /\ [GridNext]_gridVars => SizesFit'
  BY SizesFitStep
<1>3. GridInv /\ SizesFit /\ SavedInv /\ [GridNext]_gridVars => SavedInv'
  BY SavedStep
<1>4. GridInv /\ SavedInv => GridSurvives
  BY SavedSurvives
<1>5. QED
  BY <1>1, <1>2, <1>3, <1>4, GridInvariant, PTL DEF GridSpec
=============================================================================
