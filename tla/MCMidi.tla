------------------------------- MODULE MCMidi -------------------------------
(* Two Note functions that may share a note; two ConstPitchBend functions  *)
(* that may share a channel and an amount, one of them with an amount that *)
(* is narrowed; a PitchBend function on one of the channels, of scale 1,   *)
(* 3/2 or -1; an Instrument function.                                      *)
EXTENDS Midi

CONSTANTS c1, c2, note1, note2, const1, const2, pitch, instrument

MCFunction == {note1, note2, const1, const2, pitch, instrument}
MCLayouts == {{note1, note2, instrument}, {const1, const2, pitch}}
MCKind ==
  [f \in MCFunction |->
     CASE f \in {note1, note2}   -> "Note"
       [] f \in {const1, const2} -> "ConstPitchBend"
       [] f = pitch              -> "PitchBend"
       [] f = instrument         -> "Instrument"]
MCParams ==
  [f \in MCFunction |->
     CASE f = note1      -> [channel : {c1}, note : {60}, velocity : {0, 100}]
       [] f = note2      -> [channel : {c1}, note : {60, 62}, velocity : {100}]
       [] f = const1     -> [channel : {c1}, bend : {100, 20000}]
       [] f = const2     -> [channel : {c1, c2}, bend : {100}]
       [] f = pitch      -> {[channel |-> c1, invert |-> FALSE, scale |-> 1, unit |-> 1],
                             [channel |-> c1, invert |-> TRUE, scale |-> 3, unit |-> 2],
                             [channel |-> c1, invert |-> FALSE, scale |-> -1, unit |-> 1]}
       [] f = instrument -> [channel : {c1}, program : {5}]]
=============================================================================
