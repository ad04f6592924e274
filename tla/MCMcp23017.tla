---------------------------- MODULE MCMcp23017 ----------------------------
(* A matrix of two rows and a column, inverted, that spans two chips; one  *)
(* of one row, after a single input; and lists that use a pin twice or one *)
(* that there is not. Two functions set the last output of a list and one  *)
(* is bound to an index of the matrix, which cannot be set.                *)
EXTENDS Mcp23017

CONSTANTS flip, on, stray

TwoRows == [kind |-> "Matrix", x |-> <<0, 17>>, y |-> <<3>>, invert |-> TRUE]
OneRow  == [kind |-> "Matrix", x |-> <<3>>, y |-> <<0>>, invert |-> FALSE]
Single(pin) == [kind |-> "Input", pin |-> pin, on_state |-> FALSE]
Out(pin)    == [kind |-> "Output", pin |-> pin]

MCConfigs ==
  { <<Single(4), OneRow, Out(6), Out(5)>>,
    <<TwoRows, Out(6), Out(5)>>,
    <<Single(4), TwoRows, Out(17)>>,
    <<Single(32), TwoRows, Out(5)>> }
MCFunction == {flip, on, stray}
MCDef ==
  [f \in MCFunction |->
     IF f = flip THEN [kind |-> "Flip", idx |-> 3]
     ELSE [kind |-> "Output", idx |-> IF f = on THEN 3 ELSE 1, value |-> TRUE]]
=============================================================================
