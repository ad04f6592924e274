-------------------------- MODULE MCHidController --------------------------
(* A modifier that a text and a shortcut use as well, a mouse button, a    *)
(* switch, a toggle through every kind of name and a command to a module   *)
(* that may be current or not. One item has no uinput code.                *)
EXTENDS HidController

CONSTANTS shift, left, power, m1, none, k1, k2, k3, k4, k5, k6, k7, k8, k9

MCItem == {shift, left, power}
MCDeviceOf == [i \in MCItem |-> IF i = left THEN "mouse" ELSE "keyboard"]
MCMapped == {shift, left}
MCModule == {m1}
MCFunction == {k1, k2, k3, k4, k5, k6, k7, k8, k9}
MCDef ==
  k1 :> [kind |-> "Hold", item |-> shift] @@
  k2 :> [kind |-> "Hold", item |-> left] @@
  k3 :> [kind |-> "Type", items |-> {shift}] @@
  k4 :> [kind |-> "Shortcut", modifiers |-> <<shift>>, keys |-> <<power>>] @@
  k5 :> [kind |-> "Switch", name |-> "usb"] @@
  k6 :> [kind |-> "Toggle"] @@
  k7 :> [kind |-> "SendCommand", name |-> m1] @@
  k8 :> [kind |-> "Move", directions |-> 2] @@
  k9 :> [kind |-> "Repeat", directions |-> 1]
MCModeLists == { <<>>, <<none>>, <<m1, "uinput">> }
=============================================================================
