----------------------------- MODULE MCConfigRpc -----------------------------
(* The command line client works on the layers, the screen on the variable *)
(* and its file; each also has a command of the other. Between them they   *)
(* change the server and its files, fail, panic, and get no reply.         *)
EXTENDS ConfigRpc

Of(kinds) == {[kind |-> k] : k \in kinds}
MCCommands == [c \in Client |->
  IF c = "cli"
  THEN Of({"Layer", "SaveLayout", "Garbage"}) \cup {[kind |-> "RemoveLayer", index |-> 0],
                                                    [kind |-> "SetVariable", value |-> "b"]}
  ELSE Of({"GetVariable", "SaveVariables", "SaveLayout"}) \cup {[kind |-> "SetVariable", value |-> "b"]}]
MCMaxCalls == [c \in Client |-> 2]
=============================================================================
