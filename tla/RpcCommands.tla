----------------------------- MODULE RpcCommands -----------------------------
(***************************************************************************)
(* What each command of the configuration RPC does and answers             *)
(* (config_rpc.rs), as functions on the part of the server that they read  *)
(* and write: a record with the fields                                     *)
(*                                                                         *)
(*   lay     the part of the Layout that LayerOps is about                 *)
(*   value   the value of the one variable, None if there is no such       *)
(*           variable                                                      *)
(*                                                                         *)
(* A command is a record with its kind and, where it has one, its          *)
(* argument; an added layer is told apart by whether it fits the grid.     *)
(* Saving changes files and not the server: it is in the modules that use  *)
(* this.                                                                   *)
(***************************************************************************)
EXTENDS LayerOps

CONSTANT Value    \* the values that a variable may have

None == "none"    \* FallibleRet: no value

ASSUME ValueAssumption == Value # {} /\ None \notin Value

Indices == 0..1
Layers == {"fits", "too large", "malformed"}
Command ==
  {[kind |-> k] : k \in {"Layer", "LayerIdx", "NumLayers", "UpLayer", "DownLayer", "SaveLayout",
                         "Variables", "GetVariable", "SaveVariables", "Garbage"}}
  \cup [kind : {"GetLayer", "RemoveLayer", "SwitchLayer"}, index : Indices]
  \cup [kind : {"AddLayer"}, layer : Layers]
  \cup [kind : {"SetVariable"}, value : Value]

(* Requests that are no command, or add a layer that is none, are dropped. *)
Garbage == [kind |-> "Garbage"]
Malformed == [kind |-> "AddLayer", layer |-> "malformed"]
IsValid(cmd) == cmd \notin {Garbage, Malformed}

IsSave(cmd) == cmd.kind \in {"SaveLayout", "SaveVariables"}

LayerChange(cmd, db) ==
  CASE cmd.kind = "AddLayer"    -> IF cmd.layer = "fits" THEN AddLayer(db.lay, cmd.layer) ELSE db.lay
    [] cmd.kind = "RemoveLayer" -> RemoveLayer(db.lay, cmd.index)
    [] cmd.kind = "SwitchLayer" -> SwitchLayer(db.lay, cmd.index)
    [] cmd.kind = "UpLayer"     -> UpLayer(db.lay)
    [] cmd.kind = "DownLayer"   -> DownLayer(db.lay)
    [] OTHER                    -> db.lay

Effect(cmd, db) ==
  [lay   |-> LayerChange(cmd, db),
   value |-> IF cmd.kind = "SetVariable" /\ db.value # None THEN cmd.value ELSE db.value]

LayerAt(db, index) == IF HasLayer(db.lay, index) THEN db.lay.layers[index + 1] ELSE None

Text(b) == IF b THEN "true" ELSE "false"

(* What the server writes back; that of a save depends on the files.       *)
Reply(cmd, db) ==
  CASE cmd.kind = "Layer"         -> LayerAt(db, db.lay.cur_layer)
    [] cmd.kind = "GetLayer"      -> LayerAt(db, cmd.index)
    [] cmd.kind = "LayerIdx"      -> ToString(db.lay.cur_layer)
    [] cmd.kind = "NumLayers"     -> ToString(Len(db.lay.layers))
    [] cmd.kind = "AddLayer"      -> Text(cmd.layer = "fits")
    [] cmd.kind \in {"RemoveLayer", "SwitchLayer"} -> Text(HasLayer(db.lay, cmd.index))
    [] cmd.kind = "UpLayer"       -> Text(HasLayer(db.lay, db.lay.cur_layer + 1))
    [] cmd.kind = "DownLayer"     -> Text(HasLayer(db.lay, WrappingDec(db.lay.cur_layer)))
    [] cmd.kind = "Variables"     -> IF db.value = None THEN "[]" ELSE "[variable]"
    [] cmd.kind = "SetVariable"   -> Text(db.value # None)
    [] cmd.kind = "GetVariable"   -> db.value

(* layout_string indexes the stack by the current layer, which need not    *)
(* exist (layout.rs:396).                                                  *)
Panics(cmd, db) == cmd.kind = "Layer" /\ ~HasLayer(db.lay, db.lay.cur_layer)

(* The files: the layers of layout.json, the value of variables.json, and  *)
(* those of the two that are torn: emptied, or written in part. A server   *)
(* that starts reads them, and does not start if layout.json is torn.      *)
FileOf(cmd) == IF cmd.kind = "SaveLayout" THEN "layout" ELSE "variables"

BugTear(files, cmd) == files
Tear(files, cmd) == [files EXCEPT !.torn = @ \cup {FileOf(cmd)}]
Save(files, cmd, db) ==
  [layout    |-> IF cmd.kind = "SaveLayout" THEN db.lay.layers ELSE files.layout,
   variables |-> IF cmd.kind = "SaveVariables" THEN db.value ELSE files.variables,
   torn      |-> files.torn \ {FileOf(cmd)}]

Starts(files) == "layout" \notin files.torn
Loaded(files) ==
  [lay   |-> [layers |-> files.layout, cur_layer |-> 0, shift_from |-> <<>>],
   value |-> IF "variables" \in files.torn THEN None ELSE files.variables]
=============================================================================
