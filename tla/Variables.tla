----------------------------- MODULE Variables ------------------------------
(***************************************************************************)
(* The variables that the functions of a layout share with each other and  *)
(* with the configuration RPC (bin/key-server/src/variables.rs), and what  *)
(* becomes of them when they are saved and the server is started again.    *)
(*                                                                         *)
(* A name has no value of its own: it has a list of watch channels, one    *)
(* for each definition in variables.json and one for each parameter of a   *)
(* function that names it. A parameter (here a reader) keeps a parsed copy *)
(* of its channel's text, which it renews when it is next used. A reader   *)
(* is built when the server starts or when the RPC adds a layer, is used   *)
(* when the event loop polls its function, and is dropped with its layer,  *)
(* its channel staying behind.                                             *)
(*                                                                         *)
(* A value is a JSON text and stands for what it parses to as well. The    *)
(* constructor of a function may map a parameter to another type: a period *)
(* in milliseconds to a Duration, a Note to its number (mouse.rs, midi.rs).*)
(* Such a parameter is built from a text of the one type, and takes its    *)
(* updates as texts of the other.                                          *)
(***************************************************************************)
EXTENDS Naturals, Sequences, SequencesExt

CONSTANTS
  Name,         \* the names of variables
  Value,        \* the texts that variables may hold
  Reader,       \* the parameters that may name a variable
  NameOf,       \* the variable that each of them names
  Parses,       \* the texts that each reader accepts when it is built
  Reads,        \* the texts that it accepts as an update
  Mapping,      \* what the function makes of a value given to its constructor
  Unmapping,    \* what it is saved as (FunctionInterface::ftype)
  InitLayout,   \* the readers of layout.json
  AddedDefs,    \* the readers of layers that the RPC may add
  InitFile,     \* the definitions of variables.json
  MaxChannels   \* bound: the RPC adds no layer if a name has this many channels

VarDef == [name : Name, default : Value]

(* A reader in layout.json: one that declares its variable (Data::VarDef)  *)
(* with a default, or one that names it (Data::Var) and has the default    *)
(* that FunctionBuilder::build gives it.                                   *)
ReaderDef == [reader : Reader, declares : BOOLEAN, default : Value]

WellTyped(def) == def.default \in Parses[def.reader]

ASSUME ReaderAssumption ==
  /\ NameOf \in [Reader -> Name]
  /\ Parses \in [Reader -> SUBSET Value] /\ Reads \in [Reader -> SUBSET Value]
  /\ Mapping \in [Reader -> [Value -> Value]] /\ Unmapping \in [Reader -> [Value -> Value]]
  /\ \A r \in Reader : \A v \in Parses[r] : Mapping[r][v] \in Reads[r]
  /\ \A r \in Reader : \A v \in Reads[r] : Unmapping[r][v] \in Parses[r]
ASSUME ConfigAssumption ==
  /\ InitFile \in Seq(VarDef)
  /\ InitLayout \in Seq(ReaderDef)
  /\ \A i \in DOMAIN InitLayout : WellTyped(InitLayout[i])
  /\ \A i, j \in DOMAIN InitLayout : InitLayout[i].reader = InitLayout[j].reader => i = j
  /\ AddedDefs \subseteq ReaderDef /\ \A def \in AddedDefs : WellTyped(def)
  /\ MaxChannels \in Nat

VARIABLES
  data,         \* Variables.data: the values of its channels, by name
  savable,      \* Variables.savable
  sending,      \* the channel that an update of the name under way reaches
                \*   next, 0 if there is none
  readers,      \* the readers there are, each with
                \*   chan    the channel it watches
                \*   unseen  whether that has a value it has not looked at
                \*   local   VariableData::Var.data
  stack,        \* the readers in the order of their functions in the layer stack
  building,     \* how many readers of layout.json the server has still to build
  file,         \* variables.json; <<>> also stands for a file that does not parse
  pending,      \* the definitions that SaveVariables is about to write, if any
  layout_file,  \* layout.json
  kept,         \* history: the values that variables.json was saved with
  settled       \* history: the values that layout.json was saved with, of the
                \*   names that only it declares, where the readers agreed on one

varVars == <<data, savable, sending, readers, stack, building, file, pending, layout_file, kept, settled>>

NoPending == [saving |-> FALSE, defs |-> <<>>]

IsDefined(name) == data[name] # <<>>

(* Variables::get. *)
Get(name) == data[name][1]

Defining(defs, name) == {i \in DOMAIN defs : defs[i].name = name}

IsGlobal(name) == Defining(savable, name) # {}

(* create_many, when the server starts. No reader ever watches a channel   *)
(* that is made for a definition, and of these get takes the first, which  *)
(* stands for all of its name.                                             *)
CreateMany(defs) ==
  [n \in Name |-> IF Defining(defs, n) = {} THEN <<>>
                  ELSE << defs[Min(Defining(defs, n))].default >>]

VarInit ==
  /\ data = CreateMany(InitFile)
  /\ savable = InitFile
  /\ sending = [n \in Name |-> 0]
  /\ readers = <<>>
  /\ stack = <<>>
  /\ building = Len(InitLayout)
  /\ file = InitFile
  /\ pending = NoPending
  /\ layout_file = InitLayout
  /\ kept = [n \in Name |-> {}]
  /\ settled = [n \in Name |-> {}]

-----------------------------------------------------------------------------
(* A reader's channel starts with its own default. *)
BugOwnChannel(def) == Append(data[NameOf[def.reader]], def.default)

(* Variables::set: a name that has channels gets one more with the value   *)
(* of the first.                                                           *)
AddChannel(def) ==
  LET n == NameOf[def.reader]
  IN  Append(data[n], IF IsDefined(n) THEN Get(n) ELSE def.default)

(* Variable::from_data: one that names its variable has the variable's     *)
(* value at once, one that declares it when it is first used. The          *)
(* function's constructor maps what it is given. The value that set sends  *)
(* to the channel is left unseen.                                          *)
BuildReader(def) ==
  LET r     == def.reader
      n     == NameOf[r]
      given == IF ~def.declares /\ IsDefined(n) /\ Get(n) \in Parses[r]
               THEN Get(n)
               ELSE def.default
      new   == [chan |-> Len(data[n]) + 1, unseen |-> IsDefined(n), local |-> Mapping[r][given]]
  IN  /\ data' = [data EXCEPT ![n] = AddChannel(def)]
      /\ readers' = [s \in DOMAIN readers \cup {r} |-> IF s = r THEN new ELSE readers[s]]
      /\ stack' = Append(stack, r)

(* LayoutBuilder::build. *)
BuildLayout ==
  /\ building > 0
  /\ building' = building - 1
  /\ BuildReader(layout_file[Len(layout_file) - building + 1])
  /\ UNCHANGED <<savable, sending, file, pending, layout_file, kept, settled>>

(* The RPC is served by one thread, and only once the layout is built. *)
RpcReady == building = 0 /\ ~pending.saving /\ \A n \in Name : sending[n] = 0

(* Command::AddLayer. *)
AddFunction(def) ==
  /\ RpcReady
  /\ def.reader \notin DOMAIN readers
  /\ Len(data[NameOf[def.reader]]) < MaxChannels
  /\ BuildReader(def)
  /\ UNCHANGED <<savable, sending, building, file, pending, layout_file, kept, settled>>

(* Command::RemoveLayer. *)
DropFunction(i) ==
  /\ RpcReady
  /\ readers' = [r \in DOMAIN readers \ {stack[i]} |-> readers[r]]
  /\ stack' = RemoveAt(stack, i)
  /\ UNCHANGED <<data, savable, sending, building, file, pending, layout_file, kept, settled>>

-----------------------------------------------------------------------------
(* Variables::update sends to the channels of the name one by one. The     *)
(* functions are not kept from reading in between.                         *)
SendTo(name, i, value) ==
  /\ data' = [data EXCEPT ![name][i] = value]
  /\ sending' = [sending EXCEPT ![name] = IF i < Len(data[name]) THEN i + 1 ELSE 0]
  /\ readers' = [r \in DOMAIN readers |->
                   [readers[r] EXCEPT !.unseen = @ \/ (NameOf[r] = name /\ readers[r].chan = i)]]
  /\ UNCHANGED <<savable, stack, building, file, pending, layout_file, kept, settled>>

(* Command::SetVariable, and the rest of its update. *)
SetVariable(name, value) ==
  /\ RpcReady
  /\ IsDefined(name)
  /\ SendTo(name, 1, value)

SendNext(name) ==
  /\ sending[name] # 0
  /\ SendTo(name, sending[name], Get(name))

Text(r) == data[NameOf[r]][readers[r].chan]

(* The text is taken for a value of the type. *)
BugReadUnparsed(r) == Text(r)

(* What Variable::data makes of the channel's text: one that the type does *)
(* not accept leaves the value the reader had.                             *)
Reading(r) == IF readers[r].unseen /\ Text(r) \in Reads[r] THEN Text(r) ELSE readers[r].local

(* Variable::data, called by the event of the reader's function. *)
Read(r) ==
  /\ building = 0
  /\ readers' = [readers EXCEPT ![r].local = Reading(r), ![r].unseen = FALSE]
  /\ UNCHANGED <<data, savable, sending, stack, building, file, pending, layout_file, kept, settled>>

-----------------------------------------------------------------------------
(* The definitions are written as they were read. *)
BugSaveDefaults == savable

(* Variables::to_json: each definition with the value of the first channel *)
(* of its name.                                                            *)
ToJson == [i \in DOMAIN savable |-> [savable[i] EXCEPT !.default = Get(savable[i].name)]]

(* Command::SaveVariables opens the file, which empties it, and writes it. *)
OpenFile ==
  /\ RpcReady
  /\ file' = <<>>
  /\ pending' = [saving |-> TRUE, defs |-> ToJson]
  /\ UNCHANGED <<data, savable, sending, readers, stack, building, layout_file, kept, settled>>

WriteFile ==
  /\ pending.saving
  /\ file' = pending.defs
  /\ pending' = NoPending
  /\ kept' = [n \in Name |-> IF IsGlobal(n) THEN {Get(n)} ELSE {}]
  /\ UNCHANGED <<data, savable, sending, readers, stack, building, layout_file, settled>>

WriteFails ==
  /\ pending.saving
  /\ pending' = NoPending
  /\ UNCHANGED <<data, savable, sending, readers, stack, building, file, layout_file, kept, settled>>

(* Variable::into_data: a reader is saved as one that declares its         *)
(* variable, with the value it last read, mapped back.                     *)
IntoData(r) == [reader |-> r, declares |-> TRUE, default |-> Unmapping[r][readers[r].local]]

ReadersOf(n) == {r \in DOMAIN readers : NameOf[r] = n}

Agreed(n) == ReadersOf(n) # {} /\ \A r \in ReadersOf(n) : IntoData(r).default = Get(n)

(* Command::SaveLayout. *)
SaveLayout ==
  /\ RpcReady
  /\ layout_file' = [i \in DOMAIN stack |-> IntoData(stack[i])]
  /\ settled' = [n \in Name |-> IF ~IsGlobal(n) /\ Agreed(n) THEN {Get(n)} ELSE {}]
  /\ UNCHANGED <<data, savable, sending, readers, stack, building, file, pending, kept>>

(* The server ends, at any point, and is started again. *)
Restart ==
  /\ data' = CreateMany(file)
  /\ savable' = file
  /\ sending' = [n \in Name |-> 0]
  /\ readers' = <<>>
  /\ stack' = <<>>
  /\ building' = Len(layout_file)
  /\ pending' = NoPending
  /\ UNCHANGED <<file, layout_file, kept, settled>>

VarNext ==
  \/ BuildLayout
  \/ \E def \in AddedDefs : AddFunction(def)
  \/ \E i \in DOMAIN stack : DropFunction(i)
  \/ \E r \in DOMAIN readers : Read(r)
  \/ \E name \in Name, value \in Value : SetVariable(name, value)
  \/ \E name \in Name : SendNext(name)
  \/ OpenFile
  \/ WriteFile
  \/ WriteFails
  \/ SaveLayout
  \/ Restart

VarSpec == VarInit /\ [][VarNext]_varVars

-----------------------------------------------------------------------------
ReaderState == [chan : Nat, unseen : BOOLEAN, local : Value]

(* The variables have their types, and a text that its type does not       *)
(* accept never reaches a function, not even by way of a layout.json that  *)
(* was saved while there was such a text.                                  *)
VarTypeOK ==
  /\ data \in [Name -> Seq(Value)]
  /\ savable \in Seq(VarDef)
  /\ sending \in [Name -> Nat] /\ \A n \in Name : sending[n] <= Len(data[n])
  /\ DOMAIN readers \subseteq Reader /\ \A r \in DOMAIN readers : readers[r] \in ReaderState
  /\ stack \in Seq(Reader) /\ ToSet(stack) = DOMAIN readers
  /\ building \in 0 .. Len(layout_file)
  /\ file \in Seq(VarDef)
  /\ pending \in [saving : BOOLEAN, defs : Seq(VarDef)]
  /\ layout_file \in Seq(ReaderDef)
  /\ kept \in [Name -> SUBSET Value]
  /\ settled \in [Name -> SUBSET Value]
  /\ \A r \in DOMAIN readers : readers[r].local \in Reads[r]
  /\ \A i \in DOMAIN layout_file : WellTyped(layout_file[i])

(* The value that reader r has been told of: the variable's, or, while an  *)
(* update is under way that has not reached its channel, the one before.   *)
Told(r) ==
  LET n == NameOf[r]
  IN  IF 0 < sending[n] /\ sending[n] <= readers[r].chan THEN data[n][Len(data[n])] ELSE Get(n)

(* A variable is one value, however many channels stand for it: a reader   *)
(* that has looked at its channel since it was last sent to has the value  *)
(* that GetVariable answers, or what its function's constructor made of it,*)
(* if the type it reads updates as accepts that value; whenever and        *)
(* however it was built. Only while an update is being sent to the         *)
(* channels may it have the value before, and only that one.               *)
ReadersShareValue ==
  \A r \in DOMAIN readers :
    ~readers[r].unseen /\ Told(r) \in Reads[r] =>
      readers[r].local \in {Told(r), Mapping[r][Told(r)]}

Rebuilt == BuildLayout /\ building' = 0

(* Once the server has started again, a variable of variables.json has the *)
(* value it was saved with, whichever reader is built first and whatever   *)
(* default, perhaps of an older value, layout.json was saved with for it;  *)
(* one that only the layout declares has the value that layout.json was    *)
(* saved with, if that is what all of its readers were saved with.         *)
SavedSurvive ==
  [][ Rebuilt =>
        \A n \in Name :
          LET known == IF IsGlobal(n) THEN kept[n] ELSE settled[n]
          IN  known # {} => {Get(n)'} = known ]_varVars
=============================================================================
