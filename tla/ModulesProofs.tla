---------------------------- MODULE ModulesProofs ----------------------------
(* Theorems about module Modules, for any drivers, functions, modules and  *)
(* layers, and any number of instances.                                    *)
EXTENDS Modules, TLAPS

(* A caller waits for a module, and has been answered well. *)
Waits(c) == call[c] # NoCall
Answer(c) == Waits(c) /\ call[c].answer \in Nat

Instances == [what : Driver \cup Func, told : State \cup {None}]

(* The instance that a module keeps, of a driver or of a function. *)
Has(what, i) == ModuleOf[what] \in Module /\ i \in Nat /\ IsInstance(what, i)

Kinds == {"load", "poll", "event"}

LEMMA Numbers ==
  /\ State \subseteq Nat
  /\ None \notin Nat /\ Failed \notin Nat /\ Pending \notin Nat
  /\ None # Failed /\ None # Pending /\ Failed # Pending
BY StatesAssumption DEF State, None, Failed, Pending

-----------------------------------------------------------------------------
(* The inductive invariant. *)

TypeInv ==
  /\ device \in [Driver -> State] /\ \A d \in Driver : device[d] \in States[d]
  /\ loaded \in [Module -> Seq(Instances)]
  /\ queue \in [Module -> Seq(Caller)]
  /\ call \in [Caller -> Calls]
  /\ pc \in {"load", "build", "tick", "poll", "exit"}
  /\ lock \in {"free"} \cup Caller
  /\ todo \in [Caller -> SUBSET (Driver \cup Func \cup Cell)]
  /\ built \in [Caller -> SUBSET Cell]
  /\ id \in [Driver -> Nat \cup {None}]
  /\ state \in [Driver -> State \cup {None}]
  /\ layers \in Seq(SUBSET Cell)
  /\ recent \in [Driver -> SUBSET State]
  /\ stale \subseteq Driver /\ polled \subseteq Cell /\ refused \subseteq Cell

(* What each task has to do where it is; it holds the lock meanwhile. *)
TaskInv ==
  /\ pc \in {"load", "tick"} => todo["main"] \subseteq Driver
  /\ pc = "build" => todo["main"] \subseteq BaseLayer
  /\ pc = "poll" => todo["main"] \subseteq polled
  /\ pc \in {"load", "build", "exit"} => lock = "free" /\ polled = {}
  /\ pc \in {"tick", "poll"} /\ lock # "main" => todo["main"] = {}
  /\ pc # "build" => built["main"] = {}
  /\ todo["rpc"] \subseteq Func
  /\ lock # "rpc" => todo["rpc"] = {} /\ built["rpc"] = {}

(* What each task may wait for where it is. *)
MainCall(r) ==
  \/ pc = "load" /\ r.kind = "load" /\ r.what \in todo["main"] /\ \A e \in todo["main"] : id[e] = None
  \/ pc \in {"load", "tick"} /\ r.kind = "poll" /\ r.what \in todo["main"] /\ r.id = id[r.what] /\ r.id # None
  \/ pc = "build" /\ r.kind = "load" /\ r.what \in todo["main"]
  \/ /\ pc = "poll" /\ r.kind = "event"
     /\ [func |-> r.what, id |-> r.id] \in todo["main"] /\ r.state = state[Input[r.what]]

CallInv ==
  /\ Waits("main") => MainCall(call["main"])
  /\ Waits("rpc") => call["rpc"].kind = "load" /\ call["rpc"].what \in todo["rpc"]

(* What an answer says is so, and remains so. *)
AnswerTrue(r) ==
  /\ ModuleOf[r.what] \notin Module => r.answer = Failed
  /\ r.answer \in Nat =>
       /\ r.kind = "load" => Has(r.what, r.answer)
       /\ r.kind = "poll" => r.answer \in States[r.what] /\ r.answer \in recent[r.what]
       /\ r.kind = "event" => loaded[ModuleOf[r.what]][r.id + 1].told = r.state

AnswerInv == \A c \in Caller : Waits(c) => AnswerTrue(call[c])

(* In a module's queue are callers that wait for it, each once. *)
QueueInv ==
  \A m \in Module :
    /\ \A i \in DOMAIN queue[m] :
         LET c == queue[m][i] IN Waits(c) /\ call[c].answer = Pending /\ ModuleOf[call[c].what] = m
    /\ \A i, j \in DOMAIN queue[m] : queue[m][i] = queue[m][j] => i = j

DriverInv ==
  \A d \in Driver :
    /\ id[d] # None => Has(d, id[d])
    /\ (pc = "load" /\ d \notin todo["main"]) \/ pc \in {"build", "tick", "poll"} => id[d] # None /\ state[d] # None
    /\ device[d] \in recent[d]

(* The cells that a task is about to make a layer of. *)
CellOf(c) == [func |-> call[c].what, id |-> call[c].answer]
Loading(c) == Answer(c) /\ call[c].kind = "load" /\ call[c].what \in Func
NewCells(c) == built[c] \cup (IF Loading(c) THEN {CellOf(c)} ELSE {})

CellInv ==
  /\ \A x \in polled : Has(x.func, x.id)
  /\ \A i \in DOMAIN layers : \A x \in layers[i] : Has(x.func, x.id)
  /\ \A c \in Caller : \A x \in built[c] : Has(x.func, x.id)

(* No two layers share a cell, and none is made of one that is in use. *)
ApartInv ==
  /\ \A i, j \in DOMAIN layers : i # j => layers[i] \cap layers[j] = {}
  /\ \A c \in Caller : \A i \in DOMAIN layers : layers[i] \cap NewCells(c) = {}
  /\ NewCells("main") \cap NewCells("rpc") = {}

(* A state that was polled in this tick is a recent one. *)
FreshInv ==
  \A d \in Driver \ stale :
    (pc = "tick" /\ lock = "main" /\ d \notin todo["main"]) \/ pc = "poll" => state[d] \in recent[d]

(* The functions that the poll has reached so far have been told one. *)
Told(x) == loaded[ModuleOf[x.func]][x.id + 1].told \in recent[Input[x.func]]

ToldInv ==
  (pc = "poll" /\ lock = "main") \/ (pc = "tick" /\ lock # "main") =>
    \A x \in (polled \ refused) \ todo["main"] : Input[x.func] \notin stale => Told(x)

Inv == TypeInv /\ TaskInv /\ CallInv /\ AnswerInv /\ QueueInv /\ DriverInv /\ CellInv /\ ApartInv
         /\ FreshInv /\ ToldInv

LEMMA InitInv == Init => Inv
<1> SUFFICES ASSUME Init PROVE Inv
  OBVIOUS
<1>1. <<>> \in Seq(Instances) /\ <<>> \in Seq(Caller) /\ <<>> \in Seq(SUBSET Cell) /\ DOMAIN <<>> = {}
  OBVIOUS
<1>2. /\ device \in [Driver -> State] /\ \A d \in Driver : device[d] \in States[d]
      /\ loaded \in [Module -> Seq(Instances)] /\ queue \in [Module -> Seq(Caller)]
      /\ \A m \in Module : DOMAIN queue[m] = {}
  BY <1>1 DEF Init
<1>3. call \in [Caller -> Calls] /\ \A c \in Caller : ~Waits(c)
  BY DEF Init, Calls, Waits
<1>4. /\ todo \in [Caller -> SUBSET (Driver \cup Func \cup Cell)] /\ todo["main"] = Driver /\ todo["rpc"] = {}
      /\ built \in [Caller -> SUBSET Cell] /\ \A c \in Caller : built[c] = {}
  BY DEF Init, Caller
<1>5. \A c \in Caller : NewCells(c) = {}
  BY <1>3, <1>4 DEF NewCells, Loading, Answer
<1>6. recent \in [Driver -> SUBSET State] /\ \A d \in Driver : device[d] \in recent[d]
  BY <1>2 DEF Init
<1>7. TypeInv
  BY <1>1, <1>2, <1>3, <1>4, <1>6 DEF Init, TypeInv
<1>8. TaskInv /\ CallInv /\ AnswerInv
  BY <1>3, <1>4 DEF Init, TaskInv, CallInv, AnswerInv, Caller
<1>9. QueueInv /\ DriverInv
  BY <1>2, <1>4, <1>6 DEF Init, QueueInv, DriverInv
<1>10. CellInv /\ ApartInv
  BY <1>1, <1>4, <1>5 DEF Init, CellInv, ApartInv, Caller
<1>11. FreshInv /\ ToldInv
  BY DEF Init, FreshInv, ToldInv
<1>12. QED
  BY <1>7, <1>8, <1>9, <1>10, <1>11 DEF Inv

-----------------------------------------------------------------------------
(* The steps, by what they do to the calls. *)

MainAsks ==
  \/ \E d \in Driver : LoadDriver(d) \/ FirstPoll(d) \/ TickDriver(d)
  \/ \E f \in BaseLayer : Build("main", f)
  \/ pc = "poll" /\ \E x \in todo["main"] : SendEvent(x)
RpcAsks == \E f \in todo["rpc"] : Build("rpc", f)

MainReceives == DriverLoaded \/ FirstPolled \/ Built("main") \/ DriverTicked \/ EventSent
RpcReceives  == Built("rpc")

MainTurns == StartBuild \/ EndBuild \/ StartTick \/ EndTick \/ StartPoll \/ EndPoll
RpcTurns  == AbortLayer \/ EndLayer \/ Commands
Turns     == MainTurns \/ RpcTurns

LEMMA StepCases ==
  ASSUME [Next]_vars
  PROVE  \/ UNCHANGED vars
         \/ \E d \in Driver : Change(d)
         \/ \E m \in Module : Serve(m)
         \/ MainAsks \/ RpcAsks \/ MainReceives \/ RpcReceives \/ Turns
<1>1. CASE Main
  BY <1>1 DEF Main, MainAsks, MainReceives, Turns, MainTurns
<1>2. CASE Rpc
  BY <1>2 DEF Rpc, RpcAsks, RpcReceives, Turns, RpcTurns
<1>3. QED
  BY <1>1, <1>2 DEF Next, Turns, MainTurns, RpcTurns

(* A caller asks for something. *)
Asks(c) ==
  \E kind \in Kinds, what \in Driver \cup Func, i \in Nat \cup {None}, told \in State \cup {None} :
    /\ Request(c, kind, what, i, told)
    /\ UNCHANGED <<pc, lock, todo, built, drvVars, layers, history>>

LEMMA AskFacts ==
  ASSUME TypeInv, NEW c \in Caller, NEW kind \in Kinds, NEW what \in Driver \cup Func,
         NEW i \in Nat \cup {None}, NEW told \in State \cup {None}, Request(c, kind, what, i, told)
  PROVE  /\ ~Waits(c) /\ Waits(c)'
         /\ call'[c].kind = kind /\ call'[c].what = what /\ call'[c].id = i /\ call'[c].state = told
         /\ call'[c].answer = IF ModuleOf[what] \in Module THEN Pending ELSE Failed
         /\ \A b \in Caller : b # c => call'[b] = call[b]
         /\ call' \in [Caller -> Calls] /\ queue' \in [Module -> Seq(Caller)]
         /\ UNCHANGED <<device, loaded>>
<1> DEFINE r == [kind |-> kind, what |-> what, id |-> i, state |-> told,
                 answer |-> IF ModuleOf[what] \in Module THEN Pending ELSE Failed]
<1>1. /\ call[c] = NoCall /\ call' = [call EXCEPT ![c] = r]
      /\ queue' = IF ModuleOf[what] \in Module THEN [queue EXCEPT ![ModuleOf[what]] = Append(@, c)] ELSE queue
      /\ UNCHANGED <<device, loaded>>
  BY DEF Request
<1>2. r \in Calls /\ r # NoCall
  BY DEF Calls, Kinds, NoCall
<1>3. /\ r.kind = kind /\ r.what = what /\ r.id = i /\ r.state = told
      /\ r.answer = IF ModuleOf[what] \in Module THEN Pending ELSE Failed
  OBVIOUS
<1> HIDE DEF r
<1>4. call'[c] = r /\ call' \in [Caller -> Calls] /\ \A b \in Caller : b # c => call'[b] = call[b]
  BY <1>1, <1>2 DEF TypeInv
<1>5. queue' \in [Module -> Seq(Caller)]
  BY <1>1 DEF TypeInv
<1>6. QED
  BY <1>1, <1>2, <1>3, <1>4, <1>5 DEF Waits

LEMMA Asking ==
  ASSUME Inv
  PROVE  /\ MainAsks => Asks("main")
         /\ RpcAsks => Asks("rpc")
<1>1. None \in State \cup {None} /\ None \in Nat \cup {None} /\ {"load", "poll", "event"} = Kinds
  BY DEF Kinds
<1>2. ASSUME NEW d \in Driver, LoadDriver(d) PROVE Asks("main")
  BY <1>1, <1>2 DEF LoadDriver, Asks
<1>3. ASSUME NEW d \in Driver, FirstPoll(d) PROVE Asks("main")
  <2>1. id[d] \in Nat \cup {None}
    BY DEF Inv, TypeInv
  <2>2. QED
    BY <1>1, <1>3, <2>1 DEF FirstPoll, Asks
<1>4. ASSUME NEW d \in Driver, TickDriver(d) PROVE Asks("main")
  <2>1. id[d] \in Nat \cup {None}
    BY DEF Inv, TypeInv
  <2>2. QED
    BY <1>1, <1>4, <2>1 DEF TickDriver, Asks
<1>5. ASSUME NEW c, NEW f \in Func, Build(c, f) PROVE Asks(c)
  BY <1>1, <1>5 DEF Build, Asks
<1>6. ASSUME pc = "poll", NEW x \in todo["main"], SendEvent(x) PROVE Asks("main")
  <2>1. x \in Cell
    BY <1>6 DEF Inv, TypeInv, TaskInv
  <2>2. x.func \in Func /\ x.id \in Nat
    BY <2>1 DEF Cell
  <2>3. state[Input[x.func]] \in State \cup {None}
    BY <2>2, InputAssumption DEF Inv, TypeInv
  <2>4. QED
    BY <1>1, <1>6, <2>2, <2>3 DEF SendEvent, Asks
<1>7. BaseLayer \subseteq Func /\ todo["rpc"] \subseteq Func
  BY LayersAssumption DEF Inv, TaskInv
<1>8. QED
  BY <1>2, <1>3, <1>4, <1>5, <1>6, <1>7 DEF MainAsks, RpcAsks

(* A caller receives its answer. *)
Receives(c) ==
  /\ Waits(c) /\ call[c].answer # Pending
  /\ Receive(c)
  /\ UNCHANGED <<lock, layers, recent, polled>>

LEMMA Receiving ==
  /\ MainReceives => Receives("main") /\ UNCHANGED <<device, loaded, queue>>
  /\ RpcReceives => Receives("rpc") /\ UNCHANGED <<device, loaded, queue>>
<1>1. ASSUME NEW c, NEW kind \in Kinds, Answered(c, kind)
      PROVE  Waits(c) /\ call[c].answer # Pending
  BY <1>1 DEF Answered, Kinds, Waits, NoCall
<1>2. "load" \in Kinds /\ "poll" \in Kinds /\ "event" \in Kinds
  BY DEF Kinds
<1>3. ASSUME NEW c, Receive(c) PROVE UNCHANGED <<device, loaded, queue>>
  BY <1>3 DEF Receive, modVars
<1>4. DriverLoaded => Receives("main")
  BY <1>1, <1>2 DEF DriverLoaded, Receives, history
<1>5. FirstPolled => Receives("main")
  BY <1>1, <1>2 DEF FirstPolled, Receives, history
<1>6. ASSUME NEW c, Built(c) PROVE Receives(c)
  BY <1>1, <1>2, <1>6 DEF Built, Receives, history
<1>7. DriverTicked => Receives("main")
  BY <1>1, <1>2 DEF DriverTicked, Receives, history
<1>8. EventSent => Receives("main")
  BY <1>1, <1>2 DEF EventSent, Receives
<1>9. QED
  BY <1>3, <1>4, <1>5, <1>6, <1>7, <1>8 DEF MainReceives, RpcReceives, Receives

LEMMA ReceiveFacts ==
  ASSUME TypeInv, NEW c \in Caller, Receives(c)
  PROVE  /\ ~Waits(c)' /\ \A b \in Caller : b # c => call'[b] = call[b]
         /\ call' \in [Caller -> Calls]
<1>1. call' = [call EXCEPT ![c] = NoCall] /\ NoCall \in Calls
  BY DEF Receives, Receive, Calls
<1>2. QED
  BY <1>1 DEF TypeInv, Waits

LEMMA Turning ==
  Turns => UNCHANGED <<device, loaded, queue, call>>
BY DEF Turns, MainTurns, RpcTurns, StartBuild, EndBuild, StartTick, EndTick, StartPoll, EndPoll, AbortLayer, EndLayer,
       Commands, AddLayer, RemoveLayer, Command, modVars

-----------------------------------------------------------------------------
(* A module answers a to caller c. *)
Answers(m, c, a) ==
  /\ Waits(c) /\ call[c].answer = Pending /\ ModuleOf[call[c].what] = m
  /\ call' = [call EXCEPT ![c].answer = a]
  /\ \/ /\ call[c].kind = "load" /\ a = Len(loaded[m])
        /\ loaded' = [loaded EXCEPT ![m] = Append(@, [what |-> call[c].what, told |-> None])]
     \/ call[c].kind = "poll" /\ a = device[call[c].what] /\ UNCHANGED loaded
     \/ /\ call[c].kind = "event" /\ a = 0
        /\ loaded' = [loaded EXCEPT ![m][call[c].id + 1].told = call[c].state]
     \/ a = Failed /\ UNCHANGED loaded
  /\ queue[m] # <<>> /\ c = queue[m][1] /\ queue' = [queue EXCEPT ![m] = Tail(@)]
  /\ UNCHANGED <<device, pc, lock, todo, built, drvVars, layers, history>>

(* What the main task waits for: a poll of a driver that is loaded, or the *)
(* event of a function that is.                                            *)
LEMMA MainAsksOf ==
  ASSUME Inv, NEW c \in Caller, Waits(c)
  PROVE  /\ call[c].kind = "poll" => /\ c = "main" /\ call[c].what \in Driver
                                     /\ Has(call[c].what, call[c].id)
         /\ call[c].kind = "event" => /\ c = "main" /\ pc = "poll" /\ call[c].what \in Func
                                      /\ Has(call[c].what, call[c].id)
                                      /\ [func |-> call[c].what, id |-> call[c].id] \in todo["main"]
<1>1. CASE call[c].kind = "poll"
  <2>1. c = "main" /\ MainCall(call["main"])
    BY <1>1 DEF Inv, CallInv, Caller
  <2>2. /\ pc \in {"load", "tick"} /\ call[c].what \in todo["main"]
        /\ call[c].id = id[call[c].what] /\ call[c].id # None
    BY <1>1, <2>1 DEF MainCall
  <2>3. call[c].what \in Driver
    BY <2>2 DEF Inv, TaskInv
  <2>4. Has(call[c].what, call[c].id)
    BY <2>2, <2>3 DEF Inv, DriverInv
  <2>5. QED
    BY <1>1, <2>1, <2>3, <2>4
<1>2. CASE call[c].kind = "event"
  <2>1. c = "main" /\ MainCall(call["main"])
    BY <1>2 DEF Inv, CallInv, Caller
  <2> DEFINE x == [func |-> call[c].what, id |-> call[c].id]
  <2>2. pc = "poll" /\ x \in todo["main"]
    BY <1>2, <2>1 DEF MainCall
  <2>3. x \in polled
    BY <2>2 DEF Inv, TaskInv
  <2>4. Has(x.func, x.id) /\ x \in Cell
    BY <2>3 DEF Inv, CellInv, TypeInv
  <2>5. call[c].what \in Func
    BY <2>4 DEF Cell
  <2>6. QED
    BY <1>2, <2>1, <2>2, <2>4, <2>5
<1>3. QED
  BY <1>1, <1>2

LEMMA Serving ==
  ASSUME Inv, NEW m \in Module, Serve(m)
  PROVE  \E c \in Caller, a \in Nat \cup {Failed} : Answers(m, c, a)
<1> DEFINE c == Head(queue[m])
           r == call[c]
<1>1. queue[m] \in Seq(Caller) /\ queue[m] # <<>> /\ queue' = [queue EXCEPT ![m] = Tail(@)]
      /\ UNCHANGED <<device, pc, lock, todo, built, drvVars, layers, history>>
  BY DEF Serve, Inv, TypeInv
<1>2. c = queue[m][1] /\ c \in Caller /\ 1 \in DOMAIN queue[m]
  BY <1>1
<1>3. Waits(c) /\ r.answer = Pending /\ ModuleOf[r.what] = m
  BY <1>2 DEF Inv, QueueInv
<1>4. Load(m, r) \/ PollDevice(m, r) \/ Event(m, r) \/ Fail(m)
  BY DEF Serve
<1>5. CASE Load(m, r)
  <2>1. Len(loaded[m]) \in Nat
    BY DEF Inv, TypeInv
  <2>2. Answers(m, c, Len(loaded[m]))
    BY <1>1, <1>2, <1>3, <1>5 DEF Load, Answers
  <2>3. QED
    BY <1>2, <2>1, <2>2
<1>6. CASE PollDevice(m, r)
  <2>1. r.kind = "poll" /\ r.what \in Driver /\ Has(r.what, r.id)
    BY <1>2, <1>3, <1>6, MainAsksOf DEF PollDevice
  <2>2. loaded[m][Instance(m, r.id)].what = r.what
    BY <1>3, <2>1 DEF Has, IsInstance, Instance
  <2>3. device[r.what] \in Nat
    BY <2>1, Numbers DEF Inv, TypeInv
  <2>4. Answers(m, c, device[r.what])
    BY <1>1, <1>2, <1>3, <1>6, <2>1, <2>2 DEF PollDevice, Answers
  <2>5. QED
    BY <1>2, <2>3, <2>4
<1>7. CASE Event(m, r)
  <2>1. Answers(m, c, 0)
    BY <1>1, <1>2, <1>3, <1>7 DEF Event, Answers, Instance
  <2>2. QED
    BY <1>2, <2>1
<1>8. CASE Fail(m)
  <2>1. Answers(m, c, Failed)
    BY <1>1, <1>2, <1>3, <1>8 DEF Fail, Answers
  <2>2. QED
    BY <1>2, <2>1
<1>9. QED
  BY <1>4, <1>5, <1>6, <1>7, <1>8

LEMMA AnswerFacts ==
  ASSUME Inv, NEW m \in Module, NEW c \in Caller, NEW a \in Nat \cup {Failed}, Answers(m, c, a)
  PROVE  /\ Waits(c)' /\ call'[c].answer = a
         /\ call'[c].kind = call[c].kind /\ call'[c].what = call[c].what
         /\ call'[c].id = call[c].id /\ call'[c].state = call[c].state
         /\ call[c].what \in Driver \cup Func /\ call[c].state \in State \cup {None}
         /\ \A b \in Caller : b # c => call'[b] = call[b]
         /\ call' \in [Caller -> Calls]
<1> DEFINE Made == [kind : {"load", "poll", "event"}, what : Driver \cup Func,
                    id : Nat \cup {None}, state : State \cup {None}, answer : Nat \cup {Failed, Pending}]
<1>1. call' = [call EXCEPT ![c].answer = a] /\ call[c] # NoCall
  BY DEF Answers, Waits
<1>2. PICK r \in Made : r = call[c]
  BY <1>1 DEF Inv, TypeInv, Calls
<1>3. [r EXCEPT !.answer = a] \in Made
  OBVIOUS
<1>4. call'[c] = [r EXCEPT !.answer = a] /\ \A b \in Caller : b # c => call'[b] = call[b]
  BY <1>1, <1>2 DEF Inv, TypeInv
<1>5. call' \in [Caller -> Calls]
  BY <1>1, <1>2, <1>3 DEF Inv, TypeInv, Calls
<1>6. call'[c] # NoCall
  BY <1>3, <1>4 DEF NoCall
<1>7. QED
  BY <1>2, <1>4, <1>5, <1>6 DEF Waits

(* What a module's instances are does not change; what they were told      *)
(* changes only for the one that an event is for.                          *)
LEMMA AnswerLoads ==
  ASSUME Inv, NEW m \in Module, NEW c \in Caller, NEW a \in Nat \cup {Failed}, Answers(m, c, a)
  PROVE  /\ loaded' \in [Module -> Seq(Instances)]
         /\ \A n \in Module : DOMAIN loaded[n] \subseteq DOMAIN loaded'[n]
         /\ \A n \in Module : \A i \in DOMAIN loaded[n] :
              /\ loaded'[n][i].what = loaded[n][i].what
              /\ ~(n = m /\ call[c].kind = "event" /\ i = call[c].id + 1 /\ a = 0)
                   => loaded'[n][i].told = loaded[n][i].told
         /\ call[c].kind = "load" /\ a # Failed =>
              /\ a = Len(loaded[m]) /\ a + 1 \in DOMAIN loaded'[m]
              /\ loaded'[m][a + 1].what = call[c].what
         /\ call[c].kind = "event" /\ a # Failed => loaded'[m][call[c].id + 1].told = call[c].state
<1>1. loaded \in [Module -> Seq(Instances)] /\ loaded[m] \in Seq(Instances)
  BY DEF Inv, TypeInv
<1>2. call[c].what \in Driver \cup Func /\ call[c].state \in State \cup {None}
  BY AnswerFacts
<1>3. CASE /\ call[c].kind = "load" /\ a = Len(loaded[m])
           /\ loaded' = [loaded EXCEPT ![m] = Append(@, [what |-> call[c].what, told |-> None])]
  <2> DEFINE new == [what |-> call[c].what, told |-> None]
             t == Append(loaded[m], new)
  <2>1. new \in Instances
    BY <1>2 DEF Instances
  <2>2. new.what = call[c].what
    OBVIOUS
  <2>3. loaded' = [loaded EXCEPT ![m] = t]
    BY <1>3
  <2> HIDE DEF new
  <2>4. /\ t \in Seq(Instances) /\ Len(loaded[m]) \in Nat
        /\ DOMAIN t = 1 .. Len(loaded[m]) + 1 /\ DOMAIN loaded[m] = 1 .. Len(loaded[m])
        /\ \A i \in DOMAIN loaded[m] : t[i] = loaded[m][i]
        /\ t[Len(loaded[m]) + 1] = new
    BY <1>1, <2>1
  <2> HIDE DEF t
  <2>5. loaded'[m] = t /\ \A n \in Module : n # m => loaded'[n] = loaded[n]
    BY <1>1, <2>3
  <2>6. loaded' \in [Module -> Seq(Instances)]
    BY <1>1, <2>3, <2>4
  <2>7. DOMAIN loaded[m] \subseteq DOMAIN t /\ Len(loaded[m]) + 1 \in DOMAIN t
    BY <2>4
  <2>8. QED
    BY <1>3, <2>2, <2>4, <2>5, <2>6, <2>7
<1>4. CASE /\ call[c].kind = "event" /\ a = 0
           /\ loaded' = [loaded EXCEPT ![m][call[c].id + 1].told = call[c].state]
  <2>1. Has(call[c].what, call[c].id) /\ ModuleOf[call[c].what] = m
    BY <1>4, MainAsksOf DEF Answers
  <2>2. PICK i : i = call[c].id + 1
    OBVIOUS
  <2>3. i \in DOMAIN loaded[m]
    BY <2>1, <2>2 DEF Has, IsInstance
  <2>4. PICK old \in Instances : old = loaded[m][i]
    BY <1>1, <2>3
  <2>5. PICK new : new = [old EXCEPT !.told = call[c].state]
    OBVIOUS
  <2>6. new \in Instances /\ new.what = old.what /\ new.told = call[c].state
    BY <1>2, <2>5 DEF Instances
  <2>7. loaded' = [loaded EXCEPT ![m] = [loaded[m] EXCEPT ![i] = new]]
    BY <1>1, <1>4, <2>2, <2>3, <2>4, <2>5
  <2>8. [loaded[m] EXCEPT ![i] = new] \in Seq(Instances)
    BY <1>1, <2>3, <2>6
  <2>9. loaded' \in [Module -> Seq(Instances)]
    BY <1>1, <2>7, <2>8
  <2>10. loaded'[m] = [loaded[m] EXCEPT ![i] = new] /\ \A n \in Module : n # m => loaded'[n] = loaded[n]
    BY <1>1, <2>7
  <2>11. /\ DOMAIN loaded'[m] = DOMAIN loaded[m] /\ loaded'[m][i] = new
         /\ \A j \in DOMAIN loaded[m] : j # i => loaded'[m][j] = loaded[m][j]
    BY <1>1, <2>3, <2>10
  <2>12. QED
    BY <1>4, <2>2, <2>3, <2>4, <2>6, <2>9, <2>10, <2>11
<1>5. CASE UNCHANGED loaded /\ (call[c].kind = "poll" \/ a = Failed)
  BY <1>1, <1>5
<1>6. QED
  BY <1>3, <1>4, <1>5 DEF Answers

LEMMA HasKept ==
  ASSUME NEW what, NEW i, Has(what, i),
         \A n \in Module : DOMAIN loaded[n] \subseteq DOMAIN loaded'[n],
         \A n \in Module : \A j \in DOMAIN loaded[n] : loaded'[n][j].what = loaded[n][j].what
  PROVE  Has(what, i)'
BY DEF Has, IsInstance

-----------------------------------------------------------------------------
(* Types and tasks. *)

(* The layers without one of them. *)
LEMMA LayersLeft ==
  ASSUME NEW S, NEW s \in Seq(S), NEW j \in 1 .. Len(s)
  PROVE  /\ RemoveAt(s, j) \in Seq(S) /\ Len(RemoveAt(s, j)) = Len(s) - 1
         /\ \A i \in 1 .. Len(s) - 1 : RemoveAt(s, j)[i] = IF i < j THEN s[i] ELSE s[i + 1]
<1> DEFINE u == SubSeq(s, 1, j - 1)
           v == SubSeq(s, j + 1, Len(s))
<1>1. u \in Seq(S) /\ Len(u) = j - 1 /\ \A i \in 1 .. j - 1 : u[i] = s[i]
  OBVIOUS
<1>2. v \in Seq(S) /\ Len(v) = Len(s) - j /\ \A i \in 1 .. Len(s) - j : v[i] = s[i + j]
  OBVIOUS
<1>3. RemoveAt(s, j) = u \o v
  BY DEF RemoveAt
<1> HIDE DEF u, v
<1>4. u \o v \in Seq(S) /\ Len(u \o v) = Len(s) - 1
  BY <1>1, <1>2
<1>5. ASSUME NEW i \in 1 .. Len(s) - 1
      PROVE  (u \o v)[i] = IF i < j THEN s[i] ELSE s[i + 1]
  <2>1. CASE i < j
    BY <1>1, <1>2, <2>1
  <2>2. CASE ~ (i < j)
    <3>1. (u \o v)[i] = v[i - (j - 1)]
      BY <1>1, <1>2, <2>2
    <3>2. v[i - (j - 1)] = s[i - (j - 1) + j]
      BY <1>2, <2>2
    <3>3. QED
      BY <2>2, <3>1, <3>2
  <2>3. QED
    BY <2>1, <2>2
<1>6. QED
  BY <1>3, <1>4, <1>5

(* The layers are those there were, or one more that was built. *)
LEMMA TurnLayers ==
  ASSUME Inv, Turns
  PROVE  \/ UNCHANGED layers
         \/ EndBuild /\ layers' = <<built["main"]>>
         \/ EndLayer /\ layers' = Append(layers, built["rpc"])
         \/ /\ \E i \in DOMAIN layers : layers' = RemoveAt(layers, i)
            /\ UNCHANGED <<pc, lock, todo, built, drvVars, history>>
BY DEF Turns, MainTurns, RpcTurns, StartBuild, EndBuild, StartTick, EndTick, StartPoll, EndPoll, AbortLayer, EndLayer,
       Commands, AddLayer, RemoveLayer

LEMMA LayersStep ==
  ASSUME Inv, Turns
  PROVE  layers' \in Seq(SUBSET Cell)
<1>1. layers \in Seq(SUBSET Cell) /\ built["main"] \in SUBSET Cell /\ built["rpc"] \in SUBSET Cell
  BY DEF Inv, TypeInv, Caller
<1>2. CASE \E i \in DOMAIN layers : layers' = RemoveAt(layers, i)
  <2>1. PICK i \in 1 .. Len(layers) : layers' = RemoveAt(layers, i)
    BY <1>1, <1>2
  <2>2. QED
    BY <1>1, <2>1, LayersLeft
<1>3. CASE layers' = <<built["main"]>>
  BY <1>1, <1>3
<1>4. CASE layers' = Append(layers, built["rpc"])
  BY <1>1, <1>4
<1>5. QED
  BY <1>1, <1>2, <1>3, <1>4, TurnLayers

LEMMA TypeStep ==
  ASSUME Inv, [Next]_vars
  PROVE  TypeInv'
<1>0. TypeInv
  BY DEF Inv
<1>1. CASE UNCHANGED vars
  BY <1>0, <1>1 DEF vars, modVars, drvVars, history, TypeInv
<1>2. ASSUME NEW d \in Driver, Change(d)
      PROVE  TypeInv'
  <2>1. PICK s \in States[d] \ {device[d]} : /\ device' = [device EXCEPT ![d] = s]
                                             /\ recent' = [recent EXCEPT ![d] = @ \cup {s}]
    BY <1>2 DEF Change
  <2>2. s \in State
    BY DEF State
  <2>3. device' \in [Driver -> State] /\ \A e \in Driver : device'[e] \in States[e]
    BY <1>0, <2>1, <2>2 DEF TypeInv
  <2>4. recent' \in [Driver -> SUBSET State]
    BY <1>0, <2>1, <2>2 DEF TypeInv
  <2>5. QED
    BY <1>0, <1>2, <2>3, <2>4 DEF Change, TypeInv, drvVars
<1>3. ASSUME NEW m \in Module, Serve(m)
      PROVE  TypeInv'
  <2>1. PICK c \in Caller, a \in Nat \cup {Failed} : Answers(m, c, a)
    BY <1>3, Serving
  <2>2. call' \in [Caller -> Calls] /\ loaded' \in [Module -> Seq(Instances)]
    BY <2>1, AnswerFacts, AnswerLoads
  <2>3. queue' \in [Module -> Seq(Caller)]
    BY <1>0, <2>1 DEF Answers, TypeInv
  <2>4. UNCHANGED <<device, pc, lock, todo, built, drvVars, layers, history>>
    BY <2>1 DEF Answers
  <2>5. QED
    BY <1>0, <2>2, <2>3, <2>4 DEF TypeInv, drvVars, history
<1>4. ASSUME NEW c \in Caller, Asks(c)
      PROVE  TypeInv'
  <2>1. call' \in [Caller -> Calls] /\ queue' \in [Module -> Seq(Caller)] /\ UNCHANGED <<device, loaded>>
    BY <1>0, <1>4, AskFacts DEF Asks
  <2>2. UNCHANGED <<pc, lock, todo, built, drvVars, layers, history>>
    BY <1>4 DEF Asks
  <2>3. QED
    BY <1>0, <2>1, <2>2 DEF TypeInv, drvVars, history
<1>5. ASSUME NEW c \in Caller, Receives(c), UNCHANGED <<device, loaded, queue>>,
             pc' \in {"load", "build", "tick", "poll", "exit"},
             todo' \in [Caller -> SUBSET (Driver \cup Func \cup Cell)], built' \in [Caller -> SUBSET Cell],
             id' \in [Driver -> Nat \cup {None}], state' \in [Driver -> State \cup {None}],
             stale' \subseteq Driver, refused' \subseteq Cell
      PROVE  TypeInv'
  <2>1. call' \in [Caller -> Calls] /\ UNCHANGED <<lock, layers, recent, polled>>
    BY <1>0, <1>5, ReceiveFacts DEF Receives
  <2>2. QED
    BY <1>0, <1>5, <2>1 DEF TypeInv
<1>6. ASSUME NEW r, NEW c \in Caller, r = call[c], Waits(c), r.answer # Pending
      PROVE  /\ r.answer # Failed => r.answer \in Nat
             /\ r.kind = "poll" => r.what \in Driver /\ (r.answer # Failed => r.answer \in State)
             /\ c = "main" /\ pc = "load" => r.what \in Driver
             /\ r.kind = "event" => [func |-> r.what, id |-> r.id] \in Cell
             /\ c = "rpc" \/ pc = "build" => r.what \in Func
  <2>1. r \in Calls /\ r # NoCall
    BY <1>0, <1>6 DEF TypeInv, Waits
  <2>2. r.answer # Failed => r.answer \in Nat
    BY <1>6, <2>1 DEF Calls
  <2>3. r.kind = "poll" => r.what \in Driver /\ (r.answer # Failed => r.answer \in State)
    <3>1. r.kind = "poll" => r.what \in Driver
      BY <1>6, MainAsksOf
    <3>2. r.kind = "poll" /\ r.answer # Failed => r.answer \in States[r.what]
      BY <1>6, <2>2 DEF Inv, AnswerInv, AnswerTrue
    <3>3. QED
      BY <3>1, <3>2 DEF State
  <2>4. c = "main" /\ pc = "load" => r.what \in Driver
    BY <1>6 DEF Inv, CallInv, MainCall, TaskInv
  <2>5. r.kind = "event" => [func |-> r.what, id |-> r.id] \in Cell
    <3>1. r.kind = "event" => [func |-> r.what, id |-> r.id] \in todo["main"] /\ pc = "poll"
      BY <1>6, MainAsksOf
    <3>2. QED
      BY <1>0, <3>1 DEF Inv, TaskInv, TypeInv
  <2>6. c = "rpc" \/ pc = "build" => r.what \in Func
    <3>1. c = "rpc" => r.what \in Func
      BY <1>6 DEF Inv, CallInv, TaskInv
    <3>2. c = "main" /\ pc = "build" => r.what \in Func
      BY <1>6, LayersAssumption DEF Inv, CallInv, MainCall, TaskInv
    <3>3. QED
      BY <3>1, <3>2 DEF Caller
  <2>7. QED
    BY <2>2, <2>3, <2>4, <2>5, <2>6
<1>7. "main" \in Caller /\ "rpc" \in Caller
  BY DEF Caller
<1>8. CASE MainReceives
  <2>1. Receives("main") /\ UNCHANGED <<device, loaded, queue>>
    BY <1>8, Receiving
  <2>2. Waits("main") /\ call["main"].answer # Pending
    BY <2>1 DEF Receives
  <2>3. CASE DriverLoaded
    <3>1. /\ pc = "load" /\ pc' \in {"load", "exit"} /\ UNCHANGED <<todo, built, state, stale, refused>>
          /\ \/ id' = id
             \/ call.main.answer # Failed /\ id' = [id EXCEPT ![call.main.what] = call.main.answer]
      BY <2>3 DEF DriverLoaded, history
    <3>2. id' \in [Driver -> Nat \cup {None}]
      BY <1>0, <1>6, <1>7, <2>2, <3>1 DEF TypeInv
    <3>3. QED
      BY <1>0, <1>5, <1>7, <2>1, <3>1, <3>2 DEF TypeInv
  <2>4. CASE FirstPolled
    <3>1. /\ pc = "load" /\ pc' \in {"load", "exit"} /\ UNCHANGED <<built, id, stale, refused>>
          /\ call.main.kind = "poll"
          /\ \/ UNCHANGED <<state, todo>>
             \/ /\ call.main.answer # Failed
                /\ state' = [state EXCEPT ![call.main.what] = call.main.answer]
                /\ todo' = [todo EXCEPT !.main = @ \ {call.main.what}]
      BY <2>4 DEF FirstPolled, history, Answered
    <3>2. state' \in [Driver -> State \cup {None}]
      BY <1>0, <1>6, <1>7, <2>2, <3>1 DEF TypeInv
    <3>3. todo' \in [Caller -> SUBSET (Driver \cup Func \cup Cell)]
      <4>1. CASE todo' = todo
        BY <1>0, <4>1 DEF TypeInv
      <4>2. CASE todo' = [todo EXCEPT !.main = @ \ {call.main.what}]
        BY <1>0, <1>7, <4>2 DEF TypeInv
      <4>3. QED
        BY <3>1, <4>1, <4>2
    <3>4. QED
      BY <1>0, <1>5, <1>7, <2>1, <3>1, <3>2, <3>3 DEF TypeInv
  <2>5. CASE DriverTicked
    <3>1. /\ UNCHANGED <<pc, built, id, refused>> /\ call.main.kind = "poll"
          /\ state' = [state EXCEPT ![call.main.what] = Kept(call.main)]
          /\ stale' \subseteq stale \cup {call.main.what}
          /\ todo' = [todo EXCEPT !.main = @ \ Ticks(call.main)]
      BY <2>5 DEF DriverTicked, history, Answered
    <3>2. call.main.what \in Driver /\ (call.main.answer # Failed => call.main.answer \in State)
      BY <1>6, <1>7, <2>2, <3>1
    <3>3. Kept(call.main) \in State \cup {None}
      BY <1>0, <3>2 DEF Kept, TypeInv
    <3>4. state' \in [Driver -> State \cup {None}] /\ stale' \subseteq Driver
      BY <1>0, <3>1, <3>2, <3>3 DEF TypeInv
    <3>5. todo' \in [Caller -> SUBSET (Driver \cup Func \cup Cell)]
      BY <1>0, <1>7, <3>1 DEF TypeInv
    <3>6. QED
      BY <1>0, <1>5, <1>7, <2>1, <3>1, <3>4, <3>5 DEF TypeInv
  <2>6. CASE EventSent
    <3>1. /\ UNCHANGED <<pc, built, id, state, stale>> /\ call.main.kind = "event"
          /\ refused' \subseteq refused \cup {[func |-> call.main.what, id |-> call.main.id]}
          /\ todo' = [todo EXCEPT !.main = @ \ {[func |-> call.main.what, id |-> call.main.id]}]
      BY <2>6 DEF EventSent, drvVars, Answered
    <3>2. refused' \subseteq Cell
      BY <1>0, <1>6, <1>7, <2>2, <3>1 DEF TypeInv
    <3>3. todo' \in [Caller -> SUBSET (Driver \cup Func \cup Cell)]
      BY <1>0, <1>7, <3>1 DEF TypeInv
    <3>4. QED
      BY <1>0, <1>5, <1>7, <2>1, <3>1, <3>2, <3>3 DEF TypeInv
  <2>7. CASE Built("main")
    <3>1. /\ UNCHANGED <<pc, id, state, stale, refused>> /\ pc = "build"
          /\ todo' = [todo EXCEPT !["main"] = @ \ {call["main"].what}]
          /\ built' = [built EXCEPT !["main"] = @ \cup Cells(call["main"])]
      BY <2>7 DEF Built, Builds, drvVars, history
    <3>2. Cells(call["main"]) \subseteq Cell
      BY <1>6, <1>7, <2>2, <3>1 DEF Cells, Cell
    <3>3. built' \in [Caller -> SUBSET Cell] /\ todo' \in [Caller -> SUBSET (Driver \cup Func \cup Cell)]
      BY <1>0, <1>7, <3>1, <3>2 DEF TypeInv
    <3>4. QED
      BY <1>0, <1>5, <1>7, <2>1, <3>1, <3>3 DEF TypeInv
  <2>8. QED
    BY <1>8, <2>3, <2>4, <2>5, <2>6, <2>7 DEF MainReceives
<1>9. CASE RpcReceives
  <2>1. Receives("rpc") /\ UNCHANGED <<device, loaded, queue>> /\ Built("rpc")
    BY <1>9, Receiving DEF RpcReceives
  <2>2. Waits("rpc") /\ call["rpc"].answer # Pending
    BY <2>1 DEF Receives
  <2>3. /\ UNCHANGED <<pc, id, state, stale, refused>>
        /\ todo' = [todo EXCEPT !["rpc"] = @ \ {call["rpc"].what}]
        /\ built' = [built EXCEPT !["rpc"] = @ \cup Cells(call["rpc"])]
    BY <2>1 DEF Built, drvVars, history
  <2>4. Cells(call["rpc"]) \subseteq Cell
    BY <1>6, <1>7, <2>2 DEF Cells, Cell
  <2>5. built' \in [Caller -> SUBSET Cell] /\ todo' \in [Caller -> SUBSET (Driver \cup Func \cup Cell)]
    BY <1>0, <1>7, <2>3, <2>4 DEF TypeInv
  <2>6. QED
    BY <1>0, <1>5, <1>7, <2>1, <2>3, <2>5 DEF TypeInv
<1>10. CASE Turns
  <2>1. UNCHANGED <<device, loaded, queue, call>> /\ layers' \in Seq(SUBSET Cell)
    BY <1>10, Turning, LayersStep
  <2>2. UNCHANGED <<id, state>> /\ pc' \in {"load", "build", "tick", "poll", "exit"} /\ lock' \in {"free"} \cup Caller
        /\ stale' \subseteq Driver
    BY <1>0, <1>7, <1>10 DEF Turns, MainTurns, RpcTurns, StartBuild, EndBuild, StartTick, EndTick, StartPoll, EndPoll, AbortLayer, EndLayer,
       Commands, AddLayer, RemoveLayer, Command, drvVars, Takes, TypeInv
  <2>3. built' \in [Caller -> SUBSET Cell]
    <3>1. UNCHANGED built \/ \E c \in Caller : built' = [built EXCEPT ![c] = {}]
      BY <1>7, <1>10 DEF Turns, MainTurns, RpcTurns, StartBuild, EndBuild, StartTick, EndTick, StartPoll, EndPoll, AbortLayer, EndLayer,
         Commands, AddLayer, RemoveLayer
    <3>2. QED
      BY <1>0, <3>1 DEF TypeInv
  <2>4. /\ todo' \in [Caller -> SUBSET (Driver \cup Func \cup Cell)]
        /\ recent' \in [Driver -> SUBSET State] /\ polled' \subseteq Cell /\ refused' \subseteq Cell
    <3>1. CASE StartTick
      <4>1. todo' = [todo EXCEPT !.main = Driver] /\ recent' = [d \in Driver |-> {device[d]}]
            /\ UNCHANGED <<polled, refused>>
        BY <3>1 DEF StartTick
      <4>2. QED
        BY <1>0, <1>7, <4>1 DEF TypeInv
    <3>2. CASE StartPoll
      <4>1. PICK reached \in SUBSET UNION ToSet(layers) :
                todo' = [todo EXCEPT !.main = reached] /\ polled' = reached /\ refused' = {} /\ UNCHANGED recent
        BY <3>2 DEF StartPoll
      <4>2. UNION ToSet(layers) \subseteq Cell
        BY <1>0 DEF TypeInv, ToSet
      <4>3. QED
        BY <1>0, <1>7, <4>1, <4>2 DEF TypeInv
    <3>3. CASE ~StartTick /\ ~StartPoll
      <4>1. UNCHANGED history
        BY <1>10, <3>3 DEF Turns, MainTurns, RpcTurns, StartBuild, EndBuild, EndTick, EndPoll, AbortLayer, EndLayer,
           Commands, AddLayer, RemoveLayer, Command
      <4>2. \/ UNCHANGED todo \/ todo' = [todo EXCEPT !.main = BaseLayer] \/ todo' = [todo EXCEPT !.rpc = {}]
            \/ \E layer \in AddedLayers : todo' = [todo EXCEPT !.rpc = layer]
        BY <1>10, <3>3 DEF Turns, MainTurns, RpcTurns, StartBuild, EndBuild, EndTick, EndPoll, AbortLayer, EndLayer,
           Commands, AddLayer, RemoveLayer
      <4>3. todo' \in [Caller -> SUBSET (Driver \cup Func \cup Cell)]
        <5>1. BaseLayer \subseteq Func /\ \A layer \in AddedLayers : layer \subseteq Func
          BY LayersAssumption
        <5>2. CASE UNCHANGED todo
          BY <1>0, <5>2 DEF TypeInv
        <5>3. CASE todo' = [todo EXCEPT !.main = BaseLayer]
          BY <1>0, <1>7, <5>1, <5>3 DEF TypeInv
        <5>4. CASE todo' = [todo EXCEPT !.rpc = {}]
          BY <1>0, <1>7, <5>4 DEF TypeInv
        <5>5. CASE \E layer \in AddedLayers : todo' = [todo EXCEPT !.rpc = layer]
          <6>1. PICK layer \in AddedLayers : todo' = [todo EXCEPT !.rpc = layer]
            BY <5>5
          <6>2. layer \subseteq Driver \cup Func \cup Cell
            BY <5>1
          <6>3. QED
            BY <1>0, <1>7, <6>1, <6>2 DEF TypeInv
        <5>6. QED
          BY <4>2, <5>2, <5>3, <5>4, <5>5
      <4>4. QED
        BY <1>0, <4>1, <4>3 DEF TypeInv, history
    <3>4. QED
      BY <3>1, <3>2, <3>3
  <2>5. QED
    BY <1>0, <2>1, <2>2, <2>3, <2>4 DEF TypeInv
<1>11. QED
  BY <1>1, <1>2, <1>3, <1>4, <1>7, <1>8, <1>9, <1>10, StepCases, Asking

-----------------------------------------------------------------------------
(* What the steps of a task leave of what it and the other have to do.     *)

LEMMA MainReceived ==
  ASSUME Inv, MainReceives
  PROVE  /\ todo'["rpc"] = todo["rpc"] /\ built'["rpc"] = built["rpc"]
         /\ todo'["main"] \subseteq todo["main"]
         /\ pc' = pc \/ (pc = "load" /\ pc' = "exit")
         /\ built'["main"] = built["main"] \/ (Built("main") /\ pc = "build")
<1>1. todo \in [Caller -> SUBSET (Driver \cup Func \cup Cell)] /\ built \in [Caller -> SUBSET Cell]
      /\ "main" \in Caller /\ "rpc" \in Caller
  BY DEF Inv, TypeInv, Caller
<1>2. CASE DriverLoaded
  BY <1>2 DEF DriverLoaded
<1>3. CASE FirstPolled
  BY <1>1, <1>3 DEF FirstPolled
<1>4. CASE Built("main")
  BY <1>1, <1>4 DEF Built, Builds
<1>5. CASE DriverTicked
  BY <1>1, <1>5 DEF DriverTicked
<1>6. CASE EventSent
  BY <1>1, <1>6 DEF EventSent
<1>7. QED
  BY <1>2, <1>3, <1>4, <1>5, <1>6 DEF MainReceives

LEMMA RpcReceived ==
  ASSUME Inv, RpcReceives
  PROVE  /\ todo'["main"] = todo["main"] /\ built'["main"] = built["main"]
         /\ todo'["rpc"] \subseteq todo["rpc"] /\ lock = "rpc"
         /\ UNCHANGED <<pc, id, state, stale, recent, polled, refused>>
<1>1. todo \in [Caller -> SUBSET (Driver \cup Func \cup Cell)] /\ built \in [Caller -> SUBSET Cell]
      /\ "main" \in Caller /\ "rpc" \in Caller
  BY DEF Inv, TypeInv, Caller
<1>2. QED
  BY <1>1 DEF RpcReceives, Built, Builds, drvVars, history

(* A task whose turn it is does not wait. *)
LEMMA MainTurned ==
  ASSUME Inv, MainTurns
  PROVE  /\ ~Waits("main") /\ todo["main"] = {}
         /\ todo'["rpc"] = todo["rpc"] /\ built'["rpc"] = built["rpc"]
         /\ built'["main"] \subseteq built["main"]
         /\ UNCHANGED <<id, state>> /\ (~StartTick => UNCHANGED <<stale, recent>>)
         /\ ~StartPoll => UNCHANGED <<polled, refused>>
<1>1. todo \in [Caller -> SUBSET (Driver \cup Func \cup Cell)] /\ built \in [Caller -> SUBSET Cell]
      /\ "main" \in Caller /\ "rpc" \in Caller
  BY DEF Inv, TypeInv, Caller
<1>2. todo["main"] = {}
  BY DEF MainTurns, StartBuild, EndBuild, StartTick, EndTick, StartPoll, EndPoll, IsBuilt
<1>3. ~Waits("main")
  BY <1>2 DEF Inv, CallInv, MainCall
<1>4. todo'["rpc"] = todo["rpc"] /\ built'["rpc"] = built["rpc"] /\ built'["main"] \subseteq built["main"]
  BY <1>1 DEF MainTurns, StartBuild, EndBuild, StartTick, EndTick, StartPoll, EndPoll
<1>5. UNCHANGED <<id, state>> /\ (~StartTick => UNCHANGED <<stale, recent>>)
      /\ (~StartPoll => UNCHANGED <<polled, refused>>)
  BY DEF MainTurns, StartBuild, EndBuild, StartTick, EndTick, StartPoll, EndPoll, drvVars, history
<1>6. QED
  BY <1>2, <1>3, <1>4, <1>5

LEMMA RpcTurned ==
  ASSUME Inv, RpcTurns
  PROVE  /\ todo'["rpc"] = todo["rpc"] \/ ~Waits("rpc")
         /\ todo'["main"] = todo["main"] /\ built'["main"] = built["main"]
         /\ built'["rpc"] \subseteq built["rpc"]
         /\ UNCHANGED <<pc, id, state, stale, recent, polled, refused>>
         /\ lock' # lock => lock # "main" /\ lock' # "main"
<1>1. todo \in [Caller -> SUBSET (Driver \cup Func \cup Cell)] /\ built \in [Caller -> SUBSET Cell]
      /\ "main" \in Caller /\ "rpc" \in Caller
  BY DEF Inv, TypeInv, Caller
<1>2. CASE AbortLayer
  BY <1>1, <1>2 DEF AbortLayer, drvVars, history, Waits
<1>3. CASE EndLayer
  BY <1>1, <1>3 DEF EndLayer, IsBuilt, Builds, drvVars, history, Waits
<1>4. ASSUME NEW layer, AddLayer(layer)
      PROVE  /\ ~Waits("rpc") /\ todo'["main"] = todo["main"] /\ built' = built
             /\ lock = "free" /\ lock' = "rpc"
             /\ UNCHANGED <<pc, id, state, stale, recent, polled, refused>>
  <2>1. lock = "free" /\ lock' = "rpc" /\ todo' = [todo EXCEPT !.rpc = layer] /\ built' = built
        /\ UNCHANGED <<pc, id, state, stale, recent, polled, refused>>
    BY <1>4 DEF AddLayer, Command, Takes, drvVars, history
  <2>2. ~Waits("rpc")
    BY <2>1 DEF Inv, CallInv, TaskInv
  <2>3. QED
    BY <1>1, <2>1, <2>2
<1>5. ASSUME NEW i, RemoveLayer(i)
      PROVE  UNCHANGED <<pc, lock, todo, built, id, state, stale, recent, polled, refused>>
  BY <1>5 DEF RemoveLayer, drvVars, history
<1>6. QED
  BY <1>2, <1>3, <1>4, <1>5 DEF RpcTurns, Commands

LEMMA TaskStep ==
  ASSUME Inv, [Next]_vars
  PROVE  TaskInv'
<1>0. TaskInv
  BY DEF Inv
<1>1. ASSUME UNCHANGED <<pc, lock, todo, built, polled>> PROVE TaskInv'
  BY <1>0, <1>1 DEF TaskInv
<1>2. ASSUME NEW m \in Module, Serve(m) PROVE UNCHANGED <<pc, lock, todo, built, polled>>
  BY <1>2 DEF Serve, history
<1>3. CASE MainReceives
  <2>1. Receives("main")
    BY <1>3, Receiving
  <2>2. UNCHANGED <<lock, polled>>
    BY <2>1 DEF Receives
  <2>3. QED
    BY <1>0, <1>3, <2>2, MainReceived DEF TaskInv
<1>4. CASE RpcReceives
  <2>1. Receives("rpc")
    BY <1>4, Receiving
  <2>2. UNCHANGED <<lock, polled>>
    BY <2>1 DEF Receives
  <2>3. QED
    BY <1>0, <1>4, <2>2, RpcReceived DEF TaskInv
<1>5. CASE MainTurns
  <2>1. built \in [Caller -> SUBSET Cell] /\ todo \in [Caller -> SUBSET (Driver \cup Func \cup Cell)]
        /\ "main" \in Caller
    BY DEF Inv, TypeInv, Caller
  <2>2. CASE StartBuild
    BY <1>0, <1>5, <2>1, <2>2, MainTurned DEF StartBuild, TaskInv, history
  <2>3. CASE EndBuild
    BY <1>0, <1>5, <2>1, <2>3, MainTurned DEF EndBuild, IsBuilt, Builds, TaskInv, history
  <2>4. CASE StartTick
    BY <1>0, <1>5, <2>1, <2>4, MainTurned DEF StartTick, Takes, TaskInv
  <2>5. CASE EndTick
    BY <1>0, <1>5, <2>1, <2>5, MainTurned DEF EndTick, TaskInv, history
  <2>6. CASE StartPoll
    BY <1>0, <1>5, <2>1, <2>6, MainTurned DEF StartPoll, Takes, TaskInv
  <2>7. CASE EndPoll
    BY <1>0, <1>5, <2>1, <2>7, MainTurned DEF EndPoll, TaskInv, history
  <2>8. QED
    BY <1>5, <2>2, <2>3, <2>4, <2>5, <2>6, <2>7 DEF MainTurns
<1>6. CASE RpcTurns
  <2>1. built \in [Caller -> SUBSET Cell] /\ todo \in [Caller -> SUBSET (Driver \cup Func \cup Cell)]
        /\ "rpc" \in Caller
    BY DEF Inv, TypeInv, Caller
  <2>2. CASE AbortLayer
    BY <1>0, <1>6, <2>1, <2>2, RpcTurned DEF AbortLayer, TaskInv
  <2>3. CASE EndLayer
    BY <1>0, <1>6, <2>1, <2>3, RpcTurned DEF EndLayer, IsBuilt, TaskInv
  <2>4. ASSUME NEW layer \in AddedLayers, AddLayer(layer) PROVE TaskInv'
    <3>1. layer \subseteq Func
      BY LayersAssumption
    <3>2. pc \in {"tick", "poll"} /\ lock = "free" /\ lock' = "rpc" /\ todo'["rpc"] = layer /\ built' = built
      BY <2>1, <2>4 DEF AddLayer, Command, Started, Takes
    <3>3. QED
      BY <1>0, <1>6, <3>1, <3>2, RpcTurned DEF TaskInv
  <2>5. ASSUME NEW i, RemoveLayer(i) PROVE TaskInv'
    BY <1>1, <2>5 DEF RemoveLayer, history
  <2>6. QED
    BY <1>6, <2>2, <2>3, <2>4, <2>5 DEF RpcTurns, Commands
<1>7. ASSUME NEW c, Asks(c) PROVE UNCHANGED <<pc, lock, todo, built, polled>>
  BY <1>7 DEF Asks, history
<1>8. ASSUME NEW d, Change(d) PROVE UNCHANGED <<pc, lock, todo, built, polled>>
  BY <1>8 DEF Change
<1>9. UNCHANGED vars => UNCHANGED <<pc, lock, todo, built, polled>>
  BY DEF vars, history
<1>10. QED
  BY <1>1, <1>2, <1>3, <1>4, <1>5, <1>6, <1>7, <1>8, <1>9, StepCases, Asking DEF Turns

-----------------------------------------------------------------------------
(* The calls and their answers. *)

LEMMA MainAskedFor ==
  ASSUME Inv, MainAsks
  PROVE  MainCall(call'["main"])
<1>1. "main" \in Caller /\ TypeInv
  BY DEF Caller, Inv
<1>2. None \in State \cup {None} /\ None \in Nat \cup {None} /\ BaseLayer \subseteq Func
      /\ "load" \in Kinds /\ "poll" \in Kinds /\ "event" \in Kinds
  BY LayersAssumption DEF Kinds
<1>3. ASSUME NEW d \in Driver, LoadDriver(d) PROVE MainCall(call'["main"])
  <2>1. Request("main", "load", d, None, None) /\ d \in Driver \cup Func
    BY <1>3 DEF LoadDriver
  <2>2. None \in State \cup {None} /\ None \in Nat \cup {None} /\ "load" \in Kinds
    BY <1>2
  <2>3. call'["main"].kind = "load" /\ call'["main"].what = d
    BY <1>1, <2>1, <2>2, AskFacts, ZenonT(60)
  <2>4. QED
    BY <1>3, <2>3 DEF LoadDriver, MainCall
<1>4. ASSUME NEW d \in Driver, FirstPoll(d) \/ TickDriver(d) PROVE MainCall(call'["main"])
  <2>1. id[d] \in Nat \cup {None} /\ Request("main", "poll", d, id[d], None)
    BY <1>1, <1>4 DEF FirstPoll, TickDriver, TypeInv
  <2>2. call'["main"].kind = "poll" /\ call'["main"].what = d /\ call'["main"].id = id[d]
    <3>1. PICK i \in Nat \cup {None} : i = id[d]
      BY <2>1
    <3>2. Request("main", "poll", d, i, None) /\ d \in Driver \cup Func
      BY <2>1, <3>1
    <3>3. "poll" \in Kinds /\ None \in State \cup {None}
      BY <1>2
    <3>4. call'["main"].kind = "poll" /\ call'["main"].what = d /\ call'["main"].id = i
      BY <1>1, <3>2, <3>3, AskFacts, ZenonT(60)
    <3>5. QED
      BY <3>1, <3>4
  <2>3. d \in todo["main"] /\ pc \in {"load", "tick"} /\ id[d] # None
    BY <1>4 DEF FirstPoll, TickDriver, Inv, DriverInv
  <2>4. QED
    BY <2>2, <2>3 DEF MainCall
<1>5. ASSUME NEW f \in BaseLayer, Build("main", f) PROVE MainCall(call'["main"])
  <2>1. call'["main"].kind = "load" /\ call'["main"].what = f
    BY <1>1, <1>2, <1>5, AskFacts DEF Build
  <2>2. QED
    BY <1>5, <2>1 DEF Build, Builds, MainCall
<1>6. ASSUME NEW x \in todo["main"], pc = "poll", SendEvent(x) PROVE MainCall(call'["main"])
  <2>1. x \in Cell
    BY <1>1, <1>6 DEF Inv, TaskInv, TypeInv
  <2>2. x.func \in Func /\ x.id \in Nat /\ x = [func |-> x.func, id |-> x.id]
    BY <2>1 DEF Cell
  <2>3. state[Input[x.func]] \in State \cup {None}
    BY <1>1, <2>2, InputAssumption DEF TypeInv
  <2>4. /\ call'["main"].kind = "event" /\ call'["main"].what = x.func /\ call'["main"].id = x.id
        /\ call'["main"].state = state[Input[x.func]]
    BY <1>1, <1>2, <1>6, <2>2, <2>3, AskFacts DEF SendEvent
  <2>5. QED
    BY <1>6, <2>2, <2>4 DEF MainCall
<1>7. QED
  BY <1>3, <1>4, <1>5, <1>6 DEF MainAsks

LEMMA RpcAskedFor ==
  ASSUME Inv, RpcAsks
  PROVE  call'["rpc"].kind = "load" /\ call'["rpc"].what \in todo["rpc"]
<1>1. "rpc" \in Caller /\ TypeInv /\ todo["rpc"] \subseteq Func
  BY DEF Caller, Inv, TaskInv
<1>2. None \in State \cup {None} /\ None \in Nat \cup {None} /\ "load" \in Kinds
  BY DEF Kinds
<1>3. PICK f \in todo["rpc"] : Build("rpc", f)
  BY DEF RpcAsks
<1>4. Request("rpc", "load", f, None, None) /\ f \in Driver \cup Func
  BY <1>1, <1>3 DEF Build
<1>5. call'["rpc"].kind = "load" /\ call'["rpc"].what = f
  BY <1>1, <1>2, <1>4, AskFacts
<1>6. QED
  BY <1>3, <1>5

(* Of a caller that asks, and of others. *)
LEMMA AskedBy ==
  ASSUME Inv, NEW c \in Caller, Asks(c)
  PROVE  /\ ~Waits(c) /\ \A b \in Caller : b # c => call'[b] = call[b]
         /\ call'[c].answer = IF ModuleOf[call'[c].what] \in Module THEN Pending ELSE Failed
         /\ queue' = IF ModuleOf[call'[c].what] \in Module
                     THEN [queue EXCEPT ![ModuleOf[call'[c].what]] = Append(@, c)] ELSE queue
         /\ Waits(c)'
         /\ UNCHANGED <<device, loaded, pc, lock, todo, built, id, state, stale, layers, recent, polled, refused>>
<1>1. PICK kind \in Kinds, what \in Driver \cup Func, i \in Nat \cup {None}, told \in State \cup {None} :
         /\ Request(c, kind, what, i, told)
         /\ UNCHANGED <<pc, lock, todo, built, drvVars, layers, history>>
  BY DEF Asks
<1>2. TypeInv
  BY DEF Inv
<1>3. queue' = IF ModuleOf[what] \in Module THEN [queue EXCEPT ![ModuleOf[what]] = Append(@, c)] ELSE queue
  BY <1>1 DEF Request
<1>4. UNCHANGED <<pc, lock, todo, built, id, state, stale, layers, recent, polled, refused>>
  BY <1>1 DEF drvVars, history
<1>5. QED
  BY <1>1, <1>2, <1>3, <1>4, AskFacts

LEMMA CallStep ==
  ASSUME Inv, [Next]_vars
  PROVE  CallInv'
<1>0. CallInv /\ "main" \in Caller /\ "rpc" \in Caller /\ \A c \in Caller : c = "main" \/ c = "rpc"
  BY DEF Inv, Caller
<1>1. ASSUME UNCHANGED <<pc, todo, id, state>>, NEW r, MainCall(r) PROVE MainCall(r)'
  BY <1>1 DEF MainCall
<1>2. ASSUME UNCHANGED <<pc, todo, id, state, call>> PROVE CallInv'
  BY <1>0, <1>2 DEF CallInv, Waits, MainCall
<1>3. ASSUME NEW m \in Module, Serve(m) PROVE CallInv'
  <2>1. PICK c \in Caller, a \in Nat \cup {Failed} : Answers(m, c, a)
    BY <1>3, Serving
  <2>2. \A b \in Caller : /\ Waits(b)' => Waits(b)
                          /\ call'[b].kind = call[b].kind /\ call'[b].what = call[b].what
                          /\ call'[b].id = call[b].id /\ call'[b].state = call[b].state
    <3>1. /\ Waits(c) /\ call'[c].kind = call[c].kind /\ call'[c].what = call[c].what
          /\ call'[c].id = call[c].id /\ call'[c].state = call[c].state
      BY <2>1, AnswerFacts DEF Answers
    <3>2. \A b \in Caller : b # c => call'[b] = call[b]
      BY <2>1, AnswerFacts
    <3>3. QED
      BY <3>1, <3>2 DEF Waits
  <2>3. UNCHANGED <<pc, todo, id, state>>
    BY <2>1 DEF Answers, drvVars
  <2>4. QED
    BY <1>0, <2>2, <2>3 DEF CallInv, MainCall
<1>4. CASE MainAsks
  <2>1. Asks("main") /\ MainCall(call'["main"])
    BY <1>4, Asking, MainAskedFor
  <2>2. UNCHANGED <<pc, todo, id, state>> /\ call'["rpc"] = call["rpc"]
    BY <1>0, <2>1, AskedBy
  <2>3. QED
    BY <1>0, <2>1, <2>2 DEF CallInv, MainCall, Waits
<1>5. CASE RpcAsks
  <2>1. Asks("rpc") /\ call'["rpc"].kind = "load" /\ call'["rpc"].what \in todo["rpc"]
    BY <1>5, Asking, RpcAskedFor
  <2>2. UNCHANGED <<pc, todo, id, state>> /\ call'["main"] = call["main"]
    BY <1>0, <2>1, AskedBy
  <2>3. QED
    BY <1>0, <2>1, <2>2 DEF CallInv, MainCall, Waits
<1>6. CASE MainReceives
  <2>1. ~Waits("main")' /\ call'["rpc"] = call["rpc"] /\ todo'["rpc"] = todo["rpc"]
    BY <1>0, <1>6, Receiving, ReceiveFacts, MainReceived DEF Inv
  <2>2. QED
    BY <1>0, <2>1 DEF CallInv, Waits
<1>7. CASE RpcReceives
  <2>1. ~Waits("rpc")' /\ call'["main"] = call["main"]
    BY <1>0, <1>7, Receiving, ReceiveFacts DEF Inv
  <2>2. UNCHANGED <<pc, id, state>> /\ todo'["main"] = todo["main"]
    BY <1>7, RpcReceived
  <2>3. QED
    BY <1>0, <2>1, <2>2 DEF CallInv, Waits, MainCall
<1>8. CASE MainTurns
  BY <1>0, <1>8, Turning, MainTurned DEF CallInv, Waits, Turns
<1>9. CASE RpcTurns
  <2>1. UNCHANGED <<pc, id, state, call>> /\ todo'["main"] = todo["main"]
        /\ (todo'["rpc"] = todo["rpc"] \/ ~Waits("rpc"))
    BY <1>9, Turning, RpcTurned DEF Turns
  <2>2. QED
    BY <1>0, <2>1 DEF CallInv, Waits, MainCall
<1>10. ASSUME NEW d, Change(d) PROVE CallInv'
  BY <1>2, <1>10 DEF Change, drvVars
<1>11. CASE UNCHANGED vars
  BY <1>2, <1>11 DEF vars, drvVars
<1>12. QED
  BY <1>3, <1>4, <1>5, <1>6, <1>7, <1>8, <1>9, <1>10, <1>11, StepCases DEF Turns

LEMMA HasInstance ==
  ASSUME Inv, NEW what, NEW i, Has(what, i)
  PROVE  /\ ModuleOf[what] \in Module /\ i \in Nat /\ i + 1 \in DOMAIN loaded[ModuleOf[what]]
         /\ loaded[ModuleOf[what]][i + 1].what = what
BY DEF Has, IsInstance

(* What modules keep when one of them answers. *)
LEMMA AnswerKeeps ==
  ASSUME Inv, NEW m \in Module, NEW c \in Caller, NEW a \in Nat \cup {Failed}, Answers(m, c, a)
  PROVE  /\ \A what, i : Has(what, i) => Has(what, i)'
         /\ \A what, i : /\ Has(what, i)
                        /\ ~(call[c].kind = "event" /\ what = call[c].what /\ i = call[c].id)
                        => loaded'[ModuleOf[what]][i + 1].told = loaded[ModuleOf[what]][i + 1].told
<1>1. ASSUME NEW what, NEW i, Has(what, i) PROVE Has(what, i)'
  BY <1>1, AnswerLoads, HasKept
<1>2. ASSUME NEW what, NEW i, Has(what, i),
             ~(call[c].kind = "event" /\ what = call[c].what /\ i = call[c].id)
      PROVE  loaded'[ModuleOf[what]][i + 1].told = loaded[ModuleOf[what]][i + 1].told
  <2>1. ModuleOf[what] \in Module /\ i + 1 \in DOMAIN loaded[ModuleOf[what]]
        /\ loaded[ModuleOf[what]][i + 1].what = what
    BY <1>2, HasInstance
  <2>2. CASE call[c].kind = "event" /\ ModuleOf[what] = m /\ i + 1 = call[c].id + 1
    <3>1. Waits(c) /\ Has(call[c].what, call[c].id) /\ ModuleOf[call[c].what] = m
      BY <2>2, MainAsksOf DEF Answers
    <3>2. loaded[m][call[c].id + 1].what = call[c].what
      BY <3>1, HasInstance
    <3>3. what = call[c].what /\ i + 1 = call[c].id + 1
      BY <2>1, <2>2, <3>2
    <3>4. i \in Nat /\ call[c].id \in Nat
      BY <1>2, <3>1 DEF Has
    <3>5. QED
      BY <1>2, <2>2, <3>3, <3>4
  <2>3. CASE ~(call[c].kind = "event" /\ ModuleOf[what] = m /\ i + 1 = call[c].id + 1)
    BY <2>1, <2>3, AnswerLoads
  <2>4. QED
    BY <2>2, <2>3
<1>3. QED
  BY <1>1, <1>2

LEMMA AnswerStep ==
  ASSUME Inv, [Next]_vars
  PROVE  AnswerInv'
<1>0. AnswerInv /\ "main" \in Caller /\ "rpc" \in Caller /\ \A c \in Caller : c = "main" \/ c = "rpc"
  BY DEF Inv, Caller
<1>1. ASSUME NEW r, AnswerTrue(r), UNCHANGED loaded, r.kind = "poll" => recent[r.what] \subseteq recent'[r.what]
      PROVE  AnswerTrue(r)'
  BY <1>1 DEF AnswerTrue, Has, IsInstance
<1>2. ASSUME UNCHANGED <<loaded, recent>>, \A c \in Caller : Waits(c)' => call'[c] = call[c] /\ Waits(c)
      PROVE  AnswerInv'
  <2>1. SUFFICES ASSUME NEW c \in Caller, Waits(c)' PROVE AnswerTrue(call[c])'
    BY DEF AnswerInv
  <2>2. PICK r : r = call[c] /\ r = call'[c]
    BY <1>2, <2>1
  <2>3. AnswerTrue(r)
    BY <1>0, <1>2, <2>1, <2>2 DEF AnswerInv
  <2>4. AnswerTrue(r)'
    BY <1>1, <1>2, <2>3
  <2>5. QED
    BY <2>2, <2>4 DEF AnswerTrue
<1>3. ASSUME NEW m \in Module, Serve(m) PROVE AnswerInv'
  <2>1. PICK c \in Caller, a \in Nat \cup {Failed} : Answers(m, c, a)
    BY <1>3, Serving
  <2>2. SUFFICES ASSUME NEW b \in Caller, Waits(b)' PROVE AnswerTrue(call[b])'
    BY DEF AnswerInv
  <2>3. UNCHANGED recent /\ Waits(c) /\ ModuleOf[call[c].what] = m
    BY <2>1 DEF Answers, history
  <2>4. CASE b = c
    <3>1. PICK r : r = call'[c]
      OBVIOUS
    <3>2. /\ r.answer = a /\ r.kind = call[c].kind /\ r.what = call[c].what
          /\ r.id = call[c].id /\ r.state = call[c].state
      BY <2>1, <3>1, AnswerFacts
    <3>3. ModuleOf[r.what] = m
      BY <2>3, <3>2
    <3>4. ASSUME a \in Nat PROVE a # Failed
      BY <3>4, Numbers
    <3>5. ASSUME a \in Nat, r.kind = "load" PROVE Has(r.what, a)'
      <4>1. call[c].kind = "load" /\ a # Failed
        BY <3>2, <3>4, <3>5
      <4>2. a + 1 \in DOMAIN loaded'[m] /\ loaded'[m][a + 1].what = call[c].what
        BY <2>1, <4>1, AnswerLoads
      <4>3. QED
        BY <3>2, <3>3, <3>5, <4>2 DEF Has, IsInstance
    <3>6. ASSUME a \in Nat, r.kind = "poll" PROVE a \in States[r.what] /\ a \in recent'[r.what]
      <4>1. r.what \in Driver /\ a = device[r.what]
        BY <2>1, <2>3, <3>2, <3>4, <3>6, MainAsksOf DEF Answers
      <4>2. QED
        BY <2>3, <4>1 DEF Inv, TypeInv, DriverInv
    <3>7. ASSUME a \in Nat, r.kind = "event" PROVE loaded'[ModuleOf[r.what]][r.id + 1].told = r.state
      <4>1. call[c].kind = "event" /\ a # Failed
        BY <3>2, <3>4, <3>7
      <4>2. loaded'[m][call[c].id + 1].told = call[c].state
        BY <2>1, <4>1, AnswerLoads
      <4>3. QED
        BY <3>2, <3>3, <4>2
    <3>8. AnswerTrue(r)'
      BY <3>2, <3>3, <3>5, <3>6, <3>7 DEF AnswerTrue
    <3>9. QED
      BY <2>4, <3>1, <3>8 DEF AnswerTrue
  <2>5. CASE b # c
    <3>1. PICK r : r = call[b] /\ r = call'[b]
      BY <2>1, <2>5, AnswerFacts
    <3>2. Waits(b) /\ AnswerTrue(r)
      BY <1>0, <2>2, <3>1 DEF Waits, AnswerInv
    <3>3. r.kind = "event" => Has(r.what, r.id) /\ call[c].kind # "event"
      <4>1. r.kind = "event" => b = "main" /\ Has(r.what, r.id)
        BY <3>1, <3>2, MainAsksOf
      <4>2. b = "main" => call[c].kind = "load"
        BY <1>0, <2>3, <2>5 DEF Inv, CallInv
      <4>3. QED
        BY <4>1, <4>2
    <3>4. r.kind = "event" =>
            loaded'[ModuleOf[r.what]][r.id + 1].told = loaded[ModuleOf[r.what]][r.id + 1].told
      BY <2>1, <3>3, AnswerKeeps
    <3>5. \A what, i : Has(what, i) => Has(what, i)'
      BY <2>1, AnswerKeeps
    <3>6. AnswerTrue(r)'
      BY <2>3, <3>2, <3>4, <3>5 DEF AnswerTrue
    <3>7. QED
      BY <3>1, <3>6 DEF AnswerTrue
  <2>6. QED
    BY <2>4, <2>5
<1>4. ASSUME NEW c \in Caller, Asks(c) PROVE AnswerInv'
  <2>1. SUFFICES ASSUME NEW b \in Caller, Waits(b)' PROVE AnswerTrue(call[b])'
    BY DEF AnswerInv
  <2>2. UNCHANGED <<loaded, recent>>
    BY <1>4, AskedBy
  <2>3. PICK r : r = call'[b]
    OBVIOUS
  <2>4. CASE b = c
    <3>1. r.answer = IF ModuleOf[r.what] \in Module THEN Pending ELSE Failed
      BY <1>4, <2>3, <2>4, AskedBy
    <3>2. r.answer \notin Nat /\ (ModuleOf[r.what] \notin Module => r.answer = Failed)
      BY <3>1, Numbers
    <3>3. QED
      BY <2>3, <3>2 DEF AnswerTrue
  <2>5. CASE b # c
    <3>1. r = call[b] /\ Waits(b)
      BY <1>4, <2>1, <2>3, <2>5, AskedBy DEF Waits
    <3>2. AnswerTrue(r)'
      BY <1>0, <1>1, <2>2, <3>1 DEF AnswerInv
    <3>3. QED
      BY <2>3, <3>2 DEF AnswerTrue
  <2>6. QED
    BY <2>4, <2>5
<1>5. ASSUME NEW c \in Caller, Receives(c), UNCHANGED loaded PROVE AnswerInv'
  <2>1. UNCHANGED recent
    BY <1>5 DEF Receives
  <2>2. \A b \in Caller : Waits(b)' => call'[b] = call[b] /\ Waits(b)
    BY <1>5, ReceiveFacts DEF Waits, Inv
  <2>3. QED
    BY <1>2, <1>5, <2>1, <2>2
<1>6. CASE Turns
  <2>1. UNCHANGED <<loaded, call>>
    BY <1>6, Turning
  <2>2. SUFFICES ASSUME NEW c \in Caller, Waits(c)' PROVE AnswerTrue(call[c])'
    BY DEF AnswerInv
  <2>3. PICK r : r = call[c] /\ r = call'[c]
    BY <2>1
  <2>4. AnswerTrue(r) /\ Waits(c)
    BY <1>0, <2>1, <2>2, <2>3 DEF AnswerInv, Waits
  <2>5. CASE StartTick
    <3>1. ~Waits("main")
      BY <2>5, MainTurned DEF MainTurns
    <3>2. r.kind # "poll"
      BY <1>0, <2>3, <2>4, <3>1 DEF Inv, CallInv
    <3>3. QED
      BY <1>1, <2>1, <2>3, <2>4, <3>2 DEF AnswerTrue
  <2>6. CASE ~StartTick
    <3>1. UNCHANGED recent
      BY <1>6, <2>6, MainTurned, RpcTurned DEF Turns
    <3>2. QED
      BY <1>1, <2>1, <2>3, <2>4, <3>1 DEF AnswerTrue
  <2>7. QED
    BY <2>5, <2>6
<1>7. ASSUME NEW d \in Driver, Change(d) PROVE AnswerInv'
  <2>1. UNCHANGED <<loaded, call>>
    BY <1>7 DEF Change
  <2>2. SUFFICES ASSUME NEW c \in Caller, Waits(c)' PROVE AnswerTrue(call[c])'
    BY DEF AnswerInv
  <2>3. PICK r : r = call[c] /\ r = call'[c]
    BY <2>1
  <2>4. AnswerTrue(r) /\ Waits(c)
    BY <1>0, <2>1, <2>2, <2>3 DEF AnswerInv, Waits
  <2>5. r.kind = "poll" => r.what \in Driver
    BY <2>3, <2>4, MainAsksOf
  <2>6. \A e \in Driver : recent[e] \subseteq recent'[e]
    BY <1>7 DEF Change, Inv, TypeInv
  <2>7. AnswerTrue(r)'
    BY <1>1, <2>1, <2>4, <2>5, <2>6
  <2>8. QED
    BY <2>3, <2>7 DEF AnswerTrue
<1>8. CASE UNCHANGED vars
  BY <1>2, <1>8 DEF vars, modVars, history, Waits
<1>9. QED
  BY <1>0, <1>3, <1>4, <1>5, <1>6, <1>7, <1>8, StepCases, Asking, Receiving

LEMMA QueueStep ==
  ASSUME Inv, [Next]_vars
  PROVE  QueueInv'
<1>0. QueueInv /\ queue \in [Module -> Seq(Caller)] /\ "main" \in Caller /\ "rpc" \in Caller
  BY DEF Inv, TypeInv, Caller
<1>1. ASSUME UNCHANGED queue, \A c \in Caller : Waits(c) /\ call[c].answer = Pending => call'[c] = call[c]
      PROVE  QueueInv'
  <2>1. \A m \in Module : \A i \in DOMAIN queue[m] : queue[m][i] \in Caller
    BY <1>0
  <2>2. QED
    BY <1>0, <1>1, <2>1 DEF QueueInv, Waits
<1>2. ASSUME NEW m \in Module, Serve(m) PROVE QueueInv'
  <2>1. PICK c \in Caller, a \in Nat \cup {Failed} : Answers(m, c, a)
    BY <1>2, Serving
  <2>2. queue[m] # <<>> /\ c = queue[m][1] /\ queue' = [queue EXCEPT ![m] = Tail(@)] /\ queue[m] \in Seq(Caller)
    BY <1>0, <2>1 DEF Answers
  <2>3. /\ \A i \in DOMAIN Tail(queue[m]) : i + 1 \in DOMAIN queue[m] /\ Tail(queue[m])[i] = queue[m][i + 1]
                                          /\ i + 1 # 1 /\ i \in Int
        /\ 1 \in DOMAIN queue[m]
    BY <2>2
  <2>4. queue'[m] = Tail(queue[m]) /\ \A n \in Module : n # m => queue'[n] = queue[n]
    BY <1>0, <2>2
  <2>5. Waits(c) /\ ModuleOf[call[c].what] = m
    BY <2>1 DEF Answers
  <2>6. \A b \in Caller : b # c => call'[b] = call[b]
    BY <2>1, AnswerFacts
  <2>7. ASSUME NEW i \in DOMAIN queue'[m], NEW b, b = queue'[m][i]
        PROVE  Waits(b)' /\ call'[b].answer = Pending /\ ModuleOf[call'[b].what] = m
    <3>1. i + 1 \in DOMAIN queue[m] /\ b = queue[m][i + 1] /\ i + 1 # 1
      BY <2>3, <2>4, <2>7
    <3>2. b # c /\ Waits(b) /\ call[b].answer = Pending /\ ModuleOf[call[b].what] = m
      BY <1>0, <2>2, <2>3, <3>1 DEF QueueInv
    <3>3. b \in Caller
      BY <2>2, <3>1
    <3>4. QED
      BY <2>6, <3>2, <3>3 DEF Waits
  <2>8. ASSUME NEW i \in DOMAIN queue'[m], NEW j \in DOMAIN queue'[m], queue'[m][i] = queue'[m][j]
        PROVE  i = j
    <3>1. i + 1 \in DOMAIN queue[m] /\ j + 1 \in DOMAIN queue[m] /\ queue[m][i + 1] = queue[m][j + 1]
          /\ i \in Int /\ j \in Int
      BY <2>3, <2>4, <2>8
    <3>2. i + 1 = j + 1
      BY <1>0, <3>1 DEF QueueInv
    <3>3. QED
      BY <3>1, <3>2
  <2>9. ASSUME NEW n \in Module, n # m, NEW i \in DOMAIN queue'[n], NEW b, b = queue'[n][i]
        PROVE  Waits(b)' /\ call'[b].answer = Pending /\ ModuleOf[call'[b].what] = n
    <3>1. i \in DOMAIN queue[n] /\ b = queue[n][i] /\ b \in Caller
      BY <1>0, <2>4, <2>9
    <3>2. Waits(b) /\ call[b].answer = Pending /\ ModuleOf[call[b].what] = n
      BY <1>0, <3>1 DEF QueueInv
    <3>3. QED
      BY <2>5, <2>6, <2>9, <3>1, <3>2 DEF Waits
  <2>10. ASSUME NEW n \in Module, n # m PROVE queue'[n] = queue[n]
    BY <2>4, <2>10
  <2>11. ASSUME NEW n \in Module, NEW i \in DOMAIN queue'[n]
         PROVE  /\ call'[queue'[n][i]] # NoCall /\ call'[queue'[n][i]].answer = Pending
                /\ ModuleOf[call'[queue'[n][i]].what] = n
    BY <2>7, <2>9, <2>11 DEF Waits
  <2>12. ASSUME NEW n \in Module, NEW i \in DOMAIN queue'[n], NEW j \in DOMAIN queue'[n],
                queue'[n][i] = queue'[n][j]
         PROVE  i = j
    <3>1. CASE n = m
      BY <2>8, <2>12, <3>1
    <3>2. CASE n # m
      BY <1>0, <2>10, <2>12, <3>2 DEF QueueInv
    <3>3. QED
      BY <3>1, <3>2
  <2>13. QED
    BY <2>11, <2>12 DEF QueueInv, Waits
<1>3. ASSUME NEW c \in Caller, Asks(c) PROVE QueueInv'
  <2>1. /\ ~Waits(c) /\ Waits(c)' /\ \A b \in Caller : b # c => call'[b] = call[b]
        /\ call'[c].answer = IF ModuleOf[call'[c].what] \in Module THEN Pending ELSE Failed
        /\ queue' = IF ModuleOf[call'[c].what] \in Module
                    THEN [queue EXCEPT ![ModuleOf[call'[c].what]] = Append(@, c)] ELSE queue
    BY <1>3, AskedBy
  <2>2. ASSUME NEW n \in Module, NEW i \in DOMAIN queue[n], NEW b, b = queue[n][i]
        PROVE  b # c /\ Waits(b)' /\ call'[b].answer = Pending /\ ModuleOf[call'[b].what] = n
    <3>1. Waits(b) /\ call[b].answer = Pending /\ ModuleOf[call[b].what] = n
      BY <1>0, <2>2 DEF QueueInv
    <3>2. b # c
      BY <2>1, <3>1
    <3>3. b \in Caller
      BY <1>0, <2>2
    <3>4. QED
      BY <2>1, <3>1, <3>2, <3>3 DEF Waits
  <2>3. CASE ModuleOf[call'[c].what] \notin Module
    BY <1>0, <2>1, <2>2, <2>3 DEF QueueInv
  <2>4. CASE ModuleOf[call'[c].what] \in Module
    <3>1. PICK m \in Module : m = ModuleOf[call'[c].what]
      BY <2>4
    <3>2. queue'[m] = Append(queue[m], c) /\ \A n \in Module : n # m => queue'[n] = queue[n]
      BY <1>0, <2>1, <3>1
    <3>3. queue[m] \in Seq(Caller)
      BY <1>0
    <3>4. \A i \in DOMAIN Append(queue[m], c) :
            \/ i \in DOMAIN queue[m] /\ Append(queue[m], c)[i] = queue[m][i]
            \/ i = Len(queue[m]) + 1 /\ Append(queue[m], c)[i] = c
      BY <3>3
    <3>5. ASSUME NEW i \in DOMAIN queue'[m], NEW b, b = queue'[m][i]
          PROVE  Waits(b)' /\ call'[b].answer = Pending /\ ModuleOf[call'[b].what] = m
      BY <2>1, <2>2, <3>1, <3>2, <3>4, <3>5
    <3>6. ASSUME NEW i \in DOMAIN queue'[m], NEW j \in DOMAIN queue'[m], queue'[m][i] = queue'[m][j]
          PROVE  i = j
      BY <1>0, <2>2, <3>2, <3>4, <3>6 DEF QueueInv
    <3>7. ASSUME NEW n \in Module, n # m, NEW i \in DOMAIN queue'[n], NEW b, b = queue'[n][i]
          PROVE  Waits(b)' /\ call'[b].answer = Pending /\ ModuleOf[call'[b].what] = n
      BY <2>2, <3>2, <3>7
    <3>8. ASSUME NEW n \in Module, n # m PROVE queue'[n] = queue[n]
      BY <3>2, <3>8
    <3>9. QED
      BY <1>0, <3>5, <3>6, <3>7, <3>8 DEF QueueInv
  <2>5. QED
    BY <2>3, <2>4
<1>4. ASSUME NEW c \in Caller, Receives(c), UNCHANGED queue PROVE QueueInv'
  <2>1. call[c].answer # Pending /\ \A b \in Caller : b # c => call'[b] = call[b]
    BY <1>4, ReceiveFacts DEF Receives, Inv
  <2>2. QED
    BY <1>1, <1>4, <2>1
<1>5. CASE Turns
  BY <1>1, <1>5, Turning
<1>6. ASSUME NEW d, Change(d) PROVE QueueInv'
  BY <1>1, <1>6 DEF Change
<1>7. CASE UNCHANGED vars
  BY <1>1, <1>7 DEF vars, modVars
<1>8. QED
  BY <1>0, <1>2, <1>3, <1>4, <1>5, <1>6, <1>7, StepCases, Asking, Receiving

-----------------------------------------------------------------------------
(* The instances of drivers and of cells. *)

(* Whatever the step is, a module keeps the instances that it has. *)
LEMMA HasStep ==
  ASSUME Inv, [Next]_vars
  PROVE  \A what, i : Has(what, i) => Has(what, i)'
<1>1. ASSUME UNCHANGED loaded PROVE \A what, i : Has(what, i) => Has(what, i)'
  BY <1>1 DEF Has, IsInstance
<1>2. ASSUME NEW m \in Module, Serve(m) PROVE \A what, i : Has(what, i) => Has(what, i)'
  BY <1>2, Serving, AnswerKeeps
<1>3. ASSUME NEW c \in Caller, Asks(c) PROVE UNCHANGED loaded
  BY <1>3, AskedBy
<1>4. ASSUME NEW d, Change(d) PROVE UNCHANGED loaded
  BY <1>4 DEF Change
<1>5. "main" \in Caller /\ "rpc" \in Caller
  BY DEF Caller
<1>6. UNCHANGED vars => UNCHANGED loaded
  BY DEF vars, modVars
<1>7. QED
  BY <1>1, <1>2, <1>3, <1>4, <1>5, <1>6, StepCases, Asking, Receiving, Turning

LEMMA DriverStep ==
  ASSUME Inv, [Next]_vars
  PROVE  DriverInv'
<1>0. DriverInv /\ TypeInv /\ "main" \in Caller /\ "rpc" \in Caller
  BY DEF Inv, Caller
<1>1. \A what, i : Has(what, i) => Has(what, i)'
  BY HasStep
<1>2. ASSUME UNCHANGED <<pc, todo, id, state>>,
             \A d \in Driver : device'[d] \in recent'[d]
      PROVE  DriverInv'
  BY <1>0, <1>1, <1>2 DEF DriverInv, Has, IsInstance
<1>3. ASSUME UNCHANGED <<device, recent>> PROVE \A d \in Driver : device'[d] \in recent'[d]
  BY <1>0, <1>3 DEF DriverInv
<1>4. ASSUME NEW m \in Module, Serve(m) PROVE DriverInv'
  BY <1>2, <1>3, <1>4 DEF Serve, drvVars, history
<1>5. ASSUME NEW c \in Caller, Asks(c) PROVE DriverInv'
  BY <1>2, <1>3, <1>5, AskedBy
<1>6. CASE MainReceives
  <2>1. UNCHANGED <<device, recent>> /\ Waits("main") /\ call["main"].answer # Pending
    BY <1>6, Receiving DEF Receives
  <2>2. \A d \in Driver : device'[d] \in recent'[d]
    BY <1>3, <2>1
  <2>3. PICK r : r = call["main"]
    OBVIOUS
  <2>4. r \in Calls /\ r # NoCall /\ AnswerTrue(r) /\ MainCall(r)
    BY <1>0, <2>1, <2>3 DEF TypeInv, Inv, AnswerInv, CallInv, Waits
  <2>5. r.answer # Failed => r.answer \in Nat /\ r.answer # None
    BY <2>1, <2>3, <2>4, Numbers DEF Calls
  <2>6. CASE DriverLoaded
    <3>1. /\ pc = "load" /\ r.kind = "load" /\ UNCHANGED <<todo, state>>
          /\ \/ r.answer = Failed /\ pc' = "exit" /\ id' = id
             \/ r.answer # Failed /\ pc' = pc /\ id' = [id EXCEPT ![r.what] = r.answer]
      BY <2>3, <2>6 DEF DriverLoaded, Answered
    <3>2. r.what \in todo["main"] /\ r.what \in Driver
      BY <2>4, <3>1 DEF MainCall, Inv, TaskInv
    <3>3. CASE r.answer = Failed
      BY <1>0, <1>1, <2>2, <3>1, <3>3 DEF DriverInv, Has, IsInstance
    <3>4. CASE r.answer # Failed
      <4>1. Has(r.what, r.answer)'
        BY <1>1, <2>4, <2>5, <3>1, <3>4 DEF AnswerTrue
      <4>2. /\ id'[r.what] = r.answer /\ \A d \in Driver : d # r.what => id'[d] = id[d]
            /\ pc' = "load" /\ UNCHANGED <<todo, state>>
        BY <1>0, <3>1, <3>2, <3>4 DEF TypeInv
      <4>3. ASSUME NEW d \in Driver, id'[d] # None PROVE Has(d, id[d])'
        <5>1. CASE d = r.what
          BY <4>1, <4>2, <5>1 DEF Has, IsInstance
        <5>2. CASE d # r.what
          BY <1>0, <1>1, <4>2, <4>3, <5>2 DEF DriverInv, Has, IsInstance
        <5>3. QED
          BY <5>1, <5>2
      <4>4. ASSUME NEW d \in Driver, d \notin todo'["main"] PROVE id'[d] # None /\ state'[d] # None
        BY <1>0, <3>1, <3>2, <4>2, <4>4 DEF DriverInv
      <4>5. QED
        BY <2>2, <4>2, <4>3, <4>4 DEF DriverInv
    <3>5. QED
      BY <3>3, <3>4
  <2>7. CASE FirstPolled
    <3>1. /\ pc = "load" /\ r.kind = "poll" /\ id' = id
          /\ \/ r.answer = Failed /\ pc' = "exit"
             \/ /\ r.answer # Failed /\ pc' = pc /\ state' = [state EXCEPT ![r.what] = r.answer]
                /\ todo' = [todo EXCEPT !["main"] = @ \ {r.what}]
      BY <2>3, <2>7 DEF FirstPolled, Answered
    <3>2. ASSUME NEW d \in Driver, id'[d] # None PROVE Has(d, id[d])'
      BY <1>0, <1>1, <3>1, <3>2 DEF DriverInv, Has, IsInstance
    <3>3. r.what \in Driver /\ id[r.what] # None
      BY <2>4, <3>1 DEF MainCall, Inv, TaskInv
    <3>4. CASE r.answer = Failed
      BY <2>2, <3>1, <3>2, <3>4 DEF DriverInv
    <3>5. CASE r.answer # Failed
      <4>1. /\ state'[r.what] = r.answer /\ \A d \in Driver : d # r.what => state'[d] = state[d]
            /\ todo'["main"] = todo["main"] \ {r.what} /\ pc' = "load"
        BY <1>0, <3>1, <3>3, <3>5 DEF TypeInv
      <4>2. ASSUME NEW d \in Driver, d \notin todo'["main"] PROVE id'[d] # None /\ state'[d] # None
        BY <1>0, <2>5, <3>1, <3>3, <3>5, <4>1, <4>2 DEF DriverInv
      <4>3. QED
        BY <2>2, <3>2, <4>1, <4>2 DEF DriverInv
    <3>6. QED
      BY <3>4, <3>5
  <2>8. CASE DriverTicked
    <3>1. pc = "tick" /\ r.kind = "poll" /\ id' = id /\ pc' = pc /\ state' = [state EXCEPT ![r.what] = Kept(r)]
      BY <2>3, <2>8 DEF DriverTicked, Answered
    <3>2. r.what \in Driver
      BY <2>4, <3>1 DEF MainCall, Inv, TaskInv
    <3>3. \A d \in Driver : id[d] # None /\ state[d] # None
      BY <1>0, <3>1 DEF DriverInv
    <3>4. Kept(r) # None
      BY <2>5, <3>2, <3>3 DEF Kept
    <3>5. \A d \in Driver : state'[d] # None
      BY <1>0, <3>1, <3>2, <3>3, <3>4 DEF TypeInv
    <3>6. ASSUME NEW d \in Driver, id'[d] # None PROVE Has(d, id[d])'
      BY <1>0, <1>1, <3>1, <3>6 DEF DriverInv, Has, IsInstance
    <3>7. QED
      BY <2>2, <3>1, <3>3, <3>5, <3>6 DEF DriverInv
  <2>9. CASE Built("main") \/ EventSent
    <3>1. UNCHANGED <<pc, id, state>> /\ pc \in {"build", "poll"}
      BY <2>9 DEF Built, Builds, EventSent, drvVars
    <3>2. ASSUME NEW d \in Driver, id'[d] # None PROVE Has(d, id[d])'
      BY <1>0, <1>1, <3>1, <3>2 DEF DriverInv, Has, IsInstance
    <3>3. QED
      BY <1>0, <2>2, <3>1, <3>2 DEF DriverInv
  <2>10. QED
    BY <1>6, <2>6, <2>7, <2>8, <2>9 DEF MainReceives
<1>7. CASE RpcReceives \/ RpcTurns
  <2>1. UNCHANGED <<device, recent, pc, id, state>> /\ todo'["main"] = todo["main"]
    BY <1>7, Receiving, RpcReceived, Turning, RpcTurned DEF Turns
  <2>2. ASSUME NEW d \in Driver, id'[d] # None PROVE Has(d, id[d])'
    BY <1>0, <1>1, <2>1, <2>2 DEF DriverInv, Has, IsInstance
  <2>3. QED
    BY <1>0, <1>3, <2>1, <2>2 DEF DriverInv
<1>8. CASE MainTurns
  <2>1. UNCHANGED <<device, id, state>> /\ todo["main"] = {}
    BY <1>8, Turning, MainTurned DEF Turns
  <2>2. pc \in {"load", "build", "tick", "poll"} /\ pc' \in {"build", "tick", "poll"}
    BY <1>8 DEF MainTurns, StartBuild, EndBuild, StartTick, EndTick, StartPoll, EndPoll, IsBuilt, Builds
  <2>3. \A d \in Driver : id[d] # None /\ state[d] # None
    BY <1>0, <2>1, <2>2 DEF DriverInv
  <2>4. \A d \in Driver : device'[d] \in recent'[d]
    <3>1. CASE StartTick
      BY <2>1, <3>1 DEF StartTick
    <3>2. CASE ~StartTick
      BY <1>3, <1>8, <2>1, <3>2, MainTurned
    <3>3. QED
      BY <3>1, <3>2
  <2>5. ASSUME NEW d \in Driver PROVE Has(d, id[d])'
    BY <1>0, <1>1, <2>1, <2>3 DEF DriverInv, Has, IsInstance
  <2>6. QED
    BY <2>1, <2>3, <2>4, <2>5 DEF DriverInv
<1>9. ASSUME NEW d \in Driver, Change(d) PROVE DriverInv'
  <2>1. UNCHANGED <<pc, todo, id, state>>
    BY <1>9 DEF Change, drvVars
  <2>2. \A e \in Driver : device'[e] \in recent'[e]
    BY <1>0, <1>9 DEF Change, TypeInv, DriverInv
  <2>3. QED
    BY <1>2, <2>1, <2>2
<1>10. CASE UNCHANGED vars
  BY <1>2, <1>3, <1>10 DEF vars, modVars, drvVars, history
<1>11. QED
  BY <1>0, <1>4, <1>5, <1>6, <1>7, <1>8, <1>9, <1>10, StepCases, Asking DEF Turns

(* What a task that builds has received is an instance of its own. *)
LEMMA NewHas ==
  ASSUME Inv, NEW c \in Caller
  PROVE  /\ NewCells(c) \subseteq Cell
         /\ \A x \in NewCells(c) : Has(x.func, x.id)
         /\ Waits(c) /\ call[c].kind = "load" /\ call[c].what \in Func /\ call[c].answer # Pending
              => Cells(call[c]) \subseteq NewCells(c)
<1>1. built[c] \subseteq Cell /\ \A x \in built[c] : Has(x.func, x.id)
  BY DEF Inv, TypeInv, CellInv
<1>2. ASSUME Loading(c)
      PROVE  CellOf(c) \in Cell /\ Has(CellOf(c).func, CellOf(c).id)
  <2>1. Has(call[c].what, call[c].answer)
    BY <1>2 DEF Loading, Answer, Inv, AnswerInv, AnswerTrue
  <2>2. QED
    BY <1>2, <2>1 DEF CellOf, Cell, Loading, Answer
<1>3. ASSUME Waits(c), call[c].kind = "load", call[c].what \in Func, call[c].answer # Pending
      PROVE  Cells(call[c]) \subseteq NewCells(c)
  <2>1. call[c].answer \in Nat \cup {Failed, Pending}
    BY <1>3 DEF Inv, TypeInv, Calls, Waits
  <2>2. CASE call[c].answer = Failed
    BY <2>2 DEF Cells
  <2>3. CASE call[c].answer \in Nat
    <3>1. Loading(c)
      BY <1>3, <2>3 DEF Loading, Answer
    <3>2. QED
      BY <3>1 DEF Cells, NewCells, CellOf
  <2>4. QED
    BY <1>3, <2>1, <2>2, <2>3
<1>4. QED
  BY <1>1, <1>2, <1>3 DEF NewCells

(* The cells that were built, once a task has received its answer, are     *)
(* those that it was about to make a layer of.                             *)
LEMMA BuiltCells ==
  ASSUME Inv, NEW c \in Caller, Built(c)
  PROVE  built'[c] \subseteq NewCells(c) /\ \A b \in Caller : b # c => built'[b] = built[b]
<1>1. /\ built' = [built EXCEPT ![c] = @ \cup Cells(call[c])] /\ Builds(c)
      /\ call[c].kind = "load" /\ call[c].answer # Pending
  BY DEF Built, Answered
<1>2. Waits(c)
  BY <1>1 DEF Waits, NoCall
<1>3. call[c].what \in Func
  BY <1>1, <1>2, LayersAssumption DEF Builds, Inv, CallInv, MainCall, TaskInv, Caller
<1>4. Cells(call[c]) \subseteq NewCells(c) /\ built[c] \subseteq NewCells(c)
  BY <1>1, <1>2, <1>3, NewHas DEF NewCells
<1>5. QED
  BY <1>1, <1>4 DEF Inv, TypeInv

(* A step leaves the cells that a task is about to make a layer of, or     *)
(* adds one that no module had before.                                     *)
LEMMA NewCellsStep ==
  ASSUME Inv, [Next]_vars, NEW c \in Caller, NEW x \in NewCells(c)', x \notin NewCells(c)
  PROVE  /\ UNCHANGED layers /\ ~Has(x.func, x.id)
         /\ \A b \in Caller : b # c => NewCells(b)' \subseteq NewCells(b)
<1> DEFINE Goal == /\ UNCHANGED layers /\ ~Has(x.func, x.id)
                   /\ \A b \in Caller : b # c => NewCells(b)' \subseteq NewCells(b)
<1> SUFFICES Goal
  OBVIOUS
<1> HIDE DEF Goal
<1>0. "main" \in Caller /\ "rpc" \in Caller /\ \A b \in Caller : b = "main" \/ b = "rpc"
  BY DEF Caller
<1>1. ASSUME NEW b \in Caller, call'[b] = call[b] \/ ~Waits(b)' \/ call'[b].answer \notin Nat,
             built'[b] \subseteq built[b]
      PROVE  NewCells(b)' \subseteq NewCells(b)
  BY <1>1 DEF NewCells, Loading, Answer, Waits, CellOf
<1>2. ASSUME \A b \in Caller : /\ call'[b] = call[b] \/ ~Waits(b)' \/ call'[b].answer \notin Nat
                              /\ built'[b] \subseteq built[b]
      PROVE  Goal
  BY <1>1, <1>2
<1>3. ASSUME NEW m \in Module, Serve(m) PROVE Goal
  <2>1. PICK e \in Caller, a \in Nat \cup {Failed} : Answers(m, e, a)
    BY <1>3, Serving
  <2>2. UNCHANGED <<built, layers>> /\ ModuleOf[call[e].what] = m /\ call[e].answer = Pending
    BY <2>1 DEF Answers
  <2>3. \A b \in Caller : b # e => call'[b] = call[b]
    BY <2>1, AnswerFacts
  <2>4. \A b \in Caller : b # e => NewCells(b)' \subseteq NewCells(b)
    BY <1>1, <2>2, <2>3
  <2>5. c = e
    BY <2>4
  <2>6. Loading(e)' /\ x = CellOf(e)'
    BY <2>2, <2>5 DEF NewCells
  <2>7. call'[e].answer = a /\ call'[e].kind = call[e].kind /\ call'[e].what = call[e].what
    BY <2>1, AnswerFacts
  <2>8. x.func = call[e].what /\ x.id = a /\ a \in Nat /\ call[e].kind = "load"
    BY <2>6, <2>7 DEF Loading, Answer, CellOf
  <2>9. a = Len(loaded[m])
    BY <2>1, <2>8, AnswerLoads, Numbers
  <2>10. ~(a + 1 \in DOMAIN loaded[m])
    <3>1. loaded[m] \in Seq(Instances)
      BY DEF Inv, TypeInv
    <3>2. QED
      BY <2>9, <3>1
  <2>11. ~Has(x.func, x.id)
    BY <2>2, <2>8, <2>10 DEF Has, IsInstance
  <2>12. QED
    BY <2>2, <2>4, <2>5, <2>11 DEF Goal
<1>4. ASSUME NEW e \in Caller, Asks(e) PROVE Goal
  <2>1. call'[e].answer \notin Nat
    BY <1>4, AskedBy, Numbers
  <2>2. UNCHANGED built /\ \A b \in Caller : b # e => call'[b] = call[b]
    BY <1>4, AskedBy
  <2>3. QED
    BY <1>2, <2>1, <2>2
<1>5. ASSUME NEW e \in Caller, Receives(e), UNCHANGED built \/ Built(e) PROVE Goal
  <2>1. ~Waits(e)' /\ \A b \in Caller : b # e => call'[b] = call[b]
    BY <1>5, ReceiveFacts DEF Inv
  <2>2. CASE UNCHANGED built
    BY <1>2, <2>1, <2>2
  <2>3. CASE Built(e)
    <3>1. built'[e] \subseteq NewCells(e) /\ \A b \in Caller : b # e => built'[b] = built[b]
      BY <2>3, BuiltCells
    <3>2. NewCells(e)' \subseteq NewCells(e)
      BY <2>1, <3>1 DEF NewCells, Loading, Answer
    <3>3. \A b \in Caller : b # e => NewCells(b)' \subseteq NewCells(b)
      BY <1>1, <2>1, <3>1
    <3>4. QED
      BY <3>2, <3>3
  <2>4. QED
    BY <1>5, <2>2, <2>3
<1>6. CASE MainReceives
  <2>1. UNCHANGED built \/ Built("main")
    BY <1>6 DEF MainReceives, DriverLoaded, FirstPolled, DriverTicked, EventSent
  <2>2. QED
    BY <1>0, <1>5, <1>6, <2>1, Receiving
<1>7. CASE RpcReceives
  BY <1>0, <1>5, <1>7, Receiving DEF RpcReceives
<1>8. CASE Turns
  <2>1. UNCHANGED call /\ \A b \in Caller : built'[b] \subseteq built[b]
    BY <1>0, <1>8, Turning, MainTurned, RpcTurned DEF Turns
  <2>2. QED
    BY <1>2, <2>1
<1>9. ASSUME NEW d, Change(d) PROVE Goal
  BY <1>2, <1>9 DEF Change
<1>10. CASE UNCHANGED vars
  BY <1>2, <1>10 DEF vars
<1>11. QED
  BY <1>0, <1>3, <1>4, <1>6, <1>7, <1>8, <1>9, <1>10, StepCases, Asking

(* A layer is made of what a task has built, which has nothing built then. *)
Made(c) == layers' = <<built[c]>> \/ layers' = Append(layers, built[c])
Rests(c) == ~Waits(c)' /\ built'[c] = {} /\ \A b \in Caller : b # c => NewCells(b)' = NewCells(b)

(* The layers are those there were, without one of them perhaps, or one    *)
(* more that a task has built.                                             *)
LEMMA LayerCells ==
  ASSUME Inv, [Next]_vars
  PROVE  \/ UNCHANGED layers
         \/ \E c \in Caller : Made(c) /\ Rests(c)
         \/ \E j \in 1 .. Len(layers) : layers' = RemoveAt(layers, j)
<1>0. "main" \in Caller /\ "rpc" \in Caller /\ (\A b \in Caller : b = "main" \/ b = "rpc") /\ TypeInv
  BY DEF Caller, Inv
<1>1. CASE EndBuild
  <2>1. UNCHANGED call /\ call["main"] = NoCall /\ built'["main"] = {} /\ built'["rpc"] = built["rpc"]
        /\ layers' = <<built["main"]>>
    BY <1>0, <1>1 DEF EndBuild, IsBuilt, TypeInv
  <2>2. NewCells("rpc")' = NewCells("rpc")
    BY <2>1 DEF NewCells, Loading, Answer, Waits, CellOf
  <2>3. Made("main") /\ Rests("main")
    BY <1>0, <2>1, <2>2 DEF Waits, Made, Rests
  <2>4. QED
    BY <1>0, <2>3
<1>2. CASE EndLayer
  <2>1. UNCHANGED call /\ call["rpc"] = NoCall /\ built'["rpc"] = {} /\ built'["main"] = built["main"]
        /\ layers' = Append(layers, built["rpc"])
    BY <1>0, <1>2 DEF EndLayer, IsBuilt, TypeInv
  <2>2. NewCells("main")' = NewCells("main")
    BY <2>1 DEF NewCells, Loading, Answer, Waits, CellOf
  <2>3. Made("rpc") /\ Rests("rpc")
    BY <1>0, <2>1, <2>2 DEF Waits, Made, Rests
  <2>4. QED
    BY <1>0, <2>3
<1>3. CASE Turns
  <2>1. CASE \E i \in DOMAIN layers : layers' = RemoveAt(layers, i)
    BY <1>0, <2>1 DEF TypeInv
  <2>2. QED
    BY <1>1, <1>2, <1>3, <2>1, TurnLayers
<1>4. ASSUME NEW m, Serve(m) PROVE UNCHANGED layers
  BY <1>4 DEF Serve
<1>5. ASSUME NEW d, Change(d) PROVE UNCHANGED layers
  BY <1>5 DEF Change
<1>6. ASSUME NEW c, Receives(c) PROVE UNCHANGED layers
  BY <1>6 DEF Receives
<1>7. ASSUME NEW c \in Caller, Asks(c) PROVE UNCHANGED layers
  BY <1>7, AskedBy
<1>8. UNCHANGED vars => UNCHANGED layers
  BY DEF vars
<1>9. QED
  BY <1>0, <1>3, <1>4, <1>5, <1>6, <1>7, <1>8, StepCases, Asking, Receiving

LEMMA LeftPlaces ==
  ASSUME NEW S, NEW s \in Seq(S), NEW j \in 1 .. Len(s), NEW t, t = RemoveAt(s, j)
  PROVE  \A i \in DOMAIN t : \E k \in DOMAIN s : t[i] = s[k] /\ k = IF i < j THEN i ELSE i + 1
<1>1. /\ t \in Seq(S) /\ Len(t) = Len(s) - 1 /\ Len(s) \in Nat
      /\ \A i \in 1 .. Len(s) - 1 : t[i] = IF i < j THEN s[i] ELSE s[i + 1]
  BY LayersLeft
<1>2. DOMAIN t = 1 .. Len(s) - 1 /\ DOMAIN s = 1 .. Len(s)
  BY <1>1
<1>3. ASSUME NEW i \in 1 .. Len(s) - 1 PROVE (IF i < j THEN i ELSE i + 1) \in 1 .. Len(s)
  BY <1>1
<1>4. QED
  BY <1>1, <1>2, <1>3

LEMMA AppendPlaces ==
  ASSUME NEW S, NEW s \in Seq(S), NEW a \in S
  PROVE  \A n \in DOMAIN Append(s, a) :
            (n \in DOMAIN s /\ Append(s, a)[n] = s[n]) \/ (n = Len(s) + 1 /\ Append(s, a)[n] = a)
OBVIOUS

LEMMA MorePlaces ==
  ASSUME NEW S, NEW s \in Seq(S), NEW a \in S, NEW t, t = <<a>> \/ t = Append(s, a)
  PROVE  \A i \in DOMAIN t : (i \in DOMAIN s /\ t[i] = s[i]) \/ t[i] = a
<1>1. CASE t = <<a>>
  BY <1>1
<1>2. CASE t = Append(s, a)
  BY <1>2
<1>3. QED
  BY <1>1, <1>2

LEMMA CellStep ==
  ASSUME Inv, [Next]_vars
  PROVE  CellInv'
<1>0. CellInv /\ TypeInv /\ "main" \in Caller /\ "rpc" \in Caller /\ \A b \in Caller : b = "main" \/ b = "rpc"
  BY DEF Inv, Caller
<1>1. \A what, i : Has(what, i) => Has(what, i)'
  BY HasStep
<1>2. \A i \in DOMAIN layers' : \A x \in layers'[i] : Has(x.func, x.id)
  <2>1. CASE UNCHANGED layers
    BY <1>0, <2>1 DEF CellInv
  <2>2. ASSUME NEW c \in Caller, Made(c)
        PROVE  \A i \in DOMAIN layers' : \A x \in layers'[i] : Has(x.func, x.id)
    <3>1. \A i \in DOMAIN layers' : layers'[i] = built[c] \/ (i \in DOMAIN layers /\ layers'[i] = layers[i])
      <4>1. layers \in Seq(SUBSET Cell) /\ built[c] \in SUBSET Cell
        BY <1>0 DEF TypeInv
      <4>2. QED
        BY <2>2, <4>1, MorePlaces DEF Made
    <3>2. QED
      BY <1>0, <3>1 DEF CellInv
  <2>3. ASSUME NEW j \in 1 .. Len(layers), layers' = RemoveAt(layers, j)
        PROVE  \A i \in DOMAIN layers' : \A x \in layers'[i] : Has(x.func, x.id)
    <3>1. layers \in Seq(SUBSET Cell)
      BY <1>0 DEF TypeInv
    <3>2. \A i \in DOMAIN layers' : \E k \in DOMAIN layers : layers'[i] = layers[k]
      BY <2>3, <3>1, LeftPlaces
    <3>3. QED
      BY <1>0, <3>2 DEF CellInv
  <2>4. CASE \E j \in 1 .. Len(layers) : layers' = RemoveAt(layers, j)
    BY <2>3, <2>4
  <2>5. QED
    BY <2>1, <2>2, <2>4, LayerCells
<1>3. \A x \in polled' : Has(x.func, x.id)
  <2>1. CASE UNCHANGED polled
    BY <1>0, <2>1 DEF CellInv
  <2>2. CASE StartPoll
    BY <1>0, <2>2 DEF StartPoll, CellInv, ToSet
  <2>3. ASSUME NEW m, Serve(m) PROVE UNCHANGED polled
    BY <2>3 DEF Serve, history
  <2>4. ASSUME NEW d, Change(d) PROVE UNCHANGED polled
    BY <2>4 DEF Change
  <2>5. ASSUME NEW c, Receives(c) PROVE UNCHANGED polled
    BY <2>5 DEF Receives
  <2>6. Turns => UNCHANGED polled \/ StartPoll
    BY MainTurned, RpcTurned DEF Turns
  <2>7. UNCHANGED vars => UNCHANGED polled
    BY DEF vars, history
  <2>8. QED
    BY <1>0, <2>1, <2>2, <2>3, <2>4, <2>5, <2>6, <2>7, StepCases, Asking, Receiving, AskedBy
<1>4. ASSUME NEW c \in Caller PROVE \A x \in built'[c] : Has(x.func, x.id)
  <2>1. CASE built'[c] \subseteq built[c]
    BY <1>0, <2>1 DEF CellInv
  <2>2. ASSUME NEW e \in Caller, Built(e) PROVE built'[c] \subseteq built[c] \/ built'[c] \subseteq NewCells(c)
    BY <2>2, BuiltCells
  <2>3. ASSUME NEW m, Serve(m) PROVE UNCHANGED built
    BY <2>3 DEF Serve
  <2>4. ASSUME NEW d, Change(d) PROVE UNCHANGED built
    BY <2>4 DEF Change
  <2>5. MainReceives \/ RpcReceives => UNCHANGED built \/ Built("main") \/ Built("rpc")
    BY DEF MainReceives, RpcReceives, DriverLoaded, FirstPolled, DriverTicked, EventSent
  <2>6. Turns => built'[c] \subseteq built[c]
    BY <1>0, MainTurned, RpcTurned DEF Turns
  <2>7. UNCHANGED vars => UNCHANGED built
    BY DEF vars
  <2>8. MainAsks \/ RpcAsks => UNCHANGED built
    BY <1>0, Asking, AskedBy
  <2>9. built'[c] \subseteq built[c] \/ built'[c] \subseteq NewCells(c)
    BY <1>0, <2>2, <2>3, <2>4, <2>5, <2>6, <2>7, <2>8, StepCases
  <2>10. QED
    BY <2>1, <2>9, NewHas
<1>5. QED
  BY <1>1, <1>2, <1>3, <1>4 DEF CellInv, Has, IsInstance

LEMMA ApartStep ==
  ASSUME Inv, [Next]_vars
  PROVE  ApartInv'
<1>0. /\ ApartInv /\ layers \in Seq(SUBSET Cell) /\ "main" \in Caller /\ "rpc" \in Caller /\ "main" # "rpc"
      /\ \A b \in Caller : b = "main" \/ b = "rpc"
  BY DEF Inv, TypeInv, Caller
<1>1. \A c \in Caller : built[c] \subseteq NewCells(c)
  BY DEF NewCells
<1>2. NewCells("main")' \cap NewCells("rpc")' = {}
  <2>1. SUFFICES ASSUME NEW x \in NewCells("main")', x \in NewCells("rpc")' PROVE FALSE
    OBVIOUS
  <2>2. CASE x \notin NewCells("main")
    BY <1>0, <2>1, <2>2, NewCellsStep, NewHas
  <2>3. CASE x \notin NewCells("rpc")
    BY <1>0, <2>1, <2>3, NewCellsStep, NewHas
  <2>4. QED
    BY <1>0, <2>2, <2>3 DEF ApartInv
<1>3. \A b, c \in Caller : b # c => NewCells(b) \cap NewCells(c) = {}
  BY <1>0 DEF ApartInv
<1>4. ASSUME NEW c \in Caller, NEW i \in DOMAIN layers', NEW x \in layers'[i], x \in NewCells(c)' PROVE FALSE
  <2>1. CASE UNCHANGED layers
    <3>1. i \in DOMAIN layers /\ x \in layers[i]
      BY <1>4, <2>1
    <3>2. Has(x.func, x.id)
      BY <3>1 DEF Inv, CellInv
    <3>3. x \in NewCells(c)
      BY <1>4, <3>2, NewCellsStep
    <3>4. QED
      BY <1>0, <3>1, <3>3 DEF ApartInv
  <2>2. ASSUME NEW e \in Caller, Made(e), Rests(e)
        PROVE  FALSE
    <3>1. NewCells(e)' = {}
      BY <2>2 DEF NewCells, Loading, Answer, Rests
    <3>2. c # e
      BY <1>4, <3>1
    <3>3. x \in NewCells(c)
      BY <1>4, <2>2, <3>2 DEF Rests
    <3>4. layers'[i] = built[e] \/ (i \in DOMAIN layers /\ layers'[i] = layers[i])
      <4>1. built[e] \in SUBSET Cell
        BY DEF Inv, TypeInv
      <4>2. QED
        BY <1>0, <1>4, <2>2, <4>1, MorePlaces DEF Made
    <3>5. QED
      BY <1>0, <1>1, <1>3, <1>4, <3>2, <3>3, <3>4 DEF ApartInv
  <2>3. ASSUME NEW j \in 1 .. Len(layers), layers' = RemoveAt(layers, j)
        PROVE  FALSE
    <3>1. PICK k \in DOMAIN layers : layers'[i] = layers[k]
      BY <1>0, <1>4, <2>3, LeftPlaces
    <3>2. Has(x.func, x.id)
      BY <1>4, <3>1 DEF Inv, CellInv
    <3>3. x \in NewCells(c)
      BY <1>4, <3>2, NewCellsStep
    <3>4. QED
      BY <1>0, <1>4, <3>1, <3>3 DEF ApartInv
  <2>4. CASE \E j \in 1 .. Len(layers) : layers' = RemoveAt(layers, j)
    BY <2>3, <2>4
  <2>5. QED
    BY <2>1, <2>2, <2>4, LayerCells
<1>5. ASSUME NEW i \in DOMAIN layers', NEW j \in DOMAIN layers', i # j, NEW x \in layers'[i], x \in layers'[j]
      PROVE  FALSE
  <2>1. CASE UNCHANGED layers
    BY <1>0, <1>5, <2>1 DEF ApartInv
  <2>2. ASSUME NEW e \in Caller, layers' = <<built[e]>>
        PROVE  FALSE
    BY <1>5, <2>2
  <2>3. ASSUME NEW e \in Caller, layers' = Append(layers, built[e])
        PROVE  FALSE
    <3>1. built[e] \in SUBSET Cell
      BY DEF Inv, TypeInv
    <3>2. \A n \in DOMAIN layers' :
            (n \in DOMAIN layers /\ layers'[n] = layers[n]) \/ (n = Len(layers) + 1 /\ layers'[n] = built[e])
      BY <1>0, <2>3, <3>1, AppendPlaces
    <3>3. QED
      BY <1>0, <1>1, <1>5, <3>2 DEF ApartInv
  <2>4. ASSUME NEW k \in 1 .. Len(layers), layers' = RemoveAt(layers, k)
        PROVE  FALSE
    <3>1. PICK a \in DOMAIN layers : layers'[i] = layers[a] /\ a = IF i < k THEN i ELSE i + 1
      BY <1>0, <1>5, <2>4, LeftPlaces
    <3>2. PICK b \in DOMAIN layers : layers'[j] = layers[b] /\ b = IF j < k THEN j ELSE j + 1
      BY <1>0, <1>5, <2>4, LeftPlaces
    <3>3. layers' \in Seq(SUBSET Cell)
      BY <1>0, <2>4, LayersLeft
    <3>4. i \in Int /\ j \in Int
      BY <1>5, <3>3
    <3>5. a # b
      BY <1>5, <3>1, <3>2, <3>4
    <3>6. QED
      BY <1>0, <1>5, <3>1, <3>2, <3>5 DEF ApartInv
  <2>5. CASE \E e \in Caller : Made(e)
    BY <2>2, <2>3, <2>5 DEF Made
  <2>6. CASE \E k \in 1 .. Len(layers) : layers' = RemoveAt(layers, k)
    BY <2>4, <2>6
  <2>7. QED
    BY <2>1, <2>5, <2>6, LayerCells
<1>6. QED
  BY <1>2, <1>4, <1>5 DEF ApartInv

-----------------------------------------------------------------------------
(* What the drivers answered, and what the functions were told.            *)

LEMMA FreshStep ==
  ASSUME Inv, [Next]_vars
  PROVE  FreshInv'
<1>0. FreshInv /\ TypeInv /\ "main" \in Caller /\ "rpc" \in Caller
  BY DEF Inv, Caller
<1>1. ASSUME UNCHANGED <<pc, state, stale>>, todo'["main"] = todo["main"], lock' = "main" => lock = "main",
             \A d \in Driver : recent[d] \subseteq recent'[d]
      PROVE  FreshInv'
  BY <1>0, <1>1 DEF FreshInv
<1>2. ASSUME pc' \notin {"tick", "poll"} \/ (pc' = "tick" /\ lock' # "main") PROVE FreshInv'
  BY <1>2 DEF FreshInv
<1>3. ASSUME NEW m \in Module, Serve(m) PROVE FreshInv'
  BY <1>1, <1>3 DEF Serve, drvVars, history
<1>4. ASSUME NEW c \in Caller, Asks(c) PROVE FreshInv'
  BY <1>1, <1>4, AskedBy
<1>5. ASSUME NEW d \in Driver, Change(d) PROVE FreshInv'
  BY <1>0, <1>1, <1>5 DEF Change, drvVars, TypeInv
<1>6. CASE MainReceives
  <2>1. UNCHANGED <<recent, lock>> /\ Waits("main") /\ call["main"].answer # Pending
    BY <1>6, Receiving DEF Receives
  <2>2. PICK r : r = call["main"]
    OBVIOUS
  <2>3. r \in Calls /\ r # NoCall /\ AnswerTrue(r) /\ MainCall(r)
    BY <1>0, <2>1, <2>2 DEF TypeInv, Inv, AnswerInv, CallInv, Waits
  <2>4. CASE DriverLoaded \/ FirstPolled \/ Built("main")
    <3>1. pc' \notin {"tick", "poll"}
      BY <1>0, <2>4 DEF DriverLoaded, FirstPolled, Built, Builds
    <3>2. QED
      BY <1>2, <3>1
  <2>5. CASE DriverTicked
    <3>1. /\ pc = "tick" /\ pc' = pc /\ r.kind = "poll" /\ state' = [state EXCEPT ![r.what] = Kept(r)]
          /\ stale' = (IF r.answer = Failed THEN stale \cup {r.what} ELSE stale)
          /\ todo' = [todo EXCEPT !["main"] = @ \ Ticks(r)]
      BY <2>2, <2>5 DEF DriverTicked, Answered
    <3>2. r.what \in Driver
      BY <2>3, <3>1 DEF MainCall, Inv, TaskInv
    <3>3. /\ state'[r.what] = Kept(r) /\ \A d \in Driver : d # r.what => state'[d] = state[d]
          /\ todo'["main"] = todo["main"] \ {r.what}
      BY <1>0, <3>1, <3>2 DEF TypeInv, Ticks
    <3>4. r.answer # Failed => Kept(r) \in recent[r.what]
      BY <2>1, <2>2, <2>3, <3>1 DEF AnswerTrue, Kept, Calls
    <3>5. SUFFICES ASSUME NEW d \in Driver, d \notin stale', lock' = "main", d \notin todo'["main"]
                   PROVE  state'[d] \in recent'[d]
      BY <3>1 DEF FreshInv
    <3>6. CASE d = r.what
      BY <2>1, <3>1, <3>3, <3>4, <3>5, <3>6
    <3>7. CASE d # r.what
      <4>1. d \notin stale /\ d \notin todo["main"]
        BY <3>1, <3>3, <3>5, <3>7
      <4>2. QED
        BY <1>0, <2>1, <3>1, <3>3, <3>5, <3>7, <4>1 DEF FreshInv
    <3>8. QED
      BY <3>6, <3>7
  <2>6. CASE EventSent
    BY <1>0, <2>1, <2>6 DEF EventSent, drvVars, FreshInv
  <2>7. QED
    BY <1>6, <2>4, <2>5, <2>6 DEF MainReceives
<1>7. CASE RpcReceives
  <2>1. UNCHANGED lock
    BY <1>7, Receiving DEF Receives
  <2>2. QED
    BY <1>1, <1>7, <2>1, RpcReceived
<1>8. CASE RpcTurns
  BY <1>1, <1>8, RpcTurned
<1>9. CASE MainTurns
  <2>1. CASE StartBuild \/ EndBuild \/ EndPoll
    <3>1. pc' = "build" \/ (pc' = "tick" /\ lock' # "main")
      BY <2>1 DEF StartBuild, EndBuild, EndPoll, IsBuilt, Builds, Inv, TaskInv
    <3>2. QED
      BY <1>2, <3>1
  <2>2. CASE StartTick
    <3>1. pc' = "tick" /\ todo'["main"] = Driver
      BY <1>0, <2>2 DEF StartTick, TypeInv
    <3>2. QED
      BY <3>1 DEF FreshInv
  <2>3. CASE EndTick \/ StartPoll
    <3>1. UNCHANGED <<state, stale, recent>> /\ pc' = "poll"
          /\ (pc = "poll" \/ (pc = "tick" /\ lock = "main" /\ todo["main"] = {}))
      BY <2>3 DEF EndTick, StartPoll, drvVars, history
    <3>2. QED
      BY <1>0, <3>1 DEF FreshInv
  <2>4. QED
    BY <1>9, <2>1, <2>2, <2>3 DEF MainTurns
<1>10. CASE UNCHANGED vars
  BY <1>1, <1>10 DEF vars, drvVars, history
<1>11. QED
  BY <1>0, <1>3, <1>4, <1>5, <1>6, <1>7, <1>8, <1>9, <1>10, StepCases, Asking DEF Turns

LEMMA ToldStep ==
  ASSUME Inv, [Next]_vars
  PROVE  ToldInv'
<1>0. ToldInv /\ TypeInv /\ "main" \in Caller /\ "rpc" \in Caller
  BY DEF Inv, Caller
<1> DEFINE Due == (pc = "poll" /\ lock = "main") \/ (pc = "tick" /\ lock # "main")
<1>1. ASSUME Due' => Due, todo'["main"] = todo["main"], UNCHANGED <<loaded, polled, refused, stale>>,
             \A d \in Driver : recent[d] \subseteq recent'[d]
      PROVE  ToldInv'
  <2>1. \A x \in polled : Input[x.func] \in Driver
    BY <1>0, InputAssumption DEF TypeInv, Cell
  <2>2. QED
    BY <1>0, <1>1, <2>1 DEF ToldInv, Told
<1>2. ASSUME ~Due' PROVE ToldInv'
  BY <1>2 DEF ToldInv
<1>3. ASSUME NEW m \in Module, Serve(m) PROVE ToldInv'
  <2>1. PICK c \in Caller, a \in Nat \cup {Failed} : Answers(m, c, a)
    BY <1>3, Serving
  <2>2. UNCHANGED <<pc, lock, todo, stale, recent, polled, refused>>
    BY <2>1 DEF Answers, drvVars, history
  <2>3. SUFFICES ASSUME Due, NEW x \in (polled \ refused) \ todo["main"], Input[x.func] \notin stale
                 PROVE  Told(x)'
    BY <2>2 DEF ToldInv
  <2>4. Told(x)
    BY <1>0, <2>3 DEF ToldInv
  <2>5. Has(x.func, x.id) /\ x = [func |-> x.func, id |-> x.id]
    BY <1>0 DEF Inv, CellInv, TypeInv, Cell
  <2>6. ~(call[c].kind = "event" /\ x.func = call[c].what /\ x.id = call[c].id)
    <3>1. ASSUME call[c].kind = "event" PROVE [func |-> call[c].what, id |-> call[c].id] \in todo["main"]
      BY <2>1, <3>1, MainAsksOf DEF Answers
    <3>2. QED
      BY <2>3, <2>5, <3>1
  <2>7. loaded'[ModuleOf[x.func]][x.id + 1].told = loaded[ModuleOf[x.func]][x.id + 1].told
    BY <2>1, <2>5, <2>6, AnswerKeeps
  <2>8. QED
    BY <2>2, <2>4, <2>7 DEF Told
<1>4. ASSUME NEW c \in Caller, Asks(c) PROVE ToldInv'
  BY <1>1, <1>4, AskedBy
<1>5. ASSUME NEW d \in Driver, Change(d) PROVE ToldInv'
  BY <1>0, <1>1, <1>5 DEF Change, drvVars, TypeInv
<1>6. CASE MainReceives
  <2>1. UNCHANGED <<loaded, recent, lock, polled>> /\ Waits("main") /\ call["main"].answer # Pending
    BY <1>6, Receiving DEF Receives
  <2>2. PICK r : r = call["main"]
    OBVIOUS
  <2>3. r \in Calls /\ r # NoCall /\ AnswerTrue(r) /\ MainCall(r)
    BY <1>0, <2>1, <2>2 DEF TypeInv, Inv, AnswerInv, CallInv, Waits
  <2>4. CASE DriverLoaded \/ FirstPolled \/ Built("main")
    <3>1. pc' \notin {"tick", "poll"}
      BY <1>0, <2>4 DEF DriverLoaded, FirstPolled, Built, Builds
    <3>2. QED
      BY <1>2, <3>1
  <2>5. CASE DriverTicked
    <3>1. pc = "tick" /\ pc' = pc /\ r.kind = "poll"
      BY <2>2, <2>5 DEF DriverTicked, Answered
    <3>2. lock = "main"
      BY <2>3, <3>1 DEF MainCall, Inv, TaskInv
    <3>3. QED
      BY <1>2, <2>1, <3>1, <3>2
  <2>6. CASE EventSent
    <3>1. /\ pc = "poll" /\ pc' = pc /\ r.kind = "event" /\ UNCHANGED <<state, stale>>
          /\ todo' = [todo EXCEPT !["main"] = @ \ {[func |-> r.what, id |-> r.id]}]
          /\ refused' = (IF r.answer = Failed THEN refused \cup {[func |-> r.what, id |-> r.id]} ELSE refused)
      BY <2>2, <2>6 DEF EventSent, Answered, drvVars
    <3>2. PICK y : y = [func |-> r.what, id |-> r.id]
      OBVIOUS
    <3>3. todo'["main"] = todo["main"] \ {y}
      BY <1>0, <3>1, <3>2 DEF TypeInv
    <3>4. SUFFICES ASSUME Due', NEW x \in (polled \ refused') \ todo'["main"], Input[x.func] \notin stale
                   PROVE  Told(x)'
      BY <2>1, <3>1 DEF ToldInv
    <3>5. CASE x = y
      <4>1. r.answer # Failed
        BY <3>1, <3>2, <3>4, <3>5
      <4>2. r.answer \in Nat
        BY <2>1, <2>2, <2>3, <4>1 DEF Calls
      <4>3. loaded[ModuleOf[r.what]][r.id + 1].told = r.state
        BY <2>3, <3>1, <4>2 DEF AnswerTrue
      <4>4. r.state = state[Input[r.what]]
        BY <2>3, <3>1 DEF MainCall
      <4>5. x.func = r.what /\ x.id = r.id /\ x \in Cell
        BY <1>0, <3>2, <3>4, <3>5 DEF TypeInv
      <4>6. Input[x.func] \in Driver
        BY <4>5, InputAssumption DEF Cell
      <4>7. state[Input[x.func]] \in recent[Input[x.func]]
        BY <3>1, <3>4, <4>6 DEF Inv, FreshInv
      <4>8. QED
        BY <2>1, <4>3, <4>4, <4>5, <4>7 DEF Told
    <3>6. CASE x # y
      <4>1. x \in (polled \ refused) \ todo["main"] /\ Due
        BY <2>1, <3>1, <3>3, <3>4, <3>6
      <4>2. Told(x)
        BY <1>0, <3>4, <4>1 DEF ToldInv
      <4>3. QED
        BY <2>1, <4>2 DEF Told
    <3>7. QED
      BY <3>5, <3>6
  <2>7. QED
    BY <1>6, <2>4, <2>5, <2>6 DEF MainReceives
<1>7. CASE RpcReceives
  <2>1. UNCHANGED <<lock, loaded>>
    BY <1>7, Receiving DEF Receives
  <2>2. QED
    BY <1>1, <1>7, <2>1, RpcReceived
<1>8. CASE RpcTurns
  <2>1. UNCHANGED loaded /\ (Due' => Due)
    BY <1>8, Turning, RpcTurned DEF Turns
  <2>2. QED
    BY <1>1, <1>8, <2>1, RpcTurned
<1>9. CASE MainTurns
  <2>1. UNCHANGED loaded
    BY <1>9, Turning DEF Turns
  <2>2. CASE StartBuild \/ StartTick \/ EndTick
    <3>1. ~Due'
      BY <2>2 DEF StartBuild, StartTick, EndTick, Takes
    <3>2. QED
      BY <1>2, <3>1
  <2>3. CASE EndBuild
    <3>1. polled' = {}
      BY <2>3 DEF EndBuild, IsBuilt, Builds, history, Inv, TaskInv
    <3>2. QED
      BY <3>1 DEF ToldInv
  <2>4. CASE StartPoll
    <3>1. polled' = todo'["main"]
      BY <1>0, <2>4 DEF StartPoll, TypeInv
    <3>2. QED
      BY <3>1 DEF ToldInv
  <2>5. CASE EndPoll
    <3>1. Due /\ UNCHANGED <<todo, recent, stale, polled, refused>>
      BY <2>5 DEF EndPoll, drvVars, history
    <3>2. QED
      BY <1>1, <2>1, <3>1
  <2>6. QED
    BY <1>9, <2>2, <2>3, <2>4, <2>5 DEF MainTurns
<1>10. CASE UNCHANGED vars
  BY <1>1, <1>10 DEF vars, modVars, drvVars, history
<1>11. QED
  BY <1>0, <1>3, <1>4, <1>5, <1>6, <1>7, <1>8, <1>9, <1>10, StepCases, Asking DEF Turns

-----------------------------------------------------------------------------
LEMMA Invariant == Spec => []Inv
<1>1. Inv /\ [Next]_vars => Inv'
  BY TypeStep, TaskStep, CallStep, AnswerStep, QueueStep, DriverStep, CellStep, ApartStep, FreshStep, ToldStep
  DEF Inv
<1>2. QED
  BY InitInv, <1>1, PTL DEF Spec

(* The variables of the module manager and of its callers keep their       *)
(* types, and a server that runs has every driver loaded with a state,     *)
(* whatever the modules answer (modules.rs, driver/mod.rs).                *)
THEOREM TypeCorrect == Spec => []TypeOK
<1>1. Inv => TypeOK
  <2>1. SUFFICES ASSUME Inv PROVE TypeOK
    OBVIOUS
  <2>2. \A m \in Module : loaded[m] \in Seq([what : Driver \cup Func, told : State \cup {None}])
                           /\ queue[m] \in Seq(Caller)
    BY <2>1 DEF Inv, TypeInv, Instances
  <2>3. \A c \in Caller : todo[c] \subseteq Driver \cup Func \cup Cell /\ built[c] \subseteq Cell
    BY <2>1 DEF Inv, TypeInv
  <2>4. pc \in {"build", "tick", "poll"} => \A d \in Driver : id[d] # None /\ state[d] # None
    BY <2>1 DEF Inv, DriverInv
  <2>5. QED
    BY <2>1, <2>2, <2>3, <2>4 DEF Inv, TypeInv, TypeOK
<1>2. QED
  BY Invariant, <1>1, PTL

(* Each driver, and each function of each layer, has an instance of its    *)
(* own in its module (ModuleManager::load_driver, load_function), however  *)
(* the main task and the RPC load and drop them, and however modules fail. *)
THEOREM OwnInstanceCorrect == Spec => []OwnInstance
<1>1. Inv => OwnInstance
  BY DEF Inv, DriverInv, CellInv, ApartInv, Has, OwnInstance
<1>2. QED
  BY Invariant, <1>1, PTL

(* What a poll of the layout tells a function is a state that its driver's *)
(* hardware has had since the tick before began, if no call failed         *)
(* (ExternalDriver::tick, ExternalFunction::event).                        *)
THEOREM FunctionsToldCorrect == Spec => []FunctionsTold
<1>1. Inv => FunctionsTold
  BY DEF Inv, TaskInv, ToldInv, Told, FunctionsTold
<1>2. QED
  BY Invariant, <1>1, PTL
=============================================================================
