--------------------------- MODULE ConfigRpcProofs ---------------------------
(* Theorems about module ConfigRpc, for any clients, commands, values and  *)
(* number of calls.                                                        *)
EXTENDS ConfigRpc, LayerOpsProofs

Db == [lay : LayoutState({"fits"}), value : Value \cup {None}]

FileNames == {"layout", "variables"}

Files == [layout : Seq({"fits"}), variables : Value \cup {None}, torn : SUBSET FileNames]

(* What the commands do keeps the types of what they change. *)
LEMMA CommandCases ==
  ASSUME NEW cmd \in Command
  PROVE  /\ cmd.kind \in {"GetLayer", "RemoveLayer", "SwitchLayer"} => cmd.index \in Nat
         /\ cmd.kind = "SetVariable" => cmd.value \in Value
BY DEF Command, Indices

LEMMA EffectType ==
  ASSUME NEW cmd \in Command, NEW d \in Db
  PROVE  Effect(cmd, d) \in Db
<1>1. d.lay \in LayoutState({"fits"}) /\ d.value \in Value \cup {None}
  BY DEF Db
<1>2. LayerChange(cmd, d) \in LayoutState({"fits"})
  <2>1. CASE cmd.kind = "AddLayer"
    <3>1. LayerChange(cmd, d) = IF cmd.layer = "fits" THEN AddLayer(d.lay, cmd.layer) ELSE d.lay
      BY <2>1 DEF LayerChange
    <3>2. AddLayer(d.lay, "fits") \in LayoutState({"fits"})
      BY <1>1, OperationsType
    <3>3. QED
      BY <1>1, <3>1, <3>2
  <2>2. CASE cmd.kind = "RemoveLayer"
    BY <1>1, <2>2, CommandCases, OperationsType DEF LayerChange
  <2>3. CASE cmd.kind = "SwitchLayer"
    BY <1>1, <2>3, CommandCases, OperationsType DEF LayerChange
  <2>4. CASE cmd.kind = "UpLayer"
    <3>1. LayerChange(cmd, d) = UpLayer(d.lay)
      BY <2>4 DEF LayerChange
    <3>2. QED
      BY <1>1, <3>1, OperationsType
  <2>5. CASE cmd.kind = "DownLayer"
    <3>1. LayerChange(cmd, d) = DownLayer(d.lay)
      BY <2>5 DEF LayerChange
    <3>2. QED
      BY <1>1, <3>1, OperationsType
  <2>6. CASE cmd.kind \notin {"AddLayer", "RemoveLayer", "SwitchLayer", "UpLayer", "DownLayer"}
    BY <1>1, <2>6 DEF LayerChange
  <2>7. QED
    BY <2>1, <2>2, <2>3, <2>4, <2>5, <2>6
<1>3. QED
  BY <1>1, <1>2, CommandCases DEF Effect, Db

LEMMA FilesType ==
  ASSUME NEW f \in Files, NEW d \in Db, NEW cmd
  PROVE  /\ Tear(f, cmd) \in Files /\ FileOf(cmd) \in Tear(f, cmd).torn
         /\ Save(f, cmd, d) \in Files
         /\ Loaded(f) \in Db
<1>1. /\ f.layout \in Seq({"fits"}) /\ f.variables \in Value \cup {None} /\ f.torn \subseteq FileNames
      /\ d.lay.layers \in Seq({"fits"}) /\ d.value \in Value \cup {None}
  BY DEF Files, Db, LayoutState
<1>2. FileOf(cmd) \in FileNames
  BY DEF FileOf, FileNames
<1>3. Tear(f, cmd) \in Files /\ FileOf(cmd) \in Tear(f, cmd).torn
  BY <1>2 DEF Tear, Files
<1>4. Save(f, cmd, d) \in Files
  BY <1>1 DEF Save, Files
<1>5. Loaded(f) \in Db
  <2>1. [layers |-> f.layout, cur_layer |-> 0, shift_from |-> <<>>] \in LayoutState({"fits"})
    BY <1>1 DEF LayoutState
  <2>2. QED
    BY <1>1, <2>1 DEF Loaded, Db
<1>6. QED
  BY <1>3, <1>4, <1>5

LEMMA StartType == Calls!Start \in Db
<1>1. (CHOOSE v \in Value : TRUE) \in Value
  BY ValueAssumption
<1>2. [layers |-> <<"fits">>, cur_layer |-> 0, shift_from |-> <<>>] \in LayoutState({"fits"})
  BY DEF LayoutState
<1>3. QED
  BY <1>1, <1>2 DEF Calls!Start, Db

-----------------------------------------------------------------------------
(* Type correctness. *)

IsCall(x) ==
  /\ x = [n |-> x.n, cmd |-> x.cmd, answer |-> x.answer]
  /\ x.n \in Nat \ {0}
  /\ x.cmd \in Command

IsServed(x) == x = [n |-> x.n, reply |-> x.reply] /\ x.n \in Nat

ServerType ==
  /\ up \in BOOLEAN
  /\ db \in Db
  /\ files \in Files
  /\ pc \in {"read", "write", "reply", "gone"}
  /\ request \in {NoRequest} \cup RpcRequest
  /\ pc \in {"write", "reply"} => request \in RpcRequest
  /\ pc = "write" => IsSave(request.cmd) /\ FileOf(request.cmd) \in files.torn

QueueType == queue \in Seq(RpcRequest)

CallType ==
  /\ calls \in [Client -> Nat]
  /\ \A c \in Client : calls[c] <= MaxCalls[c]
  /\ call = [c \in Client |-> call[c]]
  /\ \A c \in Client : call[c] # NoCall => IsCall(call[c]) /\ call[c].n = calls[c]

ServedType ==
  /\ served = [c \in Client |-> served[c]]
  /\ \A c \in Client : IsServed(served[c]) /\ served[c].n <= calls[c]

ReadType == read \in [Client -> Value \cup {None, Changed}]

TypeInv == ServerType /\ QueueType /\ CallType /\ ServedType /\ ReadType

LEMMA TypeInvImplies == TypeInv => TypeOK
<1> SUFFICES ASSUME TypeInv PROVE TypeOK
  OBVIOUS
<1>1. /\ db.lay.layers \in Seq({"fits"}) /\ db.lay.cur_layer \in Nat /\ db.value \in Value \cup {None}
      /\ files.torn \subseteq {"layout", "variables"}
  BY DEF TypeInv, ServerType, Db, LayoutState, Files, FileNames
<1>2. ASSUME NEW c \in Client
      PROVE  /\ call[c] # NoCall => call[c].n = calls[c]
             /\ read[c] \in Value \cup {None, Changed}
             /\ served[c].n \in 0..calls[c]
             /\ calls[c] \in 0..MaxCalls[c]
  <2>1. calls[c] \in Nat /\ MaxCalls[c] \in Nat /\ served[c].n \in Nat
    BY MaxCallsAssumption DEF TypeInv, CallType, ServedType, IsServed
  <2>2. QED
    BY <2>1 DEF TypeInv, CallType, ServedType, ReadType
<1>3. QED
  BY <1>1, <1>2 DEF TypeInv, ServerType, QueueType, TypeOK

(* A function on the clients that is changed for one of them. *)
LEMMA ExceptForm ==
  ASSUME NEW S, NEW f, f = [x \in S |-> f[x]], NEW y \in S, NEW v
  PROVE  LET g == [f EXCEPT ![y] = v]
         IN  g = [x \in S |-> g[x]] /\ g[y] = v /\ \A x \in S : x # y => g[x] = f[x]
OBVIOUS

LEMMA TypeInit == Init => TypeInv
<1> SUFFICES ASSUME Init PROVE TypeInv
  OBVIOUS
<1>1. db \in Db
  BY StartType DEF Init
<1>2. files \in Files
  <2>1. db.lay.layers \in Seq({"fits"}) /\ db.value \in Value \cup {None}
    BY <1>1 DEF Db, LayoutState
  <2>2. QED
    BY <2>1 DEF Init, Files
<1>3. ASSUME NEW c \in Client
      PROVE  /\ calls[c] = 0 /\ calls[c] <= MaxCalls[c]
             /\ call[c] = NoCall
             /\ IsServed(served[c]) /\ served[c].n <= calls[c]
  <2>1. calls[c] = 0 /\ call[c] = NoCall /\ MaxCalls[c] \in Nat
    BY MaxCallsAssumption DEF Init
  <2>2. served[c] = [n |-> 0, reply |-> ""]
    BY DEF Init
  <2>3. IsServed(served[c]) /\ served[c].n = 0
    <3>1. PICK e : served[c] = [n |-> 0, reply |-> e]
      BY <2>2, Zenon
    <3>2. QED
      BY <3>1 DEF IsServed
  <2>4. QED
    BY <2>1, <2>3
<1>4. call = [c \in Client |-> call[c]] /\ served = [c \in Client |-> served[c]]
  BY DEF Init
<1>5. calls \in [Client -> Nat] /\ read \in [Client -> Value \cup {None, Changed}]
  BY DEF Init
<1>6. up \in BOOLEAN /\ pc = "read" /\ request = NoRequest
  BY DEF Init
<1>7. queue \in Seq(RpcRequest)
  <2>1. queue = <<>>
    BY DEF Init
  <2>2. QED
    BY <2>1
<1>8. QED
  BY <1>1, <1>2, <1>3, <1>4, <1>5, <1>6, <1>7
  DEF TypeInv, ServerType, QueueType, CallType, ServedType, ReadType

(* A step changes some of the parts. *)
LEMMA ServerTypeStays == ServerType /\ UNCHANGED <<db, files, up, pc, request>> => ServerType'
BY DEF ServerType, IsSave, FileOf

LEMMA QueueTypeStays == QueueType /\ UNCHANGED queue => QueueType'
BY DEF QueueType

LEMMA CallTypeStays == CallType /\ UNCHANGED <<call, calls>> => CallType'
BY DEF CallType, IsCall

LEMMA ServedTypeStays == ServedType /\ UNCHANGED <<served, calls>> => ServedType'
BY DEF ServedType, IsServed

LEMMA ReadTypeStays == ReadType /\ UNCHANGED read => ReadType'
BY DEF ReadType

(* What the thread reads is a request of the queue, the first.             *)
LEMMA ReadsType ==
  ASSUME QueueType, NEW r, Reads(r)
  PROVE  /\ 1 \in DOMAIN queue /\ r = queue[1] /\ r \in RpcRequest
         /\ r.client \in Client /\ r.n \in Nat \ {0} /\ r.cmd \in Command
         /\ QueueType'
         /\ Len(queue') = Len(queue) - 1
         /\ \A i \in DOMAIN queue' : i + 1 \in DOMAIN queue /\ queue'[i] = queue[i + 1]
<1>1. queue \in Seq(RpcRequest) /\ queue # <<>> /\ r = queue[1] /\ queue' = RemoveAt(queue, 1)
  BY DEF QueueType, Reads, NextRequest
<1>2. Len(queue) \in Nat /\ Len(queue) >= 1 /\ DOMAIN queue = 1 .. Len(queue)
  BY <1>1
<1>3. r \in RpcRequest
  BY <1>1, <1>2
<1>4. /\ queue' \in Seq(RpcRequest) /\ Len(queue') = Len(queue) - 1
      /\ \A i \in 1 .. Len(queue) - 1 : queue'[i] = queue[i + 1]
  <2>1. 1 \in 1 .. Len(queue)
    BY <1>2
  <2> DEFINE rest == RemoveAt(queue, 1)
  <2>2. /\ rest \in Seq(RpcRequest) /\ Len(rest) = Len(queue) - 1
        /\ \A i \in 1 .. Len(queue) - 1 : rest[i] = IF i < 1 THEN queue[i] ELSE queue[i + 1]
    BY <1>1, <2>1, RemoveAtProperties
  <2> HIDE DEF rest
  <2>3. \A i \in 1 .. Len(queue) - 1 : ~(i < 1)
    BY <1>2
  <2>4. queue' = rest
    BY <1>1 DEF rest
  <2>5. QED
    BY <2>2, <2>3, <2>4
<1>5. DOMAIN queue' = 1 .. Len(queue) - 1
  BY <1>4
<1>6. r.client \in Client /\ r.n \in Nat \ {0} /\ r.cmd \in Command
  BY <1>3 DEF RpcRequest
<1>7. \A i \in DOMAIN queue' : i + 1 \in DOMAIN queue /\ queue'[i] = queue[i + 1]
  BY <1>2, <1>4, <1>5
<1>8. QueueType'
  BY <1>4 DEF QueueType
<1>9. 1 \in DOMAIN queue
  BY <1>2
<1>10. QED
  BY <1>1, <1>3, <1>4, <1>6, <1>7, <1>8, <1>9

(* A request of the queue is one of its places. *)
LEMMA QueuedAt ==
  ASSUME QueueType, NEW r \in ToSet(queue)
  PROVE  r \in RpcRequest /\ \E i \in DOMAIN queue : queue[i] = r
BY DEF QueueType, ToSet

LEMMA TypeInvoke ==
  ASSUME TypeInv, NEW c \in Client, NEW cmd \in Commands[c], Invoke(c, cmd)
  PROVE  TypeInv'
<1> DEFINE new == [n |-> calls[c] + 1, cmd |-> cmd, answer |-> Pending]
<1>1. cmd \in Command /\ MaxCalls[c] \in Nat
  BY CommandsAssumption, MaxCallsAssumption
<1>2. calls[c] \in Nat /\ calls[c] < MaxCalls[c]
  BY DEF TypeInv, CallType, Invoke
<1>3. /\ calls' \in [Client -> Nat] /\ calls'[c] = calls[c] + 1
      /\ \A d \in Client : d # c => calls'[d] = calls[d]
  BY <1>2 DEF TypeInv, CallType, Invoke
<1>4. /\ call' = [d \in Client |-> call'[d]] /\ call'[c] = new
      /\ \A d \in Client : d # c => call'[d] = call[d]
  BY ExceptForm DEF TypeInv, CallType, Invoke
<1>5. IsCall(new) /\ new.n = calls'[c]
  BY <1>1, <1>2, <1>3 DEF IsCall
<1> HIDE DEF new
<1>6. CallType'
  <2>1. \A d \in Client : calls'[d] <= MaxCalls[d]
    BY <1>1, <1>2, <1>3 DEF TypeInv, CallType
  <2>2. \A d \in Client : call'[d] # NoCall => IsCall(call'[d]) /\ call'[d].n = calls'[d]
    BY <1>3, <1>4, <1>5 DEF TypeInv, CallType
  <2>3. QED
    BY <1>3, <1>4, <2>1, <2>2 DEF CallType, IsCall
<1>7. ServedType'
  <2>1. ASSUME NEW d \in Client PROVE IsServed(served[d]) /\ served[d].n <= calls'[d]
    <3>1. IsServed(served[d]) /\ served[d].n <= calls[d] /\ calls[d] \in Nat
      BY DEF TypeInv, CallType, ServedType
    <3>2. served[d].n \in Nat
      BY <3>1 DEF IsServed
    <3>3. calls'[d] \in Nat /\ calls'[d] >= calls[d]
      BY <1>3, <3>1
    <3>4. QED
      BY <3>1, <3>2, <3>3
  <2>2. served' = served
    BY DEF Invoke, serverVars
  <2>3. QED
    BY <2>1, <2>2 DEF TypeInv, ServedType, IsServed
<1>8. QueueType'
  <2>1. [client |-> c, n |-> calls[c] + 1, cmd |-> cmd] \in RpcRequest
    BY <1>1, <1>2 DEF RpcRequest
  <2>2. QED
    BY <2>1 DEF TypeInv, QueueType, Invoke
<1>9. ReadType'
  BY DEF TypeInv, ReadType, Invoke
<1>10. QED
  BY <1>6, <1>7, <1>8, <1>9, ServerTypeStays DEF TypeInv, Invoke, serverVars

LEMMA TypeEndOfCall ==
  ASSUME TypeInv, NEW c \in Client, Return(c) \/ Timeout(c)
  PROVE  TypeInv'
<1>1. /\ call' = [d \in Client |-> call'[d]] /\ call'[c] = NoCall
      /\ \A d \in Client : d # c => call'[d] = call[d]
  BY ExceptForm DEF TypeInv, CallType, Return, Timeout
<1>2. UNCHANGED <<serverVars, queue, calls, read>>
  BY DEF Return, Timeout
<1>3. CallType'
  BY <1>1, <1>2 DEF TypeInv, CallType, IsCall
<1>4. QED
  BY <1>2, <1>3, ServerTypeStays, QueueTypeStays, ServedTypeStays, ReadTypeStays DEF TypeInv, serverVars

(* What is answered has been called. *)
LEMMA AnswersType ==
  ASSUME ServedType, UNCHANGED calls, NEW r \in RpcRequest, NEW text, Answers(r, text),
         r.n <= calls[r.client]
  PROVE  /\ ServedType'
         /\ served'[r.client] = [n |-> r.n, reply |-> text]
         /\ \A c \in Client : c # r.client => served'[c] = served[c]
<1> DEFINE done == [n |-> r.n, reply |-> text]
<1>1. r.client \in Client /\ r.n \in Nat
  BY DEF RpcRequest
<1>2. IsServed(done) /\ done.n = r.n
  BY <1>1 DEF IsServed
<1>3. served' = [served EXCEPT ![r.client] = done]
  BY DEF Answers
<1> HIDE DEF done
<1>4. /\ served' = [c \in Client |-> served'[c]] /\ served'[r.client] = done
      /\ \A c \in Client : c # r.client => served'[c] = served[c]
  BY <1>1, <1>3, ExceptForm DEF ServedType
<1>5. \A c \in Client : IsServed(served'[c]) /\ served'[c].n <= calls'[c]
  BY <1>2, <1>4 DEF ServedType
<1>6. ServedType'
  BY <1>4, <1>5 DEF ServedType, IsServed
<1>7. QED
  BY <1>4, <1>6 DEF done

LEMMA TypeDropInvalid ==
  ASSUME TypeInv, NEW r, DropInvalid(r)
  PROVE  TypeInv'
<1>1. QueueType'
  BY ReadsType DEF TypeInv, DropInvalid
<1>2. ServerType'
  BY DEF TypeInv, ServerType, DropInvalid, AfterInvalid
<1>3. UNCHANGED <<served, call, calls, read>>
  BY DEF DropInvalid
<1>4. QED
  BY <1>1, <1>2, <1>3, CallTypeStays, ServedTypeStays, ReadTypeStays DEF TypeInv

LEMMA TypeServe ==
  ASSUME TypeInv, NEW r, Serve(r), r.n <= calls[r.client]
  PROVE  TypeInv'
<1>1. QueueType' /\ r \in RpcRequest /\ r.cmd \in Command
  BY ReadsType DEF TypeInv, Serve
<1>2. UNCHANGED <<files, up, call, calls>> /\ up
  BY DEF Serve
<1>3. ReadType'
  <2>1. db.value \in Value \cup {None}
    BY DEF TypeInv, ServerType, Db
  <2>2. read \in [Client -> Value \cup {None, Changed}]
    BY DEF TypeInv, ReadType
  <2>3. QED
    BY <2>1, <2>2 DEF Serve, ReadType
<1>4. CASE Panics(r.cmd, db)
  <2>1. pc' = "gone" /\ UNCHANGED <<db, request, reply, served>>
    BY <1>4 DEF Serve
  <2>2. ServerType'
    BY <1>2, <2>1 DEF TypeInv, ServerType
  <2>3. QED
    BY <1>1, <1>2, <1>3, <2>1, <2>2, CallTypeStays, ServedTypeStays DEF TypeInv
<1>5. CASE ~Panics(r.cmd, db)
  <2>1. db' = Effect(r.cmd, db) /\ Answers(r, Reply(r.cmd, db))
    BY <1>5 DEF Serve
  <2>2. ServedType'
    BY <1>1, <1>2, <2>1, AnswersType DEF TypeInv
  <2>3. db' \in Db
    BY <1>1, <2>1, EffectType DEF TypeInv, ServerType
  <2>4. ServerType'
    BY <1>1, <1>2, <2>1, <2>3 DEF TypeInv, ServerType, Answers
  <2>5. QED
    BY <1>1, <1>2, <1>3, <2>2, <2>4, CallTypeStays DEF TypeInv
<1>6. QED
  BY <1>4, <1>5

LEMMA TypeCreateFile ==
  ASSUME TypeInv, NEW r, CreateFile(r), r.n <= calls[r.client]
  PROVE  TypeInv'
<1>1. QueueType' /\ r \in RpcRequest
  BY ReadsType DEF TypeInv, CreateFile
<1>2. UNCHANGED <<db, up, call, calls, read>> /\ up /\ IsSave(r.cmd)
  BY DEF CreateFile
<1>3. CASE files' = Tear(files, r.cmd) /\ pc' = "write" /\ request' = r /\ UNCHANGED <<reply, served>>
  <2>1. files' \in Files /\ FileOf(r.cmd) \in files'.torn
    BY <1>3, FilesType DEF TypeInv, ServerType
  <2>2. ServerType'
    BY <1>1, <1>2, <1>3, <2>1 DEF TypeInv, ServerType, IsSave, FileOf
  <2>3. QED
    BY <1>1, <1>2, <1>3, <2>2, CallTypeStays, ServedTypeStays, ReadTypeStays DEF TypeInv
<1>4. CASE UNCHANGED files /\ Answers(r, "false")
  <2>1. ServedType'
    BY <1>1, <1>2, <1>4, AnswersType DEF TypeInv
  <2>2. ServerType'
    BY <1>1, <1>2, <1>4 DEF TypeInv, ServerType, Answers
  <2>3. QED
    BY <1>1, <1>2, <2>1, <2>2, CallTypeStays, ReadTypeStays DEF TypeInv
<1>5. QED
  BY <1>3, <1>4 DEF CreateFile

LEMMA TypeWriteFile ==
  ASSUME TypeInv, WriteFile, request.n <= calls[request.client]
  PROVE  TypeInv'
<1>1. UNCHANGED <<db, up, queue, call, calls, read>> /\ up /\ pc = "write" /\ request \in RpcRequest
  BY DEF WriteFile, TypeInv, ServerType
<1>2. PICK text : Answers(request, text) /\ files' \in {files, Save(files, request.cmd, db)}
  BY DEF WriteFile
<1>3. files' \in Files
  BY <1>2, FilesType DEF TypeInv, ServerType
<1>4. ServedType'
  BY <1>1, <1>2, AnswersType DEF TypeInv
<1>5. ServerType'
  BY <1>1, <1>2, <1>3 DEF TypeInv, ServerType, Answers
<1>6. QED
  BY <1>1, <1>4, <1>5, QueueTypeStays, CallTypeStays, ReadTypeStays DEF TypeInv

LEMMA TypeWriteReply ==
  ASSUME TypeInv, WriteReply
  PROVE  TypeInv'
<1>1. UNCHANGED <<db, files, up, served, queue, calls, read>>
  BY DEF WriteReply
<1>2. CallType'
  <2>1. ASSUME NEW c \in Client, call[c] # NoCall, NEW text
        PROVE  /\ [call[c] EXCEPT !.answer = text] # NoCall => TRUE
               /\ IsCall([call[c] EXCEPT !.answer = text])
               /\ [call[c] EXCEPT !.answer = text].n = call[c].n
    BY <2>1 DEF TypeInv, CallType, IsCall
  <2>2. CASE UNCHANGED call
    BY <1>1, <2>2, CallTypeStays DEF TypeInv
  <2>3. CASE call' = [c \in Client |-> IF IsFor(request, c) THEN [call[c] EXCEPT !.answer = reply] ELSE call[c]]
    <3>1. ASSUME NEW c \in Client
          PROVE  call'[c] # NoCall => IsCall(call'[c]) /\ call'[c].n = calls'[c]
      <4>1. CASE IsFor(request, c)
        <5>1. call[c] # NoCall /\ call'[c] = [call[c] EXCEPT !.answer = reply]
          BY <2>3, <4>1 DEF IsFor
        <5>2. QED
          BY <1>1, <2>1, <5>1 DEF TypeInv, CallType
      <4>2. CASE ~IsFor(request, c)
        <5>1. call'[c] = call[c]
          BY <2>3, <4>2
        <5>2. QED
          BY <1>1, <5>1 DEF TypeInv, CallType
      <4>3. QED
        BY <4>1, <4>2
    <3>2. call' = [c \in Client |-> call'[c]]
      BY <2>3
    <3>3. QED
      BY <1>1, <3>1, <3>2 DEF TypeInv, CallType, IsCall
  <2>4. QED
    BY <2>2, <2>3 DEF WriteReply
<1>3. ServerType'
  BY <1>1 DEF TypeInv, ServerType, WriteReply
<1>4. QED
  BY <1>1, <1>2, <1>3, QueueTypeStays, ServedTypeStays, ReadTypeStays DEF TypeInv

LEMMA TypeCrash ==
  ASSUME TypeInv, Crash
  PROVE  TypeInv'
<1>1. UNCHANGED <<files, served, call, calls>>
  BY DEF Crash
<1>2. db' \in Db
  BY FilesType DEF TypeInv, ServerType, Crash
<1>3. ServerType'
  BY <1>1, <1>2 DEF TypeInv, ServerType, Crash
<1>4. QueueType'
  <2>1. queue' = <<>>
    BY DEF Crash
  <2>2. QED
    BY <2>1 DEF QueueType
<1>5. ReadType'
  BY DEF ReadType, Crash
<1>6. QED
  BY <1>1, <1>3, <1>4, <1>5, CallTypeStays, ServedTypeStays DEF TypeInv

LEMMA TypeRestart ==
  ASSUME TypeInv, Restart
  PROVE  TypeInv'
<1>1. UNCHANGED <<db, files, pc, request, reply, served, queue, call, calls, read>> /\ up' = TRUE
  BY DEF Restart
<1>2. ServerType'
  BY <1>1 DEF TypeInv, ServerType, IsSave, FileOf
<1>3. QED
  BY <1>1, <1>2, QueueTypeStays, CallTypeStays, ServedTypeStays, ReadTypeStays DEF TypeInv

-----------------------------------------------------------------------------
(* The order of the requests. *)

(* A request that has not taken effect is later than the last of its       *)
(* client that has, and not later than its client's calls; it is for the   *)
(* call that its client makes, if it has the number of that.               *)
Awaited(r) ==
  /\ served[r.client].n < r.n /\ r.n <= calls[r.client]
  /\ call[r.client].n = r.n => call[r.client].cmd = r.cmd

QueueInv ==
  /\ \A i, j \in DOMAIN queue :
       i < j /\ queue[i].client = queue[j].client => queue[i].n < queue[j].n
  /\ \A i \in DOMAIN queue : Awaited(queue[i])

RequestInv ==
  pc = "write" => /\ Awaited(request)
                  /\ \A i \in DOMAIN queue :
                       queue[i].client = request.client => request.n < queue[i].n

AnswerInv ==
  /\ pc = "reply" => served[request.client] = [n |-> request.n, reply |-> reply]
  /\ \A c \in Client :
       call[c] # NoCall /\ call[c].answer # Pending
         => served[c].n = call[c].n /\ served[c].reply = call[c].answer

OrderInv == QueueInv /\ RequestInv /\ AnswerInv

LEMMA OrderInit == Init => OrderInv
<1> SUFFICES ASSUME Init PROVE OrderInv
  OBVIOUS
<1>1. queue = <<>> /\ pc = "read" /\ \A c \in Client : call[c] = NoCall
  BY DEF Init
<1>2. DOMAIN queue = {}
  BY <1>1
<1>3. QED
  BY <1>1, <1>2 DEF OrderInv, QueueInv, RequestInv, AnswerInv

LEMMA QueueTypes ==
  ASSUME QueueType
  PROVE  \A i \in DOMAIN queue : /\ queue[i] \in RpcRequest /\ queue[i].client \in Client
                                 /\ queue[i].n \in Nat \ {0} /\ queue[i].cmd \in Command
<1>1. ASSUME NEW i \in DOMAIN queue PROVE queue[i] \in RpcRequest
  BY DEF QueueType
<1>2. QED
  BY <1>1 DEF RpcRequest

LEMMA Numbers ==
  ASSUME TypeInv, NEW c \in Client
  PROVE  calls[c] \in Nat /\ served[c].n \in Nat /\ served[c].n <= calls[c] /\ MaxCalls[c] \in Nat
BY MaxCallsAssumption DEF TypeInv, CallType, ServedType, IsServed

(* The requests behind the one that is read are later ones. *)
LEMMA ReadInOrder ==
  ASSUME TypeInv, OrderInv, NEW r, Reads(r)
  PROVE  /\ Awaited(r)
         /\ \A i \in DOMAIN queue' :
              /\ Awaited(queue'[i])
              /\ queue'[i].client = r.client => r.n < queue'[i].n
         /\ \A i, j \in DOMAIN queue' :
              i < j /\ queue'[i].client = queue'[j].client => queue'[i].n < queue'[j].n
<1>1. /\ 1 \in DOMAIN queue /\ r = queue[1]
      /\ \A i \in DOMAIN queue' : i + 1 \in DOMAIN queue /\ queue'[i] = queue[i + 1]
      /\ QueueType'
  BY ReadsType DEF TypeInv
<1>2. \A i \in DOMAIN queue' : i \in Nat \ {0}
  BY <1>1 DEF QueueType
<1>3. \A i \in DOMAIN queue' : 1 < i + 1
  BY <1>2
<1>4. \A i, j \in DOMAIN queue' : i < j => i + 1 < j + 1
  BY <1>2
<1>5. /\ \A i, j \in DOMAIN queue :
           i < j /\ queue[i].client = queue[j].client => queue[i].n < queue[j].n
      /\ \A i \in DOMAIN queue : Awaited(queue[i])
  BY DEF OrderInv, QueueInv
<1>6. QED
  BY <1>1, <1>3, <1>4, <1>5

(* What is to be shown of the state after a step. *)
AwaitedNext(r) ==
  /\ served'[r.client].n < r.n /\ r.n <= calls'[r.client]
  /\ call'[r.client].n = r.n => call'[r.client].cmd = r.cmd

LEMMA QueuePrimed ==
  ASSUME \A i, j \in DOMAIN queue' :
           i < j /\ queue'[i].client = queue'[j].client => queue'[i].n < queue'[j].n,
         \A i \in DOMAIN queue' : AwaitedNext(queue'[i])
  PROVE  QueueInv'
BY DEF QueueInv, Awaited, AwaitedNext

LEMMA RequestPrimed ==
  ASSUME pc' = "write" => /\ AwaitedNext(request')
                          /\ \A i \in DOMAIN queue' :
                               queue'[i].client = request'.client => request'.n < queue'[i].n
  PROVE  RequestInv'
BY DEF RequestInv, Awaited, AwaitedNext

LEMMA OrderInvoke ==
  ASSUME TypeInv, OrderInv, NEW c \in Client, NEW cmd \in Commands[c], Invoke(c, cmd)
  PROVE  OrderInv'
<1> DEFINE r == [client |-> c, n |-> calls[c] + 1, cmd |-> cmd]
           new == [n |-> calls[c] + 1, cmd |-> cmd, answer |-> Pending]
<1>1. /\ UNCHANGED <<pc, request, reply, served>>
      /\ queue' = Append(queue, r) /\ call[c] = NoCall
  BY DEF Invoke, serverVars
<1>2. /\ calls'[c] = calls[c] + 1 /\ \A d \in Client : d # c => calls'[d] = calls[d]
      /\ calls[c] \in Nat
  BY DEF TypeInv, CallType, Invoke
<1>3. call'[c] = new /\ \A d \in Client : d # c => call'[d] = call[d]
  BY ExceptForm DEF TypeInv, CallType, Invoke
<1>4. new.n = calls[c] + 1 /\ new.cmd = cmd /\ new.answer = Pending
  OBVIOUS
<1>5. r.client = c /\ r.n = calls[c] + 1 /\ r.cmd = cmd
  OBVIOUS
<1> HIDE DEF r, new
<1>6. /\ DOMAIN queue' = DOMAIN queue \cup {Len(queue) + 1}
      /\ \A i \in DOMAIN queue : queue'[i] = queue[i] /\ i < Len(queue) + 1
      /\ queue'[Len(queue) + 1] = r
      /\ \A i \in DOMAIN queue : ~(Len(queue) + 1 < i)
      /\ ~(Len(queue) + 1 < Len(queue) + 1)
  BY <1>1 DEF TypeInv, QueueType
<1>7. ASSUME NEW x \in RpcRequest, Awaited(x)
      PROVE  AwaitedNext(x) /\ (x.client = c => x.n < r.n)
  <2>1. x.client \in Client /\ x.n \in Nat /\ served'[x.client] = served[x.client]
    BY <1>1 DEF RpcRequest
  <2>2. CASE x.client # c
    BY <1>2, <1>3, <1>7, <2>1, <2>2 DEF Awaited, AwaitedNext
  <2>3. CASE x.client = c
    <3>1. x.n <= calls[c] /\ served[c].n < x.n
      BY <1>7, <2>3 DEF Awaited
    <3>2. x.n < calls[c] + 1 /\ x.n <= calls'[c] /\ x.n # new.n
      BY <1>2, <1>4, <2>1, <3>1
    <3>3. QED
      BY <1>3, <1>5, <2>1, <2>3, <3>1, <3>2 DEF AwaitedNext
  <2>4. QED
    BY <2>2, <2>3
<1>8. AwaitedNext(r)
  <2>1. served[c].n <= calls[c] /\ served[c].n \in Nat
    BY Numbers
  <2>2. served[c].n < calls[c] + 1 /\ calls[c] + 1 <= calls[c] + 1
    BY <1>2, <2>1
  <2>3. QED
    BY <1>1, <1>2, <1>3, <1>4, <1>5, <2>2 DEF AwaitedNext
<1>9. QueueInv'
  <2>1. \A i \in DOMAIN queue : queue[i] \in RpcRequest /\ Awaited(queue[i])
    BY QueueTypes DEF TypeInv, OrderInv, QueueInv
  <2>2. ASSUME NEW i \in DOMAIN queue' PROVE AwaitedNext(queue'[i])
    <3>1. CASE i \in DOMAIN queue
      BY <1>6, <1>7, <2>1, <3>1
    <3>2. CASE i = Len(queue) + 1
      BY <1>6, <1>8, <3>2
    <3>3. QED
      BY <1>6, <3>1, <3>2
  <2>3. ASSUME NEW i \in DOMAIN queue', NEW j \in DOMAIN queue', i < j,
               queue'[i].client = queue'[j].client
        PROVE  queue'[i].n < queue'[j].n
    <3>1. i \in DOMAIN queue
      BY <1>6, <2>3
    <3>2. CASE j \in DOMAIN queue
      BY <1>6, <2>3, <3>1, <3>2 DEF OrderInv, QueueInv
    <3>3. CASE j = Len(queue) + 1
      BY <1>5, <1>6, <1>7, <2>1, <2>3, <3>1, <3>3
    <3>4. QED
      BY <1>6, <3>2, <3>3
  <2>4. QED
    BY <2>2, <2>3, QueuePrimed
<1>10. RequestInv'
  <2>1. SUFFICES ASSUME pc = "write" PROVE RequestInv'
    BY <1>1 DEF RequestInv
  <2>2. /\ request \in RpcRequest /\ Awaited(request)
        /\ \A i \in DOMAIN queue : queue[i].client = request.client => request.n < queue[i].n
    BY <2>1 DEF TypeInv, ServerType, OrderInv, RequestInv
  <2>3. AwaitedNext(request) /\ (request.client = c => request.n < r.n)
    BY <1>7, <2>2
  <2>4. \A i \in DOMAIN queue' : queue'[i].client = request.client => request.n < queue'[i].n
    BY <1>5, <1>6, <2>2, <2>3
  <2>5. QED
    BY <1>1, <2>3, <2>4, RequestPrimed
<1>11. AnswerInv'
  BY <1>1, <1>3, <1>4 DEF OrderInv, AnswerInv
<1>12. QED
  BY <1>9, <1>10, <1>11 DEF OrderInv

(* Of a request in hand that a step leaves, what is awaited stays so. *)
LEMMA AwaitedStays ==
  ASSUME NEW x, Awaited(x), UNCHANGED calls, served'[x.client] = served[x.client],
         \/ call'[x.client] = call[x.client]
         \/ call'[x.client].n = x.n => call[x.client].n = x.n /\ call'[x.client].cmd = call[x.client].cmd
  PROVE  AwaitedNext(x)
BY DEF Awaited, AwaitedNext

LEMMA OrderEndOfCall ==
  ASSUME TypeInv, OrderInv, NEW c \in Client, Return(c) \/ Timeout(c)
  PROVE  OrderInv'
<1>1. /\ call'[c] = NoCall /\ \A d \in Client : d # c => call'[d] = call[d]
  BY ExceptForm DEF TypeInv, CallType, Return, Timeout
<1>2. UNCHANGED <<pc, request, reply, served, queue, calls>>
  BY DEF Return, Timeout, serverVars
<1>3. ASSUME NEW x \in RpcRequest, Awaited(x) PROVE AwaitedNext(x)
  <2>1. x.client \in Client /\ x.n # 0
    BY DEF RpcRequest
  <2>2. call'[x.client] = call[x.client] \/ call'[x.client].n # x.n
    BY <1>1, <2>1 DEF NoCall
  <2>3. QED
    BY <1>2, <1>3, <2>2, AwaitedStays
<1>4. QueueInv'
  <2>1. \A i \in DOMAIN queue : AwaitedNext(queue[i])
    BY <1>3, QueueTypes DEF TypeInv, OrderInv, QueueInv
  <2>2. QED
    BY <1>2, <2>1, QueuePrimed DEF OrderInv, QueueInv
<1>5. RequestInv'
  <2>1. pc = "write" => AwaitedNext(request)
    BY <1>3 DEF TypeInv, ServerType, OrderInv, RequestInv
  <2>2. QED
    BY <1>2, <2>1, RequestPrimed DEF OrderInv, RequestInv
<1>6. AnswerInv'
  BY <1>1, <1>2 DEF OrderInv, AnswerInv
<1>7. QED
  BY <1>4, <1>5, <1>6 DEF OrderInv

(* A request that is dropped, or that the thread panics over, leaves the   *)
(* others as they are.                                                     *)
LEMMA OrderDropped ==
  ASSUME TypeInv, OrderInv, NEW r, Reads(r), pc' \notin {"write", "reply"},
         UNCHANGED <<served, call, calls>>
  PROVE  OrderInv'
<1>1. \A i \in DOMAIN queue' : AwaitedNext(queue'[i])
  BY ReadInOrder, AwaitedStays
<1>2. QueueInv'
  BY <1>1, ReadInOrder, QueuePrimed
<1>3. RequestInv'
  BY RequestPrimed
<1>4. AnswerInv'
  BY DEF OrderInv, AnswerInv
<1>5. QED
  BY <1>2, <1>3, <1>4 DEF OrderInv

(* A request takes effect. *)
LEMMA OrderAnswers ==
  ASSUME TypeInv, OrderInv, NEW r \in RpcRequest, NEW text, Answers(r, text), Awaited(r),
         UNCHANGED <<call, calls>>,
         QueueType',
         \A i \in DOMAIN queue' :
           /\ Awaited(queue'[i])
           /\ queue'[i].client = r.client => r.n < queue'[i].n,
         \A i, j \in DOMAIN queue' :
           i < j /\ queue'[i].client = queue'[j].client => queue'[i].n < queue'[j].n
  PROVE  OrderInv'
<1>1. /\ served'[r.client] = [n |-> r.n, reply |-> text]
      /\ \A c \in Client : c # r.client => served'[c] = served[c]
      /\ pc' = "reply" /\ request' = r /\ reply' = text
  BY AnswersType DEF TypeInv, Answers, Awaited
<1>2. r.client \in Client /\ r.n \in Nat
  BY DEF RpcRequest
<1>3. QueueInv'
  <2>1. ASSUME NEW i \in DOMAIN queue' PROVE AwaitedNext(queue'[i])
    <3>1. queue'[i].client \in Client
      <4>1. queue'[i] \in RpcRequest
        BY DEF QueueType
      <4>2. QED
        BY <4>1 DEF RpcRequest
    <3>2. CASE queue'[i].client # r.client
      BY <1>1, <3>1, <3>2, AwaitedStays
    <3>3. CASE queue'[i].client = r.client
      <4>1. served'[r.client].n < queue'[i].n
        BY <1>1, <3>3
      <4>2. QED
        BY <3>3, <4>1 DEF Awaited, AwaitedNext
    <3>4. QED
      BY <3>2, <3>3
  <2>2. QED
    BY <2>1, QueuePrimed
<1>4. RequestInv'
  BY <1>1, RequestPrimed
<1>5. AnswerInv'
  <2>1. ASSUME NEW c \in Client, call[c] # NoCall, call[c].answer # Pending PROVE c # r.client
    <3>1. SUFFICES ASSUME c = r.client PROVE FALSE
      OBVIOUS
    <3>2. served[c].n = call[c].n /\ call[c].n = calls[c]
      BY <2>1 DEF TypeInv, CallType, OrderInv, AnswerInv
    <3>3. served[c].n < r.n /\ r.n <= calls[c] /\ calls[c] \in Nat
      BY <3>1, Numbers DEF Awaited
    <3>4. QED
      BY <1>2, <3>2, <3>3
  <2>2. QED
    BY <1>1, <2>1 DEF OrderInv, AnswerInv
<1>6. QED
  BY <1>3, <1>4, <1>5 DEF OrderInv

LEMMA OrderServe ==
  ASSUME TypeInv, OrderInv, NEW r, Serve(r)
  PROVE  OrderInv'
<1>1. Reads(r) /\ UNCHANGED <<call, calls>>
  BY DEF Serve
<1>2. CASE Panics(r.cmd, db)
  BY <1>1, <1>2, OrderDropped DEF Serve
<1>3. CASE ~Panics(r.cmd, db)
  <2>1. Answers(r, Reply(r.cmd, db))
    BY <1>3 DEF Serve
  <2>2. r \in RpcRequest /\ QueueType'
    BY <1>1, ReadsType DEF TypeInv
  <2>3. QED
    BY <1>1, <2>1, <2>2, ReadInOrder, OrderAnswers
<1>4. QED
  BY <1>2, <1>3

LEMMA OrderCreateFile ==
  ASSUME TypeInv, OrderInv, NEW r, CreateFile(r)
  PROVE  OrderInv'
<1>1. Reads(r) /\ UNCHANGED <<call, calls>>
  BY DEF CreateFile
<1>2. r \in RpcRequest /\ QueueType'
  BY <1>1, ReadsType DEF TypeInv
<1>3. CASE pc' = "write" /\ request' = r /\ UNCHANGED <<reply, served>>
  <2>1. AwaitedNext(r) /\ \A i \in DOMAIN queue' : AwaitedNext(queue'[i])
    BY <1>1, <1>3, ReadInOrder, AwaitedStays
  <2>2. QueueInv'
    BY <1>1, <2>1, ReadInOrder, QueuePrimed
  <2>3. RequestInv'
    BY <1>1, <1>3, <2>1, ReadInOrder, RequestPrimed
  <2>4. AnswerInv'
    BY <1>1, <1>3 DEF OrderInv, AnswerInv
  <2>5. QED
    BY <2>2, <2>3, <2>4 DEF OrderInv
<1>4. CASE Answers(r, "false")
  BY <1>1, <1>2, <1>4, ReadInOrder, OrderAnswers
<1>5. QED
  BY <1>3, <1>4 DEF CreateFile

LEMMA OrderWriteFile ==
  ASSUME TypeInv, OrderInv, WriteFile
  PROVE  OrderInv'
<1>1. /\ UNCHANGED <<queue, call, calls>> /\ pc = "write"
      /\ \E text : Answers(request, text)
  BY DEF WriteFile
<1>2. request \in RpcRequest /\ QueueType'
  BY <1>1, QueueTypeStays DEF TypeInv, ServerType
<1>3. /\ Awaited(request)
      /\ \A i \in DOMAIN queue :
           /\ Awaited(queue[i])
           /\ queue[i].client = request.client => request.n < queue[i].n
      /\ \A i, j \in DOMAIN queue :
           i < j /\ queue[i].client = queue[j].client => queue[i].n < queue[j].n
  BY <1>1 DEF OrderInv, QueueInv, RequestInv
<1>4. QED
  BY <1>1, <1>2, <1>3, OrderAnswers

LEMMA OrderWriteReply ==
  ASSUME TypeInv, OrderInv, WriteReply
  PROVE  OrderInv'
<1>1. UNCHANGED <<served, queue, calls>> /\ pc = "reply" /\ pc' = "read"
  BY DEF WriteReply
<1>2. ASSUME NEW c \in Client
      PROVE  \/ call'[c] = call[c]
             \/ /\ IsFor(request, c) /\ call[c] # NoCall
                /\ call'[c] = [call[c] EXCEPT !.answer = reply]
                /\ call'[c].n = call[c].n /\ call'[c].cmd = call[c].cmd /\ call'[c].answer = reply
  <2>1. CASE UNCHANGED call
    BY <2>1
  <2>2. CASE call' = [d \in Client |-> IF IsFor(request, d) THEN [call[d] EXCEPT !.answer = reply] ELSE call[d]]
    <3>1. call'[c] = IF IsFor(request, c) THEN [call[c] EXCEPT !.answer = reply] ELSE call[c]
      BY <2>2
    <3>2. IsFor(request, c) => call[c] # NoCall
      BY DEF IsFor
    <3>3. CASE IsFor(request, c)
      <4>1. IsCall(call[c]) /\ call[c] # NoCall
        BY <3>2, <3>3 DEF TypeInv, CallType
      <4>2. QED
        BY <3>1, <3>3, <4>1 DEF IsCall
    <3>4. QED
      BY <3>1, <3>3
  <2>3. QED
    BY <2>1, <2>2 DEF WriteReply
<1>3. \A i \in DOMAIN queue : AwaitedNext(queue[i])
  <2>1. \A i \in DOMAIN queue : queue[i].client \in Client /\ Awaited(queue[i])
    BY QueueTypes DEF TypeInv, OrderInv, QueueInv
  <2>2. QED
    BY <1>1, <1>2, <2>1, AwaitedStays
<1>4. QueueInv'
  BY <1>1, <1>3, QueuePrimed DEF OrderInv, QueueInv
<1>5. RequestInv'
  BY <1>1, RequestPrimed
<1>6. AnswerInv'
  <2>1. ASSUME NEW c \in Client, call'[c] # NoCall, call'[c].answer # Pending
        PROVE  served[c].n = call'[c].n /\ served[c].reply = call'[c].answer
    <3>1. CASE call'[c] = call[c]
      BY <2>1, <3>1 DEF OrderInv, AnswerInv
    <3>2. CASE /\ IsFor(request, c)
               /\ call'[c].n = call[c].n /\ call'[c].cmd = call[c].cmd /\ call'[c].answer = reply
      <4>1. request.client = c /\ call[c].n = request.n
        BY <3>2 DEF IsFor
      <4>2. served[c] = [n |-> request.n, reply |-> reply]
        BY <1>1, <4>1 DEF OrderInv, AnswerInv
      <4>3. QED
        BY <3>2, <4>1, <4>2
    <3>3. QED
      BY <1>2, <3>1, <3>2
  <2>2. QED
    BY <1>1, <2>1 DEF AnswerInv
<1>7. QED
  BY <1>4, <1>5, <1>6 DEF OrderInv

LEMMA OrderCrash ==
  ASSUME OrderInv, Crash
  PROVE  OrderInv'
<1>1. queue' = <<>> /\ pc' = "read" /\ UNCHANGED <<served, call>>
  BY DEF Crash
<1>2. DOMAIN queue' = {}
  BY <1>1
<1>3. QED
  BY <1>1, <1>2, QueuePrimed, RequestPrimed DEF OrderInv, AnswerInv

LEMMA OrderRestart ==
  ASSUME OrderInv, Restart
  PROVE  OrderInv'
BY DEF Restart, OrderInv, QueueInv, RequestInv, AnswerInv, Awaited

Inv == TypeInv /\ OrderInv

LEMMA InvServer ==
  ASSUME Inv, Server
  PROVE  Inv'
<1>1. ASSUME NEW r, DropInvalid(r) \/ Serve(r) \/ CreateFile(r)
      PROVE  Inv'
  <2>1. Awaited(r)
    BY <1>1, ReadInOrder DEF Inv, DropInvalid, Serve, CreateFile
  <2>2. r.n <= calls[r.client]
    BY <2>1 DEF Awaited
  <2>3. CASE DropInvalid(r)
    <3>1. OrderInv'
      BY <2>3, OrderDropped DEF Inv, DropInvalid, AfterInvalid
    <3>2. QED
      BY <2>3, <3>1, TypeDropInvalid DEF Inv
  <2>4. CASE Serve(r)
    BY <2>2, <2>4, TypeServe, OrderServe DEF Inv
  <2>5. CASE CreateFile(r)
    BY <2>2, <2>5, TypeCreateFile, OrderCreateFile DEF Inv
  <2>6. QED
    BY <1>1, <2>3, <2>4, <2>5
<1>2. CASE WriteFile
  <2>1. request.n <= calls[request.client]
    BY <1>2 DEF Inv, OrderInv, RequestInv, Awaited, WriteFile
  <2>2. QED
    BY <1>2, <2>1, TypeWriteFile, OrderWriteFile DEF Inv
<1>3. CASE WriteReply
  BY <1>3, TypeWriteReply, OrderWriteReply DEF Inv
<1>4. QED
  BY <1>1, <1>2, <1>3 DEF Server

LEMMA InvStep ==
  ASSUME Inv, [Next]_vars
  PROVE  Inv'
<1>1. CASE \E c \in Client : Return(c) \/ Timeout(c)
  BY <1>1, TypeEndOfCall, OrderEndOfCall DEF Inv
<1>2. CASE \E c \in Client : \E cmd \in Commands[c] : Invoke(c, cmd)
  BY <1>2, TypeInvoke, OrderInvoke DEF Inv
<1>3. CASE Server
  BY <1>3, InvServer
<1>4. CASE Crash
  BY <1>4, TypeCrash, OrderCrash DEF Inv
<1>5. CASE Restart
  BY <1>5, TypeRestart, OrderRestart DEF Inv
<1>6. CASE UNCHANGED vars
  <2>1. UNCHANGED <<db, files, up, pc, request, reply, served, queue, call, calls, read>>
    BY <1>6 DEF vars, serverVars
  <2>2. TypeInv'
    BY <2>1, ServerTypeStays, QueueTypeStays, CallTypeStays, ServedTypeStays, ReadTypeStays DEF Inv, TypeInv
  <2>3. OrderInv'
    BY <2>1 DEF Inv, OrderInv, QueueInv, RequestInv, AnswerInv, Awaited
  <2>4. QED
    BY <2>2, <2>3 DEF Inv
<1>7. QED
  BY <1>1, <1>2, <1>3, <1>4, <1>5, <1>6 DEF Next

LEMMA InvCorrect == Spec => []Inv
<1>1. Init => Inv
  BY TypeInit, OrderInit DEF Inv
<1>2. Inv /\ [Next]_vars => Inv'
  BY InvStep
<1>3. QED
  BY <1>1, <1>2, PTL DEF Spec

(* Every variable keeps its type in every run of server and clients, and   *)
(* the file of a save that is under way is torn until it is written: for   *)
(* any clients, any commands and however many calls (ConfigRPC::start, the *)
(* senders of lib/key-rpc).                                                *)
THEOREM TypeCorrect == Spec => []TypeOK
<1>1. Inv => TypeOK
  BY TypeInvImplies DEF Inv
<1>2. QED
  BY <1>1, InvCorrect, PTL

-----------------------------------------------------------------------------
(* What a client has read stays, because no request of its own to set the  *)
(* variable is before the server: those of its calls that it gave up are   *)
(* served before the call by which it reads.                               *)
ReadInv ==
  \A c \in Client : read[c] # Changed
    => /\ db.value = read[c]
       /\ \A i \in DOMAIN queue : queue[i].client = c => queue[i].cmd.kind # "SetVariable"

LEMMA ReadInit == Init => ReadInv
BY DEF Init, ReadInv

LEMMA ReadInvoke ==
  ASSUME Inv, ReadInv, NEW c \in Client, NEW cmd \in Commands[c], Invoke(c, cmd)
  PROVE  ReadInv'
<1> DEFINE r == [client |-> c, n |-> calls[c] + 1, cmd |-> cmd]
<1>1. /\ DOMAIN queue' = DOMAIN queue \cup {Len(queue) + 1}
      /\ \A i \in DOMAIN queue : queue'[i] = queue[i]
      /\ queue'[Len(queue) + 1] = r
  <2>1. queue' = Append(queue, r) /\ queue \in Seq(RpcRequest)
    BY DEF Invoke, Inv, TypeInv, QueueType
  <2> HIDE DEF r
  <2>2. QED
    BY <2>1
<1>2. r.client = c /\ r.cmd = cmd
  OBVIOUS
<1> HIDE DEF r
<1>3. db' = db
  BY DEF Invoke, serverVars
<1>4. ASSUME NEW d \in Client, read'[d] # Changed
      PROVE  read[d] # Changed /\ read'[d] = read[d] /\ (d = c => cmd.kind # "SetVariable")
  <2>1. read \in [Client -> Value \cup {None, Changed}]
    BY DEF Inv, TypeInv, ReadType
  <2>2. CASE cmd.kind = "SetVariable"
    BY <1>4, <2>1, <2>2 DEF Invoke
  <2>3. CASE cmd.kind # "SetVariable"
    BY <1>4, <2>3 DEF Invoke
  <2>4. QED
    BY <2>2, <2>3
<1>5. ASSUME NEW d \in Client, read'[d] # Changed
      PROVE  /\ db'.value = read'[d]
             /\ \A i \in DOMAIN queue' : queue'[i].client = d => queue'[i].cmd.kind # "SetVariable"
  <2>1. /\ read[d] # Changed /\ read'[d] = read[d] /\ (d = c => cmd.kind # "SetVariable")
        /\ db.value = read[d]
        /\ \A i \in DOMAIN queue : queue[i].client = d => queue[i].cmd.kind # "SetVariable"
    BY <1>4, <1>5 DEF ReadInv
  <2>2. QED
    BY <1>1, <1>2, <1>3, <2>1
<1>6. QED
  BY <1>5 DEF ReadInv

LEMMA ReadServe ==
  ASSUME Inv, ReadInv, NEW r, Serve(r)
  PROVE  ReadInv'
<1>1. /\ 1 \in DOMAIN queue /\ r = queue[1] /\ r.client \in Client /\ r.n \in Nat
      /\ \A i \in DOMAIN queue' : i + 1 \in DOMAIN queue /\ queue'[i] = queue[i + 1]
  BY ReadsType DEF Inv, TypeInv, Serve
<1>2. db' = db \/ db' = Effect(r.cmd, db)
  BY DEF Serve
<1>3. ASSUME r.cmd.kind # "SetVariable" PROVE db'.value = db.value
  BY <1>2, <1>3 DEF Effect
<1>4. ASSUME NEW c \in Client, IsFor(r, c)
      PROVE  \A i \in DOMAIN queue' : queue'[i].client # c
  <2>1. r.client = c /\ r.n = calls[c] /\ calls[c] \in Nat
    BY <1>4, Numbers DEF IsFor, Inv, TypeInv, CallType
  <2>2. SUFFICES ASSUME NEW i \in DOMAIN queue', queue'[i].client = c PROVE FALSE
    OBVIOUS
  <2>3. r.n < queue'[i].n /\ queue'[i].n <= calls[c]
    BY <2>1, <2>2, ReadInOrder DEF Inv, Serve, Awaited
  <2>4. queue'[i].n \in Nat
    BY <1>1, QueueTypes DEF Inv, TypeInv
  <2>5. QED
    BY <2>1, <2>3, <2>4
<1>5. ASSUME NEW c \in Client, read'[c] # Changed
      PROVE  /\ db'.value = read'[c]
             /\ \A i \in DOMAIN queue' : queue'[i].client = c => queue'[i].cmd.kind # "SetVariable"
  <2>1. read'[c] = IF r.cmd.kind = "GetVariable" /\ IsFor(r, c) THEN db.value
                   ELSE IF r.cmd.kind = "SetVariable" /\ c # r.client THEN Changed
                   ELSE read[c]
    BY DEF Serve
  <2>2. CASE r.cmd.kind = "GetVariable" /\ IsFor(r, c)
    BY <1>3, <1>4, <2>1, <2>2
  <2>3. CASE ~(r.cmd.kind = "GetVariable" /\ IsFor(r, c))
    <3>1. read'[c] = read[c] /\ ~(r.cmd.kind = "SetVariable" /\ c # r.client)
      BY <1>5, <2>1, <2>3
    <3>2. /\ db.value = read[c]
          /\ \A i \in DOMAIN queue : queue[i].client = c => queue[i].cmd.kind # "SetVariable"
      BY <1>5, <3>1 DEF ReadInv
    <3>3. r.cmd.kind # "SetVariable"
      BY <1>1, <3>1, <3>2
    <3>4. QED
      BY <1>1, <1>3, <3>1, <3>2, <3>3
  <2>4. QED
    BY <2>2, <2>3
<1>6. QED
  BY <1>5 DEF ReadInv

(* Any other step only takes requests away. *)
LEMMA ReadStays ==
  ASSUME Inv, ReadInv, UNCHANGED <<db, read>>,
         UNCHANGED queue \/ \E r : Reads(r)
  PROVE  ReadInv'
<1>1. CASE UNCHANGED queue
  BY <1>1 DEF ReadInv
<1>2. CASE \E r : Reads(r)
  <2>1. \A i \in DOMAIN queue' : i + 1 \in DOMAIN queue /\ queue'[i] = queue[i + 1]
    BY <1>2, ReadsType DEF Inv, TypeInv
  <2>2. QED
    BY <2>1 DEF ReadInv
<1>3. QED
  BY <1>1, <1>2

LEMMA ReadStep ==
  ASSUME Inv, ReadInv, [Next]_vars
  PROVE  ReadInv'
<1>1. CASE \E c \in Client : Return(c) \/ Timeout(c)
  BY <1>1, ReadStays DEF Return, Timeout, serverVars
<1>2. CASE \E c \in Client : \E cmd \in Commands[c] : Invoke(c, cmd)
  BY <1>2, ReadInvoke
<1>3. CASE \E r : Serve(r)
  BY <1>3, ReadServe
<1>4. CASE \E r : DropInvalid(r) \/ CreateFile(r)
  BY <1>4, ReadStays DEF DropInvalid, CreateFile
<1>5. CASE WriteFile \/ WriteReply
  BY <1>5, ReadStays DEF WriteFile, WriteReply
<1>6. CASE Crash
  BY <1>6 DEF Crash, ReadInv
<1>7. CASE Restart \/ UNCHANGED vars
  BY <1>7, ReadStays DEF Restart, vars, serverVars
<1>8. QED
  BY <1>1, <1>2, <1>3, <1>4, <1>5, <1>6, <1>7 DEF Next, Server

(* The value that a client has read and perhaps edits is the server's      *)
(* until it or another sets it, or the server ends, although requests of   *)
(* its own that it gave up may still be waiting when it reads              *)
(* (ConfigRPC::start, the senders of lib/key-rpc).                         *)
THEOREM ReadsStayCorrect == Spec => []ReadsStay
<1>1. Init => Inv /\ ReadInv
  BY TypeInit, OrderInit, ReadInit DEF Inv
<1>2. Inv /\ ReadInv /\ [Next]_vars => Inv' /\ ReadInv'
  BY InvStep, ReadStep
<1>3. ReadInv => ReadsStay
  BY DEF ReadInv, ReadsStay
<1>4. QED
  BY <1>1, <1>2, <1>3, PTL DEF Spec

-----------------------------------------------------------------------------
(* The calls are those of RpcCalls. *)

InHand == ToSet(queue) \cup (IF pc = "write" THEN {request} ELSE {})

Late == {r \in InHand : call[r.client].n # r.n}

Seen(c) ==
  IF call[c] = NoCall THEN NoCall
  ELSE [n |-> call[c].n, cmd |-> call[c].cmd,
        answer |-> IF served[c].n = call[c].n THEN served[c].reply ELSE call[c].answer]

SeenCalls == [c \in Client |-> Seen(c)]

LastServed == [c \in Client |-> served[c].n]

(* The commands are the same in both modules. *)
LEMMA SameLayers ==
  /\ \A lay, index : /\ Calls!HasLayer(lay, index) <=> HasLayer(lay, index)
                    /\ Calls!SwitchLayer(lay, index) = SwitchLayer(lay, index)
                    /\ Calls!RemoveLayer(lay, index) = RemoveLayer(lay, index)
                    /\ Calls!AddLayer(lay, index) = AddLayer(lay, index)
  /\ \A lay : Calls!UpLayer(lay) = UpLayer(lay) /\ Calls!DownLayer(lay) = DownLayer(lay)
  /\ \A n : Calls!WrappingDec(n) = WrappingDec(n)
<1>1. \A s, i : Calls!RemoveAt(s, i) = RemoveAt(s, i)
  BY DEF Calls!RemoveAt, RemoveAt
<1>2. \A lay, index : Calls!HasLayer(lay, index) <=> HasLayer(lay, index)
  BY DEF Calls!HasLayer, HasLayer
<1>3. \A lay, index : Calls!SwitchLayer(lay, index) = SwitchLayer(lay, index)
  BY <1>2 DEF Calls!SwitchLayer, SwitchLayer
<1>4. \A lay, index : /\ Calls!RemoveLayer(lay, index) = RemoveLayer(lay, index)
                     /\ Calls!AddLayer(lay, index) = AddLayer(lay, index)
  BY <1>1, <1>2 DEF Calls!RemoveLayer, RemoveLayer, Calls!AddLayer, AddLayer
<1>5. \A lay : Calls!UpLayer(lay) = UpLayer(lay)
  BY <1>2 DEF Calls!UpLayer, UpLayer
<1>6. \A n : Calls!WrappingDec(n) = WrappingDec(n)
  BY DEF Calls!WrappingDec, WrappingDec
<1>7. \A lay : Calls!DownLayer(lay) = DownLayer(lay)
  BY <1>2 DEF Calls!DownLayer, DownLayer, Calls!WrappingDec, WrappingDec
<1>8. QED
  BY <1>2, <1>3, <1>4, <1>5, <1>6, <1>7

LEMMA SameCommands ==
  ASSUME NEW cmd, NEW d, NEW f
  PROVE  /\ Calls!IsValid(cmd) <=> IsValid(cmd)
         /\ Calls!IsSave(cmd) <=> IsSave(cmd)
         /\ Calls!Panics(cmd, d) <=> Panics(cmd, d)
         /\ Calls!Effect(cmd, d) = Effect(cmd, d)
         /\ Calls!Reply(cmd, d) = Reply(cmd, d)
         /\ Calls!Tear(f, cmd) = Tear(f, cmd)
         /\ Calls!Save(f, cmd, d) = Save(f, cmd, d)
         /\ Calls!Loaded(f) = Loaded(f)
         /\ Calls!Starts(f) <=> Starts(f)
<1>1. Calls!IsValid(cmd) <=> IsValid(cmd)
  BY DEF Calls!IsValid, IsValid, Calls!Garbage, Garbage, Calls!Malformed, Malformed
<1>2. Calls!IsSave(cmd) <=> IsSave(cmd)
  BY DEF Calls!IsSave, IsSave
<1>3. Calls!Panics(cmd, d) <=> Panics(cmd, d)
  BY SameLayers DEF Calls!Panics, Panics
<1>4. Calls!Effect(cmd, d) = Effect(cmd, d)
  <2>1. Calls!LayerChange(cmd, d) = LayerChange(cmd, d)
    BY SameLayers DEF Calls!LayerChange, LayerChange
  <2>2. QED
    BY <2>1 DEF Calls!Effect, Effect, Calls!None, None
<1>5. Calls!Reply(cmd, d) = Reply(cmd, d)
  BY DEF Calls!Reply, Reply, Calls!LayerAt, LayerAt, Calls!Text, Text, Calls!None, None,
         Calls!HasLayer, HasLayer, Calls!WrappingDec, WrappingDec
<1>6. Calls!FileOf(cmd) = FileOf(cmd)
  BY DEF Calls!FileOf, FileOf
<1>7. Calls!Tear(f, cmd) = Tear(f, cmd) /\ Calls!Save(f, cmd, d) = Save(f, cmd, d)
  BY <1>6 DEF Calls!Tear, Tear, Calls!Save, Save
<1>8. Calls!Loaded(f) = Loaded(f) /\ (Calls!Starts(f) <=> Starts(f))
  BY DEF Calls!Loaded, Loaded, Calls!Starts, Starts, Calls!None, None
<1>9. QED
  BY <1>1, <1>2, <1>3, <1>4, <1>5, <1>7, <1>8

LEMMA SeenSame ==
  ASSUME UNCHANGED <<db, files, up>>, SeenCalls' = SeenCalls, Late' = Late, LastServed' = LastServed
  PROVE  UNCHANGED Calls!vars
BY DEF Calls!vars, SeenCalls, Seen, Late, InHand, LastServed

LEMMA SeenInvoke ==
  ASSUME NEW c \in Client, NEW n, NEW cmd,
         SeenCalls[c] = NoCall, n > LastServed[c], \A r \in Late : r.client = c => n > r.n,
         SeenCalls' = [SeenCalls EXCEPT ![c] = [n |-> n, cmd |-> cmd, answer |-> Pending]],
         UNCHANGED <<db, files, up>>, Late' = Late, LastServed' = LastServed
  PROVE  Calls!Invoke(c, n, cmd)
BY DEF Calls!Invoke, SeenCalls, Seen, Late, InHand, LastServed, Calls!NoCall, NoCall, Calls!Pending, Pending

LEMMA SeenGiveUp ==
  ASSUME NEW c \in Client, SeenCalls[c] # NoCall,
         SeenCalls' = [SeenCalls EXCEPT ![c] = NoCall],
         \/ Late' = Late
         \/ Late' = Late \cup {[client |-> c, n |-> SeenCalls[c].n, cmd |-> SeenCalls[c].cmd]},
         UNCHANGED <<db, files, up>>, LastServed' = LastServed
  PROVE  Calls!GiveUp(c)
BY DEF Calls!GiveUp, Calls!Request, SeenCalls, Seen, Late, InHand, LastServed, Calls!NoCall, NoCall

LEMMA SeenReturn ==
  ASSUME NEW c \in Client, SeenCalls[c] # NoCall, SeenCalls[c].answer # Pending,
         SeenCalls' = [SeenCalls EXCEPT ![c] = NoCall],
         UNCHANGED <<db, files, up>>, Late' = Late, LastServed' = LastServed
  PROVE  Calls!Return(c)
BY DEF Calls!Return, SeenCalls, Seen, Late, InHand, LastServed, Calls!NoCall, NoCall, Calls!Pending, Pending

LEMMA SeenForget ==
  ASSUME NEW r, Late' = Late \ {r},
         UNCHANGED <<db, files, up>>, SeenCalls' = SeenCalls, LastServed' = LastServed
  PROVE  Calls!Forget(r)
BY DEF Calls!Forget, SeenCalls, Seen, Late, InHand, LastServed

(* The client of r waits for it. *)
WaitsFor(r) == /\ SeenCalls[r.client] # NoCall /\ SeenCalls[r.client].answer = Pending
               /\ SeenCalls[r.client].n = r.n

EffectSeen(r, text) ==
  /\ LastServed' = [LastServed EXCEPT ![r.client] = r.n]
  /\ SeenCalls' = IF WaitsFor(r) THEN [SeenCalls EXCEPT ![r.client].answer = text] ELSE SeenCalls
  /\ Late' = Late \ {r}

LEMMA WaitsSame ==
  ASSUME NEW r
  PROVE  Calls!Waits(r.client) /\ SeenCalls[r.client].n = r.n <=> WaitsFor(r)
BY DEF Calls!Waits, WaitsFor, SeenCalls, Seen, Calls!NoCall, NoCall, Calls!Pending, Pending

LEMMA SeenAnswered ==
  ASSUME NEW r, NEW text, EffectSeen(r, text)
  PROVE  Calls!Answered(r, text)
<1>1. SeenCalls' = IF Calls!Waits(r.client) /\ SeenCalls[r.client].n = r.n
                   THEN [SeenCalls EXCEPT ![r.client].answer = text]
                   ELSE SeenCalls
  BY WaitsSame DEF EffectSeen
<1>2. QED
  BY <1>1 DEF EffectSeen, Calls!Answered, SeenCalls, Seen, Late, InHand, LastServed

LEMMA SeenTakesEffect ==
  ASSUME NEW r, NEW text, EffectSeen(r, text), UNCHANGED up,
         up, IsValid(r.cmd), r.n > LastServed[r.client],
         \/ /\ ~IsSave(r.cmd) /\ ~Panics(r.cmd, db)
            /\ db' = Effect(r.cmd, db) /\ text = Reply(r.cmd, db) /\ UNCHANGED files
         \/ IsSave(r.cmd) /\ files' = Save(files, r.cmd, db) /\ text = "true" /\ UNCHANGED db
         \/ IsSave(r.cmd) /\ text = "false" /\ UNCHANGED <<db, files>>
  PROVE  Calls!TakeEffect(r)
<1>1. r.n > LastServed[r.client] /\ LastServed = [c \in Client |-> served[c].n]
  BY DEF LastServed
<1>2. /\ Calls!IsValid(r.cmd) <=> IsValid(r.cmd)
      /\ Calls!IsSave(r.cmd) <=> IsSave(r.cmd)
      /\ Calls!Panics(r.cmd, db) <=> Panics(r.cmd, db)
      /\ Calls!Effect(r.cmd, db) = Effect(r.cmd, db)
      /\ Calls!Reply(r.cmd, db) = Reply(r.cmd, db)
      /\ Calls!Save(files, r.cmd, db) = Save(files, r.cmd, db)
  BY SameCommands
<1>3. CASE /\ ~IsSave(r.cmd) /\ ~Panics(r.cmd, db)
           /\ db' = Effect(r.cmd, db) /\ text = Reply(r.cmd, db) /\ UNCHANGED files
  <2>1. EffectSeen(r, Calls!Reply(r.cmd, db))
    BY <1>2, <1>3 DEF EffectSeen
  <2>2. Calls!Answered(r, Calls!Reply(r.cmd, db))
    <3>1. SeenCalls' = IF Calls!Waits(r.client) /\ SeenCalls[r.client].n = r.n
                       THEN [SeenCalls EXCEPT ![r.client].answer = Calls!Reply(r.cmd, db)]
                       ELSE SeenCalls
      BY <2>1, WaitsSame DEF EffectSeen
    <3>2. QED
      BY <2>1, <3>1 DEF EffectSeen, Calls!Answered, SeenCalls, Seen, Late, InHand, LastServed, Calls!NoCall, NoCall, Calls!Pending, Pending
  <2>3. QED
    BY <1>1, <1>2, <1>3, <2>2 DEF Calls!TakeEffect
<1>4. CASE IsSave(r.cmd) /\ files' = Save(files, r.cmd, db) /\ text = "true" /\ UNCHANGED db
  <2>1. EffectSeen(r, "true")
    BY <1>4
  <2>2. Calls!Answered(r, "true")
    BY <2>1, SeenAnswered
  <2>3. QED
    BY <1>1, <1>2, <1>4, <2>2 DEF Calls!TakeEffect
<1>5. CASE IsSave(r.cmd) /\ text = "false" /\ UNCHANGED <<db, files>>
  <2>1. EffectSeen(r, "false")
    BY <1>5
  <2>2. Calls!Answered(r, "false")
    BY <2>1, SeenAnswered
  <2>3. QED
    BY <1>1, <1>2, <1>5, <2>2 DEF Calls!TakeEffect
<1>6. QED
  BY <1>3, <1>4, <1>5

(* A request in hand may take effect. *)
LEMMA HandType ==
  ASSUME Inv, NEW r \in InHand
  PROVE  /\ r \in RpcRequest /\ Awaited(r)
         /\ r.client \in Client /\ r.n \in Nat \ {0}
         /\ r = [client |-> r.client, n |-> r.n, cmd |-> r.cmd]
<1>1. r \in RpcRequest /\ Awaited(r)
  <2>1. CASE r \in ToSet(queue)
    BY <2>1, QueuedAt DEF Inv, TypeInv, OrderInv, QueueInv
  <2>2. CASE pc = "write" /\ r = request
    BY <2>2 DEF Inv, TypeInv, ServerType, OrderInv, RequestInv
  <2>3. QED
    BY <2>1, <2>2 DEF InHand
<1>2. QED
  BY <1>1 DEF RpcRequest

LEMMA HandCall ==
  ASSUME Inv, NEW r \in InHand, call[r.client].n = r.n
  PROVE  /\ call[r.client] # NoCall /\ call[r.client].cmd = r.cmd
         /\ call[r.client].answer = Pending
         /\ Seen(r.client) = [n |-> r.n, cmd |-> r.cmd, answer |-> Pending]
<1>1. r.client \in Client /\ r.n \in Nat \ {0} /\ Awaited(r)
  BY HandType
<1>2. call[r.client] # NoCall
  BY <1>1 DEF NoCall
<1>3. served[r.client].n \in Nat /\ served[r.client].n < r.n
  BY <1>1, Numbers DEF Inv, Awaited
<1>4. served[r.client].n # call[r.client].n
  BY <1>1, <1>3
<1>5. call[r.client].answer = Pending
  BY <1>1, <1>2, <1>4 DEF Inv, OrderInv, AnswerInv
<1>6. call[r.client].cmd = r.cmd
  BY <1>1 DEF Awaited
<1>7. QED
  BY <1>2, <1>4, <1>5, <1>6 DEF Seen

LEMMA HandOpen ==
  ASSUME Inv, NEW r \in InHand
  PROVE  r \in Calls!Open
<1>1. Calls!Open = Late \cup {Calls!Request(c) : c \in {c \in Client : Calls!Waits(c)}}
  BY DEF Calls!Open, Late, InHand
<1>2. CASE call[r.client].n # r.n
  BY <1>1, <1>2 DEF Late
<1>3. CASE call[r.client].n = r.n
  <2>1. r.client \in Client /\ r = [client |-> r.client, n |-> r.n, cmd |-> r.cmd]
    BY HandType
  <2>2. SeenCalls[r.client] = [n |-> r.n, cmd |-> r.cmd, answer |-> Pending]
    BY <1>3, <2>1, HandCall DEF SeenCalls
  <2>3. SeenCalls[r.client] # NoCall
    BY <1>3, <2>1, HandCall DEF SeenCalls, Seen, NoCall
  <2>4. Calls!Waits(r.client) <=> SeenCalls[r.client] # NoCall /\ SeenCalls[r.client].answer = Pending
    BY DEF Calls!Waits, SeenCalls, Seen, Calls!NoCall, NoCall, Calls!Pending, Pending
  <2>5. Calls!Request(r.client) = [client |-> r.client, n |-> SeenCalls[r.client].n, cmd |-> SeenCalls[r.client].cmd]
    BY DEF Calls!Request, SeenCalls, Seen
  <2>6. Calls!Request(r.client) = r
    BY <2>1, <2>2, <2>5
  <2>7. Calls!Waits(r.client)
    BY <2>2, <2>3, <2>4
  <2>8. QED
    BY <1>1, <2>1, <2>6, <2>7
<1>4. QED
  BY <1>2, <1>3

(* What a request that takes effect does to the calls. *)
LEMMA SeenEffect ==
  ASSUME Inv, NEW r \in InHand, NEW text, Answers(r, text), UNCHANGED <<call, calls>>,
         InHand' = InHand \ {r}
  PROVE  EffectSeen(r, text) /\ r.n > LastServed[r.client]
<1>1. r \in RpcRequest /\ Awaited(r) /\ r.client \in Client /\ r.n \in Nat
  BY HandType
<1>2. /\ served'[r.client].n = r.n /\ served'[r.client].reply = text
      /\ \A c \in Client : c # r.client => served'[c] = served[c]
  <2>1. ServedType /\ r.n <= calls[r.client]
    BY <1>1 DEF Inv, TypeInv, Awaited
  <2>2. /\ served'[r.client] = [n |-> r.n, reply |-> text]
        /\ \A c \in Client : c # r.client => served'[c] = served[c]
    BY <1>1, <2>1, AnswersType
  <2>3. QED
    BY <2>2
<1>3. served[r.client].n \in Nat /\ served[r.client].n < r.n /\ r.n <= calls[r.client]
      /\ calls[r.client] \in Nat
  BY <1>1, Numbers DEF Inv, Awaited
<1>4. Late' = Late \ {r}
  BY DEF Late
<1>5. LastServed' = [LastServed EXCEPT ![r.client] = r.n]
  BY <1>1, <1>2 DEF LastServed
<1>6. \A c \in Client : c # r.client => Seen(c)' = Seen(c)
  BY <1>2 DEF Seen, NoCall
<1>7. CASE call[r.client].n = r.n
  <2>1. /\ Seen(r.client) = [n |-> r.n, cmd |-> r.cmd, answer |-> Pending]
        /\ call[r.client] # NoCall /\ call[r.client].cmd = r.cmd
    BY <1>7, HandCall
  <2>2. [n |-> r.n, cmd |-> r.cmd, answer |-> Pending] # NoCall
    BY <2>1 DEF Seen, NoCall
  <2>3. WaitsFor(r)
    BY <1>1, <2>1, <2>2 DEF WaitsFor, SeenCalls
  <2>4. ASSUME NEW c \in Client, c = r.client
        PROVE  Seen(c)' = [n |-> r.n, cmd |-> r.cmd, answer |-> text]
    BY <1>2, <1>7, <2>1, <2>4 DEF Seen, NoCall
  <2>5. SeenCalls' = [SeenCalls EXCEPT ![r.client].answer = text]
    BY <1>1, <1>6, <2>1, <2>4 DEF SeenCalls
  <2>6. QED
    BY <1>3, <1>1, <1>4, <1>5, <2>3, <2>5 DEF EffectSeen, LastServed
<1>8. CASE call[r.client].n # r.n
  <2>1. ~WaitsFor(r)
    BY <1>1, <1>8 DEF WaitsFor, SeenCalls, Seen, NoCall
  <2>2. ASSUME NEW c \in Client, c = r.client PROVE Seen(c)' = Seen(c)
    <3>1. CASE call[c] = NoCall
      BY <3>1 DEF Seen, NoCall
    <3>2. CASE call[c] # NoCall
      <4>1. call[c].n = calls[c]
        BY <3>2 DEF Inv, TypeInv, CallType
      <4>2. served[c].n < r.n /\ r.n < call[c].n
        BY <1>1, <1>3, <1>8, <2>2, <4>1
      <4>3. served[c].n # call[c].n
        BY <1>1, <1>3, <2>2, <4>1, <4>2
      <4>4. served'[c].n # call[c].n
        BY <1>2, <1>8, <2>2
      <4>5. QED
        BY <3>2, <4>3, <4>4 DEF Seen, NoCall
    <3>3. QED
      BY <3>1, <3>2
  <2>3. SeenCalls' = SeenCalls
    BY <1>6, <2>2 DEF SeenCalls
  <2>4. QED
    BY <1>1, <1>3, <1>4, <1>5, <2>1, <2>3 DEF EffectSeen, LastServed
<1>9. QED
  BY <1>7, <1>8

(* The thread takes a request from the queue into its hand. *)
LEMMA HandReads ==
  ASSUME Inv, pc # "write", NEW r, Reads(r)
  PROVE  /\ r \in InHand /\ r \notin ToSet(queue')
         /\ InHand = ToSet(queue') \cup {r}
<1>1. /\ 1 \in DOMAIN queue /\ r = queue[1] /\ r \in RpcRequest /\ r.n \in Nat /\ r.client \in Client
      /\ queue' \in Seq(RpcRequest) /\ Len(queue') = Len(queue) - 1
      /\ \A i \in DOMAIN queue' : i + 1 \in DOMAIN queue /\ queue'[i] = queue[i + 1]
  BY ReadsType DEF Inv, TypeInv, QueueType
<1>2. queue \in Seq(RpcRequest)
  BY DEF Inv, TypeInv, QueueType
<1>3. \A i \in DOMAIN queue : i = 1 \/ \E j \in DOMAIN queue' : i = j + 1
  <2>1. TAKE i \in DOMAIN queue
  <2>2. i # 1 => i - 1 \in DOMAIN queue' /\ i = i - 1 + 1
    BY <1>1, <1>2
  <2>3. QED
    BY <2>2
<1>4. InHand = ToSet(queue)
  BY DEF InHand
<1>5. r \notin ToSet(queue')
  <2>1. SUFFICES ASSUME NEW i \in DOMAIN queue', queue'[i] = r PROVE FALSE
    BY DEF ToSet
  <2>2. r.n < r.n
    BY <2>1, ReadInOrder DEF Inv
  <2>3. QED
    BY <1>1, <2>2
<1>6. ToSet(queue) = ToSet(queue') \cup {r}
  <2>1. ASSUME NEW x \in ToSet(queue) PROVE x \in ToSet(queue') \cup {r}
    <3>1. PICK i \in DOMAIN queue : queue[i] = x
      BY DEF ToSet
    <3>2. QED
      BY <1>1, <1>3, <3>1 DEF ToSet
  <2>2. ASSUME NEW x \in ToSet(queue') \cup {r} PROVE x \in ToSet(queue)
    BY <1>1, <2>2 DEF ToSet
  <2>3. QED
    BY <2>1, <2>2
<1>7. QED
  BY <1>4, <1>5, <1>6

(* A request that is dropped, or that the thread panics over. *)
LEMMA StepDropped ==
  ASSUME Inv, NEW r, Reads(r), pc = "read", pc' # "write",
         UNCHANGED <<db, files, up, served, call, calls>>
  PROVE  (\E x \in Late : Calls!Forget(x)) \/ UNCHANGED Calls!vars
<1>1. InHand' = InHand \ {r}
  <2>1. InHand' = ToSet(queue')
    BY DEF InHand
  <2>2. QED
    BY <2>1, HandReads
<1>2. Late' = Late \ {r}
  BY <1>1 DEF Late
<1>3. SeenCalls' = SeenCalls /\ LastServed' = LastServed
  BY DEF SeenCalls, Seen, LastServed, NoCall
<1>4. CASE r \in Late
  BY <1>2, <1>3, <1>4, SeenForget
<1>5. CASE r \notin Late
  <2>1. Late' = Late
    BY <1>2, <1>5
  <2>2. QED
    BY <1>3, <2>1, SeenSame
<1>6. QED
  BY <1>4, <1>5

LEMMA StepServe ==
  ASSUME Inv, NEW r, Serve(r), ~Panics(r.cmd, db)
  PROVE  r \in Calls!Open /\ Calls!TakeEffect(r)
<1>1. /\ up /\ pc = "read" /\ Reads(r) /\ IsValid(r.cmd) /\ ~IsSave(r.cmd)
      /\ db' = Effect(r.cmd, db) /\ Answers(r, Reply(r.cmd, db))
      /\ UNCHANGED <<files, up, call, calls>>
  BY DEF Serve
<1>2. r \in InHand /\ InHand' = InHand \ {r}
  <2>1. InHand' = ToSet(queue')
    BY <1>1 DEF InHand, Answers
  <2>2. QED
    BY <1>1, <2>1, HandReads
<1>3. EffectSeen(r, Reply(r.cmd, db)) /\ r.n > LastServed[r.client]
  BY <1>1, <1>2, SeenEffect
<1>4. QED
  BY <1>1, <1>2, <1>3, HandOpen, SeenTakesEffect

LEMMA SavesAreValid ==
  ASSUME NEW cmd, IsSave(cmd)
  PROVE  IsValid(cmd)
BY DEF IsSave, IsValid, Garbage, Malformed

LEMMA StepCreateFile ==
  ASSUME Inv, NEW r, CreateFile(r)
  PROVE  r \in Calls!Open /\ (Calls!TakeEffect(r) \/ Calls!BeginSave(r))
<1>1. /\ up /\ pc = "read" /\ Reads(r) /\ IsSave(r.cmd) /\ IsValid(r.cmd)
      /\ UNCHANGED <<db, up, call, calls>>
  BY SavesAreValid DEF CreateFile
<1>2. r \in InHand /\ r \in Calls!Open
  BY <1>1, HandReads, HandOpen
<1>3. CASE files' = Tear(files, r.cmd) /\ pc' = "write" /\ request' = r /\ UNCHANGED served
  <2>1. InHand' = InHand
    <3>1. InHand' = ToSet(queue') \cup {r}
      BY <1>3 DEF InHand
    <3>2. QED
      BY <1>1, <3>1, HandReads
  <2>2. SeenCalls' = SeenCalls /\ LastServed' = LastServed /\ Late' = Late
    BY <1>1, <1>3, <2>1 DEF SeenCalls, Seen, LastServed, NoCall, Late
  <2>3. files' = Calls!Tear(files, r.cmd) /\ Calls!IsSave(r.cmd)
    BY <1>1, <1>3, SameCommands
  <2>4. Calls!BeginSave(r)
    BY <1>1, <2>2, <2>3 DEF Calls!BeginSave, SeenCalls, Seen, Late, InHand, LastServed
  <2>5. QED
    BY <1>2, <2>4
<1>4. CASE UNCHANGED files /\ Answers(r, "false")
  <2>1. InHand' = InHand \ {r}
    <3>1. InHand' = ToSet(queue')
      BY <1>4 DEF InHand, Answers
    <3>2. QED
      BY <1>1, <3>1, HandReads
  <2>2. EffectSeen(r, "false") /\ r.n > LastServed[r.client]
    BY <1>1, <1>2, <1>4, <2>1, SeenEffect
  <2>3. QED
    BY <1>1, <1>2, <1>4, <2>2, SeenTakesEffect
<1>5. QED
  BY <1>3, <1>4 DEF CreateFile

LEMMA StepWriteFile ==
  ASSUME Inv, WriteFile
  PROVE  \E r \in Calls!Open : Calls!TakeEffect(r)
<1>1. up /\ pc = "write" /\ UNCHANGED <<db, up, queue, call, calls>>
  BY DEF WriteFile
<1>2. IsSave(request.cmd) /\ IsValid(request.cmd) /\ request \in RpcRequest
  BY <1>1, SavesAreValid DEF Inv, TypeInv, ServerType
<1>3. PICK text : /\ Answers(request, text)
                  /\ \/ files' = Save(files, request.cmd, db) /\ text = "true"
                     \/ UNCHANGED files /\ text = "false"
  BY DEF WriteFile
<1>4. request \in InHand /\ InHand = ToSet(queue) \cup {request}
  BY <1>1 DEF InHand
<1>5. request \notin ToSet(queue)
  <2>1. SUFFICES ASSUME NEW i \in DOMAIN queue, queue[i] = request PROVE FALSE
    BY DEF ToSet
  <2>2. request.n < request.n
    BY <1>1, <2>1 DEF Inv, OrderInv, RequestInv
  <2>3. request.n \in Nat
    BY <1>2 DEF RpcRequest
  <2>4. QED
    BY <2>2, <2>3
<1>6. InHand' = InHand \ {request}
  <2>1. InHand' = ToSet(queue)
    BY <1>1, <1>3 DEF InHand, Answers
  <2>2. QED
    BY <1>4, <1>5, <2>1
<1>7. PICK r : r = request
  OBVIOUS
<1>8. EffectSeen(r, text) /\ r.n > LastServed[r.client]
  <2>1. Answers(r, text) /\ r \in InHand /\ InHand' = InHand \ {r}
    BY <1>3, <1>4, <1>6, <1>7 DEF Answers
  <2>2. QED
    BY <1>1, <2>1, SeenEffect
<1>9. /\ IsSave(r.cmd) /\ IsValid(r.cmd)
      /\ \/ files' = Save(files, r.cmd, db) /\ text = "true"
         \/ UNCHANGED files /\ text = "false"
  BY <1>2, <1>3, <1>7
<1>10. Calls!TakeEffect(r)
  BY <1>1, <1>8, <1>9, SeenTakesEffect
<1>11. QED
  BY <1>4, <1>7, <1>10, HandOpen

(* The reply is in the call already when it takes effect. *)
LEMMA StepWriteReply ==
  ASSUME Inv, WriteReply
  PROVE  UNCHANGED Calls!vars
<1>1. UNCHANGED <<db, files, up, served, queue, calls>> /\ pc = "reply" /\ pc' = "read"
  BY DEF WriteReply
<1>2. InHand' = InHand
  BY <1>1 DEF InHand
<1>3. CASE UNCHANGED call
  <2>1. SeenCalls' = SeenCalls /\ LastServed' = LastServed /\ Late' = Late
    BY <1>1, <1>2, <1>3 DEF SeenCalls, Seen, LastServed, NoCall, Late
  <2>2. QED
    BY <1>1, <2>1, SeenSame
<1>4. CASE call' = [c \in Client |-> IF IsFor(request, c) THEN [call[c] EXCEPT !.answer = reply] ELSE call[c]]
  <2>1. ASSUME NEW c \in Client PROVE call'[c].n = call[c].n /\ Seen(c)' = Seen(c)
    <3>1. CASE ~IsFor(request, c)
      <4>1. call'[c] = call[c]
        BY <1>4, <3>1
      <4>2. QED
        BY <1>1, <4>1 DEF Seen, NoCall
    <3>2. CASE IsFor(request, c)
      <4>1. call'[c] = [call[c] EXCEPT !.answer = reply]
        BY <1>4, <3>2
      <4>2. call[c] # NoCall /\ request.client = c /\ call[c].n = request.n
        BY <3>2 DEF IsFor
      <4>3. IsCall(call[c]) /\ call[c].n \in Nat \ {0}
        BY <4>2 DEF Inv, TypeInv, CallType, IsCall
      <4>4. call'[c].n = call[c].n /\ call'[c].cmd = call[c].cmd
        BY <4>1, <4>3 DEF IsCall
      <4>5. call'[c] # NoCall
        BY <4>3, <4>4 DEF NoCall
      <4>6. served[c].n = call[c].n
        <5>1. served[c] = [n |-> request.n, reply |-> reply]
          BY <1>1, <4>2 DEF Inv, OrderInv, AnswerInv
        <5>2. QED
          BY <4>2, <5>1
      <4>7. QED
        BY <1>1, <4>2, <4>4, <4>5, <4>6 DEF Seen, NoCall
    <3>3. QED
      BY <3>1, <3>2
  <2>2. SeenCalls' = SeenCalls /\ LastServed' = LastServed
    BY <1>1, <2>1 DEF SeenCalls, LastServed
  <2>3. Late' = Late
    <3>1. \A r \in InHand : r.client \in Client
      BY HandType
    <3>2. QED
      BY <1>2, <2>1, <3>1 DEF Late
  <2>4. QED
    BY <1>1, <2>2, <2>3, SeenSame
<1>5. QED
  BY <1>3, <1>4 DEF WriteReply

LEMMA StepInvoke ==
  ASSUME Inv, NEW c \in Client, NEW cmd \in Commands[c], Invoke(c, cmd)
  PROVE  \E n \in 1 .. MaxCalls[c], k \in Command : Calls!Invoke(c, n, k)
<1> DEFINE r == [client |-> c, n |-> calls[c] + 1, cmd |-> cmd]
           new == [n |-> calls[c] + 1, cmd |-> cmd, answer |-> Pending]
<1>1. /\ UNCHANGED <<db, files, up, pc, request, served>>
      /\ queue' = Append(queue, r) /\ call[c] = NoCall /\ calls[c] < MaxCalls[c]
  BY DEF Invoke, serverVars
<1>2. calls[c] \in Nat /\ served[c].n \in Nat /\ served[c].n <= calls[c] /\ MaxCalls[c] \in Nat
  BY Numbers DEF Inv
<1>3. call'[c] = new /\ \A d \in Client : d # c => call'[d] = call[d]
  BY ExceptForm DEF Inv, TypeInv, CallType, Invoke
<1>4. /\ new.n = calls[c] + 1 /\ new.cmd = cmd /\ new.answer = Pending
      /\ r.client = c /\ r.n = calls[c] + 1
  OBVIOUS
<1> HIDE DEF r
<1>5. InHand' = InHand \cup {r}
  <2>1. /\ DOMAIN queue' = DOMAIN queue \cup {Len(queue) + 1}
        /\ \A i \in DOMAIN queue : queue'[i] = queue[i]
        /\ queue'[Len(queue) + 1] = r
    BY <1>1 DEF Inv, TypeInv, QueueType
  <2>2. ToSet(queue') = ToSet(queue) \cup {r}
    BY <2>1 DEF ToSet
  <2>3. QED
    BY <1>1, <2>2 DEF InHand
<1>6. ASSUME NEW x \in InHand, x.client = c
      PROVE  x.n < calls[c] + 1 /\ call[x.client].n # x.n /\ call'[x.client].n # x.n
  <2>1. x.n \in Nat \ {0} /\ x.n <= calls[c]
    BY <1>6, HandType DEF Awaited
  <2>2. x.n < calls[c] + 1 /\ x.n # calls[c] + 1
    BY <1>2, <2>1
  <2>3. QED
    BY <1>1, <1>3, <1>4, <1>6, <2>1, <2>2 DEF NoCall
<1>7. Late' = Late
  <2>1. ASSUME NEW x \in InHand PROVE call'[x.client].n # x.n <=> call[x.client].n # x.n
    <3>1. CASE x.client = c
      BY <1>6, <3>1
    <3>2. CASE x.client # c
      BY <1>3, <3>2, HandType
    <3>3. QED
      BY <3>1, <3>2
  <2>2. call'[r.client].n = r.n
    BY <1>3, <1>4
  <2>3. QED
    BY <1>5, <2>1, <2>2 DEF Late
<1>8. ASSUME NEW d \in Client PROVE Seen(d)' = IF d = c THEN new ELSE Seen(d)
  <2>1. CASE d # c
    BY <1>1, <1>3, <2>1 DEF Seen, NoCall
  <2>2. CASE d = c
    <3>1. served[c].n # calls[c] + 1 /\ calls[c] + 1 # 0
      BY <1>2
    <3>2. call'[c] # NoCall
      BY <1>3, <1>4, <3>1 DEF NoCall
    <3>3. QED
      BY <1>1, <1>3, <1>4, <2>2, <3>1, <3>2 DEF Seen, NoCall
  <2>3. QED
    BY <2>1, <2>2
<1>9. SeenCalls' = [SeenCalls EXCEPT ![c] = new] /\ SeenCalls[c] = NoCall
  BY <1>1, <1>8 DEF SeenCalls, Seen
<1>10. PICK n : n = calls[c] + 1
  OBVIOUS
<1>11. n \in 1 .. MaxCalls[c] /\ n > served[c].n /\ cmd \in Command
  BY <1>1, <1>2, <1>10, CommandsAssumption
<1>12. n > LastServed[c] /\ \A x \in Late : x.client = c => n > x.n
  <2>1. ASSUME NEW x \in Late, x.client = c PROVE n > x.n
    <3>1. x.n < calls[c] + 1 /\ x.n \in Nat
      BY <1>6, <2>1, HandType DEF Late
    <3>2. QED
      BY <1>2, <1>10, <3>1
  <2>2. QED
    BY <1>11, <2>1 DEF LastServed
<1>13. LastServed' = LastServed
  BY <1>1 DEF LastServed
<1>14. Calls!Invoke(c, n, cmd)
  BY <1>1, <1>7, <1>9, <1>10, <1>12, <1>13, SeenInvoke
<1>15. QED
  BY <1>11, <1>14

(* The end of a call, to which the requests in hand do not belong any more. *)
LEMMA EndOfCallSeen ==
  ASSUME Inv, NEW c \in Client, Return(c) \/ Timeout(c)
  PROVE  /\ SeenCalls' = [SeenCalls EXCEPT ![c] = NoCall] /\ LastServed' = LastServed
         /\ SeenCalls[c] # NoCall
         /\ SeenCalls[c].n = call[c].n /\ SeenCalls[c].cmd = call[c].cmd
         /\ Late' = Late \cup {r \in InHand : r.client = c /\ call[c].n = r.n}
         /\ UNCHANGED <<db, files, up>>
<1>1. call'[c] = NoCall /\ \A d \in Client : d # c => call'[d] = call[d]
  BY ExceptForm DEF Inv, TypeInv, CallType, Return, Timeout
<1>2. UNCHANGED <<db, files, up, pc, request, served, queue>> /\ call[c] # NoCall
  BY DEF Return, Timeout, serverVars
<1>3. ASSUME NEW d \in Client PROVE Seen(d)' = IF d = c THEN NoCall ELSE Seen(d)
  BY <1>1, <1>2 DEF Seen, NoCall
<1>4. SeenCalls' = [SeenCalls EXCEPT ![c] = NoCall] /\ LastServed' = LastServed
  BY <1>2, <1>3 DEF SeenCalls, LastServed
<1>5. SeenCalls[c] # NoCall /\ SeenCalls[c].n = call[c].n /\ SeenCalls[c].cmd = call[c].cmd
  <2>1. call[c].n \in Nat \ {0}
    BY <1>2 DEF Inv, TypeInv, CallType, IsCall
  <2>2. SeenCalls[c].n = call[c].n /\ SeenCalls[c].cmd = call[c].cmd
    BY <1>2 DEF SeenCalls, Seen
  <2>3. QED
    BY <2>1, <2>2 DEF NoCall
<1>6. InHand' = InHand
  BY <1>2 DEF InHand
<1>7. ASSUME NEW r \in InHand
      PROVE  call'[r.client].n # r.n <=> call[r.client].n # r.n \/ (r.client = c /\ call[c].n = r.n)
  <2>1. r.client \in Client /\ r.n \in Nat \ {0}
    BY HandType
  <2>2. CASE r.client = c
    BY <1>1, <2>1, <2>2 DEF NoCall
  <2>3. CASE r.client # c
    BY <1>1, <2>1, <2>3
  <2>4. QED
    BY <2>2, <2>3
<1>8. Late' = Late \cup {r \in InHand : r.client = c /\ call[c].n = r.n}
  BY <1>6, <1>7 DEF Late
<1>9. QED
  BY <1>2, <1>4, <1>5, <1>8

LEMMA StepReturn ==
  ASSUME Inv, NEW c \in Client, Return(c)
  PROVE  Calls!Return(c)
<1>1. call[c] # NoCall /\ call[c].answer # Pending
  BY DEF Return
<1>2. served[c].n = call[c].n /\ served[c].reply = call[c].answer
  BY <1>1 DEF Inv, OrderInv, AnswerInv
<1>3. SeenCalls[c].answer # Pending
  BY <1>1, <1>2 DEF SeenCalls, Seen
<1>4. {r \in InHand : r.client = c /\ call[c].n = r.n} = {}
  BY <1>1, HandCall
<1>5. QED
  BY <1>3, <1>4, EndOfCallSeen, SeenReturn

LEMMA StepTimeout ==
  ASSUME Inv, NEW c \in Client, Timeout(c)
  PROVE  Calls!GiveUp(c)
<1> DEFINE mine == [client |-> c, n |-> SeenCalls[c].n, cmd |-> SeenCalls[c].cmd]
           ended == {r \in InHand : r.client = c /\ call[c].n = r.n}
<1>1. /\ SeenCalls[c].n = call[c].n /\ SeenCalls[c].cmd = call[c].cmd
      /\ Late' = Late \cup ended
  BY EndOfCallSeen
<1>2. ASSUME NEW r \in ended PROVE r = mine
  <2>1. r = [client |-> c, n |-> call[c].n, cmd |-> r.cmd] /\ call[c].cmd = r.cmd
    BY <1>2, HandType, HandCall
  <2>2. QED
    BY <1>1, <2>1
<1> HIDE DEF mine, ended
<1>3. ended = {} \/ ended = {mine}
  BY <1>2
<1>4. Late' = Late \/ Late' = Late \cup {mine}
  BY <1>1, <1>3
<1>5. QED
  BY <1>4, EndOfCallSeen, SeenGiveUp DEF mine

LEMMA StepCrash ==
  ASSUME Crash
  PROVE  Calls!Crash
<1>1. /\ up' = FALSE /\ db' = Calls!Loaded(files)
      /\ queue' = <<>> /\ pc' = "read" /\ UNCHANGED <<files, served, call>>
  BY SameCommands DEF Crash
<1>2. ToSet(queue') = {}
  BY <1>1 DEF ToSet
<1>3. Late' = {} /\ SeenCalls' = SeenCalls /\ LastServed' = LastServed
  BY <1>1, <1>2 DEF Late, InHand, SeenCalls, Seen, LastServed, NoCall
<1>4. QED
  BY <1>1, <1>3 DEF Calls!Crash, Late, InHand, SeenCalls, Seen, LastServed, NoCall

LEMMA StepRestart ==
  ASSUME Restart
  PROVE  Calls!Restart
<1>1. ~up /\ Calls!Starts(files) /\ up' = TRUE /\ UNCHANGED <<db, files, pc, request, served, queue, call>>
  BY SameCommands DEF Restart
<1>2. QED
  BY <1>1 DEF Calls!Restart, NoCall

LEMMA CallsInit == Init => Calls!Init
<1> SUFFICES ASSUME Init PROVE Calls!Init
  OBVIOUS
<1>1. /\ queue = <<>> /\ pc = "read" /\ db = Calls!Start /\ up = TRUE
      /\ \A c \in Client : call[c] = NoCall /\ served[c].n = 0
  BY DEF Init
<1>2. files = [layout |-> Calls!Start.lay.layers, variables |-> Calls!Start.value, torn |-> {}]
  BY DEF Init
<1>3. ToSet(queue) = {}
  BY <1>1 DEF ToSet
<1>4. Late = {} /\ SeenCalls = [c \in Client |-> NoCall] /\ LastServed = [c \in Client |-> 0]
  BY <1>1, <1>3 DEF Late, InHand, SeenCalls, Seen, LastServed
<1>5. QED
  BY <1>1, <1>2, <1>4 DEF Calls!Init, Late, InHand, SeenCalls, Seen, LastServed, Calls!NoCall, NoCall

LEMMA CallsStep ==
  ASSUME Inv, [Next]_vars
  PROVE  [Calls!Next]_(Calls!vars)
<1>1. CASE \E c \in Client : Return(c)
  BY <1>1, StepReturn DEF Calls!Next
<1>2. CASE \E c \in Client : Timeout(c)
  BY <1>2, StepTimeout DEF Calls!Next
<1>3. CASE \E c \in Client : \E cmd \in Commands[c] : Invoke(c, cmd)
  <2>1. PICK c \in Client : \E cmd \in Commands[c] : Invoke(c, cmd)
    BY <1>3
  <2>2. \E n \in 1 .. MaxCalls[c], k \in Command : Calls!Invoke(c, n, k)
    BY <2>1, StepInvoke
  <2>3. Calls!Command = Command
    BY DEF Calls!Command, Command, Calls!Indices, Indices, Calls!Layers, Layers
  <2>4. QED
    BY <2>2, <2>3 DEF Calls!Next
<1>4. ASSUME NEW r, DropInvalid(r) \/ Serve(r) \/ CreateFile(r)
      PROVE  Calls!Next \/ UNCHANGED Calls!vars
  <2>1. CASE DropInvalid(r) \/ (Serve(r) /\ Panics(r.cmd, db))
    <3>1. (\E x \in Late : Calls!Forget(x)) \/ UNCHANGED Calls!vars
      BY <2>1, StepDropped DEF DropInvalid, Serve, AfterInvalid
    <3>2. QED
      BY <3>1 DEF Calls!Next, Late, InHand
  <2>2. CASE Serve(r) /\ ~Panics(r.cmd, db)
    BY <2>2, StepServe DEF Calls!Next
  <2>3. CASE CreateFile(r)
    BY <2>3, StepCreateFile DEF Calls!Next
  <2>4. QED
    BY <1>4, <2>1, <2>2, <2>3
<1>5. CASE WriteFile
  BY <1>5, StepWriteFile DEF Calls!Next
<1>6. CASE WriteReply
  BY <1>6, StepWriteReply
<1>7. CASE Crash
  BY <1>7, StepCrash DEF Calls!Next
<1>8. CASE Restart
  BY <1>8, StepRestart DEF Calls!Next
<1>9. CASE UNCHANGED vars
  BY <1>9 DEF vars, serverVars, Calls!vars, NoCall
<1>10. QED
  BY <1>1, <1>2, <1>3, <1>4, <1>5, <1>6, <1>7, <1>8, <1>9 DEF Next, Server

(* The server and its clients implement RpcCalls: each call takes effect   *)
(* at one moment between its beginning and its end and is answered by what *)
(* it did then, one that was given up at most once and before any later    *)
(* call of its client, and a save answered by "true" is in the file. For   *)
(* any clients, commands, values and number of calls (ConfigRPC::start,    *)
(* the senders of lib/key-rpc).                                            *)
THEOREM CallsImplemented == Spec => CallsImplement
<1>1. Spec => Calls!Spec
  BY CallsInit, CallsStep, InvCorrect, PTL DEF Spec, Calls!Spec
<1>2. QED
  BY <1>1 DEF CallsImplement
=============================================================================
