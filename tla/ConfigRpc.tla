------------------------------ MODULE ConfigRpc ------------------------------
(***************************************************************************)
(* The configuration RPC (config_rpc.rs) and its clients (key-rpc):        *)
(* requests and replies, timeouts, saving in two steps, a server that ends *)
(* at any moment and starts again.                                         *)
(*                                                                         *)
(* A client has a new socket for each call, with timeouts of 100 ms. The   *)
(* server's device hands the requests on, in their order, to one thread,   *)
(* which serves them one after the other; how long it waits for the locks  *)
(* of layout and variables is left open, so that a request may be served   *)
(* after its client gave up. What other threads do to the layout meanwhile *)
(* is in KeyServer and Variables. The screen's interfaces (ws-1in5-driver)  *)
(* are clients too: their handlers wait for each call to end.              *)
(***************************************************************************)
EXTENDS RpcCommands

CONSTANTS
  Client,     \* the clients
  Commands,   \* the commands that each uses
  MaxCalls    \* bound: the calls that each makes

ASSUME CommandsAssumption == Commands \in [Client -> SUBSET Command]
ASSUME MaxCallsAssumption == MaxCalls \in [Client -> Nat]

VARIABLES
  db,         \* what the commands read and change
  files,      \* layout.json and variables.json
  up,         \* whether the server runs
  queue,      \* the requests that the RPC thread has not read
  pc,         \* where the RPC thread is: "gone" once it has panicked
  request,    \* the request that it serves
  reply,      \* what it is about to write
  call,       \* the call of each client, with what its socket received
  calls,      \* the number of calls of each so far, which tells its sockets apart
  served,     \* history: the last request of each client that took effect, and its reply
  read        \* history: the variable as each client read it last, or Changed since

serverVars == <<db, files, up, pc, request, reply, served>>
vars == <<serverVars, queue, call, calls, read>>

NoCall == [n |-> 0]
NoRequest == [n |-> 0]
Pending == "pending"
Changed == "changed"

Calls == INSTANCE RpcCalls WITH
  call <- [c \in Client |->
             IF call[c] = NoCall THEN NoCall
             ELSE [n |-> call[c].n, cmd |-> call[c].cmd,
                   answer |-> IF served[c].n = call[c].n THEN served[c].reply ELSE call[c].answer]],
  late <- {r \in ToSet(queue) \cup (IF pc = "write" THEN {request} ELSE {}) :
             call[r.client].n # r.n},
  last <- [c \in Client |-> served[c].n]

Init ==
  /\ db = Calls!Start
  /\ files = [layout |-> db.lay.layers, variables |-> db.value, torn |-> {}]
  /\ up = TRUE
  /\ queue = <<>> /\ pc = "read" /\ request = NoRequest /\ reply = ""
  /\ call = [c \in Client |-> NoCall] /\ calls = [c \in Client |-> 0]
  /\ served = [c \in Client |-> [n |-> 0, reply |-> ""]]
  /\ read = [c \in Client |-> Changed]

-----------------------------------------------------------------------------
(* A client. Without a server it cannot send, and its call fails.          *)
Invoke(c, cmd) ==
  /\ up /\ call[c] = NoCall /\ calls[c] < MaxCalls[c]
  /\ calls' = [calls EXCEPT ![c] = @ + 1]
  /\ call' = [call EXCEPT ![c] = [n |-> calls[c] + 1, cmd |-> cmd, answer |-> Pending]]
  /\ queue' = Append(queue, [client |-> c, n |-> calls[c] + 1, cmd |-> cmd])
  /\ read' = IF cmd.kind = "SetVariable" THEN [read EXCEPT ![c] = Changed] ELSE read
  /\ UNCHANGED serverVars

Return(c) ==
  /\ call[c] # NoCall /\ call[c].answer # Pending
  /\ call' = [call EXCEPT ![c] = NoCall]
  /\ UNCHANGED <<serverVars, queue, calls, read>>

Timeout(c) ==
  /\ call[c] # NoCall /\ call[c].answer = Pending
  /\ call' = [call EXCEPT ![c] = NoCall]
  /\ UNCHANGED <<serverVars, queue, calls, read>>

-----------------------------------------------------------------------------
(* The RPC thread. A request came from the socket that waits for its call. *)
BugIsFor(r, c) == call[c] # NoCall /\ r.client = c
IsFor(r, c) == call[c] # NoCall /\ r.client = c /\ call[c].n = r.n

BugNextRequest == Len(queue)
NextRequest == 1

Reads(r) ==
  /\ queue # <<>>
  /\ r = queue[NextRequest]
  /\ queue' = RemoveAt(queue, NextRequest)

Answers(r, text) ==
  /\ pc' = "reply" /\ request' = r /\ reply' = text
  /\ served' = [served EXCEPT ![r.client] = [n |-> r.n, reply |-> text]]

BugAfterInvalid == "gone"
AfterInvalid == "read"

(* A request that is no command is dropped without a reply.                *)
DropInvalid(r) ==
  /\ up /\ pc = "read" /\ Reads(r) /\ ~IsValid(r.cmd)
  /\ pc' = AfterInvalid
  /\ UNCHANGED <<db, files, up, request, reply, served, call, calls, read>>

Serve(r) ==
  /\ up /\ pc = "read" /\ Reads(r) /\ IsValid(r.cmd) /\ ~IsSave(r.cmd)
  /\ IF Panics(r.cmd, db)
     THEN pc' = "gone" /\ UNCHANGED <<db, request, reply, served>>
     ELSE db' = Effect(r.cmd, db) /\ Answers(r, Reply(r.cmd, db))
  /\ read' = [c \in Client |-> IF r.cmd.kind = "GetVariable" /\ IsFor(r, c) THEN db.value
                               ELSE IF r.cmd.kind = "SetVariable" /\ c # r.client THEN Changed
                               ELSE read[c]]
  /\ UNCHANGED <<files, up, call, calls>>

(* File::create empties the file, if it can.                               *)
CreateFile(r) ==
  /\ up /\ pc = "read" /\ Reads(r) /\ IsSave(r.cmd)
  /\ \/ /\ files' = Tear(files, r.cmd)
        /\ pc' = "write" /\ request' = r
        /\ UNCHANGED <<reply, served>>
     \/ UNCHANGED files /\ Answers(r, "false")
  /\ UNCHANGED <<db, up, call, calls, read>>

WriteFile ==
  /\ up /\ pc = "write"
  /\ \/ files' = Save(files, request.cmd, db) /\ Answers(request, "true")
     \/ UNCHANGED files /\ Answers(request, "false")
  /\ UNCHANGED <<db, up, queue, call, calls, read>>

(* The reply reaches the socket that waits for it, if one does and the     *)
(* write does not time out.                                                *)
WriteReply ==
  /\ up /\ pc = "reply"
  /\ pc' = "read" /\ request' = NoRequest /\ reply' = ""
  /\ \/ call' = [c \in Client |-> IF IsFor(request, c) THEN [call[c] EXCEPT !.answer = reply]
                                  ELSE call[c]]
     \/ UNCHANGED call
  /\ UNCHANGED <<db, files, up, served, queue, calls, read>>

Server ==
  \/ \E r \in ToSet(queue) : DropInvalid(r) \/ Serve(r) \/ CreateFile(r)
  \/ WriteFile \/ WriteReply

(* The server ends, with what it was doing and all that it did not save.   *)
(* It is started again, if layout.json can be read; a socket connects      *)
(* again, to repeat its request, when its call has been given up.          *)
Crash ==
  /\ up /\ up' = FALSE /\ db' = Loaded(files)
  /\ queue' = <<>> /\ pc' = "read" /\ request' = NoRequest /\ reply' = ""
  /\ read' = [c \in Client |-> Changed]
  /\ UNCHANGED <<files, served, call, calls>>

Restart ==
  /\ ~up /\ Starts(files)
  /\ up' = TRUE
  /\ UNCHANGED <<db, files, pc, request, reply, served, queue, call, calls, read>>

Next ==
  \/ \E c \in Client : Return(c) \/ Timeout(c) \/ \E cmd \in Commands[c] : Invoke(c, cmd)
  \/ Server \/ Crash \/ Restart

(* The thread runs, and gets the locks in the end.                         *)
Spec == Init /\ [][Next]_vars /\ WF_vars(Server)

-----------------------------------------------------------------------------
RpcRequest == [client : Client, n : Nat \ {0}, cmd : Command]

(* The variables keep their types; only a save that writes or has failed   *)
(* leaves a torn file.                                                     *)
TypeOK ==
  /\ up \in BOOLEAN
  /\ db.lay.layers \in Seq({"fits"}) /\ db.lay.cur_layer \in Nat /\ db.value \in Value \cup {None}
  /\ files.torn \subseteq {"layout", "variables"}
  /\ queue \in Seq(RpcRequest) /\ request \in {NoRequest} \cup RpcRequest
  /\ pc \in {"read", "write", "reply", "gone"}
  /\ pc = "write" => IsSave(request.cmd) /\ FileOf(request.cmd) \in files.torn
  /\ \A c \in Client : call[c] # NoCall => call[c].n = calls[c]
  /\ \A c \in Client : read[c] \in Value \cup {None, Changed}
  /\ \A c \in Client : served[c].n \in 0..calls[c]
  /\ \A c \in Client : calls[c] \in 0..MaxCalls[c]

(* What a client has read of the variable is so until it sets it itself,   *)
(* another client does, or the server ends: a call that the client gave up *)
(* before never changes the value that it has read, and perhaps edits.     *)
ReadsStay == \A c \in Client : read[c] # Changed => db.value = read[c]

(* The calls are those of RpcCalls: each takes effect once, at one moment, *)
(* if it is answered, at most once if it times out, in the order of its    *)
(* client's calls, and a save that is answered by "true" can be read; no   *)
(* call is answered with the reply to another.                             *)
CallsImplement == Calls!Spec

IsQueued(c, n) == \E r \in ToSet(queue) : r.client = c /\ r.n = n /\ IsValid(r.cmd)

(* Every command that reaches the server takes effect, whatever requests   *)
(* came before it and whether or not its client still waits, unless the    *)
(* server ends, or the thread has panicked for a layer that does not exist.*)
RequestsServed ==
  \A c \in Client : \A n \in 1..MaxCalls[c] :
    IsQueued(c, n) ~> \/ served[c].n = n
                      \/ ~up
                      \/ pc = "gone" /\ ~HasLayer(db.lay, db.lay.cur_layer)
=============================================================================
