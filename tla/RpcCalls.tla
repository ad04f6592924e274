------------------------------ MODULE RpcCalls ------------------------------
(***************************************************************************)
(* What the configuration RPC promises its clients. A call takes effect at *)
(* one moment, between its beginning and its end, and its answer is that   *)
(* of this moment. A call that is given up takes effect at most once, then *)
(* or later, but not after one that the same client made later. A save     *)
(* that is answered by "true" has written what was there at its moment; no *)
(* file is lost but by a save that is under way or failed. A server that   *)
(* starts again has what the files have.                                   *)
(***************************************************************************)
EXTENDS RpcCommands

CONSTANTS
  Client,    \* the clients
  MaxCalls   \* bound: the calls that each makes

VARIABLES
  db,      \* what the commands read and change
  files,   \* the files
  up,      \* whether the server runs
  call,    \* the call that each client waits for
  late,    \* the requests of calls that were given up and may still take effect
  last     \* the last request of each client that took effect

vars == <<db, files, up, call, late, last>>

NoCall == [n |-> 0]
Pending == "pending"

Start == [lay   |-> [layers |-> <<"fits">>, cur_layer |-> 0, shift_from |-> <<>>],
          value |-> CHOOSE v \in Value : TRUE]

Init ==
  /\ db = Start
  /\ files = [layout |-> Start.lay.layers, variables |-> Start.value, torn |-> {}]
  /\ up = TRUE
  /\ call = [c \in Client |-> NoCall]
  /\ late = {}
  /\ last = [c \in Client |-> 0]

Request(c) == [client |-> c, n |-> call[c].n, cmd |-> call[c].cmd]
Waits(c) == call[c] # NoCall /\ call[c].answer = Pending

(* The requests that may take effect. *)
Open == late \cup {Request(c) : c \in {c \in Client : Waits(c)}}

Invoke(c, n, cmd) ==
  /\ call[c] = NoCall /\ n > last[c] /\ \A r \in late : r.client = c => n > r.n
  /\ call' = [call EXCEPT ![c] = [n |-> n, cmd |-> cmd, answer |-> Pending]]
  /\ UNCHANGED <<db, files, up, late, last>>

Answered(r, reply) ==
  /\ last' = [last EXCEPT ![r.client] = r.n]
  /\ call' = IF Waits(r.client) /\ call[r.client].n = r.n
             THEN [call EXCEPT ![r.client].answer = reply]
             ELSE call
  /\ late' = late \ {r}

TakeEffect(r) ==
  /\ up /\ IsValid(r.cmd) /\ r.n > last[r.client]
  /\ \/ /\ ~IsSave(r.cmd) /\ ~Panics(r.cmd, db)
        /\ db' = Effect(r.cmd, db)
        /\ Answered(r, Reply(r.cmd, db))
        /\ UNCHANGED files
     \/ /\ IsSave(r.cmd)
        /\ files' = Save(files, r.cmd, db)
        /\ Answered(r, "true")
        /\ UNCHANGED db
     \/ /\ IsSave(r.cmd)
        /\ Answered(r, "false")
        /\ UNCHANGED <<db, files>>
  /\ UNCHANGED up

(* A save that has not taken effect has emptied its file.                  *)
BeginSave(r) ==
  /\ up /\ IsSave(r.cmd)
  /\ files' = Tear(files, r.cmd)
  /\ UNCHANGED <<db, up, call, late, last>>

Return(c) ==
  /\ call[c] # NoCall /\ call[c].answer # Pending
  /\ call' = [call EXCEPT ![c] = NoCall]
  /\ UNCHANGED <<db, files, up, late, last>>

GiveUp(c) ==
  /\ call[c] # NoCall
  /\ call' = [call EXCEPT ![c] = NoCall]
  /\ late' = late \/ late' = late \cup {Request(c)}
  /\ UNCHANGED <<db, files, up, last>>

Forget(r) == late' = late \ {r} /\ UNCHANGED <<db, files, up, call, last>>

(* What was not saved is lost. *)
Crash == up' = FALSE /\ db' = Loaded(files) /\ late' = {} /\ UNCHANGED <<files, call, last>>

Restart == ~up /\ Starts(files) /\ up' = TRUE /\ UNCHANGED <<db, files, call, late, last>>

Next ==
  \/ \E c \in Client : Return(c) \/ GiveUp(c) \/ \E n \in 1..MaxCalls[c], cmd \in Command : Invoke(c, n, cmd)
  \/ \E r \in Open : TakeEffect(r) \/ BeginSave(r)
  \/ \E r \in late : Forget(r)
  \/ Crash \/ Restart

Spec == Init /\ [][Next]_vars
=============================================================================
