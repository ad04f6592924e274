------------------------------ MODULE Processes ------------------------------
(***************************************************************************)
(* The child processes of the server: the commands of the screen's         *)
(* terminal and the scripts of its script interface                        *)
(* (ws-1in5-driver/src/lib.rs), and the commands of the command pool       *)
(* (cmd.rs).                                                               *)
(*                                                                         *)
(* One thread calls all handlers of the screen. What a terminal command    *)
(* writes is read by a task of the screen's runtime, line by line and in   *)
(* turn from stdout and from stderr; a script has a task that waits for    *)
(* its end, and nobody reads what it writes. These tasks hold one of the   *)
(* runtime's workers from their start to their end: they wait by blocking. *)
(* A task that is aborted stops if it did not start yet, or where it waits *)
(* for the lock of the lines that were read, and nowhere else.             *)
(*                                                                         *)
(* A command is the sequence of lines that it writes; when it ends is left *)
(* open, and what a killed bash may leave behind is not modelled. The      *)
(* interfaces without processes are all "Home" here.                       *)
(***************************************************************************)
EXTENDS Integers, Sequences, FiniteSets, SequencesExt

CONSTANTS
  Program,    \* the commands: the lines that each writes
  Workers,    \* the workers of the screen's runtime
  PipeSize,   \* the lines that a pipe and the reader's buffer hold
  MaxRun      \* bound: the commands that are started

(* A line is written to stdout or to stderr; a bad one is no UTF-8.        *)
Stream == {"out", "err"}
Quality == {"good", "bad"}
Lines == [stream : Stream, quality : Quality]

ASSUME ProgramAssumption == Program \subseteq Seq(Lines)
ASSUME SizesAssumption == Workers \in Nat \ {0} /\ PipeSize \in Nat \ {0} /\ MaxRun \in Nat

VARIABLES
  curr,         \* ScreenHid.curr_state
  page,         \* Scripts.state
  last_script,  \* Scripts.last_script, if there is one
  process,      \* TermState.process: the command that the terminal runs
  process_out,  \* TermState.process_out: the task that reads for it
  output,       \* TermState.output
  stdout,       \* TermState.stdout, shared by all readers
  phase,        \* "starting" while the handler sleeps after it started a command
  child,        \* external: the processes, as the system keeps them
  task,         \* the reader or the waiter of each command
  aborted,      \* the tasks that were aborted
  behind        \* history: the readers that had not ended when stdout was emptied

screenVars == <<curr, page, last_script, phase>>
termVars == <<process, process_out, output>>
procVars == <<screenVars, termVars, stdout, child, task, aborted, behind>>

None == 0     \* no process: they are numbered from 1
NoOutput == [run |-> None, lines |-> <<>>]
Interface == {"Home", "Term", "Script"}

ProcInit ==
  /\ curr = "Home"
  /\ page = "Home" /\ last_script = <<>>
  /\ phase = "idle"
  /\ process = None /\ process_out = None /\ output = NoOutput
  /\ stdout = <<>> /\ behind = {}
  /\ child = <<>> /\ task = <<>> /\ aborted = {}

-----------------------------------------------------------------------------
(* The processes: the lines that a command has yet to write; those that it *)
(* has written to each stream; how many of these have been read; and       *)
(* whether somebody holds the other end of its pipes.                      *)
Unread(c, s) == Len(child[c].written[s]) - child[c].taken[s]
Piped(c) == child[c].keeper # "pool"
Busy == {c \in DOMAIN task : task[c] \in {"out", "err", "waiting"}}

(* A command is started, with the task that is spawned for it. The pool    *)
(* has a thread of its own.                                                *)
Spawned(keeper, prog) ==
  /\ Len(child) < MaxRun
  /\ child' = Append(child, [keeper |-> keeper, left |-> prog,
                             written |-> [s \in Stream |-> <<>>],
                             taken |-> [s \in Stream |-> 0], state |-> "running"])
  /\ task' = Append(task, IF keeper = "pool" THEN "none" ELSE "queued")

Killed(c) == IF c # None /\ child[c].state = "running"
             THEN [child EXCEPT ![c].state = "ended"]
             ELSE child

(* A pipe takes a line while it is not full and somebody reads it.         *)
NextStream(c) == Head(child[c].left).stream
CanWrite(c) ==
  Piped(c) => task[c] # "ended" /\ Unread(c, NextStream(c)) < PipeSize

HasMore(c) == child[c].state = "running" /\ child[c].left # <<>>

Write(c) ==
  /\ HasMore(c) /\ CanWrite(c)
  /\ child' = [child EXCEPT ![c].left = Tail(@),
                            ![c].written[NextStream(c)] = Append(@, Head(child[c].left).quality)]
  /\ UNCHANGED <<screenVars, termVars, stdout, task, aborted, behind>>

Ends(c) ==
  /\ child' = [child EXCEPT ![c].state = "ended"]
  /\ UNCHANGED <<screenVars, termVars, stdout, task, aborted, behind>>

End(c) == child[c].state = "running" /\ ~HasMore(c) /\ Ends(c)

(* It writes to a pipe whose reader is gone, which ends it.                *)
BugBroken(c) == FALSE /\ Ends(c)
Broken(c) == HasMore(c) /\ Piped(c) /\ task[c] = "ended" /\ Ends(c)

-----------------------------------------------------------------------------
(* The tasks. *)
IsReader(c) == child[c].keeper = "term"

Start(c) ==
  /\ task[c] = "queued"
  /\ Cardinality(Busy) < Workers
  /\ task' = [task EXCEPT ![c] = IF c \in aborted THEN "ended"
                                 ELSE IF IsReader(c) THEN "out" ELSE "waiting"]
  /\ UNCHANGED <<screenVars, termVars, stdout, child, aborted, behind>>

OtherStream(s) == IF s = "out" THEN "err" ELSE "out"

(* The reader takes a line and adds it to stdout, unless it is a bad one;  *)
(* a bad line of stderr ends it. If it is aborted, it may end at the lock. *)
ReadLine(c) ==
  LET s == task[c]
      n == child[c].taken[s] + 1
      bad == child[c].written[s][n] = "bad"
  IN  /\ s \in Stream /\ Unread(c, s) > 0
      /\ child' = [child EXCEPT ![c].taken[s] = n]
      /\ \/ /\ stdout' = IF bad THEN stdout
                         ELSE Append(stdout, [child |-> c, stream |-> s, n |-> n])
            /\ task' = [task EXCEPT ![c] = IF bad /\ s = "err" THEN "ended" ELSE OtherStream(s)]
         \/ /\ c \in aborted /\ ~bad
            /\ task' = [task EXCEPT ![c] = "ended"]
            /\ UNCHANGED stdout
      /\ UNCHANGED <<screenVars, termVars, aborted, behind>>

(* At the end of a stream it goes on with the other one, for ever.         *)
Eof(c) ==
  LET s == task[c]
  IN  /\ s \in Stream /\ Unread(c, s) = 0 /\ child[c].state # "running"
      /\ task' = [task EXCEPT ![c] = OtherStream(s)]
      /\ UNCHANGED <<screenVars, termVars, stdout, child, aborted, behind>>

(* The task of a script looks again and again until it has ended.          *)
BugScriptReap(c) ==
  /\ task[c] = "waiting"
  /\ child' = IF child[c].state = "running" THEN child ELSE [child EXCEPT ![c].state = "reaped"]
  /\ task' = [task EXCEPT ![c] = "ended"]
  /\ UNCHANGED <<screenVars, termVars, stdout, aborted, behind>>

ScriptReap(c) ==
  /\ task[c] = "waiting" /\ child[c].state # "running"
  /\ child' = [child EXCEPT ![c].state = "reaped"]
  /\ task' = [task EXCEPT ![c] = "ended"]
  /\ UNCHANGED <<screenVars, termVars, stdout, aborted, behind>>

(* The command pool: the functions that start commands, and the thread     *)
(* that goes over them, with their lock, every 100 ms. These write where   *)
(* the server writes.                                                      *)
Bash ==
  /\ Spawned("pool", <<>>)
  /\ UNCHANGED <<screenVars, termVars, stdout, aborted, behind>>

Reapable == {c \in DOMAIN child : child[c].keeper = "pool" /\ child[c].state = "ended"}

PoolReap ==
  /\ Reapable # {}
  /\ child' = [c \in DOMAIN child |-> IF c \in Reapable
                                      THEN [child[c] EXCEPT !.state = "reaped"]
                                      ELSE child[c]]
  /\ UNCHANGED <<screenVars, termVars, stdout, task, aborted, behind>>

-----------------------------------------------------------------------------
(* The screen. *)
InTerm == curr = "Term" /\ phase = "idle"
InScripts == curr = "Script" /\ phase = "idle"
BugAbort == aborted' = aborted \cup {process_out}
Abort ==
  aborted' = IF process_out # None /\ task[process_out] # "ended"
             THEN aborted \cup {process_out}
             ELSE aborted

(* The interface that is left stops its command, whether or not it is the  *)
(* one that is entered next.                                               *)
BugLeave(next) ==
  IF curr = "Term" /\ next # "Term" THEN child' = Killed(process) /\ Abort
  ELSE UNCHANGED <<child, aborted>>

Leave(next) ==
  IF curr = "Term" THEN child' = Killed(process) /\ Abort
  ELSE UNCHANGED <<child, aborted>>

ChangeState(next) ==
  /\ phase = "idle"
  /\ Leave(next)
  /\ curr' = next
  /\ IF "Term" \in {curr, next}
     THEN process' = None /\ process_out' = None
     ELSE UNCHANGED <<process, process_out>>
  /\ output' = IF next = "Term" THEN NoOutput ELSE output
  /\ page' = IF next = "Script" THEN "Home" ELSE page
  /\ UNCHANGED <<last_script, phase, stdout, task, behind>>

BugEmptied == stdout
Emptied == <<>>

(* ENTER: the lines read so far are forgotten, but not those who read.     *)
RunCommand(prog) ==
  /\ InTerm /\ process = None /\ output = NoOutput
  /\ stdout' = Emptied
  /\ behind' = {c \in DOMAIN task : IsReader(c) /\ task[c] # "ended"}
  /\ \/ /\ Spawned("term", prog)
        /\ process' = Len(child) + 1 /\ process_out' = Len(child) + 1
        /\ phase' = "starting"
     \/ UNCHANGED <<child, task, process, process_out, phase>>  \* bash cannot be started
  /\ UNCHANGED <<curr, page, last_script, output, aborted>>

(* The command that the terminal runs has ended: its output is what was    *)
(* read so far.                                                            *)
TakeOutput ==
  /\ child' = [child EXCEPT ![process].state = "reaped"]
  /\ process' = None /\ process_out' = None
  /\ Abort
  /\ output' = [run |-> process, lines |-> stdout]

CheckStarted ==
  /\ phase = "starting" /\ phase' = "idle"
  /\ IF child[process].state = "running"
     THEN UNCHANGED <<child, termVars, aborted>>
     ELSE TakeOutput
  /\ UNCHANGED <<curr, page, last_script, stdout, task, behind>>

PollCommand ==
  /\ InTerm /\ process # None
  /\ child[process].state # "running"
  /\ TakeOutput
  /\ UNCHANGED <<screenVars, stdout, task, behind>>

(* ESC, or Ctrl-C. *)
KillCommand ==
  /\ InTerm /\ process # None
  /\ child' = Killed(process)
  /\ process' = None
  /\ UNCHANGED <<screenVars, process_out, output, stdout, task, aborted, behind>>

CloseOutput ==
  /\ InTerm /\ process = None /\ output # NoOutput
  /\ output' = NoOutput
  /\ UNCHANGED <<screenVars, process, process_out, stdout, child, task, aborted, behind>>

ChoosePage(p) ==
  /\ InScripts /\ page = "Home" /\ page' = p
  /\ UNCHANGED <<curr, last_script, phase, termVars, stdout, child, task, aborted, behind>>

LeavePage ==
  /\ InScripts /\ page # "Home" /\ page' = "Home"
  /\ UNCHANGED <<curr, last_script, phase, termVars, stdout, child, task, aborted, behind>>

(* The list of bork scripts is never filled: none of them is ever run.     *)
RunScript(prog) ==
  /\ InScripts /\ page = "Ducky"
  /\ page' = "Home" /\ last_script' = <<prog>>
  /\ Spawned("script", prog) \/ UNCHANGED <<child, task>>
  /\ UNCHANGED <<curr, phase, termVars, stdout, aborted, behind>>

RunLast ==
  /\ InScripts /\ page = "Home" /\ last_script # <<>>
  /\ Spawned("script", last_script[1])
  /\ UNCHANGED <<screenVars, termVars, stdout, aborted, behind>>

-----------------------------------------------------------------------------
Screen ==
  \/ \E next \in Interface : ChangeState(next)
  \/ \E prog \in Program : RunCommand(prog) \/ RunScript(prog)
  \/ CheckStarted \/ PollCommand \/ KillCommand \/ CloseOutput
  \/ \E p \in {"Ducky", "Bork"} : ChoosePage(p)
  \/ LeavePage \/ RunLast

Reader(c) == ReadLine(c) \/ Eof(c)

ProcNext ==
  \/ Screen
  \/ Bash \/ PoolReap
  \/ \E c \in DOMAIN child :
       Write(c) \/ End(c) \/ Broken(c) \/ Start(c) \/ Reader(c) \/ ScriptReap(c)

(* A broken pipe ends its command; tasks that have started run; a worker   *)
(* that is free takes tasks from the queue, none of which is passed over   *)
(* for ever. Commands need not end, and nobody need press a key.           *)
ProcFairness ==
  /\ WF_procVars(PoolReap)
  /\ \A c \in 1..MaxRun :
       /\ WF_procVars(c \in DOMAIN child /\ Broken(c))
       /\ WF_procVars(c \in DOMAIN child /\ Reader(c))
       /\ WF_procVars(c \in DOMAIN child /\ ScriptReap(c))
       /\ SF_procVars(c \in DOMAIN child /\ Start(c))

ProcSpec == ProcInit /\ [][ProcNext]_procVars /\ ProcFairness

-----------------------------------------------------------------------------
ReadLines == [child : 1..MaxRun, stream : Stream, n : Nat \ {0}]

(* The variables keep their types, and every command its task.             *)
ProcTypeOK ==
  /\ curr \in Interface
  /\ page \in {"Home", "Ducky", "Bork"} /\ last_script \in {<<>>} \cup {<<prog>> : prog \in Program}
  /\ phase \in {"idle", "starting"}
  /\ {process, process_out, output.run} \subseteq {None} \cup DOMAIN child
  /\ output.lines \in Seq(ReadLines) /\ stdout \in Seq(ReadLines)
  /\ child \in Seq([keeper : {"term", "script", "pool"}, left : Seq(Lines),
                    written : [Stream -> Seq(Quality)], taken : [Stream -> Nat],
                    state : {"running", "ended", "reaped"}])
  /\ task \in Seq({"none", "queued", "out", "err", "waiting", "ended"})
  /\ DOMAIN task = DOMAIN child
  /\ aborted \subseteq DOMAIN child /\ behind \subseteq DOMAIN child

(* A command of the terminal runs only while the terminal shows that it    *)
(* does, so that whoever started it can end it: no change of interface,    *)
(* not even from the terminal to itself, and no end of another command     *)
(* leaves one running behind the screen.                                   *)
NothingRunsUnseen ==
  \A c \in DOMAIN child :
    IsReader(c) /\ child[c].state = "running" => process = c /\ curr = "Term"

(* The output that is shown for a command has the first lines that it      *)
(* wrote to each stream, in order, each once and none left out but the bad *)
(* ones; what else it has was read late for an earlier command, whose      *)
(* reader had not ended when this one was started.                         *)
OutputExplained ==
  LET c == output.run
      shown == output.lines
      Places(s) == {i \in DOMAIN shown : shown[i].child = c /\ shown[i].stream = s}
  IN  c # None =>
        /\ \A s \in Stream :
             /\ \A i, j \in Places(s) : i < j => shown[i].n < shown[j].n
             /\ \A i \in Places(s) :
                  /\ shown[i].n <= Len(child[c].written[s])
                  /\ \A n \in 1 .. shown[i].n :
                       child[c].written[s][n] = "good" <=> \E k \in Places(s) : shown[k].n = n
        /\ \A i \in DOMAIN shown : shown[i].child = c \/ shown[i].child \in behind

Is(c, keepers, state) ==
  c \in DOMAIN child /\ child[c].keeper \in keepers /\ child[c].state = state

(* A script or a command of the pool that has ended is waited for, so that *)
(* the system forgets it, unless all workers are taken for good: by        *)
(* readers, which never end, and by scripts that go on.                    *)
EndedReaped ==
  \A c \in 1..MaxRun :
    Is(c, {"script", "pool"}, "ended")
      ~> \/ Is(c, {"script", "pool"}, "reaped")
         \/ Is(c, {"script"}, "ended") /\ Cardinality(Busy) = Workers

WaitsToWrite(c) == Is(c, {"term"}, "running") /\ HasMore(c) /\ ~CanWrite(c)

ReaderWaits(c) == task[c] = OtherStream(NextStream(c)) /\ Unread(c, task[c]) = 0

(* A command of the terminal that waits for its pipe to be read goes on,   *)
(* or ends, unless its reader never starts, or waits for ever for a line   *)
(* of the other stream.                                                    *)
WritersServed ==
  \A c \in 1..MaxRun :
    WaitsToWrite(c) ~> ~WaitsToWrite(c) \/ task[c] = "queued" \/ ReaderWaits(c)
=============================================================================
