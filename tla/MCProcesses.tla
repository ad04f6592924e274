----------------------------- MODULE MCProcesses -----------------------------
(* Two commands on two workers: one that writes more to stderr than its    *)
(* pipe and its reader take, which waits for stdout; one that ends its     *)
(* reader with a bad line and then writes to a closed pipe.                *)
EXTENDS Processes

Line(s) == [stream |-> s, quality |-> "good"]
BadLine(s) == [stream |-> s, quality |-> "bad"]

MCProgram ==
  {<<Line("out"), Line("err"), Line("err"), Line("err")>>,
   <<BadLine("out"), BadLine("err"), Line("out")>>}
=============================================================================
