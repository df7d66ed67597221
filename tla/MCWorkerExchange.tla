-------------------------- MODULE MCWorkerExchange --------------------------
(* TLC instances of WorkerExchange: every configuration; a worker that answers *)
(* may answer once, the stream worker twice: a ready frame and a result.       *)
EXTENDS WorkerExchange

FramesWritten == [k \in Kids |-> CASE k = "helper" -> 0 [] k = "stream" -> 2 [] OTHER -> 1]
=============================================================================
