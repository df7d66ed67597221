------------------------ MODULE WorkerExchangeProofs ------------------------
(***************************************************************************)
(* Proofs about WorkerExchange, for every bound on the frames a worker     *)
(* writes. That a worker that has answered is never asked again follows    *)
(* from what its reader and its channel can hold: the channel has one      *)
(* place, so a frame begun after the ready frame is still on its way to    *)
(* the calling thread, or its first event waits there.                     *)
(***************************************************************************)
EXTENDS WorkerExchange, FiniteSetTheorems, TLAPS

-----------------------------------------------------------------------------
(* The inductive invariant *)

Stream == kid["stream"]
BatchWorker == kid["batch"]
Batched == BatchWorker.proc # "none"

\* Positions by what the calling thread is about: start, the readiness helper,
\* the probe, the stream worker at either end of its life, the batch worker.
StartPcs == {"probe", "probe_recv", "probe_reap", "request", "ready_write", "ready_recv", "join"}
HelperPcs == {"helper_wait", "helper_collect"}
ProbePcs == {"probe_recv", "probe_reap"}
ReadyPcs == {"ready_write", "ready_recv"}
FinishPcs == {"finish", "body", "allow", "line", "result_recv", "result_reap"}
BatchPcs == {"batch_write", "batch_recv", "batch_reap"}
Ending == host.pc \in {"terminate", "grace"}

\* Which worker a position is about, where terminate returns to, and when the
\* stream worker may be running, a result be set or a batch worker exist.
PhaseInv ==
  /\ host.startup <=> host.pc \in StartPcs \/ (Ending /\ host.ret = "join")
  /\ Ending => /\ host.kid # "helper"
               /\ host.ret \in {"unsent", "quiet", "batch"} =>
                    host.kid = "stream" /\ host.running
  /\ host.pc \in {"resolve", "helper_wait"} => host.kid = "helper"
  /\ host.pc \in ProbePcs => host.kid = "probe"
  /\ host.pc \in ReadyPcs \cup FinishPcs \cup {"recording", "unsent", "quiet"} =>
       host.kid = "stream"
  /\ host.pc = "join" /\ host.running => host.kid = "stream"
  /\ host.pc \in BatchPcs => host.kid = "batch"
  /\ host.pc \in ReadyPcs \/ host.running => cfg.streaming
  /\ host.running => /\ host.startup => host.pc = "join"
                     /\ host.pc \notin {"resolve"} \cup HelperPcs
  /\ host.pc \in FinishPcs \cup {"unsent", "quiet"} => host.running
  /\ host.result = "ok" =>
       host.pc \in {"join", "done"} \/ (Ending /\ host.ret = "join")
  /\ Batched => \/ host.pc \in BatchPcs \cup {"done"}
                \/ Ending /\ host.kid = "batch" /\ host.ret = "done"

\* A helper that has not been waited for is the one the position is about.
Owing ==
  \/ host.pc \in {"helper_wait", "terminate", "grace"} \cup ProbePcs \cup ReadyPcs
                   \cup FinishPcs \cup BatchPcs
  \/ host.pc \in {"join", "recording"} /\ host.running
SupInv ==
  /\ \A k \in Kids : kid[k].proc # "none" /\ ~kid[k].reaped <=> Owing /\ k = host.kid
  /\ kid["helper"].heir => host.pc \in HelperPcs

\* Of a worker that has begun frames, n of them have been taken off its channel;
\* the first event of the next one has not, or has.
Waits(r, type) == r.chan # <<>> /\ Head(r.chan).type = type
Fresh(r, n) ==
  \/ r.chan = <<>> /\ r.rpc \in {"idle", "failed", "ended"} /\ r.bytes = n
  \/ r.chan = <<>> /\ r.rpc \in {"stamp", "started"} /\ r.bytes = n + 1
  \/ Waits(r, "started") /\ r.rpc \in {"line", "frame", "broken"} /\ r.bytes = n + 1
  \/ Waits(r, "failed") /\ ~Head(r.chan).flag /\ r.rpc = "ended" /\ r.bytes = n
Begun(r, n) ==
  \/ r.chan = <<>> /\ r.rpc \in {"line", "frame", "broken"} /\ r.bytes = n + 1
  \/ Waits(r, "frame") /\ r.rpc \in {"idle", "failed", "ended"} /\ r.bytes = n + 1
  \/ Waits(r, "frame") /\ r.rpc \in {"stamp", "started"} /\ r.bytes = n + 2
  \/ Waits(r, "failed") /\ Head(r.chan).flag /\ r.rpc = "ended" /\ r.bytes = n + 1
Heard(r, n, seen) == r.rx /\ IF seen THEN Begun(r, n) ELSE Fresh(r, n)

\* Nothing has been taken off the stream worker's channel since the ready frame.
Unheard(h) ==
  \/ h.pc \in {"join", "recording"} /\ h.running
  \/ h.pc \in {"finish", "body", "allow", "line", "unsent", "quiet"}
  \/ h.pc \in {"terminate", "grace"} /\ h.ret \in {"unsent", "quiet"}
StreamInv ==
  /\ host.pc \in {"ready_write", "batch_write"} => ~host.seen
  /\ host.pc \in ReadyPcs => Heard(Stream, 0, host.seen)
  /\ Unheard(host) => Stream.rx /\ Fresh(Stream, 1)
  /\ host.pc = "result_recv" => Heard(Stream, 1, host.seen)
  /\ host.pc \in {"batch_write", "batch_recv"} => Heard(BatchWorker, 0, host.seen)

\* The fallback: the stream worker's reader has ended without another frame.
LastInv ==
  /\ host.running /\ (host.pc = "batch" \/ (Ending /\ host.ret = "batch") \/ Batched) =>
       Stream.rpc = "ended" /\ Stream.bytes <= 1
  /\ Batched /\ host.running => ~cfg.local

\* What has been asked of the worker that answers, and what it wrote.
AnswerInv ==
  /\ host.pc \in {"result_recv", "result_reap"} => "finish" \in Stream.stdin
  /\ host.pc \in {"batch_recv", "batch_reap"} => "request" \in BatchWorker.stdin
  /\ host.pc = "result_reap" => Stream.bytes > 1
  /\ host.pc = "batch_reap" => BatchWorker.bytes > 0

ExchangeInv ==
  /\ TypeOK /\ PhaseInv /\ SupInv /\ StreamInv /\ LastInv /\ AnswerInv /\ OutcomeAuthentic

-----------------------------------------------------------------------------
(* What a step does, field by field *)

USE FramesAssumption DEF vars, Kids, Steady, Contents

HostPcs == Starting \cup
  {"recording", "finish", "body", "allow", "line", "unsent", "result_recv", "result_reap",
   "quiet", "batch", "batch_write", "batch_recv", "batch_reap", "terminate", "grace", "done"}

\* The fields of the calling thread after a step, the deadline apart.
HostTo(p, k, r, running, seen, startup, result) ==
  /\ host' \in Host
  /\ host'.pc = p /\ host'.kid = k /\ host'.ret = r /\ host'.running = running
  /\ host'.seen = seen /\ host'.startup = startup /\ host'.result = result
Moves(p) ==
  HostTo(p, host.kid, host.ret, host.running, FALSE, host.startup, host.result)
Terminates(r) ==
  HostTo("terminate", host.kid, r, host.running, FALSE, host.startup, host.result)
Stays ==
  HostTo(host.pc, host.kid, host.ret, host.running, host.seen, host.startup, host.result)

KidTypes(K) == K \in [Kids -> Kid] /\ \A k \in Kids : Len(K[k].chan) <= 1

\* The process of a helper, and what the calling thread has said to it and can hear.
Ran(r) == <<r.proc, r.reaped, r.heir>>
Talk(r) == <<r.stdin, r.rpc, r.bytes>>
Others(k) == \A j \in Kids \ {k} : kid'[j] = kid[j]

\* Helper k is waited for; at most its channel is dropped with it, or others are.
Waited(k) ==
  /\ \A j \in Kids : Talk(kid'[j]) = Talk(kid[j]) /\ (j # k => Ran(kid'[j]) = Ran(kid[j]))
  /\ kid'[k].reaped /\ (kid'[k].proc = "none" <=> kid[k].proc = "none")
  /\ kid[k].proc = "ok" => kid'[k].proc = "ok"
  /\ kid'[k].heir => kid[k].heir

\* The others, and what helper k has sent, stay as they were.
Intact(k) == Others(k) /\ kid'[k].chan = kid[k].chan /\ kid'[k].rx = kid[k].rx

\* Channels are dropped, those of the helpers in ks.
Drops(ks) ==
  \A j \in Kids : /\ Talk(kid'[j]) = Talk(kid[j]) /\ Ran(kid'[j]) = Ran(kid[j])
                  /\ j \notin ks => kid'[j] = kid[j]

\* Helper k is started.
Spawned(k) ==
  /\ Others(k) /\ kid'[k].proc = "live" /\ ~kid'[k].reaped
  /\ kid'[k].rpc = "idle" /\ kid'[k].bytes = 0 /\ kid'[k].chan = <<>> /\ kid'[k].rx

\* The event at the head of k's channel is taken.
Takes(k) ==
  /\ Others(k) /\ Ran(kid'[k]) = Ran(kid[k]) /\ kid'[k].chan = <<>>
  /\ kid'[k].rpc = kid[k].rpc /\ kid'[k].bytes = kid[k].bytes /\ kid'[k].rx = kid[k].rx
  /\ k # "probe" => kid'[k].stdin = kid[k].stdin

\* Something is written to k.
Tells(k, what) ==
  /\ Others(k) /\ Ran(kid'[k]) = Ran(kid[k]) /\ kid'[k].chan = kid[k].chan
  /\ kid'[k].rpc = kid[k].rpc /\ kid'[k].bytes = kid[k].bytes /\ kid'[k].rx = kid[k].rx
  /\ what \subseteq kid'[k].stdin

\* The types, unfolded once.
LEMMA Fields ==
  ASSUME TypeOK
  PROVE  /\ host \in Host /\ host.pc \in HostPcs /\ host.kid \in Kids /\ host.ret \in Returns
         /\ host.running \in BOOLEAN /\ host.seen \in BOOLEAN /\ host.startup \in BOOLEAN
         /\ host.result \in {"none", "ok", "err"} /\ host.late \in BOOLEAN
         /\ kid \in [Kids -> Kid] /\ KidTypes(kid)
         /\ \A k \in Kids :
               /\ kid[k] \in Kid
               /\ kid[k].chan \in Seq(Events) /\ kid[k].bytes \in Nat
                            /\ Len(kid[k].chan) <= 1
  BY DEF TypeOK, Host, HostPcs, Kid, KidTypes

LEMMA GotoFields ==
  ASSUME TypeOK, NEW p \in HostPcs, Goto(p)
  PROVE  Moves(p)
  BY Fields DEF Goto, Host, HostPcs, Moves, HostTo

LEMMA TerminateFields ==
  ASSUME TypeOK, NEW r \in Returns, TerminateThen(r)
  PROVE  Terminates(r) /\ kid' = kid
  BY Fields DEF TerminateThen, Host, Terminates, HostTo

\* A record whose channel is dropped.
LEMMA DropFields ==
  ASSUME NEW r \in Kid
  PROVE  /\ Dropped(r) \in Kid /\ Talk(Dropped(r)) = Talk(r) /\ Ran(Dropped(r)) = Ran(r)
         /\ Dropped(r).chan = <<>> /\ Len(Dropped(r).chan) <= 1
<1>1. <<>> \in Seq(Events) /\ Len(<<>>) <= 1
  OBVIOUS
<1> QED
  BY <1>1 DEF Dropped, Kid, Talk, Ran

LEMMA DoneFields ==
  ASSUME TypeOK, Done("err")
  PROVE  /\ HostTo("done", host.kid, host.ret, FALSE, host.seen, host.startup, "err")
         /\ Drops(Kids) /\ KidTypes(kid')
<1>1. HostTo("done", host.kid, host.ret, FALSE, host.seen, host.startup, "err")
  BY Fields DEF Done, Host, HostTo
<1>2. \A k \in Kids : kid'[k] = Dropped(kid[k])
  BY DEF Done
<1>3. Drops(Kids)
  BY <1>2, Fields, DropFields DEF Drops
<1>4. kid' = [k \in Kids |-> Dropped(kid[k])]
  BY DEF Done
<1>5. KidTypes(kid')
  BY <1>2, <1>4, Fields, DropFields DEF KidTypes
<1> QED
  BY <1>1, <1>3, <1>5

\* A record is replaced by another of the right type.
LEMMA Replaced ==
  ASSUME TypeOK, NEW k \in Kids, NEW r \in Kid, Len(r.chan) <= 1, kid' = [kid EXCEPT ![k] = r]
  PROVE  KidTypes(kid') /\ Others(k) /\ kid'[k] = r
  BY Fields DEF KidTypes, Others

LEMMA SpawnFields ==
  ASSUME TypeOK, NEW k \in Kids, NEW allow \in BOOLEAN, NEW p \in HostPcs, Spawn(k, allow, p)
  PROVE  /\ HostTo(p, k, host.ret, host.running, FALSE, host.startup, host.result)
         /\ Spawned(k) /\ KidTypes(kid')
<1>1. HostTo(p, k, host.ret, host.running, FALSE, host.startup, host.result)
  <2> DEFINE l == host.late /\ k = "batch"
  <2>1. l \in BOOLEAN
    OBVIOUS
  <2>2. host' = [host EXCEPT !.pc = p, !.kid = k, !.seen = FALSE, !.late = l]
    BY DEF Spawn
  <2> HIDE DEF l
  <2>3. Host = [pc : HostPcs, kid : Kids, ret : Returns, running : BOOLEAN, seen : BOOLEAN,
                late : BOOLEAN, startup : BOOLEAN, result : {"none", "ok", "err"}]
    BY DEF Host, HostPcs
  <2>4. host' \in Host
    BY <2>1, <2>2, <2>3, Fields
  <2> QED
    BY <2>2, <2>4, Fields DEF Host, HostTo
<1> DEFINE r == [Absent EXCEPT !.proc = "live", !.rx = TRUE, !.rpc = "idle", !.allowed = allow]
<1>2. <<>> \in Seq(Events) /\ Len(<<>>) <= 1
  OBVIOUS
<1>3. /\ r \in Kid /\ r.proc = "live" /\ ~r.reaped /\ r.rpc = "idle" /\ r.bytes = 0
      /\ r.chan = <<>> /\ r.rx
  BY <1>2 DEF Absent, Kid
<1>4. kid' = [kid EXCEPT ![k] = r]
  BY DEF Spawn
<1> HIDE DEF r
<1>5. KidTypes(kid') /\ Others(k) /\ kid'[k] = r
  BY <1>2, <1>3, <1>4, Replaced
<1> QED
  BY <1>1, <1>3, <1>5 DEF Spawned

\* The event taken was the only one.
LEMMA PopFields ==
  ASSUME TypeOK, kid' = Pop, Now.chan # <<>>
  PROVE  Takes(host.kid) /\ KidTypes(kid')
<1> DEFINE r == [Now EXCEPT !.chan = Tail(@)]
<1>1. Now \in Kid /\ Now.chan \in Seq(Events) /\ Len(Now.chan) <= 1 /\ host.kid \in Kids
  BY Fields DEF Now
<1>2. Tail(Now.chan) = <<>> /\ <<>> \in Seq(Events) /\ Len(<<>>) <= 1
  BY <1>1
<1>3. /\ r \in Kid /\ r.chan = <<>> /\ Ran(r) = Ran(Now) /\ r.rpc = Now.rpc
      /\ r.bytes = Now.bytes /\ r.rx = Now.rx /\ r.stdin = Now.stdin
  BY <1>1, <1>2 DEF Kid, Ran
<1>4. kid' = [kid EXCEPT ![host.kid] = r]
  BY <1>1, Fields DEF Pop, Now
<1> HIDE DEF r
<1>5. KidTypes(kid') /\ Others(host.kid) /\ kid'[host.kid] = r
  BY <1>1, <1>2, <1>3, <1>4, Replaced
<1> QED
  BY <1>3, <1>5 DEF Takes, Now

\* A receive that fails ends the worker, and only finish's may fall back.
LEMMA RecvFailsFields ==
  ASSUME TypeOK, NEW seen, NEW kids, RecvFails(seen, kids)
  PROVE  /\ kid' = kids
         /\ Terminates(IF host.startup THEN "join"
                       ELSE IF At("result_recv") /\ ~seen THEN "quiet" ELSE "done")
<1> DEFINE r == IF host.startup THEN "join"
                ELSE IF At("result_recv") /\ ~seen THEN "quiet" ELSE "done"
<1>1. r \in Returns
  BY DEF Returns
<1>2. kid' = kids /\ host' = [host EXCEPT !.pc = "terminate", !.seen = FALSE, !.ret = r]
  BY Fields DEF RecvFails, Host
<1> HIDE DEF r
<1>3. Terminates(r)
  BY <1>1, <1>2, Fields DEF Host, Terminates, HostTo
<1> QED
  BY <1>2, <1>3 DEF r

-----------------------------------------------------------------------------
(* The calling thread's actions, by what they do *)

Fails == HostTo("done", host.kid, host.ret, FALSE, host.seen, host.startup, "err")
EndsFor(seen) ==
  Terminates(IF host.startup THEN "join"
             ELSE IF At("result_recv") /\ ~seen THEN "quiet" ELSE "done")

LEMMA ResolveDoes ==
  ASSUME TypeOK, Resolve
  PROVE  /\ At("resolve") /\ KidTypes(kid')
         /\ \/ Fails /\ Drops(Kids)
            \/ /\ Moves("helper_wait") /\ Others("helper")
               /\ kid'["helper"].proc = "live" /\ ~kid'["helper"].reaped
            \/ /\ HostTo("probe", host.kid, host.ret, host.running,
                         host.seen, TRUE, host.result)
               /\ kid' = kid
<1>1. At("resolve")
  BY DEF Resolve
<1>2. CASE Done("err")
  BY <1>1, <1>2, DoneFields DEF Fails
<1>3. CASE /\ cfg.local
           /\ \E h \in BOOLEAN :
                kid' = [kid EXCEPT !["helper"] = [Absent EXCEPT !.proc = "live", !.heir = h]]
           /\ Goto("helper_wait")
  <2>1. PICK h \in BOOLEAN :
          kid' = [kid EXCEPT !["helper"] = [Absent EXCEPT !.proc = "live", !.heir = h]]
    BY <1>3
  <2> DEFINE r == [Absent EXCEPT !.proc = "live", !.heir = h]
  <2>2. <<>> \in Seq(Events) /\ Len(<<>>) <= 1
    OBVIOUS
  <2>3. r \in Kid /\ r.proc = "live" /\ ~r.reaped /\ r.chan = <<>>
    BY <2>2 DEF Absent, Kid
  <2>4. kid' = [kid EXCEPT !["helper"] = r]
    BY <2>1
  <2> HIDE DEF r
  <2>5. KidTypes(kid') /\ Others("helper") /\ kid'["helper"] = r
    BY <2>2, <2>3, <2>4, Replaced
  <2>6. Moves("helper_wait")
    BY <1>3, GotoFields DEF HostPcs, Starting
  <2> QED
    BY <1>1, <2>3, <2>5, <2>6
<1>4. CASE /\ host' = [host EXCEPT !.pc = "probe", !.startup = TRUE]
           /\ UNCHANGED kid
  <2>1. HostTo("probe", host.kid, host.ret, host.running, host.seen, TRUE, host.result)
    BY <1>4, Fields DEF Host, Starting, HostTo
  <2> QED
    BY <1>1, <1>4, <2>1, Fields
<1> QED
  BY <1>2, <1>3, <1>4 DEF Resolve

\* The helper's group is killed and the call fails.
LEMMA HelperFailsFields ==
  ASSUME TypeOK, HelperFails
  PROVE  /\ HostTo("done", host.kid, host.ret, host.running, host.seen, host.startup, "err")
         /\ Waited("helper") /\ ~kid'["helper"].heir /\ KidTypes(kid')
<1>1. HostTo("done", host.kid, host.ret, host.running, host.seen, host.startup, "err")
  BY Fields DEF HelperFails, Host, HostTo
<1> DEFINE o == kid["helper"]
           r == [o EXCEPT !.proc = IF @ = "live" THEN "failed" ELSE @, !.reaped = TRUE,
                          !.heir = FALSE]
<1>2. o \in Kid /\ Len(o.chan) <= 1
  BY Fields
<1>3. kid' = [kid EXCEPT !["helper"] = r]
  BY Fields DEF HelperFails, KillGroup
<1>4. /\ r \in Kid /\ r.chan = o.chan /\ Talk(r) = Talk(o) /\ r.reaped /\ ~r.heir
      /\ r.proc = IF o.proc = "live" THEN "failed" ELSE o.proc
  BY <1>2 DEF Kid, Talk
<1> HIDE DEF r
<1>5. KidTypes(kid') /\ Others("helper") /\ kid'["helper"] = r
  BY <1>2, <1>3, <1>4, Replaced
<1>6. Waited("helper")
  BY <1>4, <1>5 DEF Waited, Others
<1> QED
  BY <1>1, <1>4, <1>5, <1>6

\* A helper is waited for.
LEMMA ReapedFields ==
  ASSUME TypeOK, NEW k \in Kids, kid' = [kid EXCEPT ![k].reaped = TRUE]
  PROVE  Waited(k) /\ Intact(k) /\ KidTypes(kid')
<1> DEFINE r == [kid[k] EXCEPT !.reaped = TRUE]
<1>1. kid[k] \in Kid /\ Len(kid[k].chan) <= 1
  BY Fields
<1>2. kid' = [kid EXCEPT ![k] = r]
  BY Fields
<1>3. /\ r \in Kid /\ r.chan = kid[k].chan /\ Talk(r) = Talk(kid[k]) /\ r.reaped
      /\ r.proc = kid[k].proc /\ r.heir = kid[k].heir /\ r.rx = kid[k].rx
  BY <1>1 DEF Kid, Talk
<1> HIDE DEF r
<1>4. KidTypes(kid') /\ Others(k) /\ kid'[k] = r
  BY <1>1, <1>2, <1>3, Replaced
<1> QED
  BY <1>3, <1>4 DEF Waited, Others, Intact

LEMMA HelperWaitDoes ==
  ASSUME TypeOK, HelperWait
  PROVE  /\ At("helper_wait") /\ KidTypes(kid') /\ Waited("helper")
         /\ \/ Moves("helper_collect")
            \/ /\ HostTo("done", host.kid, host.ret, host.running,
                         host.seen, host.startup, "err")
               /\ ~kid'["helper"].heir
<1>1. CASE kid' = [kid EXCEPT !["helper"].reaped = TRUE] /\ Goto("helper_collect")
  BY <1>1, ReapedFields, GotoFields DEF HostPcs, Starting, HelperWait
<1>2. CASE HelperFails
  BY <1>2, HelperFailsFields DEF HelperWait
<1> QED
  BY <1>1, <1>2 DEF HelperWait

LEMMA HelperCollectDoes ==
  ASSUME TypeOK, HelperCollect
  PROVE  /\ At("helper_collect") /\ KidTypes(kid')
         /\ \/ /\ HostTo("probe", host.kid, host.ret, host.running,
                         host.seen, TRUE, host.result)
               /\ kid' = kid /\ ~kid["helper"].heir
            \/ Fails /\ Drops(Kids) /\ ~kid["helper"].heir
            \/ /\ HostTo("done", host.kid, host.ret, host.running,
                         host.seen, host.startup, "err")
               /\ Waited("helper") /\ ~kid'["helper"].heir
<1>1. CASE /\ ~kid["helper"].heir /\ UNCHANGED kid
           /\ host' = [host EXCEPT !.pc = "probe", !.startup = TRUE, !.late = FALSE]
  <2>1. HostTo("probe", host.kid, host.ret, host.running, host.seen, TRUE, host.result)
    BY <1>1, Fields DEF Host, Starting, HostTo
  <2> QED
    BY <1>1, <2>1, Fields DEF HelperCollect
<1>2. CASE ~kid["helper"].heir /\ Done("err")
  BY <1>2, DoneFields DEF Fails, HelperCollect
<1>3. CASE HelperFails
  BY <1>3, HelperFailsFields DEF HelperCollect
<1> QED
  BY <1>1, <1>2, <1>3 DEF HelperCollect

LEMMA ProbeDoes ==
  ASSUME TypeOK, PhaseInv, Probe
  PROVE  /\ At("probe") /\ KidTypes(kid')
         /\ \/ /\ HostTo("probe_recv", "probe", host.ret, host.running,
                         FALSE, host.startup, host.result)
               /\ Spawned("probe")
            \/ Moves("join") /\ kid' = kid
<1>1. At("probe") /\ host.startup
  BY DEF Probe, PhaseInv, StartPcs, At
<1>2. CASE Spawn("probe", TRUE, "probe_recv")
  BY <1>1, <1>2, SpawnFields DEF HostPcs, Starting
<1>3. CASE Fail
  BY <1>1, <1>3, GotoFields, Fields DEF HostPcs, Starting, Fail
<1> QED
  BY <1>2, <1>3 DEF Probe

LEMMA EncodeFailsDoes ==
  ASSUME TypeOK, PhaseInv, EncodeFails
  PROVE  At("request") /\ KidTypes(kid') /\ Moves("join") /\ kid' = kid
<1>1. At("request") /\ host.startup
  BY DEF EncodeFails, PhaseInv, StartPcs, At
<1> QED
  BY <1>1, GotoFields, Fields DEF HostPcs, Starting, EncodeFails, Fail

LEMMA StartWorkerDoes ==
  ASSUME TypeOK, PhaseInv, StartWorker
  PROVE  /\ At("request") /\ KidTypes(kid')
         /\ \/ Moves("join") /\ kid' = kid
            \/ /\ HostTo("join", host.kid, host.ret, host.running,
                         host.seen, host.startup, "ok")
               /\ kid' = kid
            \/ /\ HostTo("ready_write", "stream", host.ret, host.running,
                         FALSE, host.startup, host.result)
               /\ Spawned("stream") /\ cfg.streaming
<1>1. At("request") /\ host.startup
  BY DEF StartWorker, PhaseInv, StartPcs, At
<1>2. CASE Fail
  BY <1>1, <1>2, GotoFields, Fields DEF HostPcs, Starting, Fail
<1>3. CASE host' = [host EXCEPT !.pc = "join", !.result = "ok"] /\ UNCHANGED kid
  <2>1. HostTo("join", host.kid, host.ret, host.running, host.seen, host.startup, "ok")
    BY <1>3, Fields DEF Host, Starting, HostTo
  <2> QED
    BY <1>1, <1>3, <2>1, Fields
<1>4. CASE cfg.streaming /\ Spawn("stream", FALSE, "ready_write")
  BY <1>1, <1>4, SpawnFields DEF HostPcs, Starting
<1> QED
  BY <1>2, <1>3, <1>4 DEF StartWorker

\* Something is written to helper k.
LEMMA TellFields ==
  ASSUME TypeOK, NEW k \in Kids, NEW what \in SUBSET {"request", "finish", "eof"},
         kid' = [kid EXCEPT ![k].stdin = what]
  PROVE  Tells(k, what) /\ KidTypes(kid')
<1> DEFINE r == [kid[k] EXCEPT !.stdin = what]
<1>1. kid[k] \in Kid /\ Len(kid[k].chan) <= 1
  BY Fields
<1>2. kid' = [kid EXCEPT ![k] = r]
  BY Fields
<1>3. /\ r \in Kid /\ r.chan = kid[k].chan /\ Ran(r) = Ran(kid[k]) /\ r.rpc = kid[k].rpc
      /\ r.bytes = kid[k].bytes /\ r.rx = kid[k].rx /\ r.stdin = what
  BY <1>1 DEF Kid, Ran
<1> HIDE DEF r
<1>4. KidTypes(kid') /\ Others(k) /\ kid'[k] = r
  BY <1>1, <1>2, <1>3, Replaced
<1> QED
  BY <1>3, <1>4 DEF Tells

LEMMA WriteRequestDoes ==
  ASSUME TypeOK, WriteRequest
  PROVE  /\ host.pc \in {"ready_write", "batch_write"} /\ KidTypes(kid')
         /\ \/ /\ Moves(IF At("ready_write") THEN "ready_recv" ELSE "batch_recv")
               /\ Tells(host.kid, {"request"})
            \/ Terminates(IF host.startup THEN "join" ELSE "done") /\ kid' = kid
<1>1. host.pc \in {"ready_write", "batch_write"}
  BY DEF WriteRequest
<1>2. CASE /\ Goto(IF At("ready_write") THEN "ready_recv" ELSE "batch_recv")
           /\ kid' = [kid EXCEPT ![host.kid].stdin =
                        {"request"} \cup IF At("batch_write") THEN {"eof"} ELSE {}]
  <2> DEFINE what == {"request"} \cup IF At("batch_write") THEN {"eof"} ELSE {}
  <2>1. what \in SUBSET {"request", "finish", "eof"} /\ {"request"} \subseteq what
    OBVIOUS
  <2>2. kid' = [kid EXCEPT ![host.kid].stdin = what]
    BY <1>2
  <2> HIDE DEF what
  <2>3. Tells(host.kid, what) /\ KidTypes(kid')
    BY <2>1, <2>2, TellFields, Fields
  <2>4. Tells(host.kid, {"request"})
    BY <2>1, <2>3 DEF Tells
  <2>5. Moves(IF At("ready_write") THEN "ready_recv" ELSE "batch_recv")
    BY <1>2, GotoFields DEF HostPcs, Starting
  <2> QED
    BY <1>1, <2>3, <2>4, <2>5
<1>3. CASE FailAfterTerminate
  BY <1>1, <1>3, TerminateFields, Fields DEF FailAfterTerminate, Returns
<1> QED
  BY <1>2, <1>3 DEF WriteRequest

LEMMA RecvPollDoes ==
  ASSUME TypeOK, RecvPoll
  PROVE  host.pc \in RecvPcs /\ EndsFor(host.seen) /\ kid' = kid
  BY RecvFailsFields DEF RecvPoll, EndsFor

LEMMA RecvStartedDoes ==
  ASSUME TypeOK, RecvStarted
  PROVE  /\ host.pc \in RecvPcs /\ Waits(Now, "started") /\ Takes(host.kid) /\ KidTypes(kid')
         /\ \/ EndsFor(TRUE)
            \/ HostTo(host.pc, host.kid, host.ret, host.running,
                      TRUE, host.startup, host.result)
<1>1. host.pc \in RecvPcs /\ Waits(Now, "started") /\ Now.chan # <<>>
  BY DEF RecvStarted, Waits
<1>2. CASE RecvFails(TRUE, Pop)
  BY <1>1, <1>2, RecvFailsFields, PopFields DEF EndsFor
<1>3. CASE host' = [host EXCEPT !.seen = TRUE] /\ kid' = Pop
  <2>1. HostTo(host.pc, host.kid, host.ret, host.running, TRUE, host.startup, host.result)
    BY <1>3, Fields DEF Host, HostTo
  <2> QED
    BY <1>1, <1>3, <2>1, PopFields
<1> QED
  BY <1>2, <1>3 DEF RecvStarted

\* A frame is accepted: what follows its receive, or the end of its worker.
AcceptsTo ==
  \/ At("probe_recv") /\ Moves("probe_reap")
  \/ At("result_recv") /\ Moves("result_reap")
  \/ At("batch_recv") /\ Moves("batch_reap")
  \/ /\ At("ready_recv")
     /\ HostTo("join", host.kid, host.ret, TRUE, FALSE, host.startup, "ok")
  \/ \E r \in {host.result, "ok"} :
       /\ r = host.result \/ At("ready_recv")
       /\ HostTo("terminate", host.kid, IF host.startup THEN "join" ELSE "done", host.running,
                 FALSE, host.startup, r)

LEMMA AcceptFields ==
  ASSUME TypeOK, PhaseInv, NEW c \in Contents, Accept(c), host.pc \in RecvPcs, Now.chan # <<>>
  PROVE  AcceptsTo /\ Takes(host.kid) /\ KidTypes(kid')
<1>1. Takes(host.kid) /\ KidTypes(kid')
  <2>1. CASE At("probe_recv") /\ c = "good"
    <3> DEFINE o == kid["probe"]
               r == [o EXCEPT !.chan = Tail(@), !.stdin = {"eof"}]
    <3>1. host.kid = "probe"
      BY <2>1 DEF PhaseInv, ProbePcs, At
    <3>2. o \in Kid /\ o.chan \in Seq(Events) /\ Len(o.chan) <= 1 /\ o.chan # <<>>
      BY <3>1, Fields DEF Now
    <3>3. Tail(o.chan) = <<>> /\ <<>> \in Seq(Events) /\ Len(<<>>) <= 1
      BY <3>2
    <3>4. kid' = [kid EXCEPT !["probe"] = r]
      BY <2>1, <3>1, Fields DEF Accept, Pop
    <3>5. /\ r \in Kid /\ r.chan = <<>> /\ Ran(r) = Ran(o) /\ r.rpc = o.rpc
          /\ r.bytes = o.bytes /\ r.rx = o.rx
      BY <3>2, <3>3 DEF Kid, Ran
    <3> HIDE DEF r
    <3>6. KidTypes(kid') /\ Others("probe") /\ kid'["probe"] = r
      BY <3>3, <3>4, <3>5, Replaced
    <3> QED
      BY <3>1, <3>5, <3>6 DEF Takes
  <2>2. CASE ~(At("probe_recv") /\ c = "good")
    BY <2>2, PopFields DEF Accept
  <2> QED
    BY <2>1, <2>2
<1>2. CASE c = "good" /\ ~At("ready_recv")
  <2>1. host' = [host EXCEPT !.seen = FALSE,
                   !.pc = CASE At("probe_recv") -> "probe_reap"
                            [] At("result_recv") -> "result_reap"
                            [] OTHER -> "batch_reap"]
    BY <1>2 DEF Accept
  <2>2. CASE At("probe_recv")
    <3>1. host' = [host EXCEPT !.seen = FALSE, !.pc = "probe_reap"]
      BY <2>1, <2>2 DEF At
    <3> QED
      BY <1>1, <2>2, <3>1, Fields DEF AcceptsTo, Moves, HostTo, Host, Starting
  <2>3. CASE At("result_recv")
    <3>1. host' = [host EXCEPT !.seen = FALSE, !.pc = "result_reap"]
      BY <2>1, <2>3 DEF At
    <3> QED
      BY <1>1, <2>3, <3>1, Fields DEF AcceptsTo, Moves, HostTo, Host
  <2>4. CASE At("batch_recv")
    <3>1. host' = [host EXCEPT !.seen = FALSE, !.pc = "batch_reap"]
      BY <2>1, <2>4 DEF At
    <3> QED
      BY <1>1, <2>4, <3>1, Fields DEF AcceptsTo, Moves, HostTo, Host
  <2> QED
    BY <1>2, <2>2, <2>3, <2>4 DEF RecvPcs, At
<1>3. CASE c = "good" /\ At("ready_recv")
  <2>1. host' = [host EXCEPT !.pc = "join", !.seen = FALSE, !.result = "ok", !.running = TRUE]
    BY <1>3 DEF Accept
  <2> QED
    BY <1>1, <1>3, <2>1, Fields DEF AcceptsTo, HostTo, Host, Starting
<1>4. CASE c # "good"
  <2> DEFINE t == IF host.startup THEN "join" ELSE "done"
             r == IF At("ready_recv") /\ c = "decline" /\ ~LocalStream THEN "ok" ELSE host.result
  <2>1. t \in Returns /\ r \in {"none", "ok", "err"} /\ r \in {host.result, "ok"}
    BY Fields DEF Returns
  <2>2. host' = [host EXCEPT !.pc = "terminate", !.seen = FALSE, !.ret = t, !.result = r]
    BY <1>4 DEF Accept
  <2>3. r = host.result \/ At("ready_recv")
    OBVIOUS
  <2> HIDE DEF t, r
  <2>4. HostTo("terminate", host.kid, t, host.running, FALSE, host.startup, r)
    BY <2>1, <2>2, Fields DEF HostTo, Host
  <2> QED
    BY <1>1, <2>1, <2>3, <2>4 DEF AcceptsTo, t
<1> QED
  BY <1>2, <1>3, <1>4

LEMMA RecvFrameDoes ==
  ASSUME TypeOK, PhaseInv, RecvFrame
  PROVE  /\ host.pc \in RecvPcs /\ Waits(Now, "frame") /\ Takes(host.kid) /\ KidTypes(kid')
         /\ EndsFor(TRUE) \/ AcceptsTo
<1>1. host.pc \in RecvPcs /\ Waits(Now, "frame") /\ Now.chan # <<>>
  BY DEF RecvFrame, Waits
<1>2. CASE RecvFails(TRUE, Pop)
  BY <1>1, <1>2, RecvFailsFields, PopFields DEF EndsFor
<1>3. CASE \E c \in Contents : Accept(c)
  BY <1>1, <1>3, AcceptFields
<1> QED
  BY <1>2, <1>3 DEF RecvFrame

LEMMA RecvFailedDoes ==
  ASSUME TypeOK, RecvFailed
  PROVE  /\ host.pc \in RecvPcs /\ Waits(Now, "failed") /\ Takes(host.kid) /\ KidTypes(kid')
         /\ EndsFor(host.seen \/ Head(Now.chan).flag)
<1>1. host.pc \in RecvPcs /\ Waits(Now, "failed") /\ Now.chan # <<>>
  BY DEF RecvFailed, Waits
<1>2. RecvFails(host.seen \/ Head(Now.chan).flag, Pop)
  BY DEF RecvFailed
<1> QED
  BY <1>1, <1>2, RecvFailsFields, PopFields DEF EndsFor

LEMMA RecvDisconnectedDoes ==
  ASSUME TypeOK, RecvDisconnected
  PROVE  /\ host.pc \in RecvPcs /\ Now.chan = <<>> /\ Now.rpc = "ended"
         /\ EndsFor(host.seen) /\ kid' = kid
  BY RecvFailsFields DEF RecvDisconnected, EndsFor, Disconnected, Now

LEMMA ReturnsAre == \A r \in Returns : r \in HostPcs
  BY DEF Returns, HostPcs, Starting

LEMMA TerminateDoes ==
  ASSUME TypeOK, Terminate
  PROVE  /\ At("terminate") /\ KidTypes(kid')
         /\ \/ Moves("grace") /\ kid' = kid
            \/ Moves(host.ret) /\ Waited(host.kid) /\ Intact(host.kid)
<1>1. CASE Goto("grace") /\ UNCHANGED kid
  BY <1>1, GotoFields, Fields DEF HostPcs, Terminate
<1>2. CASE Goto(host.ret) /\ kid' = [kid EXCEPT ![host.kid].reaped = TRUE]
  BY <1>2, GotoFields, ReturnsAre, ReapedFields, Fields DEF Terminate
<1> QED
  BY <1>1, <1>2 DEF Terminate

LEMMA GraceDoes ==
  ASSUME TypeOK, Grace
  PROVE  /\ At("grace") /\ KidTypes(kid')
         /\ Moves(host.ret) /\ Waited(host.kid) /\ Intact(host.kid)
<1> DEFINE r == [Now EXCEPT !.proc = IF @ = "live" THEN "failed" ELSE @, !.reaped = TRUE]
<1>1. Now \in Kid /\ Len(Now.chan) <= 1 /\ host.kid \in Kids
  BY Fields DEF Now
<1>2. kid' = [kid EXCEPT ![host.kid] = r]
  BY <1>1, Fields DEF Grace, Now
<1>3. /\ r \in Kid /\ r.chan = Now.chan /\ Talk(r) = Talk(Now) /\ r.reaped
      /\ r.proc = IF Now.proc = "live" THEN "failed" ELSE Now.proc
      /\ r.heir = Now.heir /\ r.rx = Now.rx
  BY <1>1 DEF Kid, Talk
<1> HIDE DEF r
<1>4. KidTypes(kid') /\ Others(host.kid) /\ kid'[host.kid] = r
  BY <1>1, <1>2, <1>3, Replaced
<1>5. Waited(host.kid) /\ Intact(host.kid)
  BY <1>1, <1>3, <1>4 DEF Waited, Others, Intact, Now
<1>6. At("grace") /\ Moves(host.ret)
  BY GotoFields, ReturnsAre, Fields DEF Grace
<1> QED
  BY <1>4, <1>5, <1>6

LEMMA ReturnFailedDoes ==
  ASSUME TypeOK, ReturnFailed
  PROVE  At("done") /\ host.result = "none" /\ Fails /\ Drops(Kids) /\ KidTypes(kid')
  BY DoneFields DEF ReturnFailed, Fails

\* A helper is waited for, and channels may be dropped.
AfterWait(k, j) == IF j = k THEN [kid[k] EXCEPT !.reaped = TRUE] ELSE kid[j]
LEMMA ReapDropFields ==
  ASSUME TypeOK, NEW k \in Kids, kid' = [j \in Kids |-> kid'[j]],
         \A j \in Kids : kid'[j] = AfterWait(k, j) \/ kid'[j] = Dropped(AfterWait(k, j))
  PROVE  Waited(k) /\ KidTypes(kid')
<1> DEFINE o == kid[k]
           r == [o EXCEPT !.reaped = TRUE]
<1>1. o \in Kid /\ Len(o.chan) <= 1
  BY Fields
<1>2. r \in Kid /\ r.chan = o.chan /\ Talk(r) = Talk(o) /\ r.reaped /\ r.proc = o.proc
      /\ r.heir = o.heir
  BY <1>1 DEF Kid, Talk
<1>3. AfterWait(k, k) = r /\ \A j \in Kids : j # k => AfterWait(k, j) = kid[j]
  BY DEF AfterWait
<1> HIDE DEF r
<1>4. ASSUME NEW j \in Kids
      PROVE  /\ kid'[j] \in Kid /\ Len(kid'[j].chan) <= 1
             /\ Ran(kid'[j]) = Ran(AfterWait(k, j)) /\ Talk(kid'[j]) = Talk(kid[j])
  <2> DEFINE w == AfterWait(k, j)
  <2>1. kid'[j] = w \/ kid'[j] = Dropped(w)
    OBVIOUS
  <2>2. w \in Kid /\ Len(w.chan) <= 1 /\ Talk(w) = Talk(kid[j])
    <3>1. CASE j = k
      BY <1>1, <1>2, <1>3, <3>1
    <3>2. CASE j # k
      BY <1>3, <3>2, Fields
    <3> QED
      BY <3>1, <3>2
  <2>3. /\ Dropped(w) \in Kid /\ Len(Dropped(w).chan) <= 1
        /\ Talk(Dropped(w)) = Talk(w) /\ Ran(Dropped(w)) = Ran(w)
    BY <2>2, DropFields
  <2> QED
    BY <2>1, <2>2, <2>3
<1>5. KidTypes(kid')
  BY <1>4 DEF KidTypes
<1>6. Ran(kid'[k]) = Ran(r) /\ \A j \in Kids : j # k => Ran(kid'[j]) = Ran(kid[j])
  BY <1>3, <1>4
<1>7. kid'[k].reaped /\ kid'[k].proc = o.proc /\ kid'[k].heir = o.heir
  BY <1>2, <1>6 DEF Ran
<1> QED
  BY <1>4, <1>5, <1>6, <1>7 DEF Waited

LEMMA ReapDoes ==
  ASSUME TypeOK, Reap
  PROVE  /\ host.pc \in ReapPcs /\ KidTypes(kid')
         /\ \/ Terminates(IF host.startup THEN "join" ELSE "done") /\ kid' = kid
            \/ /\ Waited(host.kid) /\ host.startup
               /\ \E p \in {"request", "join"} :
                    HostTo(p, host.kid, host.ret, host.running,
                           host.seen, host.startup, host.result)
            \/ /\ Waited(host.kid) /\ ~host.startup
               /\ HostTo("done", host.kid, host.ret, host.running, host.seen, host.startup,
                         IF Now.proc = "ok" THEN "ok" ELSE host.result)
<1>1. host.pc \in ReapPcs
  BY DEF Reap
<1>2. CASE FailAfterTerminate
  BY <1>1, <1>2, TerminateFields, Fields DEF FailAfterTerminate, Returns
<1>3. CASE Reaped(Now.proc = "ok")
  <2> DEFINE K == [kid EXCEPT ![host.kid].reaped = TRUE]
             ok == Now.proc = "ok"
  <2>1. kid' = IF host.startup THEN [K EXCEPT !["probe"] = Dropped(@)]
               ELSE [k \in Kids |-> Dropped(K[k])]
    BY <1>3 DEF Reaped
  <2>2. host' = [host EXCEPT !.pc = IF ~host.startup THEN "done"
                                   ELSE IF ok THEN "request" ELSE "join",
                             !.result = IF ~host.startup /\ ok THEN "ok" ELSE @]
    BY <1>3 DEF Reaped
  <2>3. /\ host.kid \in Kids /\ kid' = [j \in Kids |-> kid'[j]]
        /\ \A j \in Kids : K[j] = AfterWait(host.kid, j)
        /\ \A j \in Kids : kid'[j] = K[j] \/ kid'[j] = Dropped(K[j])
    BY <2>1, Fields DEF AfterWait
  <2>4. Waited(host.kid) /\ KidTypes(kid')
    BY <2>3, ReapDropFields
  <2>5. CASE host.startup
    <3> DEFINE p == IF ok THEN "request" ELSE "join"
    <3>1. p \in {"request", "join"}
      OBVIOUS
    <3>2. host' = [host EXCEPT !.pc = p, !.result = host.result]
      BY <2>2, <2>5
    <3> HIDE DEF p
    <3>3. HostTo(p, host.kid, host.ret, host.running, host.seen, host.startup, host.result)
      BY <3>1, <3>2, Fields DEF HostTo, Host, Starting
    <3> QED
      BY <1>1, <2>4, <2>5, <3>1, <3>3
  <2>6. CASE ~host.startup
    <3> DEFINE r == IF ok THEN "ok" ELSE host.result
    <3>1. r \in {"none", "ok", "err"}
      BY Fields
    <3>2. host' = [host EXCEPT !.pc = "done", !.result = r]
      BY <2>2, <2>6
    <3> HIDE DEF r
    <3>3. HostTo("done", host.kid, host.ret, host.running, host.seen, host.startup, r)
      BY <3>1, <3>2, Fields DEF HostTo, Host
    <3> QED
      BY <1>1, <2>4, <2>6, <3>3 DEF r
  <2> QED
    BY <2>5, <2>6
<1> QED
  BY <1>2, <1>3 DEF Reap

LEMMA JoinDoes ==
  ASSUME TypeOK, Join
  PROVE  /\ At("join") /\ KidTypes(kid')
         /\ Drops(IF host.running THEN {"probe"} ELSE {"probe", "stream"})
         /\ \E p \in {"recording", IF host.running THEN "terminate" ELSE "done"} :
              HostTo(p, "stream", "done", host.running, host.seen, FALSE, "none")
<1>1. At("join")
  BY DEF Join
<1>2. KidTypes(kid') /\ Drops(IF host.running THEN {"probe"} ELSE {"probe", "stream"})
  <2>1. kid' = [kid EXCEPT !["probe"] = Dropped(@),
                          !["stream"] = IF host.running THEN @ ELSE Dropped(@)]
    BY DEF Join
  <2>2. \A j \in Kids : /\ kid'[j] \in {kid[j], Dropped(kid[j])}
                        /\ j \notin {"probe", "stream"} => kid'[j] = kid[j]
                        /\ j = "stream" /\ host.running => kid'[j] = kid[j]
    BY <2>1, Fields
  <2>3. \A j \in Kids : kid'[j] \in Kid /\ Len(kid'[j].chan) <= 1
                        /\ Talk(kid'[j]) = Talk(kid[j]) /\ Ran(kid'[j]) = Ran(kid[j])
    BY <2>2, Fields, DropFields
  <2>4. kid' \in [Kids -> Kid]
    BY <2>1, <2>3, Fields
  <2> QED
    BY <2>2, <2>3, <2>4 DEF KidTypes, Drops
<1>3. PICK wanted \in BOOLEAN :
        host' = [host EXCEPT !.startup = FALSE, !.result = "none", !.kid = "stream",
                   !.pc = IF wanted THEN "recording"
                          ELSE IF host.running THEN "terminate" ELSE "done",
                   !.ret = "done", !.late = ~wanted]
  BY DEF Join
<1> DEFINE p == IF wanted THEN "recording" ELSE IF host.running THEN "terminate" ELSE "done"
           l == ~wanted
<1>4. /\ p \in {"recording", IF host.running THEN "terminate" ELSE "done"}
      /\ p \in {"recording", "terminate", "done"} /\ l \in BOOLEAN /\ "done" \in Returns
  BY DEF Returns
<1>5. host' = [host EXCEPT !.startup = FALSE, !.result = "none", !.kid = "stream", !.pc = p,
                 !.ret = "done", !.late = l]
  BY <1>3
<1> HIDE DEF p, l
<1>6. HostTo(p, "stream", "done", host.running, host.seen, FALSE, "none")
  BY <1>4, <1>5, Fields DEF HostTo, Host
<1> QED
  BY <1>1, <1>2, <1>4, <1>6

LEMMA FinishCheckDoes ==
  ASSUME TypeOK, FinishCheck
  PROVE  /\ At("finish") /\ KidTypes(kid')
         /\ \/ /\ Now.chan # <<>> /\ Takes(host.kid)
               /\ \E r \in {"batch", "done"} :
                    /\ r = "batch" => Head(Now.chan) = Failed(FALSE)
                    /\ HostTo("terminate", host.kid, r, host.running, host.seen, host.startup,
                              host.result)
            \/ Disconnected("stream") /\ Terminates("batch") /\ kid' = kid
            \/ Moves("body") /\ kid' = kid
<1>1. At("finish") /\ "batch" \in Returns /\ "body" \in HostPcs
  BY DEF FinishCheck, Returns, HostPcs
<1>2. CASE /\ Now.chan # <<>>
           /\ kid' = Pop
           /\ host' = [host EXCEPT !.pc = "terminate",
                         !.ret = IF Head(Now.chan) = Failed(FALSE) THEN "batch" ELSE "done"]
  <2> DEFINE r == IF Head(Now.chan) = Failed(FALSE) THEN "batch" ELSE "done"
  <2>1. /\ r \in {"batch", "done"} /\ r \in Returns
        /\ r = "batch" => Head(Now.chan) = Failed(FALSE)
    BY DEF Returns
  <2>2. host' = [host EXCEPT !.pc = "terminate", !.ret = r]
    BY <1>2
  <2> HIDE DEF r
  <2>3. HostTo("terminate", host.kid, r, host.running, host.seen, host.startup, host.result)
    BY <2>1, <2>2, Fields DEF HostTo, Host
  <2> QED
    BY <1>1, <1>2, <2>1, <2>3, PopFields
<1>3. CASE Disconnected("stream") /\ TerminateThen("batch")
  BY <1>1, <1>3, TerminateFields, Fields
<1>4. CASE Goto("body") /\ UNCHANGED kid
  BY <1>1, <1>4, GotoFields, Fields
<1> QED
  BY <1>2, <1>3, <1>4 DEF FinishCheck

LEMMA FinishBodyDoes ==
  ASSUME TypeOK, FinishBody
  PROVE  At("body") /\ (Moves("allow") \/ Terminates("unsent")) /\ kid' = kid
<1>1. At("body") /\ "allow" \in HostPcs /\ "unsent" \in Returns
  BY DEF FinishBody, HostPcs, Returns
<1> QED
  BY <1>1, GotoFields, TerminateFields DEF FinishBody, FinishFails

LEMMA FinishAllowDoes ==
  ASSUME TypeOK, FinishAllow
  PROVE  At("allow") /\ Moves("line") /\ Tells("stream", Stream.stdin) /\ KidTypes(kid')
<1> DEFINE r == [Stream EXCEPT !.allowed = TRUE]
<1>1. Stream \in Kid /\ Len(Stream.chan) <= 1
  BY Fields DEF Stream
<1>2. kid' = [kid EXCEPT !["stream"] = r]
  BY Fields DEF FinishAllow, Stream
<1>3. /\ r \in Kid /\ r.chan = Stream.chan /\ Ran(r) = Ran(Stream) /\ r.rpc = Stream.rpc
      /\ r.bytes = Stream.bytes /\ r.rx = Stream.rx /\ r.stdin = Stream.stdin
  BY <1>1 DEF Kid, Ran
<1> HIDE DEF r
<1>4. KidTypes(kid') /\ Others("stream") /\ kid'["stream"] = r
  BY <1>1, <1>2, <1>3, Replaced
<1>5. Tells("stream", Stream.stdin)
  BY <1>3, <1>4 DEF Tells, Stream
<1>6. At("allow") /\ Moves("line")
  BY GotoFields DEF FinishAllow, HostPcs
<1> QED
  BY <1>4, <1>5, <1>6

LEMMA FinishLineDoes ==
  ASSUME TypeOK, FinishLine
  PROVE  /\ At("line") /\ KidTypes(kid')
         /\ \/ Moves("result_recv") /\ Tells("stream", {"finish"})
            \/ Terminates("unsent") /\ kid' = kid
<1>1. At("line") /\ "result_recv" \in HostPcs /\ "unsent" \in Returns
  BY DEF FinishLine, HostPcs, Returns
<1>2. CASE /\ kid' = [kid EXCEPT !["stream"].stdin = @ \cup {"finish", "eof"}]
           /\ Goto("result_recv")
  <2> DEFINE what == Stream.stdin \cup {"finish", "eof"}
  <2>1. what \in SUBSET {"request", "finish", "eof"} /\ {"finish"} \subseteq what
    BY Fields DEF Stream, Kid
  <2>2. kid' = [kid EXCEPT !["stream"].stdin = what]
    BY <1>2, Fields DEF Stream
  <2> HIDE DEF what
  <2>3. Tells("stream", what) /\ KidTypes(kid')
    BY <2>1, <2>2, TellFields
  <2>4. Tells("stream", {"finish"})
    BY <2>1, <2>3 DEF Tells
  <2> QED
    BY <1>1, <1>2, <2>3, <2>4, GotoFields
<1>3. CASE FinishFails
  BY <1>1, <1>3, TerminateFields, Fields DEF FinishFails
<1> QED
  BY <1>2, <1>3 DEF FinishLine

LEMMA UnsentDoes ==
  ASSUME TypeOK, Unsent
  PROVE  /\ At("unsent") /\ KidTypes(kid')
         /\ (Fails /\ Drops(Kids)) \/ (Moves("quiet") /\ kid' = kid)
<1>1. At("unsent") /\ "quiet" \in HostPcs
  BY DEF Unsent, HostPcs
<1> QED
  BY <1>1, DoneFields, GotoFields, Fields DEF Unsent, Fails

LEMMA QuietDoes ==
  ASSUME TypeOK, Quiet
  PROVE  /\ At("quiet") /\ KidTypes(kid')
         /\ \/ Fails /\ Drops(Kids)
            \/ /\ Now.chan # <<>> /\ Head(Now.chan) = Failed(FALSE) /\ Takes(host.kid) /\ Stays
            \/ Disconnected("stream") /\ Moves("batch") /\ kid' = kid
<1>1. At("quiet") /\ "batch" \in HostPcs
  BY DEF Quiet, HostPcs
<1>2. CASE Done("err")
  BY <1>1, <1>2, DoneFields DEF Fails
<1>3. CASE Now.chan # <<>> /\ Head(Now.chan) = Failed(FALSE) /\ kid' = Pop /\ UNCHANGED host
  BY <1>1, <1>3, PopFields, Fields DEF Stays, HostTo
<1>4. CASE Disconnected("stream") /\ Goto("batch") /\ UNCHANGED kid
  BY <1>1, <1>4, GotoFields, Fields
<1> QED
  BY <1>2, <1>3, <1>4 DEF Quiet

LEMMA BatchDoes ==
  ASSUME TypeOK, Batch
  PROVE  /\ At("batch") /\ KidTypes(kid')
         /\ \/ Fails /\ Drops(Kids)
            \/ /\ ~(host.running /\ LocalStream) /\ Spawned("batch")
               /\ HostTo("batch_write", "batch", host.ret, host.running, FALSE, host.startup,
                         host.result)
<1>1. At("batch") /\ "batch_write" \in HostPcs
  BY DEF Batch, HostPcs
<1>2. CASE Done("err")
  BY <1>1, <1>2, DoneFields DEF Fails
<1>3. CASE ~(host.running /\ LocalStream) /\ Spawn("batch", TRUE, "batch_write")
  BY <1>1, <1>3, SpawnFields
<1> QED
  BY <1>2, <1>3 DEF Batch

LEMMA FinishDoes ==
  ASSUME TypeOK, Finish
  PROVE  /\ At("recording") /\ kid' = kid
         /\ HostTo(IF host.running THEN "finish" ELSE "batch", host.kid, host.ret, host.running,
                   host.seen, host.startup, host.result)
<1> DEFINE p == IF host.running THEN "finish" ELSE "batch"
<1>1. p \in HostPcs
  BY DEF HostPcs
<1>2. host' = [host EXCEPT !.pc = p, !.late = FALSE]
  BY DEF Finish
<1> HIDE DEF p
<1>3. HostTo(p, host.kid, host.ret, host.running, host.seen, host.startup, host.result)
  BY <1>1, <1>2, Fields DEF HostTo, Host, HostPcs
<1> QED
  BY <1>3 DEF Finish, p

LEMMA CancelDoes ==
  ASSUME TypeOK, Cancel
  PROVE  /\ At("recording") /\ kid' = kid
         /\ HostTo(IF host.running THEN "terminate" ELSE "done", host.kid, "done", host.running,
                   host.seen, host.startup, host.result)
<1> DEFINE p == IF host.running THEN "terminate" ELSE "done"
<1>1. p \in HostPcs /\ "done" \in Returns
  BY DEF HostPcs, Returns
<1>2. host' = [host EXCEPT !.pc = p, !.ret = "done", !.late = TRUE]
  BY DEF Cancel
<1> HIDE DEF p
<1>3. HostTo(p, host.kid, "done", host.running, host.seen, host.startup, host.result)
  BY <1>1, <1>2, Fields DEF HostTo, Host, HostPcs
<1> QED
  BY <1>3 DEF Cancel, p

-----------------------------------------------------------------------------
(* The readers, the workers and the clock *)

\* The reader goes on, without anything taken off its channel.
Keeps(o, r) ==
  \A n \in Nat : (Fresh(o, n) => Fresh(r, n)) /\ (Begun(o, n) => Begun(r, n))

\* What the calling thread can tell of helper k is as true as it was.
Follows(k) ==
  /\ Others(k) /\ kid'[k].stdin = kid[k].stdin /\ kid'[k].reaped = kid[k].reaped
  /\ kid'[k].proc = "none" <=> kid[k].proc = "none"
  /\ kid[k].proc = "ok" => kid'[k].proc = "ok"
  /\ kid'[k].heir => kid[k].heir
  /\ kid'[k].rx = kid[k].rx /\ kid'[k].bytes >= kid[k].bytes
  /\ kid[k].rpc = "ended" => kid'[k].rpc = "ended" /\ kid'[k].bytes = kid[k].bytes
  /\ kid[k].rx => Keeps(kid[k], kid'[k])

\* A change that leaves the reader and its channel alone.
LEMMA ProcessFollows ==
  ASSUME TypeOK, NEW k \in Kids, NEW r \in Kid, kid' = [kid EXCEPT ![k] = r],
         r.chan = kid[k].chan, Talk(r) = Talk(kid[k]), r.rx = kid[k].rx,
         r.reaped = kid[k].reaped, r.proc = "none" <=> kid[k].proc = "none",
         kid[k].proc = "ok" => r.proc = "ok", r.heir => kid[k].heir
  PROVE  Follows(k) /\ KidTypes(kid')
<1>1. Len(r.chan) <= 1 /\ kid[k].bytes \in Nat
  BY Fields
<1>2. KidTypes(kid') /\ Others(k) /\ kid'[k] = r
  BY <1>1, Replaced
<1>3. r.rpc = kid[k].rpc /\ r.bytes = kid[k].bytes /\ r.stdin = kid[k].stdin
  BY DEF Talk
<1>4. Keeps(kid[k], r)
  BY <1>3 DEF Keeps, Fresh, Begun, Waits
<1> QED
  BY <1>1, <1>2, <1>3, <1>4 DEF Follows

\* A change of the reader and its channel.
LEMMA ReaderFollows ==
  ASSUME TypeOK, NEW k \in Kids, NEW r \in Kid, kid' = [kid EXCEPT ![k] = r], Len(r.chan) <= 1,
         Ran(r) = Ran(kid[k]), r.stdin = kid[k].stdin, r.rx = kid[k].rx,
         r.bytes >= kid[k].bytes, kid[k].rpc # "ended",
         kid[k].rx => Keeps(kid[k], r)
  PROVE  Follows(k) /\ KidTypes(kid')
<1>1. KidTypes(kid') /\ Others(k) /\ kid'[k] = r
  BY Replaced
<1> QED
  BY <1>1 DEF Follows, Ran

LEMMA ReaderReadDoes ==
  ASSUME TypeOK, NEW k \in Kids, ReaderRead(k)
  PROVE  Follows(k) /\ KidTypes(kid')
<1> DEFINE o == kid[k]
           p == o.pipe - 1
           b == o.bytes + 1
           r == [o EXCEPT !.rpc = "stamp", !.pipe = p, !.bytes = b]
<1>1. /\ o \in Kid /\ o.bytes \in Nat /\ Len(o.chan) <= 1 /\ o.rpc = "idle"
      /\ o.pipe \in Nat /\ o.pipe > 0
  BY Fields DEF ReaderRead, Kid
<1>2. kid' = [kid EXCEPT ![k] = r] /\ p \in Nat /\ b \in Nat /\ b = o.bytes + 1
  BY <1>1 DEF ReaderRead, Reader
<1> HIDE DEF p, b
<1>3. /\ r \in Kid /\ r.chan = o.chan /\ Ran(r) = Ran(o) /\ r.stdin = o.stdin /\ r.rx = o.rx
      /\ r.rpc = "stamp" /\ r.bytes = o.bytes + 1
  BY <1>1, <1>2 DEF Kid, Ran
<1> HIDE DEF r
<1>4. Keeps(o, r)
  BY <1>1, <1>3 DEF Keeps, Fresh, Begun, Waits
<1>5. /\ r \in Kid /\ Len(r.chan) <= 1 /\ r.bytes >= kid[k].bytes /\ kid[k].rpc # "ended"
      /\ Ran(r) = Ran(kid[k]) /\ r.stdin = kid[k].stdin /\ r.rx = kid[k].rx
  BY <1>1, <1>2, <1>3
<1>6. kid[k].rx => Keeps(kid[k], r)
  BY <1>4
<1>7. kid' = [kid EXCEPT ![k] = r]
  BY <1>2
<1> HIDE DEF o
<1> QED
  BY <1>5, <1>6, <1>7, ReaderFollows

LEMMA ReaderStampDoes ==
  ASSUME TypeOK, NEW k \in Kids, ReaderStamp(k)
  PROVE  Follows(k) /\ KidTypes(kid')
<1> DEFINE o == kid[k]
           b == ~o.allowed
           r == [o EXCEPT !.rpc = "started", !.before = b]
<1>1. o \in Kid /\ o.bytes \in Nat /\ Len(o.chan) <= 1 /\ o.rpc = "stamp"
  BY Fields DEF ReaderStamp
<1>2. kid' = [kid EXCEPT ![k] = r] /\ b \in BOOLEAN
  BY DEF ReaderStamp, Reader
<1> HIDE DEF b
<1>3. /\ r \in Kid /\ r.chan = o.chan /\ Ran(r) = Ran(o) /\ r.stdin = o.stdin /\ r.rx = o.rx
      /\ r.rpc = "started" /\ r.bytes = o.bytes
  BY <1>1, <1>2 DEF Kid, Ran
<1> HIDE DEF r
<1>4. Keeps(o, r)
  BY <1>1, <1>3 DEF Keeps, Fresh, Begun, Waits
<1>5. /\ r \in Kid /\ Len(r.chan) <= 1 /\ r.bytes >= kid[k].bytes /\ kid[k].rpc # "ended"
      /\ Ran(r) = Ran(kid[k]) /\ r.stdin = kid[k].stdin /\ r.rx = kid[k].rx
  BY <1>1, <1>2, <1>3
<1>6. kid[k].rx => Keeps(kid[k], r)
  BY <1>4
<1>7. kid' = [kid EXCEPT ![k] = r]
  BY <1>2
<1> HIDE DEF o
<1> QED
  BY <1>5, <1>6, <1>7, ReaderFollows

\* The newline, or an error: only the reader's position changes.
LEMMA ReaderPosition ==
  ASSUME TypeOK, NEW k \in Kids,
         NEW q \in {"frame", "broken", "failed"},
         \/ kid[k].rpc = "line" /\ q \in {"frame", "broken"}
         \/ kid[k].rpc = "idle" /\ q = "failed",
         kid' = [kid EXCEPT ![k] = [kid[k] EXCEPT !.rpc = q]]
  PROVE  Follows(k) /\ KidTypes(kid')
<1> DEFINE o == kid[k]
           r == [o EXCEPT !.rpc = q]
<1>1. o \in Kid /\ o.bytes \in Nat /\ Len(o.chan) <= 1
  BY Fields
<1>2. kid' = [kid EXCEPT ![k] = r]
  OBVIOUS
<1>3. /\ r \in Kid /\ r.chan = o.chan /\ Ran(r) = Ran(o) /\ r.stdin = o.stdin /\ r.rx = o.rx
      /\ r.rpc = q /\ r.bytes = o.bytes
  BY <1>1 DEF Kid, Ran
<1> HIDE DEF r
<1>4. Keeps(o, r)
  BY <1>1, <1>3 DEF Keeps, Fresh, Begun, Waits
<1>5. /\ r \in Kid /\ Len(r.chan) <= 1 /\ r.bytes >= kid[k].bytes /\ kid[k].rpc # "ended"
      /\ Ran(r) = Ran(kid[k]) /\ r.stdin = kid[k].stdin /\ r.rx = kid[k].rx
  BY <1>1, <1>2, <1>3
<1>6. kid[k].rx => Keeps(kid[k], r)
  BY <1>4
<1>7. kid' = [kid EXCEPT ![k] = r]
  BY <1>2
<1> HIDE DEF o
<1> QED
  BY <1>5, <1>6, <1>7, ReaderFollows

\* The reader returns.
LEMMA EndedFields ==
  ASSUME NEW o \in Kid
  PROVE  /\ Ended(o) \in Kid /\ Ended(o).chan = o.chan /\ Ran(Ended(o)) = Ran(o)
         /\ Ended(o).stdin = o.stdin /\ Ended(o).rx = o.rx
         /\ Ended(o).rpc = "ended" /\ Ended(o).bytes = o.bytes
  BY DEF Ended, Kid, Ran

LEMMA ReaderEofDoes ==
  ASSUME TypeOK, NEW k \in Kids, ReaderEof(k)
  PROVE  Follows(k) /\ KidTypes(kid')
<1>1. CASE kid[k].rpc = "line" /\ Reader(k, [kid[k] EXCEPT !.rpc = "frame"])
  BY <1>1, ReaderPosition DEF Reader
<1>2. CASE kid[k].rpc = "idle" /\ Reader(k, Ended(kid[k]))
  <2> DEFINE o == kid[k]
             r == Ended(o)
  <2>1. o \in Kid /\ o.bytes \in Nat /\ Len(o.chan) <= 1
    BY Fields
  <2>2. kid' = [kid EXCEPT ![k] = r]
    BY <1>2 DEF Reader
  <2>3. /\ r \in Kid /\ r.chan = o.chan /\ Ran(r) = Ran(o) /\ r.stdin = o.stdin
        /\ r.rx = o.rx /\ r.rpc = "ended" /\ r.bytes = o.bytes
    BY <2>1, EndedFields
  <2> HIDE DEF r
  <2>4. Keeps(o, r)
    BY <1>2, <2>1, <2>3 DEF Keeps, Fresh, Begun, Waits
  <2>5. /\ r \in Kid /\ Len(r.chan) <= 1 /\ r.bytes >= kid[k].bytes /\ kid[k].rpc # "ended"
        /\ Ran(r) = Ran(kid[k]) /\ r.stdin = kid[k].stdin /\ r.rx = kid[k].rx
    BY <1>2, <2>1, <2>3
  <2>6. kid[k].rx => Keeps(kid[k], r)
    BY <2>4
  <2> HIDE DEF o
  <2> QED
    BY <2>2, <2>5, <2>6, ReaderFollows
<1> QED
  BY <1>1, <1>2 DEF ReaderEof

\* One event in an empty channel.
LEMMA OneEvent ==
  ASSUME NEW e \in Events
  PROVE  /\ <<e>> \in Seq(Events) /\ Len(<<e>>) = 1 /\ <<e>> # <<>> /\ Head(<<e>>) = e
  OBVIOUS

LEMMA EventTypes ==
  ASSUME NEW o \in Kid, o.rpc \in {"started", "frame", "failed", "broken"}
  PROVE  /\ Event(o) \in Events
         /\ Event(o).type = (CASE o.rpc = "started" -> "started" [] o.rpc = "frame" -> "frame"
                               [] OTHER -> "failed")
         /\ o.rpc \in {"failed", "broken"} => (Event(o).flag <=> o.rpc = "broken")
<1>1. o.before \in BOOLEAN
  BY DEF Kid
<1>2. CASE o.rpc = "started"
  BY <1>1, <1>2 DEF Event, Events, Started
<1>3. CASE o.rpc = "frame"
  BY <1>1, <1>3 DEF Event, Events, Whole
<1>4. CASE o.rpc = "failed"
  <2>1. Event(o) = Failed(FALSE)
    BY <1>4 DEF Event, Failed
  <2> QED
    BY <1>4, <2>1 DEF Events, Failed
<1>5. CASE o.rpc = "broken"
  <2>1. Event(o) = Failed(TRUE)
    BY <1>5 DEF Event, Failed
  <2> QED
    BY <1>5, <2>1 DEF Events, Failed
<1> QED
  BY <1>2, <1>3, <1>4, <1>5

LEMMA ReaderSendDoes ==
  ASSUME TypeOK, NEW k \in Kids, ReaderSend(k)
  PROVE  Follows(k) /\ KidTypes(kid')
<1> DEFINE o == kid[k]
           sent == [o EXCEPT !.chan = <<Event(o)>>]
           next == CASE sent.rpc = "started" -> [sent EXCEPT !.rpc = "line"]
                     [] sent.rpc = "frame" -> [sent EXCEPT !.rpc = "idle", !.before = FALSE]
                     [] OTHER -> Ended(sent)
<1>1. /\ o \in Kid /\ o.bytes \in Nat /\ Len(o.chan) <= 1
      /\ o.rpc \in {"started", "frame", "failed", "broken"}
  BY Fields DEF ReaderSend
<1>2. CASE ~o.rx /\ Reader(k, Ended(o))
  <2>1. kid' = [kid EXCEPT ![k] = Ended(o)]
    BY <1>2 DEF Reader
  <2>2. /\ Ended(o) \in Kid /\ Ended(o).chan = o.chan /\ Ran(Ended(o)) = Ran(o)
        /\ Ended(o).stdin = o.stdin /\ Ended(o).rx = o.rx /\ Ended(o).bytes = o.bytes
    BY <1>1, EndedFields
  <2>3. /\ Len(Ended(o).chan) <= 1 /\ Ended(o).bytes >= kid[k].bytes /\ kid[k].rpc # "ended"
        /\ ~kid[k].rx
    BY <1>1, <1>2, <2>2
  <2> QED
    BY <2>1, <2>2, <2>3, ReaderFollows
<1>3. CASE o.rx /\ o.chan = <<>> /\ Reader(k, next)
  <2>1. /\ <<Event(o)>> \in Seq(Events) /\ Len(<<Event(o)>>) = 1 /\ <<Event(o)>> # <<>>
        /\ Head(<<Event(o)>>) = Event(o)
    BY <1>1, EventTypes, OneEvent
  <2>2. /\ sent \in Kid /\ sent.chan = <<Event(o)>> /\ Ran(sent) = Ran(o)
        /\ sent.stdin = o.stdin /\ sent.rx = o.rx /\ sent.rpc = o.rpc /\ sent.bytes = o.bytes
    BY <1>1, <2>1 DEF Kid, Ran
  <2> HIDE DEF sent
  <2>3. /\ next \in Kid /\ next.chan = sent.chan /\ Ran(next) = Ran(sent)
        /\ next.stdin = sent.stdin /\ next.rx = sent.rx /\ next.bytes = sent.bytes
        /\ next.rpc = CASE sent.rpc = "started" -> "line" [] sent.rpc = "frame" -> "idle"
                        [] OTHER -> "ended"
    <3>1. CASE sent.rpc = "started"
      <4>1. next = [sent EXCEPT !.rpc = "line"]
        BY <3>1
      <4> QED
        BY <2>2, <3>1, <4>1 DEF Kid, Ran
    <3>2. CASE sent.rpc = "frame"
      <4>1. next = [sent EXCEPT !.rpc = "idle", !.before = FALSE]
        BY <3>2
      <4> QED
        BY <2>2, <3>2, <4>1 DEF Kid, Ran
    <3>3. CASE sent.rpc \in {"failed", "broken"}
      <4>1. next = Ended(sent)
        BY <3>3
      <4> QED
        BY <2>2, <3>3, <4>1, EndedFields
    <3> QED
      BY <1>1, <2>2, <3>1, <3>2, <3>3
  <2>4. kid' = [kid EXCEPT ![k] = next]
    BY <1>3 DEF Reader
  <2> HIDE DEF next
  <2>5. next.chan # <<>> /\ Head(next.chan) = Event(o)
    BY <2>1, <2>2, <2>3
  <2>6. Keeps(o, next)
    <3>1. CASE o.rpc = "started"
      <4>1. Event(o).type = "started" /\ next.rpc = "line"
        BY <1>1, <2>2, <2>3, <3>1, EventTypes
      <4> QED
        BY <1>3, <2>2, <2>3, <2>5, <3>1, <4>1 DEF Keeps, Fresh, Begun, Waits
    <3>2. CASE o.rpc = "frame"
      <4>1. Event(o).type = "frame" /\ next.rpc = "idle"
        BY <1>1, <2>2, <2>3, <3>2, EventTypes
      <4> QED
        BY <1>3, <2>2, <2>3, <2>5, <3>2, <4>1 DEF Keeps, Fresh, Begun, Waits
    <3>3. CASE o.rpc = "failed"
      <4>1. Event(o).type = "failed" /\ ~Event(o).flag /\ next.rpc = "ended"
        BY <1>1, <2>2, <2>3, <3>3, EventTypes
      <4> QED
        BY <1>3, <2>2, <2>3, <2>5, <3>3, <4>1 DEF Keeps, Fresh, Begun, Waits
    <3>4. CASE o.rpc = "broken"
      <4>1. Event(o).type = "failed" /\ Event(o).flag /\ next.rpc = "ended"
        BY <1>1, <2>2, <2>3, <3>4, EventTypes
      <4> QED
        BY <1>3, <2>2, <2>3, <2>5, <3>4, <4>1 DEF Keeps, Fresh, Begun, Waits
    <3> QED
      BY <1>1, <3>1, <3>2, <3>3, <3>4
  <2>7. /\ next \in Kid /\ Len(next.chan) <= 1
        /\ next.bytes >= kid[k].bytes /\ kid[k].rpc # "ended"
        /\ Ran(next) = Ran(kid[k]) /\ next.stdin = kid[k].stdin /\ next.rx = kid[k].rx
    BY <1>1, <2>1, <2>2, <2>3
  <2>8. kid[k].rx => Keeps(kid[k], next)
    BY <2>6
  <2> HIDE DEF o
  <2> QED
    BY <2>4, <2>7, <2>8, ReaderFollows
<1> QED
  BY <1>2, <1>3 DEF ReaderSend

LEMMA ReaderErrorDoes ==
  ASSUME TypeOK, NEW k \in Kids, ReaderLine(k) \/ ReaderError(k)
  PROVE  Follows(k) /\ KidTypes(kid')
<1>1. CASE ReaderLine(k)
  BY <1>1, ReaderPosition DEF ReaderLine, Reader
<1>2. CASE ReaderError(k)
  <2> DEFINE q == IF kid[k].rpc = "line" THEN "broken" ELSE "failed"
  <2>1. kid' = [kid EXCEPT ![k] = [kid[k] EXCEPT !.rpc = q]]
    BY <1>2, Fields DEF ReaderError, Reader, Kid
  <2>2. /\ q \in {"frame", "broken", "failed"}
        /\ \/ kid[k].rpc = "line" /\ q \in {"frame", "broken"}
           \/ kid[k].rpc = "idle" /\ q = "failed"
    BY <1>2 DEF ReaderError
  <2> HIDE DEF q
  <2> QED
    BY <2>1, <2>2, ReaderPosition
<1> QED
  BY <1>1, <1>2

LEMMA WriteDoes ==
  ASSUME TypeOK, NEW k \in Kids, Write(k)
  PROVE  Follows(k) /\ KidTypes(kid')
<1> DEFINE o == kid[k]
           p == o.pipe + 1
           r == [o EXCEPT !.pipe = p]
<1>a. o \in Kid
  BY Fields
<1>b. o.pipe \in Nat
  BY <1>a DEF Kid
<1>c. p \in Nat
  BY <1>b
<1>d. kid' = [kid EXCEPT ![k] = r]
  BY DEF Write, External
<1>1. o \in Kid /\ p \in Nat /\ kid' = [kid EXCEPT ![k] = r]
  BY <1>a, <1>c, <1>d
<1> HIDE DEF p
<1>2. /\ r \in Kid /\ r.chan = o.chan /\ Talk(r) = Talk(o) /\ r.rx = o.rx
      /\ r.reaped = o.reaped /\ r.proc = o.proc /\ r.heir = o.heir
  BY <1>1 DEF Kid, Talk
<1> HIDE DEF r
<1> QED
  BY <1>1, <1>2, ProcessFollows

LEMMA ExitDoes ==
  ASSUME TypeOK, NEW k \in Kids, Exit(k)
  PROVE  Follows(k) /\ KidTypes(kid')
<1>1. PICK p \in {"ok", "failed"} : kid' = [kid EXCEPT ![k] = [kid[k] EXCEPT !.proc = p]]
  BY DEF Exit, External
<1> DEFINE o == kid[k]
           r == [o EXCEPT !.proc = p]
<1>2. o \in Kid /\ o.proc = "live" /\ kid' = [kid EXCEPT ![k] = r]
  BY <1>1, Fields DEF Exit
<1>3. /\ r \in Kid /\ r.chan = o.chan /\ Talk(r) = Talk(o) /\ r.rx = o.rx
      /\ r.reaped = o.reaped /\ r.proc = p /\ r.heir = o.heir
  BY <1>2 DEF Kid, Talk
<1> HIDE DEF r
<1> QED
  BY <1>2, <1>3, ProcessFollows

LEMMA CallRestDoes ==
  ASSUME TypeOK, NEW k \in Kids, CallRest(k)
  PROVE  Follows(k) /\ KidTypes(kid')
<1> DEFINE o == kid[k]
           r == [o EXCEPT !.rest = TRUE]
<1>1. o \in Kid /\ kid' = [kid EXCEPT ![k] = r]
  BY Fields DEF CallRest, External
<1>2. /\ r \in Kid /\ r.chan = o.chan /\ Talk(r) = Talk(o) /\ r.rx = o.rx
      /\ r.reaped = o.reaped /\ r.proc = o.proc /\ r.heir = o.heir
  BY <1>1 DEF Kid, Talk
<1> HIDE DEF r
<1> QED
  BY <1>1, <1>2, ProcessFollows

LEMMA HeirExitsDoes ==
  ASSUME TypeOK, HeirExits
  PROVE  Follows("helper") /\ KidTypes(kid')
<1> DEFINE o == kid["helper"]
           r == [o EXCEPT !.heir = FALSE]
<1>1. o \in Kid /\ kid' = [kid EXCEPT !["helper"] = r]
  BY Fields DEF HeirExits, External
<1>2. /\ r \in Kid /\ r.chan = o.chan /\ Talk(r) = Talk(o) /\ r.rx = o.rx
      /\ r.reaped = o.reaped /\ r.proc = o.proc /\ ~r.heir
  BY <1>1 DEF Kid, Talk
<1> HIDE DEF r
<1> QED
  BY <1>1, <1>2, ProcessFollows

\* A step of anybody but the calling thread leaves that thread where it is, and
\* at most one helper follows.
Elsewhere ==
  /\ cfg' = cfg /\ Stays /\ KidTypes(kid')
  /\ kid' = kid \/ \E k \in Kids : Follows(k)

LEMMA ElsewhereDoes ==
  ASSUME TypeOK,
         \/ Watcher \/ Deadline \/ HeirExits \/ Over
         \/ \E k \in Kids : \/ ReaderStep(k) \/ ReaderLine(k) \/ ReaderError(k) \/ Write(k)
                            \/ Exit(k) \/ CallRest(k)
         \/ \E flag \in DOMAIN env : Raise(flag)
  PROVE  Elsewhere
<1>1. host' = host => Stays
  BY Fields DEF Stays, HostTo
<1>2. kid' = kid => KidTypes(kid')
  BY Fields
<1>3. CASE Watcher \/ Over \/ \E flag \in DOMAIN env : Raise(flag)
  BY <1>1, <1>2, <1>3 DEF Watcher, Over, Raise, Elsewhere
<1>4. CASE Deadline
  <2>1. host' = [host EXCEPT !.late = TRUE]
    BY <1>4 DEF Deadline
  <2>2. Stays
    BY <2>1, Fields DEF Stays, HostTo, Host
  <2> QED
    BY <1>2, <1>4, <2>2 DEF Deadline, Elsewhere
<1>5. CASE HeirExits
  <2>1. host' = host /\ cfg' = cfg
    BY <1>5 DEF HeirExits, External
  <2> QED
    BY <1>1, <1>5, <2>1, HeirExitsDoes DEF Elsewhere
<1>6. ASSUME NEW k \in Kids,
             \/ ReaderStep(k) \/ ReaderLine(k) \/ ReaderError(k) \/ Write(k) \/ Exit(k)
             \/ CallRest(k)
      PROVE  Elsewhere
  <2>1. host' = host /\ cfg' = cfg
    BY <1>6 DEF ReaderStep, ReaderRead, ReaderStamp, ReaderEof, ReaderSend, ReaderLine,
                ReaderError, Reader, Write, Exit, CallRest, External
  <2>2. Follows(k) /\ KidTypes(kid')
    BY <1>6, ReaderReadDoes, ReaderStampDoes, ReaderEofDoes, ReaderSendDoes, ReaderErrorDoes,
       WriteDoes, ExitDoes, CallRestDoes DEF ReaderStep
  <2> QED
    BY <1>1, <2>1, <2>2 DEF Elsewhere
<1> QED
  BY <1>3, <1>4, <1>5, <1>6

-----------------------------------------------------------------------------
(* The invariant, conjunct by conjunct *)

LEMMA CfgStays ==
  ASSUME [Next]_vars
  PROVE  cfg' = cfg
<1>1. CASE HostStep \/ Finish \/ Cancel
  BY <1>1 DEF HostStep, Resolve, HelperWait, HelperCollect, Probe, EncodeFails, StartWorker,
     WriteRequest, RecvPoll, RecvStarted, RecvFrame, RecvFailed, RecvDisconnected, Terminate,
     Grace, ReturnFailed, Reap, Join, FinishCheck, FinishBody, FinishAllow, FinishLine, Unsent,
     Quiet, Batch, Finish, Cancel
<1>2. CASE Watcher \/ Deadline \/ HeirExits \/ Over \/ \E flag \in DOMAIN env : Raise(flag)
  BY <1>2 DEF Watcher, Deadline, HeirExits, Over, Raise, External
<1>3. ASSUME NEW k \in Kids,
             \/ ReaderStep(k) \/ ReaderLine(k) \/ ReaderError(k) \/ Write(k) \/ Exit(k)
             \/ CallRest(k)
      PROVE  cfg' = cfg
  BY <1>3 DEF ReaderStep, ReaderRead, ReaderStamp, ReaderEof, ReaderSend, ReaderLine,
     ReaderError, Reader, Write, Exit, CallRest, External
<1> QED
  BY <1>1, <1>2, <1>3 DEF Next

\* Nobody is started when an event is taken, something is said, a helper is
\* waited for or channels are dropped.
Existed(k) == kid'[k].proc # "none" <=> kid[k].proc # "none"
LEMMA TakesExisting ==
  ASSUME NEW k \in Kids, Takes(k)
  PROVE  \A j \in Kids : Existed(j)
<1> SUFFICES ASSUME NEW j \in Kids PROVE Existed(j)
  OBVIOUS
<1> QED
  BY DEF Takes, Others, Ran, Existed

LEMMA TellsExisting ==
  ASSUME NEW k \in Kids, NEW what, Tells(k, what)
  PROVE  \A j \in Kids : Existed(j)
<1> SUFFICES ASSUME NEW j \in Kids PROVE Existed(j)
  OBVIOUS
<1> QED
  BY DEF Tells, Others, Ran, Existed

LEMMA WaitedExisting ==
  ASSUME NEW k \in Kids, Waited(k)
  PROVE  \A j \in Kids : Existed(j)
<1> SUFFICES ASSUME NEW j \in Kids PROVE Existed(j)
  OBVIOUS
<1> QED
  BY DEF Waited, Ran, Existed

LEMMA PhaseStep ==
  ASSUME ExchangeInv, [Next]_vars
  PROVE  PhaseInv'
<1>0. TypeOK /\ PhaseInv /\ cfg' = cfg
  BY CfgStays DEF ExchangeInv
<1> USE DEF PhaseInv, Batched, BatchWorker, StartPcs, HelperPcs, ProbePcs, ReadyPcs, FinishPcs,
            BatchPcs, Ending
<1>1. CASE Resolve
  BY <1>1, <1>0, ResolveDoes DEF HostTo, At, Fails, Moves, Others
<1>2. CASE HelperWait
  BY <1>2, <1>0, HelperWaitDoes, WaitedExisting DEF HostTo, At, Moves, Existed
<1>3. CASE HelperCollect
  BY <1>3, <1>0, HelperCollectDoes DEF HostTo, At, Fails
<1>4. CASE Probe
  BY <1>4, <1>0, ProbeDoes DEF HostTo, At, Spawned, Others, Moves
<1>5. CASE EncodeFails
  BY <1>5, <1>0, EncodeFailsDoes DEF HostTo, At, Moves
<1>6. CASE StartWorker
  BY <1>6, <1>0, StartWorkerDoes DEF HostTo, At, Moves, Spawned, Others
<1>7. CASE WriteRequest
  BY <1>7, <1>0, WriteRequestDoes, TellsExisting DEF HostTo, At, Moves, Terminates, Existed
<1>8. CASE RecvPoll
  BY <1>8, <1>0, RecvPollDoes DEF HostTo, At, EndsFor, Terminates, RecvPcs
<1>9. CASE RecvStarted
  BY <1>9, <1>0, RecvStartedDoes, TakesExisting DEF HostTo, EndsFor, Terminates, RecvPcs,
     Existed
<1>10. CASE RecvFrame
  <2>1. /\ host.pc \in RecvPcs /\ host.kid \in Kids /\ \A j \in Kids : Existed(j)
        /\ EndsFor(TRUE) \/ AcceptsTo
    BY <1>10, <1>0, RecvFrameDoes, Fields, TakesExisting
  <2>2. CASE EndsFor(TRUE)
    BY <1>0, <2>1, <2>2 DEF EndsFor, Terminates, HostTo, RecvPcs, Existed
  <2>3. CASE AcceptsTo
    BY <1>0, <2>1, <2>3 DEF AcceptsTo, Moves, HostTo, At, RecvPcs, Existed
  <2> QED
    BY <2>1, <2>2, <2>3
<1>11. CASE RecvFailed
  BY <1>11, <1>0, RecvFailedDoes, TakesExisting DEF HostTo, At, EndsFor, Terminates, RecvPcs,
     Existed
<1>12. CASE RecvDisconnected
  BY <1>12, <1>0, RecvDisconnectedDoes DEF HostTo, At, EndsFor, Terminates, RecvPcs
<1>13. CASE Terminate
  BY <1>13, <1>0, TerminateDoes, Fields, WaitedExisting DEF HostTo, At, Moves, Returns, Existed
<1>14. CASE Grace
  BY <1>14, <1>0, GraceDoes, Fields, WaitedExisting DEF HostTo, At, Moves, Returns, Existed
<1>15. CASE ReturnFailed
  BY <1>15, <1>0, ReturnFailedDoes DEF HostTo, At, Fails
<1>16. CASE Reap
  BY <1>16, <1>0, ReapDoes, WaitedExisting DEF HostTo, Terminates, ReapPcs, Existed
<1>17. CASE Join
  BY <1>17, <1>0, JoinDoes DEF HostTo, At, Drops
<1>18. CASE FinishCheck
  BY <1>18, <1>0, FinishCheckDoes, TakesExisting DEF HostTo, At, Terminates, Moves, Existed
<1>19. CASE FinishBody
  BY <1>19, <1>0, FinishBodyDoes DEF HostTo, At, Moves, Terminates
<1>20. CASE FinishAllow
  BY <1>20, <1>0, FinishAllowDoes, TellsExisting DEF HostTo, At, Moves, Existed
<1>21. CASE FinishLine
  BY <1>21, <1>0, FinishLineDoes, TellsExisting DEF HostTo, At, Moves, Terminates, Existed
<1>22. CASE Unsent
  BY <1>22, <1>0, UnsentDoes DEF HostTo, At, Fails, Moves
<1>23. CASE Quiet
  BY <1>23, <1>0, QuietDoes, TakesExisting DEF HostTo, At, Fails, Stays, Moves, Existed
<1>24. CASE Batch
  BY <1>24, <1>0, BatchDoes DEF HostTo, At, Fails
<1>25. CASE Finish
  BY <1>25, <1>0, FinishDoes DEF HostTo, At
<1>26. CASE Cancel
  BY <1>26, <1>0, CancelDoes DEF HostTo, At
<1>27. CASE Elsewhere
  BY <1>27, <1>0 DEF Elsewhere, Stays, HostTo, Follows, Others
<1>28. CASE UNCHANGED vars
  BY <1>28, <1>0
<1> QED
  BY <1>0, <1>1, <1>2, <1>3, <1>4, <1>5, <1>6, <1>7, <1>8, <1>9, <1>10, <1>11, <1>12, <1>13,
     <1>14, <1>15, <1>16, <1>17, <1>18, <1>19, <1>20, <1>21, <1>22, <1>23, <1>24, <1>25, <1>26,
     <1>27, <1>28, ElsewhereDoes DEF Next, HostStep

\* A helper to be waited for, and what becomes of it in the steps.
Up(k) == kid[k].proc # "none" /\ ~kid[k].reaped
SameUp(k) == (Up(k)' <=> Up(k)) /\ (kid'[k].heir => kid[k].heir)

LEMMA TakesUp ==
  ASSUME NEW k \in Kids, Takes(k)
  PROVE  \A j \in Kids : SameUp(j)
<1> SUFFICES ASSUME NEW j \in Kids PROVE SameUp(j)
  OBVIOUS
<1> QED
  BY DEF Takes, Others, Ran, SameUp, Up

LEMMA TellsUp ==
  ASSUME NEW k \in Kids, NEW what, Tells(k, what)
  PROVE  \A j \in Kids : SameUp(j)
<1> SUFFICES ASSUME NEW j \in Kids PROVE SameUp(j)
  OBVIOUS
<1> QED
  BY DEF Tells, Others, Ran, SameUp, Up

LEMMA DropsUp ==
  ASSUME NEW ks, Drops(ks)
  PROVE  \A j \in Kids : SameUp(j)
<1> SUFFICES ASSUME NEW j \in Kids PROVE SameUp(j)
  OBVIOUS
<1> QED
  BY DEF Drops, Ran, SameUp, Up

LEMMA WaitedUp ==
  ASSUME NEW k \in Kids, Waited(k)
  PROVE  /\ ~Up(k)' /\ \A j \in Kids \ {k} : SameUp(j)
         /\ \A j \in Kids : kid'[j].heir => kid[j].heir
<1>1. ~Up(k)' /\ (kid'[k].heir => kid[k].heir)
  BY DEF Waited, Up
<1>2. ASSUME NEW j \in Kids \ {k} PROVE SameUp(j)
  BY <1>2 DEF Waited, Ran, SameUp, Up
<1> QED
  BY <1>1, <1>2 DEF SameUp

LEMMA SpawnedUp ==
  ASSUME NEW k \in Kids, Spawned(k)
  PROVE  Up(k)' /\ \A j \in Kids \ {k} : SameUp(j)
BY DEF Spawned, Others, SameUp, Up

LEMMA FollowsUp ==
  ASSUME NEW k \in Kids, Follows(k)
  PROVE  \A j \in Kids : SameUp(j)
<1> SUFFICES ASSUME NEW j \in Kids PROVE SameUp(j)
  OBVIOUS
<1> QED
  BY DEF Follows, Others, SameUp, Up

\* A helper that was being ended has been waited for, and where terminate
\* returns to owes none.
LEMMA EndedSup ==
  ASSUME TypeOK, PhaseInv, SupInv, Ending, Moves(host.ret), Waited(host.kid)
  PROVE  SupInv'
<1>1. /\ host'.pc = host.ret /\ host'.running = host.running /\ host.kid \in Kids
      /\ host.ret \in Returns /\ host.kid # "helper"
  BY Fields DEF Moves, HostTo, PhaseInv
<1>2. \A k \in Kids : Up(k) => k = host.kid
  BY DEF SupInv, Up
<1>3. \A k \in Kids : ~Up(k)' /\ (kid'[k].heir => kid[k].heir)
  BY <1>1, <1>2, WaitedUp DEF SameUp
<1>4. ~Owing'
  BY <1>1 DEF Owing, Returns, PhaseInv, Ending, StartPcs, ProbePcs, ReadyPcs, FinishPcs, BatchPcs
<1>5. ~kid["helper"].heir
  BY DEF SupInv, Ending, HelperPcs
<1>6. "helper" \in Kids
  BY DEF Kids
<1> QED
  BY <1>3, <1>4, <1>5, <1>6 DEF SupInv, Up

LEMMA SupStep ==
  ASSUME ExchangeInv, [Next]_vars
  PROVE  SupInv'
<1>0. TypeOK /\ PhaseInv /\ SupInv
  BY DEF ExchangeInv
<1>1. CASE Resolve
  BY <1>1, <1>0, ResolveDoes, DropsUp DEF HostTo, At, Fails, Moves, Others, SameUp, Up, SupInv,
     Owing, PhaseInv, StartPcs, HelperPcs, ProbePcs, ReadyPcs, FinishPcs, BatchPcs, Ending
<1>2. CASE HelperWait
  BY <1>2, <1>0, HelperWaitDoes, WaitedUp DEF HostTo, At, Moves, SameUp, Up, SupInv, Owing,
     PhaseInv, HelperPcs, ProbePcs, ReadyPcs, FinishPcs, BatchPcs
<1>3. CASE HelperCollect
  BY <1>3, <1>0, HelperCollectDoes, WaitedUp, DropsUp DEF HostTo, At, Fails, SameUp, Up, SupInv,
     Owing, ProbePcs, ReadyPcs, FinishPcs, BatchPcs
<1>4. CASE Probe
  BY <1>4, <1>0, ProbeDoes, SpawnedUp DEF HostTo, At, Moves, SameUp, Up, SupInv, Owing,
     PhaseInv, StartPcs, HelperPcs, ProbePcs, ReadyPcs, FinishPcs, BatchPcs, Ending
<1>5. CASE EncodeFails
  BY <1>5, <1>0, EncodeFailsDoes DEF HostTo, At, Moves, SupInv, Owing, PhaseInv, StartPcs,
     HelperPcs, ProbePcs, ReadyPcs, FinishPcs, BatchPcs
<1>6. CASE StartWorker
  BY <1>6, <1>0, StartWorkerDoes, SpawnedUp DEF HostTo, At, Moves, SameUp, Up, SupInv, Owing,
     PhaseInv, StartPcs, HelperPcs, ProbePcs, ReadyPcs, FinishPcs, BatchPcs
<1>7. CASE WriteRequest
  BY <1>7, <1>0, WriteRequestDoes, Fields, TellsUp DEF HostTo, At, Moves, Terminates, SameUp,
     Up, SupInv, Owing, HelperPcs, ReadyPcs, BatchPcs
<1>8. CASE RecvPoll
  BY <1>8, <1>0, RecvPollDoes DEF HostTo, EndsFor, Terminates, RecvPcs, SupInv, Owing,
     HelperPcs, ProbePcs, ReadyPcs, FinishPcs, BatchPcs
<1>9. CASE RecvStarted
  BY <1>9, <1>0, RecvStartedDoes, Fields, TakesUp DEF HostTo, EndsFor, Terminates, RecvPcs,
     SameUp, Up, SupInv, Owing, HelperPcs, ProbePcs, ReadyPcs, FinishPcs, BatchPcs
<1>10. CASE RecvFrame
  BY <1>10, <1>0, RecvFrameDoes, Fields, TakesUp DEF HostTo, EndsFor, Terminates, AcceptsTo,
     Moves, RecvPcs, SameUp, Up, SupInv, Owing, HelperPcs, ProbePcs, ReadyPcs, FinishPcs,
     BatchPcs
<1>11. CASE RecvFailed
  BY <1>11, <1>0, RecvFailedDoes, Fields, TakesUp DEF HostTo, EndsFor, Terminates, RecvPcs,
     SameUp, Up, SupInv, Owing, HelperPcs, ProbePcs, ReadyPcs, FinishPcs, BatchPcs
<1>12. CASE RecvDisconnected
  BY <1>12, <1>0, RecvDisconnectedDoes DEF HostTo, EndsFor, Terminates, RecvPcs, SupInv, Owing,
     HelperPcs, ProbePcs, ReadyPcs, FinishPcs, BatchPcs
<1>13. CASE Terminate
  <2>1. CASE Moves("grace") /\ kid' = kid
    BY <1>13, <1>0, <2>1, TerminateDoes DEF Moves, HostTo, At, Up, SupInv, Owing, HelperPcs
  <2> QED
    BY <1>13, <1>0, <2>1, TerminateDoes, EndedSup DEF At, Ending
<1>14. CASE Grace
  BY <1>14, <1>0, GraceDoes, EndedSup DEF At, Ending
<1>15. CASE ReturnFailed
  BY <1>15, <1>0, ReturnFailedDoes, DropsUp DEF HostTo, At, Fails, SameUp, Up, SupInv, Owing
<1>16. CASE Reap
  <2> USE DEF HostTo, SameUp, Up, SupInv, Owing, ReapPcs
  <2>1. host.pc \in ReapPcs /\ host.kid \in Kids /\ host.kid # "helper"
    BY <1>16, <1>0, ReapDoes DEF PhaseInv, ProbePcs, FinishPcs, BatchPcs
  <2>2. CASE Terminates(IF host.startup THEN "join" ELSE "done") /\ kid' = kid
    BY <1>0, <2>1, <2>2 DEF Terminates, ProbePcs, FinishPcs, BatchPcs, HelperPcs
  <2>3. ASSUME Waited(host.kid), host'.kid = host.kid, host'.running = host.running,
               \/ host'.pc \in {"request", "done"}
               \/ host'.pc = "join" /\ host.startup
        PROVE  SupInv'
    <3>1. ~Up(host.kid)' /\ \A j \in Kids \ {host.kid} : SameUp(j)
      BY <2>1, <2>3, WaitedUp
    <3>2. ~Owing'
      BY <1>0, <2>1, <2>3 DEF PhaseInv, ProbePcs, ReadyPcs, FinishPcs, BatchPcs
    <3>3. ~kid'["helper"].heir
      BY <1>0, <2>1, <3>1 DEF HelperPcs
    <3>4. \A k \in Kids : ~Up(k)'
      <4> SUFFICES ASSUME NEW k \in Kids, k # host.kid PROVE ~Up(k)'
        BY <2>3, <3>1
      <4>1. ~Up(k)
        BY <1>0
      <4> QED
        BY <3>1, <4>1
    <3> QED
      BY <3>2, <3>3, <3>4
  <2> QED
    BY <1>16, <1>0, <2>2, <2>3, ReapDoes
<1>17. CASE Join
  BY <1>17, <1>0, JoinDoes, DropsUp DEF HostTo, At, SameUp, Up, SupInv, Owing, PhaseInv,
     HelperPcs, ProbePcs, ReadyPcs, FinishPcs, BatchPcs
<1>18. CASE FinishCheck
  BY <1>18, <1>0, FinishCheckDoes, Fields, TakesUp DEF HostTo, At, Terminates, Moves, Now,
     SameUp, Up, SupInv, Owing, HelperPcs, FinishPcs
<1>19. CASE FinishBody
  BY <1>19, <1>0, FinishBodyDoes DEF HostTo, At, Moves, Terminates, SupInv, Owing, HelperPcs,
     FinishPcs
<1>20. CASE FinishAllow
  BY <1>20, <1>0, FinishAllowDoes, TellsUp DEF HostTo, At, Moves, SameUp, Up, SupInv, Owing,
     HelperPcs, FinishPcs
<1>21. CASE FinishLine
  BY <1>21, <1>0, FinishLineDoes, TellsUp DEF HostTo, At, Moves, Terminates, SameUp, Up, SupInv,
     Owing, HelperPcs, FinishPcs
<1>22. CASE Unsent
  BY <1>22, <1>0, UnsentDoes, DropsUp DEF HostTo, At, Fails, Moves, SameUp, Up, SupInv, Owing,
     HelperPcs, ProbePcs, ReadyPcs, FinishPcs, BatchPcs
<1>23. CASE Quiet
  BY <1>23, <1>0, QuietDoes, Fields, TakesUp, DropsUp DEF HostTo, At, Fails, Stays, Moves,
     SameUp, Up, SupInv, Owing, HelperPcs, ProbePcs, ReadyPcs, FinishPcs, BatchPcs
<1>24. CASE Batch
  BY <1>24, <1>0, BatchDoes, DropsUp, SpawnedUp DEF HostTo, At, Fails, SameUp, Up, SupInv,
     Owing, HelperPcs, ProbePcs, ReadyPcs, FinishPcs, BatchPcs
<1>25. CASE Finish
  BY <1>25, <1>0, FinishDoes DEF HostTo, At, SupInv, Owing, HelperPcs, ProbePcs, ReadyPcs,
     FinishPcs, BatchPcs
<1>26. CASE Cancel
  BY <1>26, <1>0, CancelDoes DEF HostTo, At, SupInv, Owing, HelperPcs, ProbePcs, ReadyPcs,
     FinishPcs, BatchPcs
<1>27. CASE Elsewhere
  BY <1>27, <1>0, FollowsUp DEF Elsewhere, Stays, HostTo, SupInv, Owing, Up, SameUp
<1>28. CASE UNCHANGED vars
  BY <1>28, <1>0 DEF SupInv, Owing
<1> QED
  BY <1>0, <1>1, <1>2, <1>3, <1>4, <1>5, <1>6, <1>7, <1>8, <1>9, <1>10, <1>11, <1>12, <1>13,
     <1>14, <1>15, <1>16, <1>17, <1>18, <1>19, <1>20, <1>21, <1>22, <1>23, <1>24, <1>25, <1>26,
     <1>27, <1>28, ElsewhereDoes DEF Next, HostStep

\* What is known of a helper's reader and channel stays known.
Still(j) == kid'[j].rx = kid[j].rx /\ (kid[j].rx => Keeps(kid[j], kid'[j]))

LEMMA SameKeeps ==
  ASSUME NEW o, NEW r, r.chan = o.chan, r.rpc = o.rpc, r.bytes = o.bytes
  PROVE  Keeps(o, r)
  BY DEF Keeps, Fresh, Begun, Waits

LEMMA TellsStill ==
  ASSUME NEW k \in Kids, NEW what, Tells(k, what)
  PROVE  \A j \in Kids : Still(j)
<1> SUFFICES ASSUME NEW j \in Kids PROVE Still(j)
  OBVIOUS
<1> QED
  BY SameKeeps DEF Tells, Others, Still

LEMMA DropsStill ==
  ASSUME NEW ks, Drops(ks)
  PROVE  \A j \in Kids \ ks : Still(j)
  BY SameKeeps DEF Drops, Still

LEMMA IntactStill ==
  ASSUME NEW k \in Kids, Waited(k), Intact(k)
  PROVE  \A j \in Kids : Still(j)
<1> SUFFICES ASSUME NEW j \in Kids PROVE Still(j)
  OBVIOUS
<1>1. kid'[j].chan = kid[j].chan /\ kid'[j].rx = kid[j].rx
  BY DEF Intact, Others
<1>2. kid'[j].rpc = kid[j].rpc /\ kid'[j].bytes = kid[j].bytes
  BY DEF Waited, Talk
<1> QED
  BY <1>1, <1>2, SameKeeps DEF Still

LEMMA FollowsStill ==
  ASSUME NEW k \in Kids, Follows(k)
  PROVE  \A j \in Kids : Still(j)
<1> SUFFICES ASSUME NEW j \in Kids PROVE Still(j)
  OBVIOUS
<1>1. CASE j = k
  BY <1>1 DEF Follows, Still
<1>2. CASE j # k
  BY <1>2, SameKeeps DEF Follows, Others, Still
<1> QED
  BY <1>1, <1>2

\* What is heard stays heard.
LEMMA StillHeard ==
  ASSUME NEW j \in Kids, Still(j), NEW n \in Nat, NEW seen
  PROVE  /\ Heard(kid[j], n, seen) => Heard(kid'[j], n, seen)
         /\ kid[j].rx /\ Fresh(kid[j], n) => kid'[j].rx /\ Fresh(kid'[j], n)
  BY DEF Still, Keeps, Heard

\* A helper that has just been started, and one whose event has been taken.
LEMMA SpawnedHeard ==
  ASSUME NEW k \in Kids, Spawned(k)
  PROVE  Heard(kid'[k], 0, FALSE)
  BY DEF Spawned, Heard, Fresh

LEMMA TakenHeard ==
  ASSUME NEW k \in Kids, Takes(k), NEW n \in Nat, NEW seen \in BOOLEAN, Heard(kid[k], n, seen)
  PROVE  /\ Waits(kid[k], "started") => ~seen /\ Heard(kid'[k], n, TRUE)
         /\ Waits(kid[k], "frame") => seen /\ kid'[k].rx /\ Fresh(kid'[k], n + 1)
         /\ Waits(kid[k], "failed") /\ ~seen /\ ~Head(kid[k].chan).flag =>
              /\ kid'[k].rx /\ Fresh(kid'[k], n)
              /\ kid'[k].rpc = "ended" /\ kid'[k].bytes = n
<1>1. /\ kid'[k].chan = <<>> /\ kid'[k].rpc = kid[k].rpc /\ kid'[k].bytes = kid[k].bytes
      /\ kid'[k].rx = kid[k].rx
  BY DEF Takes
<1>2. CASE Waits(kid[k], "started")
  BY <1>1, <1>2 DEF Heard, Fresh, Begun, Waits
<1>3. CASE Waits(kid[k], "frame")
  BY <1>1, <1>3 DEF Heard, Fresh, Begun, Waits
<1>4. CASE Waits(kid[k], "failed") /\ ~seen /\ ~Head(kid[k].chan).flag
  BY <1>1, <1>4 DEF Heard, Fresh, Waits
<1> QED
  BY <1>2, <1>3, <1>4

\* StreamInv of the next state, word for word.
StreamAfter ==
  /\ host'.pc \in {"ready_write", "batch_write"} => ~host'.seen
  /\ host'.pc \in ReadyPcs => Heard(kid'["stream"], 0, host'.seen)
  /\ Unheard(host') => kid'["stream"].rx /\ Fresh(kid'["stream"], 1)
  /\ host'.pc = "result_recv" => Heard(kid'["stream"], 1, host'.seen)
  /\ host'.pc \in {"batch_write", "batch_recv"} => Heard(kid'["batch"], 0, host'.seen)

LEMMA StreamNext ==
  ASSUME StreamAfter
  PROVE  StreamInv'
  BY DEF StreamAfter, StreamInv, Stream, BatchWorker

\* A receive that fails goes on listening only when nothing has been seen.
LEMMA EndsForAfter ==
  ASSUME NEW seen \in BOOLEAN, EndsFor(seen),
         At("result_recv") /\ ~seen => kid'["stream"].rx /\ Fresh(kid'["stream"], 1)
  PROVE  StreamAfter
  BY DEF EndsFor, Terminates, HostTo, StreamAfter, Unheard, ReadyPcs

LEMMA StreamStep ==
  ASSUME ExchangeInv, [Next]_vars
  PROVE  StreamInv'
<1>0. TypeOK /\ PhaseInv /\ StreamInv /\ (StreamAfter => StreamInv')
  BY StreamNext DEF ExchangeInv
<1> SUFFICES StreamAfter
  BY <1>0
<1>1. CASE Resolve
  BY <1>1, <1>0, ResolveDoes DEF HostTo, Fails, Moves, StreamAfter, Unheard, ReadyPcs
<1>2. CASE HelperWait
  BY <1>2, <1>0, HelperWaitDoes DEF HostTo, Moves, StreamAfter, Unheard, ReadyPcs
<1>3. CASE HelperCollect
  BY <1>3, <1>0, HelperCollectDoes DEF HostTo, Fails, StreamAfter, Unheard, ReadyPcs
<1>4. CASE Probe
  BY <1>4, <1>0, ProbeDoes DEF HostTo, At, Moves, StreamAfter, Unheard, PhaseInv, StartPcs,
     ReadyPcs
<1>5. CASE EncodeFails
  BY <1>5, <1>0, EncodeFailsDoes DEF HostTo, At, Moves, StreamAfter, Unheard, PhaseInv,
     StartPcs, ReadyPcs
<1>6. CASE StartWorker
  <2>1. At("request") /\ ~host.running
    BY <1>6, <1>0, StartWorkerDoes DEF PhaseInv, At, StartPcs
  <2>2. CASE host'.pc = "join" /\ host'.running = host.running
    BY <2>1, <2>2 DEF StreamAfter, Unheard, ReadyPcs
  <2>3. CASE Spawned("stream") /\ host'.pc = "ready_write" /\ host'.seen = FALSE
    BY <2>3, SpawnedHeard DEF StreamAfter, Unheard
  <2> QED
    BY <1>6, <1>0, <2>2, <2>3, StartWorkerDoes DEF Moves, HostTo
<1>7. CASE WriteRequest
  BY <1>7, <1>0, WriteRequestDoes, Fields, TellsStill, StillHeard DEF HostTo, At, Moves,
     Terminates, StreamAfter, StreamInv, Unheard, Stream, BatchWorker, ReadyPcs
<1>8. CASE RecvPoll
  <2>1. EndsFor(host.seen) /\ kid' = kid /\ host.seen \in BOOLEAN
    BY <1>8, <1>0, RecvPollDoes, Fields
  <2>2. At("result_recv") /\ ~host.seen => Stream.rx /\ Fresh(Stream, 1)
    BY <1>0 DEF StreamInv, At, Heard
  <2> QED
    BY <2>1, <2>2, EndsForAfter DEF Stream
<1>9. CASE RecvStarted
  <2>1. /\ host.pc \in RecvPcs /\ Waits(Now, "started") /\ Takes(host.kid)
        /\ host.kid \in Kids /\ host.seen \in BOOLEAN
    BY <1>9, <1>0, RecvStartedDoes, Fields
  <2>2. CASE EndsFor(TRUE)
    BY <2>2, EndsForAfter
  <2>3. CASE HostTo(host.pc, host.kid, host.ret, host.running, TRUE, host.startup, host.result)
    <3>1. host'.pc = host.pc /\ host'.seen = TRUE
      BY <2>3 DEF HostTo
    <3>2. CASE host.pc = "probe_recv"
      BY <3>1, <3>2 DEF StreamAfter, Unheard, ReadyPcs
    <3>3. CASE host.pc = "ready_recv"
      <4>1. host.kid = "stream" /\ Heard(kid["stream"], 0, host.seen)
        BY <1>0, <3>3 DEF PhaseInv, StreamInv, Stream, ReadyPcs
      <4>2. Heard(kid'["stream"], 0, TRUE)
        BY <2>1, <4>1, TakenHeard DEF Now
      <4> QED
        BY <3>1, <3>3, <4>2 DEF StreamAfter, Unheard
    <3>4. CASE host.pc = "result_recv"
      <4>1. host.kid = "stream" /\ Heard(kid["stream"], 1, host.seen)
        BY <1>0, <3>4 DEF PhaseInv, StreamInv, Stream, FinishPcs
      <4>2. Heard(kid'["stream"], 1, TRUE)
        BY <2>1, <4>1, TakenHeard DEF Now
      <4> QED
        BY <3>1, <3>4, <4>2 DEF StreamAfter, Unheard, ReadyPcs
    <3>5. CASE host.pc = "batch_recv"
      <4>1. host.kid = "batch" /\ Heard(kid["batch"], 0, host.seen)
        BY <1>0, <3>5 DEF PhaseInv, StreamInv, BatchWorker, BatchPcs
      <4>2. Heard(kid'["batch"], 0, TRUE)
        BY <2>1, <4>1, TakenHeard DEF Now
      <4> QED
        BY <3>1, <3>5, <4>2 DEF StreamAfter, Unheard, ReadyPcs
    <3> QED
      BY <2>1, <3>2, <3>3, <3>4, <3>5 DEF RecvPcs
  <2> QED
    BY <1>9, <1>0, <2>2, <2>3, RecvStartedDoes
<1>10. CASE RecvFrame
  <2>1. /\ host.pc \in RecvPcs /\ Waits(Now, "frame") /\ Takes(host.kid)
        /\ host.kid \in Kids /\ host.seen \in BOOLEAN
    BY <1>10, <1>0, RecvFrameDoes, Fields
  <2>2. CASE EndsFor(TRUE)
    BY <2>2, EndsForAfter
  <2>3. CASE host'.pc \in {"probe_reap", "result_reap", "batch_reap"}
    BY <2>3 DEF StreamAfter, Unheard, ReadyPcs
  <2>4. CASE host'.pc = "terminate" /\ host'.ret \in {"join", "done"}
    BY <2>4 DEF StreamAfter, Unheard, ReadyPcs
  <2>5. CASE At("ready_recv") /\ host'.pc = "join"
    <3>1. host.kid = "stream" /\ Heard(kid["stream"], 0, host.seen)
      BY <1>0, <2>5 DEF PhaseInv, StreamInv, Stream, ReadyPcs, At
    <3>2. kid'["stream"].rx /\ Fresh(kid'["stream"], 0 + 1)
      BY <2>1, <3>1, TakenHeard DEF Now
    <3> QED
      BY <2>5, <3>2 DEF StreamAfter, ReadyPcs
  <2> QED
    BY <1>10, <1>0, <2>2, <2>3, <2>4, <2>5, RecvFrameDoes DEF AcceptsTo, Moves, HostTo
<1>11. CASE RecvFailed
  <2>1. /\ host.pc \in RecvPcs /\ Waits(Now, "failed") /\ Takes(host.kid)
        /\ host.kid \in Kids /\ host.seen \in BOOLEAN
        /\ EndsFor(host.seen \/ Head(Now.chan).flag)
    BY <1>11, <1>0, RecvFailedDoes, Fields
  <2>2. (host.seen \/ Head(Now.chan).flag) \in BOOLEAN
    OBVIOUS
  <2>3. ASSUME At("result_recv"), ~host.seen, ~Head(Now.chan).flag
        PROVE  kid'["stream"].rx /\ Fresh(kid'["stream"], 1)
    <3>1. host.kid = "stream" /\ Heard(kid["stream"], 1, host.seen)
      BY <1>0, <2>3 DEF PhaseInv, StreamInv, Stream, FinishPcs, At
    <3> QED
      BY <2>1, <2>3, <3>1, TakenHeard DEF Now
  <2> QED
    BY <2>1, <2>2, <2>3, EndsForAfter
<1>12. CASE RecvDisconnected
  <2>1. EndsFor(host.seen) /\ kid' = kid /\ host.seen \in BOOLEAN
    BY <1>12, <1>0, RecvDisconnectedDoes, Fields
  <2>2. At("result_recv") /\ ~host.seen => Stream.rx /\ Fresh(Stream, 1)
    BY <1>0 DEF StreamInv, At, Heard
  <2> QED
    BY <2>1, <2>2, EndsForAfter DEF Stream
<1>13. CASE Terminate
  BY <1>13, <1>0, TerminateDoes, Fields, IntactStill, StillHeard DEF HostTo, At, Moves, Returns,
     StreamAfter, StreamInv, Unheard, Stream, PhaseInv, ReadyPcs, Ending
<1>14. CASE Grace
  BY <1>14, <1>0, GraceDoes, Fields, IntactStill, StillHeard DEF HostTo, At, Moves, Returns,
     StreamAfter, StreamInv, Unheard, Stream, PhaseInv, ReadyPcs, Ending
<1>15. CASE ReturnFailed
  BY <1>15, <1>0, ReturnFailedDoes DEF HostTo, Fails, StreamAfter, Unheard, ReadyPcs
<1>16. CASE Reap
  BY <1>16, <1>0, ReapDoes DEF HostTo, Terminates, ReapPcs, StreamAfter, Unheard, PhaseInv,
     ReadyPcs
<1>17. CASE Join
  <2>1. /\ At("join") /\ Drops(IF host.running THEN {"probe"} ELSE {"probe", "stream"})
        /\ \E p \in {"recording", IF host.running THEN "terminate" ELSE "done"} :
              HostTo(p, "stream", "done", host.running, host.seen, FALSE, "none")
    BY <1>17, <1>0, JoinDoes
  <2>2. host.running => kid'["stream"].rx /\ Fresh(kid'["stream"], 1)
    <3> SUFFICES ASSUME host.running PROVE kid'["stream"].rx /\ Fresh(kid'["stream"], 1)
      OBVIOUS
    <3>1. Still("stream")
      BY <2>1, DropsStill
    <3>2. kid["stream"].rx /\ Fresh(kid["stream"], 1)
      BY <1>0, <2>1 DEF StreamInv, Unheard, Stream, At
    <3> QED
      BY <3>1, <3>2, StillHeard
  <2> QED
    BY <2>1, <2>2 DEF HostTo, StreamAfter, Unheard, ReadyPcs
<1>18. CASE FinishCheck
  BY <1>18, <1>0, FinishCheckDoes DEF HostTo, At, Terminates, Moves, StreamAfter, StreamInv,
     Unheard, Stream, ReadyPcs
<1>19. CASE FinishBody
  BY <1>19, <1>0, FinishBodyDoes DEF HostTo, At, Moves, Terminates, StreamAfter, StreamInv,
     Unheard, Stream, ReadyPcs
<1>20. CASE FinishAllow
  BY <1>20, <1>0, FinishAllowDoes, TellsStill, StillHeard DEF HostTo, At, Moves, StreamAfter,
     StreamInv, Unheard, Stream, ReadyPcs
<1>21. CASE FinishLine
  <2>1. Stream.rx /\ Fresh(Stream, 1) /\ host.seen \in BOOLEAN
    BY <1>21, <1>0, FinishLineDoes, Fields DEF StreamInv, Unheard, At
  <2>2. CASE Moves("result_recv") /\ Tells("stream", {"finish"})
    <3>1. kid'["stream"].rx /\ Fresh(kid'["stream"], 1)
      BY <2>1, <2>2, TellsStill, StillHeard DEF Stream
    <3> QED
      BY <2>2, <3>1 DEF Moves, HostTo, StreamAfter, ReadyPcs, Heard
  <2>3. CASE Terminates("unsent") /\ kid' = kid
    BY <2>1, <2>3 DEF Terminates, HostTo, StreamAfter, ReadyPcs, Stream
  <2> QED
    BY <1>21, <1>0, <2>2, <2>3, FinishLineDoes
<1>22. CASE Unsent
  BY <1>22, <1>0, UnsentDoes DEF HostTo, At, Fails, Moves, StreamAfter, StreamInv, Unheard,
     Stream, ReadyPcs
<1>23. CASE Quiet
  <2>1. At("quiet") /\ host.kid = "stream" /\ Stream.rx /\ Fresh(Stream, 1)
    BY <1>23, <1>0, QuietDoes DEF StreamInv, Unheard, At, PhaseInv
  <2>2. CASE Fails \/ Moves("batch")
    BY <2>2 DEF Fails, Moves, HostTo, StreamAfter, Unheard, ReadyPcs
  <2>3. CASE /\ Now.chan # <<>> /\ Head(Now.chan) = Failed(FALSE) /\ Takes(host.kid) /\ Stays
    <3>1. Waits(kid["stream"], "failed") /\ ~Head(kid["stream"].chan).flag
      BY <2>1, <2>3 DEF Now, Waits, Failed
    <3>2. Heard(kid["stream"], 1, FALSE)
      BY <2>1 DEF Heard, Stream
    <3>3. kid'["stream"].rx /\ Fresh(kid'["stream"], 1)
      BY <2>1, <2>3, <3>1, <3>2, TakenHeard
    <3> QED
      BY <2>1, <2>3, <3>3 DEF Stays, HostTo, StreamAfter, ReadyPcs, At
  <2> QED
    BY <1>23, <1>0, <2>2, <2>3, QuietDoes
<1>24. CASE Batch
  <2>1. CASE Fails
    BY <2>1 DEF Fails, HostTo, StreamAfter, Unheard, ReadyPcs
  <2>2. CASE Spawned("batch") /\ host'.pc = "batch_write" /\ host'.seen = FALSE
    BY <2>2, SpawnedHeard DEF StreamAfter, Unheard, ReadyPcs
  <2> QED
    BY <1>24, <1>0, <2>1, <2>2, BatchDoes DEF HostTo
<1>25. CASE Finish
  BY <1>25, <1>0, FinishDoes DEF HostTo, At, StreamAfter, StreamInv, Unheard, Stream, ReadyPcs
<1>26. CASE Cancel
  BY <1>26, <1>0, CancelDoes DEF HostTo, StreamAfter, Unheard, ReadyPcs
<1>27. CASE Elsewhere
  BY <1>27, <1>0, FollowsStill, StillHeard DEF Elsewhere, Stays, HostTo, StreamAfter, StreamInv,
     Unheard, Stream, BatchWorker
<1>28. CASE UNCHANGED vars
  BY <1>28, <1>0 DEF StreamAfter, StreamInv, Stream, BatchWorker
<1> QED
  BY <1>0, <1>1, <1>2, <1>3, <1>4, <1>5, <1>6, <1>7, <1>8, <1>9, <1>10, <1>11, <1>12, <1>13,
     <1>14, <1>15, <1>16, <1>17, <1>18, <1>19, <1>20, <1>21, <1>22, <1>23, <1>24, <1>25, <1>26,
     <1>27, <1>28, ElsewhereDoes DEF Next, HostStep

\* A reader that has ended begins no frame.
Deaf(j) ==
  kid[j].rpc = "ended" => kid'[j].rpc = "ended" /\ kid'[j].bytes = kid[j].bytes

LEMMA TakesDeaf ==
  ASSUME NEW k \in Kids, Takes(k)
  PROVE  \A j \in Kids : Deaf(j)
<1> SUFFICES ASSUME NEW j \in Kids PROVE Deaf(j)
  OBVIOUS
<1> QED
  BY DEF Takes, Others, Deaf

LEMMA TellsDeaf ==
  ASSUME NEW k \in Kids, NEW what, Tells(k, what)
  PROVE  \A j \in Kids : Deaf(j)
<1> SUFFICES ASSUME NEW j \in Kids PROVE Deaf(j)
  OBVIOUS
<1> QED
  BY DEF Tells, Others, Deaf

LEMMA WaitedDeaf ==
  ASSUME NEW k \in Kids, Waited(k)
  PROVE  \A j \in Kids : Deaf(j)
  BY DEF Waited, Talk, Deaf

LEMMA DropsDeaf ==
  ASSUME NEW ks, Drops(ks)
  PROVE  \A j \in Kids : Deaf(j) /\ Existed(j)
  BY DEF Drops, Talk, Ran, Deaf, Existed

LEMMA SpawnedDeaf ==
  ASSUME NEW k \in Kids, Spawned(k)
  PROVE  \A j \in Kids \ {k} : Deaf(j) /\ Existed(j)
  BY DEF Spawned, Others, Deaf, Existed

LEMMA FollowsDeaf ==
  ASSUME NEW k \in Kids, Follows(k)
  PROVE  \A j \in Kids : Deaf(j) /\ Existed(j)
<1> SUFFICES ASSUME NEW j \in Kids PROVE Deaf(j) /\ Existed(j)
  OBVIOUS
<1> QED
  BY DEF Follows, Others, Deaf, Existed

\* A worker found silent: what is left of its channel says that its reader ended.
LEMMA SilentEnded ==
  ASSUME TypeOK, Fresh(Stream, 1),
         Disconnected("stream") \/ (Stream.chan # <<>> /\ Head(Stream.chan) = Failed(FALSE))
  PROVE  Stream.rpc = "ended" /\ Stream.bytes <= 1
  BY DEF Fresh, Stream, Disconnected, Waits, Failed

LEMMA LastStep ==
  ASSUME ExchangeInv, [Next]_vars
  PROVE  LastInv'
<1>0. TypeOK /\ PhaseInv /\ StreamInv /\ LastInv /\ cfg' = cfg
  BY CfgStays DEF ExchangeInv
<1>1. CASE Resolve
  BY <1>1, <1>0, ResolveDoes DEF HostTo, At, Fails, Moves, LastInv, PhaseInv
<1>2. CASE HelperWait
  BY <1>2, <1>0, HelperWaitDoes, WaitedDeaf, WaitedExisting DEF HostTo, Moves, LastInv, Deaf,
     Existed, Batched, BatchWorker, Stream, Ending
<1>3. CASE HelperCollect
  BY <1>3, <1>0, HelperCollectDoes, WaitedDeaf, WaitedExisting DEF HostTo, Fails, LastInv, Deaf,
     Existed, Batched, BatchWorker, Stream, Ending
<1>4. CASE Probe
  BY <1>4, <1>0, ProbeDoes DEF HostTo, At, Moves, LastInv, PhaseInv, StartPcs
<1>5. CASE EncodeFails
  BY <1>5, <1>0, EncodeFailsDoes DEF HostTo, Moves, LastInv, Batched, BatchWorker, Stream,
     Ending
<1>6. CASE StartWorker
  BY <1>6, <1>0, StartWorkerDoes DEF HostTo, At, Moves, LastInv, PhaseInv, StartPcs
<1>7. CASE WriteRequest
  BY <1>7, <1>0, WriteRequestDoes, Fields, TellsDeaf, TellsExisting DEF HostTo, Moves,
     Terminates, LastInv, Deaf, Existed, Batched, BatchWorker, Stream, Ending
<1>8. CASE RecvPoll
  BY <1>8, <1>0, RecvPollDoes DEF HostTo, EndsFor, Terminates, LastInv, Batched, BatchWorker,
     Stream
<1>9. CASE RecvStarted
  BY <1>9, <1>0, RecvStartedDoes, Fields, TakesDeaf, TakesExisting DEF HostTo, EndsFor,
     Terminates, LastInv, Deaf, Existed, Batched, BatchWorker, Stream, Ending
<1>10. CASE RecvFrame
  BY <1>10, <1>0, RecvFrameDoes, Fields, TakesDeaf, TakesExisting DEF HostTo, At, EndsFor,
     Terminates, AcceptsTo, Moves, LastInv, Deaf, Existed, Batched, BatchWorker, Stream,
     PhaseInv, BatchPcs, Ending
<1>11. CASE RecvFailed
  BY <1>11, <1>0, RecvFailedDoes, Fields, TakesDeaf, TakesExisting DEF HostTo, EndsFor,
     Terminates, LastInv, Deaf, Existed, Batched, BatchWorker, Stream
<1>12. CASE RecvDisconnected
  BY <1>12, <1>0, RecvDisconnectedDoes DEF HostTo, EndsFor, Terminates, LastInv, Batched,
     BatchWorker, Stream
<1>13. CASE Terminate
  BY <1>13, <1>0, TerminateDoes, Fields, WaitedDeaf, WaitedExisting DEF HostTo, At, Moves,
     LastInv, Deaf, Existed, Batched, BatchWorker, Stream, Ending
<1>14. CASE Grace
  BY <1>14, <1>0, GraceDoes, Fields, WaitedDeaf, WaitedExisting DEF HostTo, At, Moves, LastInv,
     Deaf, Existed, Batched, BatchWorker, Stream, Ending
<1>15. CASE ReturnFailed
  BY <1>15, <1>0, ReturnFailedDoes DEF HostTo, Fails, LastInv
<1>16. CASE Reap
  BY <1>16, <1>0, ReapDoes, Fields, WaitedDeaf, WaitedExisting DEF HostTo, Terminates, LastInv,
     Deaf, Existed, Batched, BatchWorker, Stream, Ending
<1>17. CASE Join
  BY <1>17, <1>0, JoinDoes, DropsDeaf DEF HostTo, LastInv, Deaf, Existed, Batched, BatchWorker,
     Stream
<1>18. CASE FinishCheck
  <2>1. At("finish") /\ host.kid = "stream" /\ Fresh(Stream, 1) /\ Now = Stream /\ ~Batched
    BY <1>18, <1>0, FinishCheckDoes DEF StreamInv, Unheard, At, PhaseInv, FinishPcs, Now, Stream
  <2>2. CASE /\ Now.chan # <<>> /\ Takes(host.kid)
             /\ \E r \in {"batch", "done"} :
                  /\ r = "batch" => Head(Now.chan) = Failed(FALSE)
                  /\ HostTo("terminate", host.kid, r, host.running, host.seen, host.startup,
                            host.result)
    <3>1. ~Batched'
      BY <2>1, <2>2, TakesExisting DEF Existed, Batched, BatchWorker
    <3>2. CASE host'.pc = "terminate" /\ host'.ret = "done"
      BY <3>1, <3>2 DEF LastInv
    <3>3. CASE Head(Now.chan) = Failed(FALSE)
      <4>1. Stream.rpc = "ended" /\ Stream.bytes <= 1
        BY <1>0, <2>1, <2>2, <3>3, SilentEnded
      <4>2. kid'["stream"].rpc = "ended" /\ kid'["stream"].bytes <= 1
        BY <2>1, <2>2, <4>1, TakesDeaf DEF Deaf, Stream
      <4> QED
        BY <3>1, <4>2 DEF LastInv, Stream
    <3> QED
      BY <2>2, <3>2, <3>3 DEF HostTo
  <2>3. CASE Disconnected("stream") /\ Terminates("batch") /\ kid' = kid
    <3>1. Stream.rpc = "ended" /\ Stream.bytes <= 1
      BY <1>0, <2>1, <2>3, SilentEnded
    <3> QED
      BY <2>1, <2>3, <3>1 DEF LastInv, Batched, BatchWorker, Stream
  <2>4. CASE Moves("body") /\ kid' = kid
    BY <2>1, <2>4 DEF Moves, HostTo, LastInv, Ending, Batched, BatchWorker
  <2> QED
    BY <1>18, <1>0, <2>2, <2>3, <2>4, FinishCheckDoes
<1>19. CASE FinishBody
  BY <1>19, <1>0, FinishBodyDoes DEF HostTo, Moves, Terminates, LastInv, Batched, BatchWorker,
     Stream, Ending
<1>20. CASE FinishAllow
  BY <1>20, <1>0, FinishAllowDoes, TellsDeaf, TellsExisting DEF HostTo, Moves, LastInv, Deaf,
     Existed, Batched, BatchWorker, Stream, Ending
<1>21. CASE FinishLine
  BY <1>21, <1>0, FinishLineDoes, TellsDeaf, TellsExisting DEF HostTo, Moves, Terminates,
     LastInv, Deaf, Existed, Batched, BatchWorker, Stream, Ending
<1>22. CASE Unsent
  BY <1>22, <1>0, UnsentDoes DEF HostTo, Fails, Moves, LastInv, Batched, BatchWorker, Stream,
     Ending
<1>23. CASE Quiet
  <2>1. At("quiet") /\ host.kid = "stream" /\ Fresh(Stream, 1) /\ ~Batched
    BY <1>23, <1>0, QuietDoes DEF StreamInv, Unheard, At, PhaseInv
  <2>2. CASE Fails
    BY <2>2 DEF Fails, HostTo, LastInv
  <2>3. CASE Takes(host.kid) /\ Stays
    BY <1>0, <2>1, <2>3, TakesExisting DEF Stays, HostTo, At, LastInv, Ending, Existed, Batched,
       BatchWorker
  <2>4. CASE Disconnected("stream") /\ Moves("batch") /\ kid' = kid
    <3>1. Stream.rpc = "ended" /\ Stream.bytes <= 1
      BY <1>0, <2>1, <2>4, SilentEnded
    <3> QED
      BY <2>1, <2>4, <3>1 DEF LastInv, Batched, BatchWorker, Stream
  <2> QED
    BY <1>23, <1>0, <2>2, <2>3, <2>4, QuietDoes
<1>24. CASE Batch
  <2>1. CASE Fails
    BY <2>1 DEF Fails, HostTo, LastInv
  <2>2. CASE /\ ~(host.running /\ LocalStream) /\ Spawned("batch")
             /\ host'.pc = "batch_write" /\ host'.running = host.running
    <3>1. host.running => Stream.rpc = "ended" /\ Stream.bytes <= 1 /\ ~cfg.local
      BY <1>24, <1>0, <2>2, BatchDoes DEF LastInv, PhaseInv, LocalStream, At
    <3>2. Deaf("stream")
      BY <2>2, SpawnedDeaf
    <3> QED
      BY <1>0, <2>2, <3>1, <3>2 DEF LastInv, Deaf, Stream
  <2> QED
    BY <1>24, <1>0, <2>1, <2>2, BatchDoes DEF HostTo
<1>25. CASE Finish
  BY <1>25, <1>0, FinishDoes DEF HostTo, LastInv, Batched, BatchWorker, Stream, Ending
<1>26. CASE Cancel
  BY <1>26, <1>0, CancelDoes DEF HostTo, LastInv, Batched, BatchWorker, Stream
<1>27. CASE Elsewhere
  <2>1. \A j \in Kids : Deaf(j) /\ Existed(j)
    BY <1>27, FollowsDeaf DEF Elsewhere, Deaf, Existed
  <2> QED
    BY <1>27, <1>0, <2>1 DEF Elsewhere, Stays, HostTo, LastInv, Deaf, Existed, Batched,
       BatchWorker, Stream, Ending
<1>28. CASE UNCHANGED vars
  BY <1>28, <1>0 DEF LastInv, Batched, BatchWorker, Stream, Ending
<1> QED
  BY <1>0, <1>1, <1>2, <1>3, <1>4, <1>5, <1>6, <1>7, <1>8, <1>9, <1>10, <1>11, <1>12, <1>13,
     <1>14, <1>15, <1>16, <1>17, <1>18, <1>19, <1>20, <1>21, <1>22, <1>23, <1>24, <1>25, <1>26,
     <1>27, <1>28, ElsewhereDoes DEF Next, HostStep

\* What has been said to a worker stays said, and the frames it began.
Asked(j) ==
  /\ \A n \in Nat : kid[j].bytes > n => kid'[j].bytes > n
  /\ j # "probe" => kid'[j].stdin = kid[j].stdin

LEMMA TakesAsked ==
  ASSUME TypeOK, NEW k \in Kids, Takes(k)
  PROVE  \A j \in Kids : Asked(j)
<1> SUFFICES ASSUME NEW j \in Kids PROVE Asked(j)
  OBVIOUS
<1> QED
  BY DEF Takes, Others, Asked

LEMMA FollowsAsked ==
  ASSUME TypeOK, NEW k \in Kids, Follows(k), KidTypes(kid')
  PROVE  \A j \in Kids : Asked(j)
<1> SUFFICES ASSUME NEW j \in Kids PROVE Asked(j)
  OBVIOUS
<1>1. kid'[j] \in Kid
  BY DEF KidTypes
<1>2. kid'[j].bytes \in Nat /\ kid[j].bytes \in Nat
  BY <1>1, Fields DEF Kid
<1>3. kid'[j].bytes >= kid[j].bytes /\ kid'[j].stdin = kid[j].stdin
  BY <1>2 DEF Follows, Others
<1> QED
  BY <1>2, <1>3 DEF Asked

LEMMA AnswerStep ==
  ASSUME ExchangeInv, [Next]_vars
  PROVE  AnswerInv'
<1>0. TypeOK /\ PhaseInv /\ StreamInv /\ AnswerInv
  BY DEF ExchangeInv
<1>1. CASE Resolve
  BY <1>1, <1>0, ResolveDoes DEF HostTo, Fails, Moves, AnswerInv
<1>2. CASE HelperWait
  BY <1>2, <1>0, HelperWaitDoes DEF HostTo, Moves, AnswerInv
<1>3. CASE HelperCollect
  BY <1>3, <1>0, HelperCollectDoes DEF HostTo, Fails, AnswerInv
<1>4. CASE Probe
  BY <1>4, <1>0, ProbeDoes DEF HostTo, Moves, AnswerInv
<1>5. CASE EncodeFails
  BY <1>5, <1>0, EncodeFailsDoes DEF HostTo, Moves, AnswerInv
<1>6. CASE StartWorker
  BY <1>6, <1>0, StartWorkerDoes DEF HostTo, Moves, AnswerInv
<1>7. CASE WriteRequest
  <2>1. CASE /\ Moves(IF At("ready_write") THEN "ready_recv" ELSE "batch_recv")
             /\ Tells(host.kid, {"request"})
    BY <1>7, <1>0, <2>1, WriteRequestDoes DEF Moves, HostTo, Tells, AnswerInv, At, PhaseInv,
       BatchPcs, BatchWorker
  <2>2. CASE host'.pc = "terminate"
    BY <2>2 DEF AnswerInv
  <2> QED
    BY <1>7, <1>0, <2>1, <2>2, WriteRequestDoes DEF Terminates, HostTo
<1>8. CASE RecvPoll
  BY <1>8, <1>0, RecvPollDoes DEF HostTo, EndsFor, Terminates, AnswerInv
<1>9. CASE RecvStarted
  <2>1. Takes(host.kid) /\ host.kid \in Kids /\ host.pc \in RecvPcs
    BY <1>9, <1>0, RecvStartedDoes, Fields
  <2>2. \A j \in Kids : Asked(j) /\ kid[j].bytes \in Nat
    BY <1>0, <2>1, TakesAsked, Fields
  <2>3. CASE host'.pc = host.pc
    BY <1>0, <2>1, <2>2, <2>3 DEF AnswerInv, Asked, Stream, BatchWorker
  <2>4. CASE host'.pc = "terminate"
    BY <2>4 DEF AnswerInv
  <2> QED
    BY <1>9, <1>0, <2>3, <2>4, RecvStartedDoes DEF EndsFor, Terminates, HostTo
<1>10. CASE RecvFrame
  <2>1. /\ host.pc \in RecvPcs /\ Waits(Now, "frame") /\ Takes(host.kid)
        /\ host.kid \in Kids /\ host.seen \in BOOLEAN
    BY <1>10, <1>0, RecvFrameDoes, Fields
  <2>2. \A j \in Kids : Asked(j) /\ kid[j].bytes \in Nat
    BY <1>0, <2>1, TakesAsked, Fields
  <2>3. CASE At("result_recv") /\ Moves("result_reap")
    <3>1. host.kid = "stream" /\ Heard(Stream, 1, host.seen)
      BY <1>0, <2>3 DEF PhaseInv, StreamInv, FinishPcs, At
    <3>2. Stream.bytes > 1
      BY <2>1, <2>2, <3>1 DEF Heard, Fresh, Begun, Waits, Now, Stream
    <3>3. kid'["stream"].bytes > 1 /\ "finish" \in kid'["stream"].stdin
      BY <1>0, <2>2, <2>3, <3>2 DEF Asked, Stream, AnswerInv, At
    <3> QED
      BY <2>3, <3>3 DEF Moves, HostTo, AnswerInv, Stream
  <2>4. CASE At("batch_recv") /\ Moves("batch_reap")
    <3>1. host.kid = "batch" /\ Heard(BatchWorker, 0, host.seen)
      BY <1>0, <2>4 DEF PhaseInv, StreamInv, BatchPcs, At
    <3>2. BatchWorker.bytes > 0
      BY <2>1, <2>2, <3>1 DEF Heard, Fresh, Begun, Waits, Now, BatchWorker
    <3>3. kid'["batch"].bytes > 0 /\ "request" \in kid'["batch"].stdin
      BY <1>0, <2>2, <2>4, <3>2 DEF Asked, BatchWorker, AnswerInv, At
    <3> QED
      BY <2>4, <3>3 DEF Moves, HostTo, AnswerInv, BatchWorker
  <2>5. CASE host'.pc \in {"terminate", "probe_reap", "join"}
    BY <2>5 DEF AnswerInv
  <2> QED
    BY <1>10, <1>0, <2>3, <2>4, <2>5, RecvFrameDoes DEF AcceptsTo, EndsFor, Terminates, Moves,
       HostTo
<1>11. CASE RecvFailed
  BY <1>11, <1>0, RecvFailedDoes DEF HostTo, EndsFor, Terminates, AnswerInv
<1>12. CASE RecvDisconnected
  BY <1>12, <1>0, RecvDisconnectedDoes DEF HostTo, EndsFor, Terminates, AnswerInv
<1>13. CASE Terminate
  BY <1>13, <1>0, TerminateDoes, Fields DEF HostTo, Moves, Returns, AnswerInv
<1>14. CASE Grace
  BY <1>14, <1>0, GraceDoes, Fields DEF HostTo, Moves, Returns, AnswerInv
<1>15. CASE ReturnFailed
  BY <1>15, <1>0, ReturnFailedDoes DEF HostTo, Fails, AnswerInv
<1>16. CASE Reap
  BY <1>16, <1>0, ReapDoes DEF HostTo, Terminates, AnswerInv
<1>17. CASE Join
  BY <1>17, <1>0, JoinDoes DEF HostTo, AnswerInv
<1>18. CASE FinishCheck
  BY <1>18, <1>0, FinishCheckDoes DEF HostTo, Terminates, Moves, AnswerInv
<1>19. CASE FinishBody
  BY <1>19, <1>0, FinishBodyDoes DEF HostTo, Moves, Terminates, AnswerInv
<1>20. CASE FinishAllow
  BY <1>20, <1>0, FinishAllowDoes DEF HostTo, Moves, AnswerInv
<1>21. CASE FinishLine
  <2>1. CASE Moves("result_recv") /\ Tells("stream", {"finish"})
    BY <2>1 DEF Moves, HostTo, Tells, AnswerInv, Stream
  <2>2. CASE host'.pc = "terminate"
    BY <2>2 DEF AnswerInv
  <2> QED
    BY <1>21, <1>0, <2>1, <2>2, FinishLineDoes DEF Terminates, HostTo
<1>22. CASE Unsent
  BY <1>22, <1>0, UnsentDoes DEF HostTo, Fails, Moves, AnswerInv
<1>23. CASE Quiet
  BY <1>23, <1>0, QuietDoes, Fields, TakesAsked DEF HostTo, Fails, Stays, Moves, AnswerInv,
     Asked, BatchWorker, Stream
<1>24. CASE Batch
  BY <1>24, <1>0, BatchDoes DEF HostTo, Fails, AnswerInv
<1>25. CASE Finish
  BY <1>25, <1>0, FinishDoes DEF HostTo, AnswerInv
<1>26. CASE Cancel
  BY <1>26, <1>0, CancelDoes DEF HostTo, AnswerInv
<1>27. CASE Elsewhere
  <2>1. \A j \in Kids : Asked(j) /\ kid[j].bytes \in Nat
    BY <1>27, <1>0, FollowsAsked, Fields DEF Elsewhere, Asked
  <2>2. host'.pc = host.pc
    BY <1>27 DEF Elsewhere, Stays, HostTo
  <2> QED
    BY <1>0, <2>1, <2>2 DEF AnswerInv, Asked, Stream, BatchWorker
<1>28. CASE UNCHANGED vars
  BY <1>28, <1>0 DEF AnswerInv, BatchWorker, Stream
<1> QED
  BY <1>0, <1>1, <1>2, <1>3, <1>4, <1>5, <1>6, <1>7, <1>8, <1>9, <1>10, <1>11, <1>12, <1>13,
     <1>14, <1>15, <1>16, <1>17, <1>18, <1>19, <1>20, <1>21, <1>22, <1>23, <1>24, <1>25, <1>26,
     <1>27, <1>28, ElsewhereDoes DEF Next, HostStep

LEMMA OutcomeStep ==
  ASSUME ExchangeInv, [Next]_vars
  PROVE  OutcomeAuthentic'
<1>0. TypeOK /\ PhaseInv /\ AnswerInv /\ OutcomeAuthentic
  BY DEF ExchangeInv
<1>1. CASE Resolve
  BY <1>1, <1>0, ResolveDoes DEF HostTo, At, Fails, Moves, OutcomeAuthentic
<1>2. CASE HelperWait
  BY <1>2, <1>0, HelperWaitDoes DEF HostTo, At, Moves, OutcomeAuthentic
<1>3. CASE HelperCollect
  BY <1>3, <1>0, HelperCollectDoes DEF HostTo, At, Fails, OutcomeAuthentic
<1>4. CASE Probe
  BY <1>4, <1>0, ProbeDoes DEF HostTo, At, Moves, OutcomeAuthentic
<1>5. CASE EncodeFails
  BY <1>5, <1>0, EncodeFailsDoes DEF HostTo, At, Moves, OutcomeAuthentic
<1>6. CASE StartWorker
  BY <1>6, <1>0, StartWorkerDoes DEF HostTo, At, Moves, OutcomeAuthentic
<1>7. CASE WriteRequest
  BY <1>7, <1>0, WriteRequestDoes DEF HostTo, Moves, Terminates, OutcomeAuthentic, PhaseInv,
     Ending
<1>8. CASE RecvPoll
  BY <1>8, <1>0, RecvPollDoes DEF HostTo, EndsFor, Terminates, RecvPcs, OutcomeAuthentic,
     PhaseInv, Ending
<1>9. CASE RecvStarted
  BY <1>9, <1>0, RecvStartedDoes DEF HostTo, EndsFor, Terminates, RecvPcs, OutcomeAuthentic,
     PhaseInv, Ending
<1>10. CASE RecvFrame
  BY <1>10, <1>0, RecvFrameDoes DEF HostTo, At, EndsFor, Terminates, AcceptsTo, Moves,
     OutcomeAuthentic
<1>11. CASE RecvFailed
  BY <1>11, <1>0, RecvFailedDoes DEF HostTo, EndsFor, Terminates, RecvPcs, OutcomeAuthentic,
     PhaseInv, Ending
<1>12. CASE RecvDisconnected
  BY <1>12, <1>0, RecvDisconnectedDoes DEF HostTo, EndsFor, Terminates, RecvPcs,
     OutcomeAuthentic, PhaseInv, Ending
<1>13. CASE Terminate
  BY <1>13, <1>0, TerminateDoes DEF HostTo, At, Moves, OutcomeAuthentic, PhaseInv
<1>14. CASE Grace
  BY <1>14, <1>0, GraceDoes DEF HostTo, At, Moves, OutcomeAuthentic, PhaseInv
<1>15. CASE ReturnFailed
  BY <1>15, <1>0, ReturnFailedDoes DEF HostTo, Fails, OutcomeAuthentic
<1>16. CASE Reap
  <2>1. /\ host.pc \in ReapPcs /\ host.kid \in Kids /\ host.result # "ok"
        /\ kid[host.kid].bytes \in Nat
    BY <1>16, <1>0, ReapDoes, Fields DEF PhaseInv, ReapPcs, Ending
  <2>2. CASE host'.pc \in {"terminate", "request", "join"}
    BY <2>2 DEF OutcomeAuthentic, At
  <2>3. CASE /\ Waited(host.kid) /\ ~host.startup
             /\ HostTo("done", host.kid, host.ret, host.running, host.seen, host.startup,
                       IF Now.proc = "ok" THEN "ok" ELSE host.result)
    <3> SUFFICES ASSUME host'.result = "ok" PROVE OutcomeAuthentic'
      BY DEF OutcomeAuthentic
    <3>1. kid[host.kid].proc = "ok" /\ host'.kid = host.kid
      BY <2>1, <2>3 DEF HostTo, Now
    <3>2. /\ kid'[host.kid].proc = "ok" /\ kid'[host.kid].stdin = kid[host.kid].stdin
          /\ kid'[host.kid].bytes = kid[host.kid].bytes
      BY <2>1, <2>3, <3>1 DEF Waited, Talk
    <3>3. CASE host.pc = "result_reap"
      <4>1. host.kid = "stream" /\ "finish" \in kid["stream"].stdin /\ kid["stream"].bytes > 1
        BY <1>0, <3>3 DEF PhaseInv, FinishPcs, AnswerInv, Stream
      <4> QED
        BY <3>1, <3>2, <4>1 DEF OutcomeAuthentic, Now
    <3>4. CASE host.pc = "batch_reap"
      <4>1. host.kid = "batch" /\ "request" \in kid["batch"].stdin /\ kid["batch"].bytes > 0
        BY <1>0, <3>4 DEF PhaseInv, BatchPcs, AnswerInv, BatchWorker
      <4> QED
        BY <3>1, <3>2, <4>1 DEF OutcomeAuthentic, Now
    <3>5. host.pc # "probe_reap"
      BY <1>0, <2>3 DEF PhaseInv, StartPcs
    <3> QED
      BY <2>1, <3>3, <3>4, <3>5 DEF ReapPcs
  <2> QED
    BY <1>16, <1>0, <2>2, <2>3, ReapDoes DEF Terminates, HostTo
<1>17. CASE Join
  BY <1>17, <1>0, JoinDoes DEF HostTo, OutcomeAuthentic
<1>18. CASE FinishCheck
  BY <1>18, <1>0, FinishCheckDoes DEF HostTo, At, Terminates, Moves, OutcomeAuthentic
<1>19. CASE FinishBody
  BY <1>19, <1>0, FinishBodyDoes DEF HostTo, At, Moves, Terminates, OutcomeAuthentic
<1>20. CASE FinishAllow
  BY <1>20, <1>0, FinishAllowDoes DEF HostTo, At, Moves, OutcomeAuthentic
<1>21. CASE FinishLine
  BY <1>21, <1>0, FinishLineDoes DEF HostTo, At, Moves, Terminates, OutcomeAuthentic
<1>22. CASE Unsent
  BY <1>22, <1>0, UnsentDoes DEF HostTo, At, Fails, Moves, OutcomeAuthentic
<1>23. CASE Quiet
  BY <1>23, <1>0, QuietDoes DEF HostTo, At, Fails, Stays, Moves, OutcomeAuthentic
<1>24. CASE Batch
  BY <1>24, <1>0, BatchDoes DEF HostTo, At, Fails, OutcomeAuthentic
<1>25. CASE Finish
  BY <1>25, <1>0, FinishDoes DEF HostTo, At, OutcomeAuthentic
<1>26. CASE Cancel
  BY <1>26, <1>0, CancelDoes DEF HostTo, At, OutcomeAuthentic, PhaseInv, Ending
<1>27. CASE Elsewhere
  <2>1. /\ \A j \in Kids : kid[j].bytes \in Nat /\ Asked(j)
        /\ host.kid \in Kids
    BY <1>27, <1>0, FollowsAsked, Fields DEF Elsewhere, Asked
  <2>2. \A j \in Kids : kid[j].proc = "ok" => kid'[j].proc = "ok"
    BY <1>27 DEF Elsewhere, Follows, Others
  <2>3. host'.pc = host.pc /\ host'.result = host.result /\ host'.kid = host.kid
    BY <1>27 DEF Elsewhere, Stays, HostTo
  <2> QED
    BY <1>0, <2>1, <2>2, <2>3 DEF OutcomeAuthentic, Asked, Now, At
<1>28. CASE UNCHANGED vars
  BY <1>28, <1>0 DEF OutcomeAuthentic, Now, At
<1> QED
  BY <1>0, <1>1, <1>2, <1>3, <1>4, <1>5, <1>6, <1>7, <1>8, <1>9, <1>10, <1>11, <1>12, <1>13,
     <1>14, <1>15, <1>16, <1>17, <1>18, <1>19, <1>20, <1>21, <1>22, <1>23, <1>24, <1>25, <1>26,
     <1>27, <1>28, ElsewhereDoes DEF Next, HostStep

LEMMA CallTypes ==
  ASSUME ExchangeInv, [Next]_vars
  PROVE  host' \in Host /\ KidTypes(kid')
<1>0. TypeOK /\ PhaseInv /\ KidTypes(kid) /\ host \in Host
  BY Fields DEF ExchangeInv
<1>1. CASE Resolve
  BY <1>1, <1>0, ResolveDoes DEF HostTo, Fails, Moves
<1>2. CASE HelperWait
  BY <1>2, <1>0, HelperWaitDoes DEF HostTo, Moves
<1>3. CASE HelperCollect
  BY <1>3, <1>0, HelperCollectDoes DEF HostTo, Fails
<1>4. CASE Probe
  BY <1>4, <1>0, ProbeDoes DEF HostTo, Moves
<1>5. CASE EncodeFails
  BY <1>5, <1>0, EncodeFailsDoes DEF HostTo, Moves
<1>6. CASE StartWorker
  BY <1>6, <1>0, StartWorkerDoes DEF HostTo, Moves
<1>7. CASE WriteRequest
  BY <1>7, <1>0, WriteRequestDoes DEF HostTo, Moves, Terminates
<1>8. CASE RecvPoll
  BY <1>8, <1>0, RecvPollDoes DEF HostTo, EndsFor, Terminates
<1>9. CASE RecvStarted
  BY <1>9, <1>0, RecvStartedDoes DEF HostTo, EndsFor, Terminates
<1>10. CASE RecvFrame
  BY <1>10, <1>0, RecvFrameDoes DEF HostTo, EndsFor, Terminates, AcceptsTo, Moves
<1>11. CASE RecvFailed
  BY <1>11, <1>0, RecvFailedDoes DEF HostTo, EndsFor, Terminates
<1>12. CASE RecvDisconnected
  BY <1>12, <1>0, RecvDisconnectedDoes DEF HostTo, EndsFor, Terminates
<1>13. CASE Terminate
  BY <1>13, <1>0, TerminateDoes DEF HostTo, Moves
<1>14. CASE Grace
  BY <1>14, <1>0, GraceDoes DEF HostTo, Moves
<1>15. CASE ReturnFailed
  BY <1>15, <1>0, ReturnFailedDoes DEF HostTo, Fails
<1>16. CASE Reap
  BY <1>16, <1>0, ReapDoes DEF HostTo, Terminates
<1>17. CASE Join
  BY <1>17, <1>0, JoinDoes DEF HostTo
<1>18. CASE FinishCheck
  BY <1>18, <1>0, FinishCheckDoes DEF HostTo, Terminates, Moves
<1>19. CASE FinishBody
  BY <1>19, <1>0, FinishBodyDoes DEF HostTo, Moves, Terminates
<1>20. CASE FinishAllow
  BY <1>20, <1>0, FinishAllowDoes DEF HostTo, Moves
<1>21. CASE FinishLine
  BY <1>21, <1>0, FinishLineDoes DEF HostTo, Moves, Terminates
<1>22. CASE Unsent
  BY <1>22, <1>0, UnsentDoes DEF HostTo, Fails, Moves
<1>23. CASE Quiet
  BY <1>23, <1>0, QuietDoes DEF HostTo, Fails, Stays, Moves
<1>24. CASE Batch
  BY <1>24, <1>0, BatchDoes DEF HostTo, Fails
<1>25. CASE Finish
  BY <1>25, <1>0, FinishDoes DEF HostTo
<1>26. CASE Cancel
  BY <1>26, <1>0, CancelDoes DEF HostTo
<1>27. CASE Elsewhere
  BY <1>27, <1>0 DEF Elsewhere, Stays, HostTo
<1>28. CASE UNCHANGED vars
  BY <1>28, <1>0
<1> QED
  BY <1>0, <1>1, <1>2, <1>3, <1>4, <1>5, <1>6, <1>7, <1>8, <1>9, <1>10, <1>11, <1>12, <1>13,
     <1>14, <1>15, <1>16, <1>17, <1>18, <1>19, <1>20, <1>21, <1>22, <1>23, <1>24, <1>25, <1>26,
     <1>27, <1>28, ElsewhereDoes DEF Next, HostStep

WatchTypes ==
  /\ watch \in [pc : {"off", "watching", "stopped", "failed"}, interrupted : BOOLEAN]
  /\ env \in [{"shutdown", "cancelled", "captureFailed"} -> BOOLEAN]

LEMMA WatchStep ==
  ASSUME WatchTypes, [Next]_vars
  PROVE  WatchTypes'
<1>1. CASE Resolve
  BY <1>1 DEF Resolve, WatchTypes
<1>2. CASE HelperCollect
  BY <1>2 DEF HelperCollect, WatchTypes
<1>3. CASE Join
  <2>1. watch' = [pc |-> "off", interrupted |-> FALSE]
    BY <1>3 DEF Join
  <2>2. env' = [env EXCEPT !["cancelled"] = FALSE, !["captureFailed"] = FALSE]
    BY <1>3 DEF Join
  <2> QED
    BY <2>1, <2>2 DEF WatchTypes
<1>4. CASE Watcher
  <2>1. \/ watch' = [pc |-> "stopped", interrupted |-> TRUE]
        \/ watch' = [pc |-> "failed", interrupted |-> TRUE]
        \/ watch' = [watch EXCEPT !.pc = "stopped"]
    BY <1>4 DEF Watcher
  <2>2. watch' \in [pc : {"off", "watching", "stopped", "failed"}, interrupted : BOOLEAN]
    <3>1. watch \in [pc : {"off", "watching", "stopped", "failed"}, interrupted : BOOLEAN]
      BY DEF WatchTypes
    <3>2. CASE watch' = [watch EXCEPT !.pc = "stopped"]
      BY <3>1, <3>2
    <3>3. CASE watch' = [pc |-> "stopped", interrupted |-> TRUE]
      BY <3>3
    <3>4. CASE watch' = [pc |-> "failed", interrupted |-> TRUE]
      BY <3>4
    <3> QED
      BY <2>1, <3>2, <3>3, <3>4
  <2>3. env' = env
    BY <1>4 DEF Watcher
  <2> QED
    BY <2>2, <2>3 DEF WatchTypes
<1>5. CASE \E flag \in DOMAIN env : Raise(flag)
  BY <1>5 DEF Raise, WatchTypes
<1>6. ASSUME UNCHANGED <<watch, env>> PROVE WatchTypes'
  BY <1>6 DEF WatchTypes
<1>7. CASE Probe \/ EncodeFails \/ StartWorker \/ WriteRequest \/ HelperWait
  BY <1>6, <1>7 DEF Probe, EncodeFails, StartWorker, WriteRequest, HelperWait
<1>8. CASE RecvPoll \/ RecvStarted \/ RecvFrame \/ RecvFailed \/ RecvDisconnected
  BY <1>6, <1>8 DEF RecvPoll, RecvStarted, RecvFrame, RecvFailed, RecvDisconnected
<1>9. CASE Terminate \/ Grace \/ ReturnFailed \/ Reap \/ Finish \/ Cancel
  BY <1>6, <1>9 DEF Terminate, Grace, ReturnFailed, Reap, Finish, Cancel
<1>10. CASE FinishCheck \/ FinishBody \/ FinishAllow \/ FinishLine \/ Unsent \/ Quiet \/ Batch
  BY <1>6, <1>10 DEF FinishCheck, FinishBody, FinishAllow, FinishLine, Unsent, Quiet, Batch
<1>11. CASE Deadline \/ HeirExits \/ Over \/ UNCHANGED vars
  BY <1>6, <1>11 DEF Deadline, HeirExits, External, Over
<1>12. ASSUME NEW k \in Kids,
              \/ ReaderStep(k) \/ ReaderLine(k) \/ ReaderError(k) \/ Write(k) \/ Exit(k)
              \/ CallRest(k)
       PROVE  WatchTypes'
  <2>1. UNCHANGED <<watch, env>>
    BY <1>12 DEF ReaderStep, ReaderRead, ReaderStamp, ReaderEof, ReaderSend, ReaderLine,
       ReaderError, Reader, Write, Exit, CallRest, External
  <2> QED
    BY <1>6, <2>1
<1> QED
  BY <1>1, <1>2, <1>3, <1>4, <1>5, <1>7, <1>8, <1>9, <1>10, <1>11, <1>12 DEF Next, HostStep

LEMMA TypeStep ==
  ASSUME ExchangeInv, [Next]_vars
  PROVE  TypeOK'
<1>1. WatchTypes /\ cfg \in [streaming : BOOLEAN, local : BOOLEAN]
  BY DEF ExchangeInv, TypeOK, WatchTypes
<1>2. WatchTypes'
  BY <1>1, WatchStep
<1> QED
  BY <1>1, <1>2, CfgStays, CallTypes DEF TypeOK, WatchTypes, KidTypes

LEMMA InitInv ==
  ASSUME Init
  PROVE  ExchangeInv
<1>1. <<>> \in Seq(Events) /\ Len(<<>>) <= 1
  OBVIOUS
<1>2. Absent \in Kid /\ Absent.proc = "none" /\ ~Absent.heir /\ Len(Absent.chan) <= 1
  BY <1>1 DEF Absent, Kid
<1>3. /\ kid \in [Kids -> Kid]
      /\ \A k \in Kids : kid[k].proc = "none" /\ ~kid[k].heir /\ Len(kid[k].chan) <= 1
  BY <1>2 DEF Init
<1>4. /\ host \in Host /\ host.pc = "resolve" /\ host.kid = "helper" /\ ~host.running
      /\ ~host.seen /\ ~host.startup /\ host.result = "none"
  BY DEF Init, Host, Starting, Returns
<1>5. env \in [{"shutdown", "cancelled", "captureFailed"} -> BOOLEAN]
  BY DEF Init
<1>6. TypeOK
  BY <1>3, <1>4, <1>5 DEF Init, TypeOK
<1>7. PhaseInv
  BY <1>3, <1>4 DEF PhaseInv, StartPcs, ProbePcs, ReadyPcs, FinishPcs, BatchPcs, Ending,
     Batched, BatchWorker
<1>8. SupInv
  BY <1>3, <1>4 DEF SupInv, Owing, ProbePcs, ReadyPcs, FinishPcs, BatchPcs
<1>9. StreamInv /\ LastInv /\ AnswerInv /\ OutcomeAuthentic
  BY <1>4 DEF StreamInv, ReadyPcs, Unheard, LastInv, AnswerInv, OutcomeAuthentic
<1> QED
  BY <1>6, <1>7, <1>8, <1>9 DEF ExchangeInv

LEMMA StepInv ==
  ASSUME ExchangeInv, [Next]_vars
  PROVE  ExchangeInv'
  BY TypeStep, PhaseStep, SupStep, StreamStep, LastStep, AnswerStep, OutcomeStep DEF ExchangeInv

LEMMA ExchangeInvariant == Spec => []ExchangeInv
<1>1. Init => ExchangeInv
  BY InitInv
<1>2. ExchangeInv /\ [Next]_vars => ExchangeInv'
  BY StepInv
<1> QED
  BY <1>1, <1>2, PTL DEF Spec

-----------------------------------------------------------------------------
(* The theorems *)

\* Type correctness of every call of start, finish and cancel, the readers and
\* the watcher (worker.rs), whatever the workers write and for any bound on it.
THEOREM ExchangeTypes == Spec => []TypeOK
<1>1. ExchangeInv => TypeOK
  BY DEF ExchangeInv
<1> QED
  BY <1>1, ExchangeInvariant, PTL

\* No path of start, finish, cancel or Drop leaves a process behind: at most one
\* helper is not waited for, only the stream worker between the calls, none and
\* no descendant of the readiness helper once a call has returned for good.
THEOREM HelpersSupervised == Spec => []Supervised
<1>1. ASSUME ExchangeInv PROVE Supervised
  <2>1. TypeOK /\ PhaseInv /\ SupInv
    BY <1>1 DEF ExchangeInv
  <2>2. Unreaped \subseteq {host.kid} /\ (~Owing => Unreaped = {})
    BY <2>1 DEF SupInv, Unreaped
  <2>3. Cardinality(Unreaped) <= 1
    <3>1. CASE Unreaped = {}
      BY <3>1, FS_EmptySet
    <3>2. CASE Unreaped = {host.kid}
      <4>1. Cardinality({host.kid}) = 1
        BY FS_Singleton
      <4> QED
        BY <3>2, <4>1
    <3> QED
      BY <2>2, <3>1, <3>2
  <2>4. ASSUME At("recording")
        PROVE  Unreaped = IF host.running THEN {"stream"} ELSE {}
    BY <2>1, <2>4, Fields DEF SupInv, Unreaped, Owing, At, PhaseInv, HelperPcs, ProbePcs, ReadyPcs,
       FinishPcs, BatchPcs
  <2>5. ASSUME At("done") PROVE Unreaped = {}
    BY <2>2, <2>5 DEF Owing, At, ProbePcs, ReadyPcs, FinishPcs, BatchPcs
  <2> QED
    BY <2>1, <2>3, <2>4, <2>5 DEF Supervised, SupInv, HelperPcs
<1> QED
  BY <1>1, ExchangeInvariant, PTL

\* A batch worker follows a stream worker only when retry_batch may start one:
\* the stream is the cloud's, its process has been waited for, and its reader
\* has begun no frame after the ready frame.
THEOREM RetriesOnlySilent == Spec => []RetryOnlyIfSilent
<1>1. ASSUME ExchangeInv PROVE RetryOnlyIfSilent
  <2>1. PhaseInv /\ SupInv /\ LastInv
    BY <1>1 DEF ExchangeInv
  <2> SUFFICES ASSUME Batched, host.running
               PROVE  ~cfg.local /\ "stream" \notin Unreaped /\ kid["stream"].bytes <= 1
    BY DEF RetryOnlyIfSilent, Batched, BatchWorker
  <2>2. ~cfg.local /\ kid["stream"].bytes <= 1
    BY <2>1 DEF LastInv, Stream
  <2>3. host.kid = "batch" \/ host.pc = "done"
    BY <2>1 DEF PhaseInv, BatchPcs
  <2>4. "stream" \notin Unreaped
    BY <2>1, <2>3 DEF SupInv, Unreaped, Owing, ProbePcs, ReadyPcs, FinishPcs, BatchPcs
  <2> QED
    BY <2>2, <2>4
<1> QED
  BY <1>1, ExchangeInvariant, PTL

\* finish reports an outcome only from a worker that was asked for it, began a
\* frame for it and was waited for with exit status zero (reap_clean).
THEOREM OutcomesAuthentic == Spec => []OutcomeAuthentic
<1>1. ExchangeInv => OutcomeAuthentic
  BY DEF ExchangeInv
<1> QED
  BY <1>1, ExchangeInvariant, PTL
=============================================================================
