--------------------------- MODULE WorkerExchange ---------------------------
(***************************************************************************)
(* One dictation's exchange with its helper processes (ui/linux/src/       *)
(* worker.rs): the local readiness check, the protocol probe, the stream   *)
(* worker that starts while the microphone records, and the batch worker   *)
(* that serves when there is no stream, or as the single fallback.         *)
(*                                                                         *)
(* The calls run one after another on a thread of the host. Every worker   *)
(* has a reader thread of its own, which turns its standard output into    *)
(* events on a channel of capacity one; during start a watcher thread      *)
(* raises the interrupt flag. A worker is any process: it may write what   *)
(* it likes, exit, or hang. A frame is known by what its decoding says.    *)
(***************************************************************************)
EXTENDS Naturals, Sequences, FiniteSets

Kids == {"helper", "probe", "stream", "batch"}

CONSTANT MaxFrames   \* bound: frames each of them writes

ASSUME FramesAssumption == MaxFrames \in [Kids -> Nat]

VARIABLES
  cfg,     \* [streaming, local]: the ProviderConfig fields that steer the calls
  host,    \* the calling thread: see Host
  kid,     \* the helper processes, their pipes, readers and channels: see Kid
  watch,   \* the startup watcher: [pc, interrupted]
  env      \* [shutdown, cancelled, captureFailed]: raised by other threads

vars == <<cfg, host, kid, watch, env>>

\* What decode and decode_result make of a frame: "good" is valid, "decline" a
\* valid one that says no (streaming false, status error).
Contents == {"good", "decline", "bad"}

\* FrameEvent
Started(before) == [type |-> "started", flag |-> before]
Whole(before) == [type |-> "frame", flag |-> before]
Failed(seen) == [type |-> "failed", flag |-> seen]
Events == [type : {"started", "frame", "failed"}, flag : BOOLEAN]

Kid == [proc : {"none", "live", "ok", "failed"}, reaped : BOOLEAN,
        heir : BOOLEAN,                   \* a descendant holds the output pipe
        stdin : SUBSET {"request", "finish", "eof"},
        pipe : Nat,                       \* frames written, or begun, and unread
        rpc : {"none", "idle", "stamp", "started", "line", "frame", "failed",
               "broken", "ended"},
        before : BOOLEAN,                 \* before_finish, of the frame being read
        chan : Seq(Events),               \* sync_channel(1)
        rx : BOOLEAN, allowed : BOOLEAN,  \* the receiver lives; output_allowed
        bytes : Nat,                      \* history: frames its reader began
        rest : BOOLEAN]                   \* history: it called the REST provider

Absent == [proc |-> "none", reaped |-> FALSE, heir |-> FALSE, stdin |-> {},
           pipe |-> 0, rpc |-> "none",
           before |-> FALSE, chan |-> <<>>, rx |-> FALSE,
           allowed |-> FALSE, bytes |-> 0, rest |-> FALSE]

Starting == {"resolve", "helper_wait", "helper_collect", "probe", "probe_recv",
             "probe_reap", "request", "ready_write", "ready_recv", "join"}
Returns == {"join", "done", "unsent", "quiet", "batch"}
Host == [pc : Starting \cup {"recording", "finish", "body", "allow", "line",
                "unsent", "result_recv", "result_reap", "quiet", "batch",
                "batch_write", "batch_recv", "batch_reap", "terminate", "grace", "done"},
         kid : Kids,                      \* the worker the step is about
         ret : Returns,                   \* where terminate returns to
         running : BOOLEAN,               \* Worker::running is Some
         seen : BOOLEAN,                  \* recv_until's local
         late : BOOLEAN,                  \* the call's deadline has passed
         startup : BOOLEAN,               \* inside start_recording
         result : {"none", "ok", "err"}]

Init ==
  /\ cfg \in [streaming : BOOLEAN, local : BOOLEAN]
  /\ host = [pc |-> "resolve", kid |-> "helper", ret |-> "done", running |-> FALSE,
             seen |-> FALSE, late |-> FALSE, startup |-> FALSE, result |-> "none"]
  /\ kid = [k \in Kids |-> Absent]
  /\ watch = [pc |-> "off", interrupted |-> FALSE]
  /\ env = [flag \in {"shutdown", "cancelled", "captureFailed"} |-> FALSE]

-----------------------------------------------------------------------------
(* The calling thread *)

At(p) == host.pc = p
Now == kid[host.kid]
Exited(k) == kid[k].proc \in {"ok", "failed"}
LocalStream == cfg.local /\ cfg.streaming

\* The flag start and finish poll: the watcher's during startup, then shutdown.
Flag == IF host.startup THEN watch.interrupted ELSE env.shutdown

\* A Running that goes out of scope takes its receiver and the channel with it.
Dropped(r) == [r EXCEPT !.rx = FALSE, !.chan = <<>>]

Goto(p) == host' = [host EXCEPT !.pc = p, !.seen = FALSE]
Done(r) ==
  /\ host' = [host EXCEPT !.pc = "done", !.result = r, !.running = FALSE]
  /\ kid' = [k \in Kids |-> Dropped(kid[k])]

\* Leaving start: the watcher is joined before the result is looked at.
Fail == IF host.startup THEN Goto("join") /\ UNCHANGED kid ELSE Done("err")
TerminateThen(p) ==
  /\ host' = [host EXCEPT !.pc = "terminate", !.ret = p, !.seen = FALSE]
  /\ UNCHANGED kid
FailAfterTerminate == TerminateThen(IF host.startup THEN "join" ELSE "done")

\* spawn: the process, its pipes, its reader and the channel. The probe and the
\* stream start a deadline; the batch keeps the one of finish.
Spawn(k, allow, p) ==
  /\ kid' = [kid EXCEPT ![k] = [Absent EXCEPT !.proc = "live", !.rx = TRUE,
                                  !.rpc = "idle", !.allowed = allow]]
  /\ host' = [host EXCEPT !.pc = p, !.kid = k, !.seen = FALSE,
                           !.late = @ /\ k = "batch"]

Steady == UNCHANGED <<cfg, watch, env>>

\* resolve, then local_readiness for the local model, before the microphone.
Resolve ==
  /\ At("resolve")
  /\ \/ Done("err") /\ UNCHANGED watch          \* not installed
     \/ /\ cfg.local
        /\ \E h \in BOOLEAN :
             kid' = [kid EXCEPT !["helper"] =
                       [Absent EXCEPT !.proc = "live", !.heir = h]]
        /\ Goto("helper_wait") /\ UNCHANGED watch
     \/ /\ ~cfg.local
        /\ host' = [host EXCEPT !.pc = "probe", !.startup = TRUE]
        /\ watch' = [watch EXCEPT !.pc = "watching"]
        /\ UNCHANGED kid
  /\ UNCHANGED <<cfg, env>>

KillGroup == [kid EXCEPT !["helper"].proc = IF @ = "live" THEN "failed" ELSE @,
                         !["helper"].reaped = TRUE, !["helper"].heir = FALSE]
HelperFails ==
  /\ kid' = KillGroup
  /\ host' = [host EXCEPT !.pc = "done", !.result = "err"]

\* supervised: wait for the exit, or kill the group at the deadline.
HelperWait ==
  /\ At("helper_wait")
  /\ \/ /\ Exited("helper")
        /\ kid' = [kid EXCEPT !["helper"].reaped = TRUE]
        /\ Goto("helper_collect")
     \/ host.late /\ ~Exited("helper") /\ HelperFails
  /\ Steady

\* Mutant of HelperCollect: the exit of the helper is taken for the end of it.
MHelperCollect ==
  /\ At("helper_collect")
  /\ \/ /\ kid["helper"].proc = "ok"
        /\ host' = [host EXCEPT !.pc = "probe", !.startup = TRUE, !.late = FALSE]
        /\ watch' = [watch EXCEPT !.pc = "watching"]
        /\ UNCHANGED kid
     \/ Done("err") /\ UNCHANGED watch
  /\ UNCHANGED <<cfg, env>>

\* Its two outputs: complete once no descendant holds the pipes; too long, or not
\* complete at the deadline, and the group is killed. local_readiness decodes them.
HelperCollect ==
  /\ At("helper_collect")
  /\ \/ /\ ~kid["helper"].heir /\ kid["helper"].proc = "ok"
        /\ host' = [host EXCEPT !.pc = "probe", !.startup = TRUE, !.late = FALSE]
        /\ watch' = [watch EXCEPT !.pc = "watching"]
        /\ UNCHANGED kid
     \/ ~kid["helper"].heir /\ Done("err") /\ UNCHANGED watch
     \/ HelperFails /\ UNCHANGED watch
  /\ UNCHANGED <<cfg, env>>

Probe ==
  /\ At("probe")
  /\ \/ Spawn("probe", TRUE, "probe_recv")
     \/ Fail
  /\ Steady

\* encode refuses what a local model cannot do, and a request that is too long.
EncodeFails == At("request") /\ Fail /\ Steady

\* Without streaming there is nothing to start; spawn may fail.
StartWorker ==
  /\ At("request")
  /\ \/ cfg.streaming /\ Fail
     \/ ~cfg.streaming /\ host' = [host EXCEPT !.pc = "join", !.result = "ok"] /\ UNCHANGED kid
     \/ cfg.streaming /\ Spawn("stream", FALSE, "ready_write")
  /\ Steady

\* poll_fd and write_bytes: the flag and the deadline are polled before each write.
Writable == ~Flag /\ ~host.late /\ ~Exited(host.kid)

\* write_line of a request.
WriteRequest ==
  /\ host.pc \in {"ready_write", "batch_write"}
  /\ \/ /\ Writable
        /\ Goto(IF At("ready_write") THEN "ready_recv" ELSE "batch_recv")
        /\ kid' = [kid EXCEPT ![host.kid].stdin =
                     {"request"} \cup IF At("batch_write") THEN {"eof"} ELSE {}]
     \/ FailAfterTerminate
  /\ Steady

-----------------------------------------------------------------------------
(* recv_until *)

RecvPcs == {"probe_recv", "ready_recv", "result_recv", "batch_recv"}
Pop == [kid EXCEPT ![host.kid].chan = Tail(@)]

\* Only finish's receive may fall back, and only if no byte was seen.
RecvFails(seen, kids) ==
  /\ host' = [host EXCEPT !.pc = "terminate", !.seen = FALSE,
               !.ret = IF host.startup THEN "join"
                       ELSE IF At("result_recv") /\ ~seen THEN "quiet" ELSE "done"]
  /\ kid' = kids

\* A frame is decoded; only a good one goes on, after a clean exit if it is the last.
Accept(c) ==
  /\ kid' = IF At("probe_recv") /\ c = "good"
              THEN [Pop EXCEPT !["probe"].stdin = {"eof"}] ELSE Pop
  /\ host' =
       IF c = "good" /\ ~At("ready_recv")
       THEN [host EXCEPT !.seen = FALSE,
               !.pc = CASE At("probe_recv") -> "probe_reap"
                        [] At("result_recv") -> "result_reap"
                        [] OTHER -> "batch_reap"]
       ELSE IF c = "good"
       THEN [host EXCEPT !.pc = "join", !.seen = FALSE, !.result = "ok", !.running = TRUE]
       ELSE [host EXCEPT !.pc = "terminate", !.seen = FALSE,
               !.ret = IF host.startup THEN "join" ELSE "done",
               \* the cloud provider refused to stream: batch will serve
               !.result = IF At("ready_recv") /\ c = "decline" /\ ~LocalStream
                          THEN "ok" ELSE @]

\* Mutant of RecvPoll: the deadline is not looked at while waiting.
MRecvPoll == host.pc \in RecvPcs /\ Flag /\ RecvFails(host.seen, kid) /\ Steady

\* The flag, then the deadline, before every wait of at most 50 ms.
RecvPoll == host.pc \in RecvPcs /\ (Flag \/ host.late) /\ RecvFails(host.seen, kid) /\ Steady

RecvStarted ==
  /\ host.pc \in RecvPcs /\ Now.chan # <<>> /\ Head(Now.chan).type = "started"
  /\ IF At("result_recv") /\ Head(Now.chan).flag
     THEN RecvFails(TRUE, Pop)
     ELSE host' = [host EXCEPT !.seen = TRUE] /\ kid' = Pop
  /\ Steady

RecvFrame ==
  /\ host.pc \in RecvPcs /\ Now.chan # <<>> /\ Head(Now.chan).type = "frame"
  /\ IF At("result_recv") /\ Head(Now.chan).flag
     THEN RecvFails(TRUE, Pop)
     ELSE \E c \in Contents : Accept(c)
  /\ Steady

RecvFailed ==
  /\ host.pc \in RecvPcs /\ Now.chan # <<>> /\ Head(Now.chan).type = "failed"
  /\ RecvFails(host.seen \/ Head(Now.chan).flag, Pop)
  /\ Steady

Disconnected(k) == kid[k].chan = <<>> /\ kid[k].rpc = "ended"
RecvDisconnected ==
  /\ host.pc \in RecvPcs /\ Disconnected(host.kid)
  /\ RecvFails(host.seen, kid)
  /\ Steady

-----------------------------------------------------------------------------
(* terminate, reap_clean, the return of start *)

\* Mutant of Terminate: a worker that has not stopped yet is left alone.
MTerminate ==
  /\ At("terminate")
  /\ IF host.ret = "done" THEN Done("err") ELSE Goto(host.ret) /\ UNCHANGED kid
  /\ Steady

\* The worker is gone already, or it is sent SIGTERM.
Terminate ==
  /\ At("terminate")
  /\ \/ ~Exited(host.kid) /\ Goto("grace") /\ UNCHANGED kid
     \/ /\ Exited(host.kid)
        /\ Goto(host.ret)
        /\ kid' = [kid EXCEPT ![host.kid].reaped = TRUE]
  /\ Steady

\* It exits in time, or at the end of the grace period SIGKILL ends it.
Grace ==
  /\ At("grace")
  /\ Goto(host.ret)
  /\ kid' = [kid EXCEPT ![host.kid].proc = IF @ = "live" THEN "failed" ELSE @,
                         ![host.kid].reaped = TRUE]
  /\ Steady

\* The failed call returns and its receivers are dropped.
ReturnFailed == At("done") /\ host.result = "none" /\ Done("err") /\ Steady

\* The worker has been waited for: the next phase, or the call returns.
Reaped(ok) ==
  /\ LET kids == [kid EXCEPT ![host.kid].reaped = TRUE]
     IN kid' = IF host.startup THEN [kids EXCEPT !["probe"] = Dropped(@)]
               ELSE [k \in Kids |-> Dropped(kids[k])]
  /\ host' = [host EXCEPT !.pc = IF ~host.startup THEN "done"
                                 ELSE IF ok THEN "request" ELSE "join",
                          !.result = IF ~host.startup /\ ok THEN "ok" ELSE @]

ReapPcs == {"probe_reap", "result_reap", "batch_reap"}

\* Mutant of Reap: the exit status of a worker that answered is not looked at.
MReap == host.pc \in ReapPcs /\ ~Flag /\ Exited(host.kid) /\ Reaped(TRUE) /\ Steady

\* reap_clean: only exit status zero makes the answer good.
Reap ==
  /\ host.pc \in ReapPcs
  /\ \/ (Flag \/ (host.late /\ ~Exited(host.kid))) /\ FailAfterTerminate
     \/ ~Flag /\ Exited(host.kid) /\ Reaped(Now.proc = "ok")
  /\ Steady

\* start_recording joins the watcher; a worker nobody will use is dropped. What
\* only the watcher reads is forgotten with it.
Join ==
  /\ At("join") /\ watch.pc # "watching"
  /\ LET wanted == /\ host.result = "ok" /\ watch.pc # "failed"
                   /\ ~env.shutdown /\ ~env.cancelled
     IN host' = [host EXCEPT !.startup = FALSE, !.result = "none", !.kid = "stream",
                   !.pc = IF wanted THEN "recording"
                          ELSE IF host.running THEN "terminate" ELSE "done",
                   !.ret = "done", !.late = ~wanted]
  /\ kid' = [kid EXCEPT !["probe"] = Dropped(@),
                         !["stream"] = IF host.running THEN @ ELSE Dropped(@)]
  /\ watch' = [pc |-> "off", interrupted |-> FALSE]
  /\ env' = [env EXCEPT !.cancelled = FALSE, !.captureFailed = FALSE]
  /\ UNCHANGED cfg

\* Worker::cancel and Drop: terminate at once.
Cancel ==
  /\ At("recording")
  /\ host' = [host EXCEPT !.pc = IF host.running THEN "terminate" ELSE "done",
                          !.ret = "done", !.late = TRUE]
  /\ UNCHANGED kid
  /\ Steady

-----------------------------------------------------------------------------
(* finish, retry_batch, batch *)

Finish ==
  /\ At("recording")
  /\ host' = [host EXCEPT !.pc = IF host.running THEN "finish" ELSE "batch", !.late = FALSE]
  /\ UNCHANGED kid
  /\ Steady

\* try_recv before the finish line: nothing may have been written yet.
FinishCheck ==
  /\ At("finish")
  /\ \/ /\ Now.chan # <<>>
        /\ kid' = Pop
        /\ host' = [host EXCEPT !.pc = "terminate",
                     !.ret = IF Head(Now.chan) = Failed(FALSE) THEN "batch" ELSE "done"]
     \/ Disconnected("stream") /\ TerminateThen("batch")
     \/ Now.chan = <<>> /\ ~Disconnected("stream") /\ Goto("body") /\ UNCHANGED kid
  /\ Steady

FinishFails == TerminateThen("unsent")

\* The finish line but for its newline; output is allowed; the newline.
FinishBody ==
  /\ At("body")
  /\ \/ Writable /\ Goto("allow") /\ UNCHANGED kid
     \/ FinishFails
  /\ Steady

FinishAllow ==
  /\ At("allow")
  /\ kid' = [kid EXCEPT !["stream"].allowed = TRUE]
  /\ Goto("line")
  /\ Steady

FinishLine ==
  /\ At("line")
  /\ \/ /\ Writable
        /\ kid' = [kid EXCEPT !["stream"].stdin = @ \cup {"finish", "eof"}]
        /\ Goto("result_recv")
     \/ FinishFails
  /\ Steady

Unsent ==
  /\ At("unsent")
  /\ IF env.shutdown THEN Done("err") ELSE Goto("quiet") /\ UNCHANGED kid
  /\ Steady

\* Mutant of Quiet: a worker found dead is taken to have been silent.
MQuiet == At("quiet") /\ Goto("batch") /\ UNCHANGED kid /\ Steady

\* conclusively_no_output: only the end of the channel says so.
Quiet ==
  /\ At("quiet")
  /\ \/ host.late /\ Done("err")
     \/ /\ ~host.late /\ Now.chan # <<>> /\ Head(Now.chan) # Failed(FALSE)
        /\ Done("err")
     \/ /\ ~host.late /\ Now.chan # <<>> /\ Head(Now.chan) = Failed(FALSE)
        /\ kid' = Pop /\ UNCHANGED host
     \/ ~host.late /\ Disconnected("stream") /\ Goto("batch") /\ UNCHANGED kid
  /\ Steady

\* retry_batch refuses a local stream; batch polls the flag and the deadline.
Batch ==
  /\ At("batch")
  /\ \/ Done("err")
     \/ /\ ~(host.running /\ LocalStream) /\ ~Flag /\ ~host.late
        /\ Spawn("batch", TRUE, "batch_write")
  /\ Steady

HostStep ==
  \/ Resolve \/ HelperWait \/ HelperCollect \/ Probe \/ EncodeFails \/ StartWorker \/ WriteRequest
  \/ RecvPoll \/ RecvStarted \/ RecvFrame \/ RecvFailed \/ RecvDisconnected
  \/ Terminate \/ Grace \/ ReturnFailed \/ Reap \/ Join
  \/ FinishCheck \/ FinishBody \/ FinishAllow \/ FinishLine \/ Unsent \/ Quiet \/ Batch

-----------------------------------------------------------------------------
(* The reader thread of worker k *)

\* The thread returns: its end of the pipe is closed.
Ended(r) == [r EXCEPT !.rpc = "ended", !.pipe = 0, !.before = FALSE]

Reader(k, r) == kid' = [kid EXCEPT ![k] = r] /\ UNCHANGED <<cfg, host, watch, env>>

\* The first byte of a frame; then output_allowed is loaded.
ReaderRead(k) ==
  /\ kid[k].rpc = "idle" /\ kid[k].pipe > 0
  /\ Reader(k, [kid[k] EXCEPT !.rpc = "stamp", !.pipe = @ - 1, !.bytes = @ + 1])

ReaderStamp(k) ==
  /\ kid[k].rpc = "stamp"
  /\ Reader(k, [kid[k] EXCEPT !.rpc = "started", !.before = ~kid[k].allowed])

\* The newline of the frame arrives, if the worker writes one.
ReaderLine(k) ==
  /\ kid[k].rpc = "line"
  /\ Reader(k, [kid[k] EXCEPT !.rpc = "frame"])

\* The end of the output: it also ends the frame that had begun.
ReaderEof(k) ==
  /\ Exited(k)
  /\ \/ kid[k].rpc = "line" /\ Reader(k, [kid[k] EXCEPT !.rpc = "frame"])
     \/ kid[k].rpc = "idle" /\ kid[k].pipe = 0 /\ Reader(k, Ended(kid[k]))

\* read fails, or the frame passes RESULT_MAX. bytes_seen: had a frame begun?
ReaderError(k) ==
  /\ kid[k].rpc \in {"idle", "line"}
  /\ Reader(k, [kid[k] EXCEPT !.rpc = IF @ = "line" THEN "broken" ELSE "failed"])

Event(r) == CASE r.rpc = "started" -> Started(r.before)
              [] r.rpc = "frame" -> Whole(r.before)
              [] OTHER -> Failed(r.rpc = "broken")

\* Mutant of ReaderSend: an unbounded channel.
MReaderSend(k) ==
  /\ kid[k].rpc \in {"started", "frame", "failed", "broken"}
  /\ Reader(k, [kid[k] EXCEPT !.chan = Append(@, Event(kid[k])),
                 !.rpc = IF @ = "started" THEN "line" ELSE IF @ = "frame" THEN "idle" ELSE "ended"])

\* send blocks while the channel is full and fails once the receiver is dropped.
ReaderSend(k) ==
  /\ kid[k].rpc \in {"started", "frame", "failed", "broken"}
  /\ \/ ~kid[k].rx /\ Reader(k, Ended(kid[k]))
     \/ /\ kid[k].rx /\ kid[k].chan = <<>>
        /\ LET sent == [kid[k] EXCEPT !.chan = <<Event(kid[k])>>]
           IN Reader(k, CASE sent.rpc = "started" -> [sent EXCEPT !.rpc = "line"]
                          [] sent.rpc = "frame" -> [sent EXCEPT !.rpc = "idle", !.before = FALSE]
                          [] OTHER -> Ended(sent))

ReaderStep(k) ==
  \/ ReaderRead(k) \/ ReaderStamp(k) \/ ReaderEof(k) \/ ReaderSend(k)

-----------------------------------------------------------------------------
(* The watcher of start_recording *)

Watcher ==
  /\ watch.pc = "watching"
  /\ \/ (env.shutdown \/ env.cancelled) /\ watch' = [pc |-> "stopped", interrupted |-> TRUE]
     \/ env.captureFailed /\ watch' = [pc |-> "failed", interrupted |-> TRUE]
     \/ At("join") /\ watch' = [watch EXCEPT !.pc = "stopped"]
  /\ UNCHANGED <<cfg, host, kid, env>>

-----------------------------------------------------------------------------
(* The environment: the workers, the clock, the other threads of the host *)

External(k, changes) == kid' = [kid EXCEPT ![k] = changes] /\ UNCHANGED <<cfg, host, watch, env>>

Write(k) ==
  /\ kid[k].proc = "live" /\ kid[k].bytes + kid[k].pipe < MaxFrames[k]
  /\ External(k, [kid[k] EXCEPT !.pipe = @ + 1])

Exit(k) ==
  /\ kid[k].proc = "live"
  /\ \E p \in {"ok", "failed"} : External(k, [kid[k] EXCEPT !.proc = p])

HeirExits == kid["helper"].heir /\ External("helper", [kid["helper"] EXCEPT !.heir = FALSE])

\* stream_batch.run calls the REST provider when its stream failed; batch always.
CallRest(k) ==
  /\ kid[k].proc = "live" /\ ~kid[k].rest /\ ~cfg.local
  /\ \/ k = "stream" /\ "finish" \in kid[k].stdin
     \/ k = "batch" /\ "request" \in kid[k].stdin
  /\ External(k, [kid[k] EXCEPT !.rest = TRUE])

\* The deadline of the call in progress passes.
Deadline ==
  /\ ~host.late /\ host.pc \notin {"resolve", "probe", "request", "join", "recording", "done"}
  /\ host' = [host EXCEPT !.late = TRUE]
  /\ UNCHANGED <<cfg, kid, watch, env>>

Raise(flag) ==
  /\ ~env[flag] /\ ~At("done")
  /\ flag \in {"cancelled", "captureFailed"} => host.startup
  /\ env' = [env EXCEPT ![flag] = TRUE]
  /\ UNCHANGED <<cfg, host, kid, watch>>

Over == At("done") /\ host.result # "none" /\ UNCHANGED vars

Next ==
  \/ HostStep \/ Finish \/ Cancel \/ Watcher \/ Deadline \/ HeirExits \/ Over
  \/ \E k \in Kids : 
       ReaderStep(k) \/ ReaderLine(k) \/ ReaderError(k) \/ Write(k) \/ Exit(k) \/ CallRest(k)
  \/ \E flag \in DOMAIN env : Raise(flag)

Spec == Init /\ [][Next]_vars

\* The threads run and the clock moves; nothing is asked of the workers.
Fairness ==
  /\ WF_vars(HostStep) /\ WF_vars(Watcher) /\ WF_vars(Deadline)
  /\ \A k \in Kids : WF_vars(ReaderStep(k))

FairSpec == Spec /\ Fairness

-----------------------------------------------------------------------------
(* Properties *)

TypeOK ==
  /\ cfg \in [streaming : BOOLEAN, local : BOOLEAN]
  /\ host \in Host /\ kid \in [Kids -> Kid]
  /\ \A k \in Kids : Len(kid[k].chan) <= 1
  /\ watch \in [pc : {"off", "watching", "stopped", "failed"}, interrupted : BOOLEAN]
  /\ env \in [{"shutdown", "cancelled", "captureFailed"} -> BOOLEAN]

Unreaped == {k \in Kids : kid[k].proc # "none" /\ ~kid[k].reaped}

\* No path of start, finish, cancel or Drop leaves a process behind: two workers
\* never run at once, between the calls only the stream worker does, and when
\* a call has returned every helper has been waited for, descendants included.
Supervised ==
  /\ Cardinality(Unreaped) <= 1
  /\ At("recording") => Unreaped = IF host.running THEN {"stream"} ELSE {}
  /\ At("done") => Unreaped = {}
  /\ host.pc \notin {"helper_wait", "helper_collect"} => ~kid["helper"].heir

\* After a stream worker, a batch worker is started only if the stream is the
\* cloud's, its process is gone, and its reader took nothing after the ready
\* frame (what it left unread, if a read of the pipe failed, nobody can know).
RetryOnlyIfSilent ==
  kid["batch"].proc # "none" /\ host.running =>
    /\ ~cfg.local /\ "stream" \notin Unreaped
    /\ kid["stream"].bytes <= 1

\* An outcome is reported only from a worker that was asked for it, wrote a frame
\* for it (the stream's first was its ready frame) and exited with status zero.
OutcomeAuthentic ==
  At("done") /\ host.result = "ok" =>
    \/ host.kid = "stream" /\ "finish" \in Now.stdin /\ Now.bytes > 1 /\ Now.proc = "ok"
    \/ host.kid = "batch" /\ "request" \in Now.stdin /\ Now.bytes > 0 /\ Now.proc = "ok"

\* A call of start or finish returns whatever the worker does, and then every
\* reader thread ends, the ones blocked on a full channel included (as long as
\* no descendant of a worker outlives it with its output pipe open).
CallsReturn ==
  ~At("recording") ~>
     \/ At("recording")
     \/ At("done") /\ \A k \in Kids : kid[k].rpc \in {"none", "ended"}

\* docs: "Streaming failure permits at most one REST fallback."
AtMostOneRest == ~(kid["stream"].rest /\ kid["batch"].rest)

=============================================================================
