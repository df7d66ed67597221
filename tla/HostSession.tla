---------------------------- MODULE HostSession ----------------------------
(***************************************************************************)
(* The dictation session of the native Linux host (ui/linux/src/session.rs)*)
(*                                                                         *)
(* One host thread (`run`) owns the recording and serves a command queue.  *)
(* Any number of client threads (control socket, shortcut, menu) call      *)
(* `Controller::toggle`, `reload` and the setters; they meet the host in   *)
(* the snapshot (a mutex), three atomics (`admitted`, `restart_requested`, *)
(* `startup_cancelled`), the `shutdown` flag and the mpsc queue.           *)
(*                                                                         *)
(* One action is one access to shared state together with the thread-local *)
(* work around it, so every interleaving of the threads is explored.       *)
(***************************************************************************)
EXTENDS Integers, Sequences

CONSTANTS Clients,     \* the threads that call the Controller
          Host,        \* the thread running `run`
          MaxPresses   \* bound: calls made by all clients together

ASSUME HostAssumption == Host \notin Clients
ASSUME BoundAssumption == MaxPresses \in Nat

VARIABLES
  snapshot,         \* the published Snapshot: state and generation
  admitted,         \* the admission word: who may mutate, and whether to finish
  restart,          \* the restart_requested word
  startupCancelled, \* the startup_cancelled word: last generation cancelled
  shutdown,         \* "no", then "flagged" (flag stored), then "sent" (command sent)
  queue,            \* the mpsc channel
  hpc,              \* where the host thread is
  generation,       \* run: number of the last session started
  active,           \* run: active.is_some()
  terminal,         \* run: terminal_until is None, in the future, or past
  limitDue,         \* the active capture has reached max_seconds
  job,              \* run: why a session is being started or finished
  verdict,          \* run: the terminal state decided and not yet published
  owner,            \* run: the admission loaded before taking it over
  pc,               \* client: where each thread is inside its call
  expected,         \* client: the snapshot its call acts upon
  res,              \* client: the result its call will return
  presses,          \* number of calls made so far
  deliveries,       \* history: generations whose transcript was delivered
  cancelAccepted    \* history: generations whose startup cancel returned Ok

shared == <<snapshot, admitted, restart, startupCancelled, shutdown, queue>>
hostVars == <<hpc, generation, active, terminal, limitDue, job, verdict, owner>>
clientVars == <<pc, expected, res, presses>>
history == <<deliveries, cancelAccepted>>
vars == <<shared, hostVars, clientVars, history>>

-----------------------------------------------------------------------------
(* Values *)

Terminal == {"Success", "Error", "Cancelled"}
States == {"Idle", "Starting", "Recording", "Stopping", "Processing",
           "Delivering"} \cup Terminal

\* The states in which `toggle` asks for a restart without looking further.
Finishing == {"Stopping", "Processing", "Delivering"} \cup Terminal

Snap(s, g) == [state |-> s, gen |-> g]

\* An admission number is fetched from a counter, so it is never reused; a
\* thread holds at most one, so its name stands for the number. The low bit is
\* `kind`.
Admission(who, finishing) ==
  [kind |-> IF finishing THEN "finish" ELSE "plain", by |-> who]
NoAdmission == [kind |-> "none", by |-> Host]
IsFinish(a) == a.kind = "finish"

\* restart_requested is 0, (g + 1) << 1, or that with the ready bit.
NoRestart == [phase |-> "none", gen |-> 0]
MPending(g) == [phase |-> "pending", gen |-> g - 2]  \* mutant: g - 1 for g + 1
Pending(g) == [phase |-> "pending", gen |-> g]
Ready(g) == [phase |-> "ready", gen |-> g]

\* restart_request >> 1 == generation + 1
RestartFor(g) == restart.phase # "none" /\ restart.gen = g

\* Commands. `from` receives the reply; `state` is what a toggle expects;
\* `gen` is what CancelStartup names. The other fields are padding.
Command(op, from, state, gen) ==
  [op |-> op, from |-> from, state |-> state, gen |-> gen]
ToggleCmd(c, s) == Command("Toggle", c, s, 0)
SettingsCmd(c) == Command("Settings", c, "Idle", 0)
CancelCmd(g) == Command("CancelStartup", Host, "Starting", g)
ReadyCmd == Command("RestartReady", Host, "Idle", 0)
ShutdownCmd == Command("Shutdown", Host, "Idle", 0)

\* `tx.send` fails once the host thread has dropped the receiver.
Listening == hpc # "exited"

Publish(s) == snapshot' = Snap(s, generation)
Arm == terminal' = "armed"   \* terminal_until = Some(now + 2 s)
PublishTerminal(s) == Publish(s) /\ Arm /\ verdict' = "Idle"

-----------------------------------------------------------------------------
Init ==
  /\ snapshot = Snap("Idle", 0)
  /\ admitted = NoAdmission
  /\ restart = NoRestart
  /\ startupCancelled = 0
  /\ shutdown = "no"
  /\ queue = <<>>
  /\ hpc = "recv"
  /\ generation = 0
  /\ active = FALSE
  /\ terminal = "none"
  /\ limitDue = FALSE
  /\ job = [why |-> "none", from |-> Host]
  /\ verdict = "Idle"
  /\ owner = NoAdmission
  /\ pc = [c \in Clients |-> "idle"]
  /\ expected = [c \in Clients |-> Snap("Idle", 0)]
  /\ res = [c \in Clients |-> "none"]
  /\ presses = 0
  /\ deliveries = <<>>
  /\ cancelAccepted = {}

-----------------------------------------------------------------------------
(* Clients: Controller::toggle *)

\* Move on, go to release the admission with a result, or return that result
\* (the locals of the call end with it).
Goto(c, l) ==
  /\ pc' = [pc EXCEPT ![c] = l]
  /\ UNCHANGED <<expected, res>>
ReleaseWith(c, r) ==
  /\ pc' = [pc EXCEPT ![c] = "release"]
  /\ res' = [res EXCEPT ![c] = r]
  /\ UNCHANGED expected
Return(c, r) ==
  /\ pc' = [pc EXCEPT ![c] = "idle"]
  /\ res' = [res EXCEPT ![c] = r]
  /\ expected' = [expected EXCEPT ![c] = Snap("Idle", 0)]

Call(c) == pc[c] = "idle" /\ presses < MaxPresses /\ presses' = presses + 1
Holds(c) == admitted.kind # "none" /\ admitted.by = c

\* Entry of toggle, and its tail call from queue_restart ("retry"): read the
\* snapshot and branch on its state.
ToggleStatus(c) ==
  /\ Call(c) \/ (pc[c] = "retry" /\ UNCHANGED presses)
  /\ expected' = [expected EXCEPT ![c] = snapshot]
  /\ pc' = [pc EXCEPT ![c] = IF snapshot.state = "Starting" THEN "cancel"
                             ELSE IF snapshot.state \in Finishing THEN "reserve"
                             ELSE "admit"]
  /\ UNCHANGED <<shared, hostVars, res, history>>

\* Mutant of CancelStarting: only the word is stored, no command is sent.
MCancelStarting(c) ==
  /\ pc[c] = "cancel"
  /\ snapshot = expected[c]
  /\ startupCancelled' = snapshot.gen
  /\ cancelAccepted' = cancelAccepted \cup {snapshot.gen}
  /\ Return(c, "Ok")
  /\ UNCHANGED <<snapshot, admitted, restart, shutdown, queue, hostVars, presses,
                 deliveries>>

\* A press during Starting: recheck, store the cancelled generation and send
\* CancelStartup, all under the snapshot lock.
CancelStarting(c) ==
  /\ pc[c] = "cancel"
  /\ snapshot = expected[c]
  /\ startupCancelled' = snapshot.gen
  /\ queue' = Append(queue, CancelCmd(snapshot.gen))
  /\ cancelAccepted' = cancelAccepted \cup {snapshot.gen}
  /\ Return(c, "Ok")
  /\ UNCHANGED <<snapshot, admitted, restart, shutdown, hostVars, presses, deliveries>>

CancelTooLate(c) ==
  /\ pc[c] = "cancel"
  /\ snapshot # expected[c]
  /\ Return(c, "Busy")
  /\ UNCHANGED <<shared, hostVars, presses, history>>

\* The compare-exchange on the admission word. Its outcome subsumes the load
\* that precedes it when the snapshot says Recording.
Admit(c) ==
  /\ pc[c] = "admit"
  /\ admitted = NoAdmission
  /\ admitted' = Admission(c, expected[c].state = "Recording")
  /\ Goto(c, "recheck")
  /\ UNCHANGED <<snapshot, restart, startupCancelled, shutdown, queue, hostVars,
                 presses, history>>

AdmitRefused(c) ==
  /\ pc[c] = "admit"
  /\ admitted # NoAdmission
  /\ IF expected[c].state = "Recording" /\ IsFinish(admitted)
     THEN Goto(c, "reserve")
     ELSE Return(c, "Busy")
  /\ UNCHANGED <<shared, hostVars, presses, history>>

\* Mutant of Recheck: the early return forgets to release the admission.
MRecheck(c) ==
  /\ pc[c] = "recheck"
  /\ IF snapshot = expected[c] THEN Goto(c, "send") ELSE Return(c, "Busy")
  /\ UNCHANGED <<shared, hostVars, presses, history>>

\* The snapshot may have moved between the first read and the admission.
Recheck(c) ==
  /\ pc[c] = "recheck"
  /\ IF snapshot = expected[c] THEN Goto(c, "send") ELSE ReleaseWith(c, "Busy")
  /\ UNCHANGED <<shared, hostVars, presses, history>>

\* Send Command::Toggle, which carries the expected state but no generation.
SendToggle(c) ==
  /\ pc[c] = "send"
  /\ IF Listening
     THEN /\ queue' = Append(queue, ToggleCmd(c, expected[c].state))
          /\ Goto(c, "await")
     ELSE ReleaseWith(c, "Unavailable") /\ UNCHANGED queue
  /\ UNCHANGED <<snapshot, admitted, restart, startupCancelled, shutdown,
                 hostVars, presses, history>>

\* rx.recv() fails when the host drops the queue with the reply sender in it.
AwaitFails(c) ==
  /\ pc[c] = "await"
  /\ ~Listening
  /\ ReleaseWith(c, "Unavailable")
  /\ UNCHANGED <<shared, hostVars, presses, history>>

\* Release: a compare-exchange, so an admission the host took over stays.
Release(c) ==
  /\ pc[c] = "release"
  /\ admitted' = IF Holds(c) THEN NoAdmission ELSE admitted
  /\ Return(c, res[c])
  /\ UNCHANGED <<snapshot, restart, startupCancelled, shutdown, queue, hostVars,
                 presses, history>>

-----------------------------------------------------------------------------
(* Clients: Controller::queue_restart *)

Reserve(c) ==
  /\ pc[c] = "reserve"
  /\ IF restart = NoRestart
     THEN restart' = Pending(expected[c].gen) /\ Goto(c, "inspect")
     ELSE Return(c, "Busy") /\ UNCHANGED restart
  /\ UNCHANGED <<snapshot, admitted, startupCancelled, shutdown, queue, hostVars,
                 presses, history>>

\* Read the snapshot again now that the word is reserved.
Inspect(c) ==
  /\ pc[c] = "inspect"
  /\ Goto(c, IF snapshot.gen # expected[c].gen THEN "withdraw"
             ELSE IF snapshot.state = "Idle" THEN "unreserve"
             ELSE IF snapshot.state \in Finishing THEN "promote"
             ELSE IF snapshot.state = "Recording" THEN "inspectOwner"
             ELSE "withdraw")
  /\ UNCHANGED <<shared, hostVars, presses, history>>

InspectOwner(c) ==
  /\ pc[c] = "inspectOwner"
  /\ Goto(c, IF IsFinish(admitted) THEN "promote" ELSE "withdraw")
  /\ UNCHANGED <<shared, hostVars, presses, history>>

\* Mutant of Unreserve: Busy is returned with the reservation left in place.
MUnreserve(c) ==
  /\ pc[c] \in {"unreserve", "withdraw"}
  /\ Return(c, "Busy")
  /\ UNCHANGED <<shared, hostVars, presses, history>>

\* Give the reservation back: then toggle again if the host went Idle
\* meanwhile, else report Busy.
Unreserve(c) ==
  /\ pc[c] \in {"unreserve", "withdraw"}
  /\ restart' = IF restart = Pending(expected[c].gen) THEN NoRestart ELSE restart
  /\ IF pc[c] = "unreserve" /\ restart = Pending(expected[c].gen)
     THEN Goto(c, "retry")
     ELSE Return(c, "Busy")
  /\ UNCHANGED <<snapshot, admitted, startupCancelled, shutdown, queue, hostVars,
                 presses, history>>

\* Set the ready bit.
Promote(c) ==
  /\ pc[c] = "promote"
  /\ IF restart = Pending(expected[c].gen)
     THEN restart' = Ready(expected[c].gen) /\ Goto(c, "wake")
     ELSE Goto(c, "withdraw") /\ UNCHANGED restart
  /\ UNCHANGED <<snapshot, admitted, startupCancelled, shutdown, queue, hostVars,
                 presses, history>>

Wake(c) ==
  /\ pc[c] = "wake"
  /\ IF Listening
     THEN queue' = Append(queue, ReadyCmd) /\ Return(c, "Ok") /\ UNCHANGED restart
     ELSE /\ restart' = IF restart = Ready(expected[c].gen) THEN NoRestart ELSE restart
          /\ Return(c, "Unavailable")
          /\ UNCHANGED queue
  /\ UNCHANGED <<snapshot, admitted, startupCancelled, shutdown, hostVars,
                 presses, history>>

-----------------------------------------------------------------------------
(* Clients: Controller::reload, set_processing_mode, set_output_method, which *)
(* differ only in the configuration work the host does for them.             *)

SettingsStatus(c) ==
  /\ Call(c)
  /\ IF snapshot.state = "Idle" THEN Goto(c, "admitSettings") ELSE Return(c, "Busy")
  /\ UNCHANGED <<shared, hostVars, history>>

AdmitSettings(c) ==
  /\ pc[c] = "admitSettings"
  /\ IF admitted = NoAdmission
     THEN admitted' = Admission(c, FALSE) /\ Goto(c, "sendSettings")
     ELSE Return(c, "Busy") /\ UNCHANGED admitted
  /\ UNCHANGED <<snapshot, restart, startupCancelled, shutdown, queue, hostVars,
                 presses, history>>

SendSettings(c) ==
  /\ pc[c] = "sendSettings"
  /\ IF Listening
     THEN queue' = Append(queue, SettingsCmd(c)) /\ Goto(c, "await")
     ELSE ReleaseWith(c, "Unavailable") /\ UNCHANGED queue
  /\ UNCHANGED <<snapshot, admitted, restart, startupCancelled, shutdown,
                 hostVars, presses, history>>

-----------------------------------------------------------------------------
(* Controller::shutdown_and_join: store the flag, then send Shutdown. *)

ShutdownFlag ==
  /\ shutdown = "no"
  /\ shutdown' = "flagged"
  /\ UNCHANGED <<snapshot, admitted, restart, startupCancelled, queue, hostVars,
                 clientVars, history>>

ShutdownSend ==
  /\ shutdown = "flagged"
  /\ shutdown' = "sent"
  /\ queue' = Append(queue, ShutdownCmd)
  /\ UNCHANGED <<snapshot, admitted, restart, startupCancelled, hostVars,
                 clientVars, history>>

-----------------------------------------------------------------------------
(* Host: taking a command off the queue *)

NoJob == [why |-> "none", from |-> Host]
Received(op) == hpc = "recv" /\ queue # <<>> /\ Head(queue).op = op
Pop == queue' = Tail(queue)

\* Toggle(Idle): start a session.
AcceptStart ==
  /\ Received("Toggle")
  /\ Head(queue).state = "Idle" /\ snapshot.state = "Idle" /\ ~active
  /\ Pop
  /\ job' = [why |-> "toggle", from |-> Head(queue).from]
  /\ hpc' = "start"
  /\ UNCHANGED <<snapshot, admitted, restart, startupCancelled, shutdown,
                 generation, active, terminal, limitDue, verdict, owner,
                 clientVars, history>>

\* Mutant of AcceptStop: the session is borrowed instead of taken.
MAcceptStop ==
  /\ Received("Toggle")
  /\ Head(queue).state = "Recording" /\ snapshot.state = "Recording" /\ active
  /\ Pop
  /\ job' = [why |-> "toggle", from |-> Head(queue).from]
  /\ Publish("Stopping")
  /\ hpc' = "stopping"
  /\ UNCHANGED <<admitted, restart, startupCancelled, shutdown, generation, active,
                 limitDue, terminal, verdict, owner, clientVars, history>>

\* Toggle(Recording): finish_active takes the session and publishes Stopping.
AcceptStop ==
  /\ Received("Toggle")
  /\ Head(queue).state = "Recording" /\ snapshot.state = "Recording" /\ active
  /\ Pop
  /\ job' = [why |-> "toggle", from |-> Head(queue).from]
  /\ active' = FALSE
  /\ limitDue' = FALSE
  /\ Publish("Stopping")
  /\ hpc' = "stopping"
  /\ UNCHANGED <<admitted, restart, startupCancelled, shutdown, generation,
                 terminal, verdict, owner, clientVars, history>>

\* Mutant of RejectToggle: the refused client gets no answer.
MRejectToggle ==
  /\ Received("Toggle")
  /\ ~(Head(queue).state = "Idle" /\ snapshot.state = "Idle" /\ ~active)
  /\ ~(Head(queue).state = "Recording" /\ snapshot.state = "Recording" /\ active)
  /\ Pop
  /\ hpc' = "tail"
  /\ UNCHANGED <<snapshot, admitted, restart, startupCancelled, shutdown,
                 generation, active, terminal, limitDue, job, verdict, owner,
                 clientVars, history>>

\* Any other toggle is answered Busy.
RejectToggle ==
  /\ Received("Toggle")
  /\ ~(Head(queue).state = "Idle" /\ snapshot.state = "Idle" /\ ~active)
  /\ ~(Head(queue).state = "Recording" /\ snapshot.state = "Recording" /\ active)
  /\ Pop
  /\ ReleaseWith(Head(queue).from, "Busy")
  /\ hpc' = "tail"
  /\ UNCHANGED <<snapshot, admitted, restart, startupCancelled, shutdown,
                 generation, active, terminal, limitDue, job, verdict, owner,
                 presses, history>>

\* Reload and the setters: refused unless Idle; else the file may be invalid.
ReceiveSettings ==
  /\ Received("Settings")
  /\ Pop
  /\ IF snapshot.state # "Idle" \/ active
     THEN ReleaseWith(Head(queue).from, "Busy")
     ELSE \E r \in {"Ok", "Failed"} : ReleaseWith(Head(queue).from, r)
  /\ hpc' = "tail"
  /\ UNCHANGED <<snapshot, admitted, restart, startupCancelled, shutdown,
                 generation, active, terminal, limitDue, job, verdict, owner,
                 presses, history>>

\* CancelStartup: if the startup it names won the race, tear the session down;
\* if it was already published Cancelled, start the terminal timer.
ReceiveCancel ==
  /\ Received("CancelStartup")
  /\ Pop
  /\ LET current == Head(queue).gen = generation IN
     /\ active' = (active /\ ~current)
     /\ limitDue' = (limitDue /\ ~(current /\ active))
     /\ IF current /\ active
        THEN hpc' = "teardown" /\ verdict' = "Cancelled" /\ UNCHANGED terminal
        ELSE /\ hpc' = "tail"
             /\ IF current /\ snapshot.state = "Cancelled" THEN Arm ELSE UNCHANGED terminal
             /\ UNCHANGED verdict
  /\ UNCHANGED <<snapshot, admitted, restart, startupCancelled, shutdown,
                 generation, job, owner, clientVars, history>>

ReceiveReady ==
  /\ Received("RestartReady")
  /\ Pop
  /\ hpc' = "tail"
  /\ UNCHANGED <<snapshot, admitted, restart, startupCancelled, shutdown,
                 generation, active, terminal, limitDue, job, verdict, owner,
                 clientVars, history>>

\* Mutant of ReceiveShutdown: a running recording is finished first.
MReceiveShutdown ==
  /\ Received("Shutdown")
  /\ Pop
  /\ hpc' = IF active THEN "tail" ELSE "exiting"
  /\ UNCHANGED <<snapshot, admitted, restart, startupCancelled, shutdown,
                 generation, active, limitDue, terminal, job, verdict, owner,
                 clientVars, history>>

ReceiveShutdown ==
  /\ Received("Shutdown")
  /\ Pop
  /\ active' = FALSE
  /\ limitDue' = FALSE
  /\ hpc' = "exiting"
  /\ UNCHANGED <<snapshot, admitted, restart, startupCancelled, shutdown,
                 generation, terminal, job, verdict, owner, clientVars, history>>

\* The receiver is dropped, with every command still in it.
Exit ==
  /\ hpc = "exiting"
  /\ hpc' = "exited"
  /\ queue' = <<>>
  /\ UNCHANGED <<snapshot, admitted, restart, startupCancelled, shutdown,
                 generation, active, terminal, limitDue, job, verdict, owner,
                 clientVars, history>>

\* w.cancel() and c.cancel() of a session already taken out of `active`: the
\* snapshot keeps saying Recording until the terminal state is published.
Teardown ==
  /\ hpc = "teardown"
  /\ PublishTerminal(verdict)
  /\ hpc' = "tail"
  /\ UNCHANGED <<admitted, restart, startupCancelled, shutdown, queue, generation,
                 active, limitDue, job, owner, clientVars, history>>

-----------------------------------------------------------------------------
(* Host: recv_timeout expires on an empty queue *)

Tick == hpc = "recv" /\ queue = <<>>

\* The terminal state has been shown long enough and nobody asks to restart
\* from it. The load of restart_requested and the publication are two steps.
TickExpire ==
  /\ Tick
  /\ ~active /\ terminal = "due" /\ ~RestartFor(generation)
  /\ hpc' = "expire"
  /\ UNCHANGED <<shared, generation, active, terminal, limitDue, job, verdict,
                 owner, clientVars, history>>

Expire ==
  /\ hpc = "expire"
  /\ terminal' = "none"
  /\ Publish("Idle")
  /\ hpc' = "tail"
  /\ UNCHANGED <<admitted, restart, startupCancelled, shutdown, queue, generation,
                 active, limitDue, job, verdict, owner, clientVars, history>>

\* Mutant of TickCaptureDied: the dead session stays in `active`.
MTickCaptureDied ==
  /\ Tick
  /\ active
  /\ verdict' = "Error"
  /\ hpc' = "teardown"
  /\ UNCHANGED <<shared, generation, active, limitDue, terminal, job, owner,
                 clientVars, history>>

\* The recorder exited early (a frozen capture is not checked; freezing happens
\* only at the duration limit, so that case is among the behaviours of TickLimit).
TickCaptureDied ==
  /\ Tick
  /\ active
  /\ active' = FALSE
  /\ limitDue' = FALSE
  /\ verdict' = "Error"
  /\ hpc' = "teardown"
  /\ UNCHANGED <<shared, generation, terminal, job, owner, clientVars, history>>

\* The duration limit: finish only if no client holds the admission.
TickLimit ==
  /\ Tick
  /\ active /\ limitDue
  /\ IF admitted = NoAdmission
     THEN admitted' = Admission(Host, TRUE) /\ hpc' = "limit"
     ELSE hpc' = "tail" /\ UNCHANGED admitted
  /\ UNCHANGED <<snapshot, restart, startupCancelled, shutdown, queue, generation,
                 active, terminal, limitDue, job, verdict, owner, clientVars,
                 history>>

LimitStop ==
  /\ hpc = "limit"
  /\ job' = [why |-> "limit", from |-> Host]
  /\ active' = FALSE
  /\ limitDue' = FALSE
  /\ Publish("Stopping")
  /\ hpc' = "stopping"
  /\ UNCHANGED <<admitted, restart, startupCancelled, shutdown, queue, generation,
                 terminal, verdict, owner, clientVars, history>>

LimitRelease ==
  /\ hpc = "limitRelease"
  /\ admitted' = IF admitted = Admission(Host, TRUE) THEN NoAdmission ELSE admitted
  /\ job' = NoJob
  /\ hpc' = "tail"
  /\ UNCHANGED <<snapshot, restart, startupCancelled, shutdown, queue, generation,
                 active, terminal, limitDue, verdict, owner, clientVars, history>>

\* Nothing is due: at most the audio level is published again.
TickIdle ==
  /\ Tick
  /\ IF active THEN ~limitDue ELSE terminal # "due" \/ RestartFor(generation)
  /\ hpc' = "tail"
  /\ UNCHANGED <<shared, generation, active, terminal, limitDue, job, verdict,
                 owner, clientVars, history>>

-----------------------------------------------------------------------------
(* Host: the restart request, looked at after every command and every tick *)

RestartDue ==
  /\ ~active
  /\ shutdown = "no"
  /\ restart.phase = "ready"

\* Mutant of TailDropStale: the + 1 of the encoding is forgotten.
MTailDropStale ==
  /\ hpc = "tail"
  /\ RestartDue
  /\ restart.gen + 1 # generation
  /\ restart' = NoRestart
  /\ hpc' = "recv"
  /\ UNCHANGED <<snapshot, admitted, startupCancelled, shutdown, queue, generation,
                 active, terminal, limitDue, job, verdict, owner, clientVars,
                 history>>

TailDropStale ==
  /\ hpc = "tail"
  /\ RestartDue
  /\ restart.gen # generation
  /\ restart' = NoRestart
  /\ hpc' = "recv"
  /\ UNCHANGED <<snapshot, admitted, startupCancelled, shutdown, queue, generation,
                 active, terminal, limitDue, job, verdict, owner, clientVars,
                 history>>

\* Mutants of TailLoadOwner: any owner is taken over; a stale request is served.
MTailAnyOwner ==
  /\ hpc = "tail"
  /\ RestartDue
  /\ restart.gen = generation
  /\ owner' = admitted
  /\ hpc' = "takeover"
  /\ UNCHANGED <<shared, generation, active, terminal, limitDue, job, verdict,
                 clientVars, history>>

MTailStale ==
  /\ hpc = "tail"
  /\ RestartDue
  /\ admitted.kind # "plain"
  /\ owner' = admitted
  /\ hpc' = "takeover"
  /\ UNCHANGED <<shared, generation, active, terminal, limitDue, job, verdict,
                 clientVars, history>>

TailLoadOwner ==
  /\ hpc = "tail"
  /\ RestartDue
  /\ restart.gen = generation
  /\ admitted.kind # "plain"
  /\ owner' = admitted
  /\ hpc' = "takeover"
  /\ UNCHANGED <<shared, generation, active, terminal, limitDue, job, verdict,
                 clientVars, history>>

TailContinue ==
  /\ hpc = "tail"
  /\ ~RestartDue \/ (restart.gen = generation /\ admitted.kind = "plain")
  /\ hpc' = "recv"
  /\ UNCHANGED <<shared, generation, active, terminal, limitDue, job, verdict,
                 owner, clientVars, history>>

\* Exchange the finished session's admission (or none) for a start admission.
Takeover ==
  /\ hpc = "takeover"
  /\ owner' = NoAdmission
  /\ IF admitted = owner
     THEN admitted' = Admission(Host, FALSE) /\ hpc' = "restartIdle"
     ELSE hpc' = "recv" /\ UNCHANGED admitted
  /\ UNCHANGED <<snapshot, restart, startupCancelled, shutdown, queue, generation,
                 active, terminal, limitDue, job, verdict, clientVars, history>>

\* Mutant of RestartIdle: Idle is not published before the restart.
MRestartIdle ==
  /\ hpc = "restartIdle"
  /\ terminal' = "none"
  /\ job' = [why |-> "restart", from |-> Host]
  /\ hpc' = "start"
  /\ UNCHANGED <<shared, generation, active, limitDue, verdict, owner, clientVars,
                 history>>

RestartIdle ==
  /\ hpc = "restartIdle"
  /\ terminal' = "none"
  /\ Publish("Idle")
  /\ job' = [why |-> "restart", from |-> Host]
  /\ hpc' = "start"
  /\ UNCHANGED <<admitted, restart, startupCancelled, shutdown, queue, generation,
                 active, limitDue, verdict, owner, clientVars, history>>

RestartClear ==
  /\ hpc = "restartClear"
  /\ restart' = IF restart = Ready(generation - 1) THEN NoRestart ELSE restart
  /\ hpc' = "restartRelease"
  /\ UNCHANGED <<snapshot, admitted, startupCancelled, shutdown, queue, generation,
                 active, terminal, limitDue, job, verdict, owner, clientVars,
                 history>>

RestartRelease ==
  /\ hpc = "restartRelease"
  /\ admitted' = IF admitted = Admission(Host, FALSE) THEN NoAdmission ELSE admitted
  /\ job' = NoJob
  /\ hpc' = "recv"
  /\ UNCHANGED <<snapshot, restart, startupCancelled, shutdown, queue, generation,
                 active, terminal, limitDue, verdict, owner, clientVars, history>>

-----------------------------------------------------------------------------
(* Host: start_active *)

\* What follows start_active and finish_active in their three callers.
AfterJob == CASE job.why = "toggle"  -> "reply"
              [] job.why = "restart" -> "restartClear"
              [] job.why = "limit"   -> "limitRelease"

\* startup.interrupted, and the test that tells a cancel from a failure.
Interrupted == startupCancelled = generation \/ shutdown # "no"

\* Configuration, worker path, readiness and the recorder are in order.
PreflightOk ==
  /\ hpc = "start"
  /\ generation' = generation + 1
  /\ snapshot' = Snap("Starting", generation + 1)
  /\ limitDue' = FALSE
  /\ hpc' = "starting"
  /\ UNCHANGED <<admitted, restart, startupCancelled, shutdown, queue, active,
                 terminal, job, verdict, owner, clientVars, history>>

PreflightFails ==
  /\ hpc = "start"
  /\ generation' = generation + 1
  /\ hpc' = "startFailed"
  /\ UNCHANGED <<shared, active, terminal, limitDue, job, verdict, owner,
                 clientVars, history>>

\* Worker::start_recording returns a worker: not interrupted at its last look.
WorkerStarts ==
  /\ hpc = "starting"
  /\ ~Interrupted
  /\ hpc' = "ready"
  /\ UNCHANGED <<shared, generation, active, terminal, limitDue, job, verdict,
                 owner, clientVars, history>>

\* It was interrupted, the worker failed, or the recorder died meanwhile.
WorkerFails ==
  /\ hpc = "starting"
  /\ limitDue' = FALSE
  /\ hpc' = "startFailed"
  /\ UNCHANGED <<shared, generation, active, terminal, job, verdict, owner,
                 clientVars, history>>

StartSucceeds ==
  /\ hpc = "ready"
  /\ active' = TRUE
  /\ Publish("Recording")
  /\ hpc' = AfterJob
  /\ UNCHANGED <<admitted, restart, startupCancelled, shutdown, queue, generation,
                 terminal, limitDue, job, verdict, owner, clientVars, history>>

\* The test and the publication are two steps: a cancel can fall between.
StartFails ==
  /\ hpc = "startFailed"
  /\ verdict' = IF Interrupted THEN "Cancelled" ELSE "Error"
  /\ hpc' = "startPublish"
  /\ UNCHANGED <<shared, generation, active, terminal, limitDue, job, owner,
                 clientVars, history>>

\* Mutant of StartPublish: a failed start leaves terminal_until unset.
MStartPublish ==
  /\ hpc = "startPublish"
  /\ Publish(verdict)
  /\ verdict' = "Idle"
  /\ hpc' = AfterJob
  /\ UNCHANGED <<admitted, restart, startupCancelled, shutdown, queue, generation,
                 active, terminal, limitDue, job, owner, clientVars, history>>

StartPublish ==
  /\ hpc = "startPublish"
  /\ PublishTerminal(verdict)
  /\ hpc' = AfterJob
  /\ UNCHANGED <<admitted, restart, startupCancelled, shutdown, queue, generation,
                 active, limitDue, job, owner, clientVars, history>>

-----------------------------------------------------------------------------
(* Host: finish_active and deliver_outcome *)

\* The capture tail and stop succeed and the recording is long and loud enough.
StopSucceeds ==
  /\ hpc = "stopping"
  /\ Publish("Processing")
  /\ hpc' = "processing"
  /\ UNCHANGED <<admitted, restart, startupCancelled, shutdown, queue, generation,
                 active, terminal, limitDue, job, verdict, owner, clientVars,
                 history>>

\* Any failure of stopping, processing or delivering, and "no speech".
Outcome(at, v) ==
  /\ hpc = at
  /\ verdict' = v
  /\ hpc' = "finished"
  /\ UNCHANGED <<shared, generation, active, terminal, limitDue, job, owner,
                 clientVars, cancelAccepted>>

StopFails == Outcome("stopping", "Error") /\ UNCHANGED deliveries
WorkerErrs == Outcome("processing", "Error") /\ UNCHANGED deliveries
NoSpeech == Outcome("processing", "Success") /\ UNCHANGED deliveries

Transcript ==
  /\ hpc = "processing"
  /\ Publish("Delivering")
  /\ hpc' = "delivering"
  /\ UNCHANGED <<admitted, restart, startupCancelled, shutdown, queue, generation,
                 active, terminal, limitDue, job, verdict, owner, clientVars,
                 history>>

Deliver ==
  /\ Outcome("delivering", "Success")
  /\ deliveries' = Append(deliveries, generation)

DeliveryFails == Outcome("delivering", "Error") /\ UNCHANGED deliveries

\* Shutdown overrides the outcome, even that of a completed delivery.
FinishPublish ==
  /\ hpc = "finished"
  /\ PublishTerminal(IF shutdown # "no" THEN "Cancelled" ELSE verdict)
  /\ hpc' = AfterJob
  /\ UNCHANGED <<admitted, restart, startupCancelled, shutdown, queue, generation,
                 active, limitDue, job, owner, clientVars, history>>

\* Answer the toggle that started or finished the session.
Reply ==
  /\ hpc = "reply"
  /\ ReleaseWith(job.from, IF snapshot.state = "Error" THEN "Failed" ELSE "Ok")
  /\ job' = NoJob
  /\ hpc' = "tail"
  /\ UNCHANGED <<shared, generation, active, terminal, limitDue, verdict, owner,
                 presses, history>>

-----------------------------------------------------------------------------
(* Time *)

TerminalElapses ==
  /\ terminal = "armed"
  /\ terminal' = "due"
  /\ UNCHANGED <<shared, hpc, generation, active, limitDue, job, verdict, owner,
                 clientVars, history>>

LimitElapses ==
  /\ active \/ hpc \in {"starting", "ready"}
  /\ ~limitDue
  /\ limitDue' = TRUE
  /\ UNCHANGED <<shared, hpc, generation, active, terminal, job, verdict, owner,
                 clientVars, history>>

-----------------------------------------------------------------------------
\* The host thread has been joined and no call is in progress.
Halted ==
  /\ hpc = "exited"
  /\ \A c \in Clients : pc[c] = "idle"
  /\ UNCHANGED vars

\* A call in progress; entering a call is the user's choice.
ClientStep(c) ==
  \/ pc[c] = "retry" /\ ToggleStatus(c)
  \/ CancelStarting(c) \/ CancelTooLate(c)
  \/ Admit(c) \/ AdmitRefused(c) \/ Recheck(c) \/ SendToggle(c)
  \/ AwaitFails(c) \/ Release(c)
  \/ Reserve(c) \/ Inspect(c) \/ InspectOwner(c) \/ Unreserve(c)
  \/ Promote(c) \/ Wake(c)
  \/ AdmitSettings(c) \/ SendSettings(c)

HostStep ==
  \/ AcceptStart \/ AcceptStop \/ RejectToggle \/ ReceiveSettings
  \/ ReceiveCancel \/ ReceiveReady \/ ReceiveShutdown \/ Exit \/ Teardown
  \/ TickExpire \/ Expire \/ TickCaptureDied \/ TickLimit \/ LimitStop
  \/ LimitRelease \/ TickIdle
  \/ TailDropStale \/ TailLoadOwner \/ TailContinue \/ Takeover
  \/ RestartIdle \/ RestartClear \/ RestartRelease
  \/ PreflightOk \/ PreflightFails \/ WorkerStarts \/ WorkerFails
  \/ StartSucceeds \/ StartFails \/ StartPublish
  \/ StopSucceeds \/ StopFails \/ WorkerErrs \/ NoSpeech \/ Transcript
  \/ Deliver \/ DeliveryFails \/ FinishPublish \/ Reply

Next ==
  \/ \E c \in Clients : ToggleStatus(c) \/ SettingsStatus(c) \/ ClientStep(c)
  \/ HostStep
  \/ ShutdownFlag \/ ShutdownSend
  \/ TerminalElapses \/ LimitElapses
  \/ Halted

Spec == Init /\ [][Next]_vars

\* The host thread and a thread inside a call keep running, the thread that
\* flagged the shutdown goes on to send it, and time passes. Starting, stopping,
\* processing and delivering end because the code bounds each by a deadline.
Fairness ==
  /\ WF_vars(HostStep)
  /\ \A c \in Clients : WF_vars(ClientStep(c))
  /\ WF_vars(ShutdownSend)
  /\ WF_vars(TerminalElapses)
  /\ WF_vars(LimitElapses)

FairSpec == Spec /\ Fairness

-----------------------------------------------------------------------------
(* Types *)

Generations == 0..MaxPresses
HostLabels ==
  {"recv", "start", "starting", "ready", "startFailed", "startPublish",
   "stopping", "processing", "delivering", "finished", "reply", "teardown",
   "expire", "limit", "limitRelease", "tail", "takeover", "restartIdle",
   "restartClear", "restartRelease", "exiting", "exited"}
ClientLabels ==
  {"idle", "retry", "cancel", "admit", "recheck", "send", "await", "release",
   "reserve", "inspect", "inspectOwner", "unreserve", "withdraw", "promote",
   "wake", "admitSettings", "sendSettings"}
Results == {"none", "Ok", "Busy", "Failed", "Unavailable"}
Snapshots == [state : States, gen : Nat]
Admissions == [kind : {"none", "plain", "finish"}, by : Clients \cup {Host}]
Restarts == [phase : {"none", "pending", "ready"}, gen : Nat]
Jobs == [why : {"none", "toggle", "restart", "limit"}, from : Clients \cup {Host}]
Commands ==
  [op : {"Toggle", "Settings", "CancelStartup", "RestartReady", "Shutdown"},
   from : Clients \cup {Host}, state : States, gen : Nat]

\* Type correctness of the shared words, the queue and both kinds of thread.
TypeOK ==
  /\ snapshot \in Snapshots
  /\ admitted \in Admissions
  /\ restart \in Restarts
  /\ startupCancelled \in Nat
  /\ shutdown \in {"no", "flagged", "sent"}
  /\ queue \in Seq(Commands)
  /\ hpc \in HostLabels
  /\ generation \in Nat
  /\ active \in BOOLEAN
  /\ terminal \in {"none", "armed", "due"}
  /\ limitDue \in BOOLEAN
  /\ job \in Jobs
  /\ verdict \in States
  /\ owner \in Admissions
  /\ pc \in [Clients -> ClientLabels]
  /\ expected \in [Clients -> Snapshots]
  /\ res \in [Clients -> Results]
  /\ presses \in Nat
  /\ deliveries \in Seq(Nat)
  /\ cancelAccepted \subseteq Nat

-----------------------------------------------------------------------------
(* Safety *)

\* The labels between taking the admission and releasing it.
Holding == {"recheck", "send", "await", "release", "sendSettings"}
\* The labels between reserving restart_requested and settling it.
Reserving == {"inspect", "inspectOwner", "unreserve", "withdraw", "promote"}

\* The host thread, while it starts a session or runs one to its end.
Starts == {"start", "starting", "ready", "startFailed", "startPublish"}
Finishes == {"stopping", "processing", "delivering", "finished"}

\* No leaked admission: a client named by the admission word is between its
\* compare-exchange and its release, and the host's own admission belongs to the
\* restart or the automatic stop it is carrying out. A leak would make every
\* later press Busy for the life of the process.
AdmissionHeld ==
  /\ \A c \in Clients : Holds(c) => pc[c] \in Holding
  /\ Holds(Host) => \/ IsFinish(admitted) /\ hpc = "limit"
                    \/ IsFinish(admitted) /\ job.why = "limit"
                    \/ ~IsFinish(admitted) /\ hpc = "restartIdle"
                    \/ ~IsFinish(admitted) /\ job.why = "restart"

\* No leaked reservation: a pending restart request belongs to exactly one
\* client that is still deciding about it. (The tick does not expire a terminal
\* state while one is pending, so a leak would freeze the HUD.)
ReservationHeld ==
  restart.phase = "pending" =>
    \E c \in Clients : /\ pc[c] \in Reserving /\ expected[c].gen = restart.gen
                       /\ \A d \in Clients \ {c} : pc[d] \notin Reserving

\* One mutation at a time: a start or a settings change that is queued or being
\* served belongs to the client that holds a plain admission, so the host never
\* takes that admission over for a restart and no other start can be queued.
OneMutation ==
  /\ \A i \in 1..Len(queue) :
       (queue[i].op = "Settings" \/ (queue[i].op = "Toggle" /\ queue[i].state = "Idle"))
         => admitted = Admission(queue[i].from, FALSE)
  /\ hpc \in Starts =>
       admitted = Admission(IF job.why = "toggle" THEN job.from ELSE Host, FALSE)

\* The snapshot tells the truth about the microphone: a session is active
\* exactly when its own generation is published as Recording, except while a
\* session that has been taken is being torn down.
MicrophoneShown ==
  /\ active => snapshot = Snap("Recording", generation)
  /\ snapshot.state = "Recording" =>
       active \/ hpc \in {"teardown", "exiting", "exited"}
  /\ snapshot.state = "Idle" => hpc \notin Finishes

\* Transcript delivery is at most once per session and in the order of the
\* sessions, although three paths (stop, limit, restart) lead to finish_active.
DeliveredOnce ==
  \A i, j \in 1..Len(deliveries) : i < j => deliveries[i] < deliveries[j]

\* An accepted startup cancel is never lost: while its session is recording, the
\* CancelStartup command that will end it is still in the queue.
CancelNotLost ==
  active /\ generation \in cancelAccepted =>
    \E i \in 1..Len(queue) : queue[i] = CancelCmd(generation)

\* A restart serves the generation it was asked for: the host never starts a
\* session for a request that named an earlier one, and the request is still
\* there while it does.
RestartServesItsGeneration ==
  /\ hpc \in {"takeover", "restartIdle"} => restart = Ready(generation)
  /\ hpc = "start" /\ job.why = "restart" => restart = Ready(generation)

\* A terminal state always has its timer running, or a host thread about to
\* leave it; without one the HUD would show it for ever.
TerminalTimed ==
  snapshot.state \in Terminal =>
    terminal # "none" \/ hpc \in Starts \cup {"exiting", "exited"}

-----------------------------------------------------------------------------
(* Refinement *)

\* The session implements the contract: seen through its snapshot and its
\* deliveries, every step of host, clients and time is a step of the contract.
Contract ==
  INSTANCE SessionContract WITH
    state <- snapshot.state,
    gen <- snapshot.gen,
    delivered <- {deliveries[i] : i \in 1..Len(deliveries)},
    up <- Listening

\* Safety: one session at a time, each along the published graph, each inserted
\* at most once and only while Delivering, Success only after the insertion.
ContractKept == Contract!Spec

\* With liveness: while the host runs, a recording ends (by its duration limit if
\* by nothing else) and a terminal state gives way to Idle.
ContractServed == Contract!FairSpec

-----------------------------------------------------------------------------
(* Liveness, under Fairness *)

\* Every call returns: nobody waits for ever on the host or on another client.
CallsReturn == \A c \in Clients : pc[c] # "idle" ~> pc[c] = "idle"

\* A restart request that was made ready begins the next session without another
\* press, unless the host is shutting down.
RestartHonoured ==
  \A g \in Generations :
    restart = Ready(g) ~> generation > g \/ shutdown # "no"

\* Shutdown ends the host thread whatever it is doing.
ShutdownExits == shutdown # "no" ~> hpc = "exited"

-----------------------------------------------------------------------------
(* What the repository says of the program and the program does not do *)

\* docs/local-stt-integration.md: an explicit cancellation discards the audio
\* without delivery, readiness races included. It fails when a stop press aimed
\* at the previous session is still queued: Command::Toggle carries no
\* generation, so it stops the cancelled session before CancelStartup is read.
CancelledNeverDelivered ==
  \A i \in 1..Len(deliveries) : deliveries[i] \notin cancelAccepted
=============================================================================
