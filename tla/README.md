# A TLA+ development of SayAll

SayAll is a push-to-talk dictation program: a global shortcut starts a recording, a
second press stops it, and the transcript is typed, pasted or copied into the focused
window. This directory holds TLA+ modules translated from its source, TLC
configurations that check them on small instances, and TLAPS proofs of the properties
that matter most. `PROJECT.json` is the index: components, runs, mutants, the map from
definitions to source lines, findings, hazards and theorems.

Run everything from this directory:

    tlc -workers 2 -config MCHostSession.cfg MCHostSession
    tlapm HostSessionProofs.tla

## 1. Inventory

SayAll has two native hosts (Linux in Rust, macOS in Swift), a core in Zig shared by
both (worker, CLI, legacy daemon), and small files between them. Paths below are
relative to the root of the repository.

| Part | State it keeps | Operations | Talks to |
|---|---|---|---|
| Linux session controller `ui/linux/src/session.rs` | snapshot (mutex); the words `admitted`, `restart_requested`, `startup_cancelled`; `shutdown`; mpsc queue; in `run`: `active`, `generation`, `terminal_until` | `toggle`, `queue_restart`, `reload`, `set_processing_mode`, `set_output_method`, `shutdown_and_join`; the `run` loop, `start_active`, `finish_active` | control socket, shortcut and menu threads call it; it owns capture, worker and delivery |
| Linux worker supervision `worker.rs` | child process, reader thread, `output_allowed`, deadlines | probe, start, finish, one batch fallback, cancel, terminate | the Zig worker, by lines on pipes |
| Linux capture `capture.rs` | recorder child, PCM and WAV files, frozen or not | start, freeze, stop, cancel | `pw-record`; the worker reads the PCM file while it grows |
| Linux delivery `desktop.rs` | clipboard owner child | type, paste, copy and verify | external desktop tools |
| Linux ownership and control `runtime.rs`, `control.rs` | lock file, socket file, server threads | acquire, bind, exchange, stop | the CLI; calls the controller |
| Zig streaming session `daemon/stt/deepgram_stream.zig`, `stream_batch.zig` | flags, result and release flag under a mutex, the recording's descriptor | start, finish, cancel, publish, destroy | Deepgram over a websocket; the growing PCM file |
| Zig worker `process_main.zig`, `batch.zig`, `local_stream.zig`, `provider_processing.zig` | one request | transcribe, clean up, answer one frame | providers over HTTP; the host |
| Transformation planning `daemon/llm/*`, `keywords.zig` | none (pure) | validate an edit plan, apply it | the worker |
| Legacy daemon `daemon.zig`, `events.zig`, `ipc.zig` | session state, event ring with sequence numbers | toggle, publish, subscribe, read | CLI subscribers |
| CLI host control `host_control.zig`, `main.zig` | none kept | launch, wait, one exchange | the hosts |
| Shortcut installation `daemon/product/linux_shortcut.zig` | three files | write, reload, roll back | Hyprland |
| Linux global shortcut `global_shortcut.rs` | status, command channel, portal session, consent marker | enable, bind, persist, stop | the desktop portal; calls the controller |
| Linux configuration `config.rs` | `config.json`, `.config.lock`, a temporary file | read, lock, compare, rewrite, rename | the controller's setters; editors |
| Configuration and metrics `config.zig`, `metrics.zig` | JSON files | load, rewrite, aggregate | everyone, at start |
| macOS coordinator `ui/macos/Sources/SayAll/Coordinator.swift` and its helpers | session phase, generation, helper process | start, stop, cancel, callbacks | helper, audio unit, pasteboard |
| User interfaces, portals, packaging | presentation | | |

What is hard in this code, and what makes each part correct:

* **Session controller.** Any number of threads race for one admission word, a restart
  slot and a queue, and act on a snapshot that is old when they use it. Correct means:
  nobody leaks the admission or the restart slot; one mutation at a time, the takeover
  of a waiting client's admission included; the published state tells the truth about
  the microphone; a transcript is inserted at most once; an accepted cancel is not
  lost; a restart serves the session it was asked for; every call returns; no state
  lasts for ever.
* **Streaming session.** A heap object shared by an owner with a deadline and a
  detached thread that may be stuck in the network. Correct means: freed once, by the
  last one out; the recording closed once; success only with the whole stream covered.
* **Worker supervision.** A child that can hang, crash or answer late, at any point of
  a line protocol. Correct means: no orphan, no second worker while one lives, a
  fallback only when the first worker conclusively produced nothing.
* **Capture.** A recorder that may ignore signals, fail, or stop in the middle of a
  sample. Correct means: the microphone is released, the WAV is exactly what was
  recorded, scratch audio is gone after every failure and after a killed host.
* **Delivery.** The clipboard lives in a process, tools can fail after they have acted.
  Correct means: the text is inserted at most once, a reported clipboard holds it, and
  nothing is left running.
* **Ownership.** A host killed at any point leaves files that the next one must tell
  from a live one's. Correct means: a listening host can be reached and its scratch
  directory is its own, a request acts at most once, and shutdown ends with requests and
  the portal in whatever state they are.
* **Global shortcut.** Requests race with shutdown and a timer. Correct means: the
  setup ends in a status from which the user can try again.
* **Configuration rewrite.** Two setters and an editor, a crash at any point. Correct
  means: no update that was reported is lost and nobody ever sees half a file.
* **Legacy events.** A bounded ring: a slow reader must see a gap, never a wrong event.
* **Shortcut installation.** Several files, a crash or a concurrent editor between two
  of them.

`PROJECT.json` lists these as hazards, each at the line where it bites.

## 2. Modules

| Module | Models | Proofs |
|---|---|---|
| `SessionContract` | the abstract promise of the Linux host | |
| `HostSession` | `ui/linux/src/session.rs` | `HostSessionProofs`, `HostAdmissionProofs` |
| `StreamSession` | `daemon/stt/deepgram_stream.zig` and its owner in `stream_batch.zig` | `StreamSessionProofs` |
| `WorkerExchange` | `ui/linux/src/worker.rs` | `WorkerExchangeProofs` |
| `Capture` | `ui/linux/src/capture.rs`, its use by `start_active` and `finish_active`, `runtime.rs` `session_root` | `CaptureProofs` |
| `Delivery` | `ui/linux/src/desktop.rs` | `DeliveryProofs` |
| `PortalShortcut` | `ui/linux/src/global_shortcut.rs` | |
| `HostEndpoint` | `runtime.rs`, `control.rs`, host start and shutdown in `main.rs`, the exchange of `host_control.zig`; extends `PortalShortcut` | `HostEndpointProofs` |
| `ConfigRewrite` | the setters of `ui/linux/src/config.rs` | `ConfigRewriteProofs` |
| `MC*` | instances for TLC | |

`HostSession` takes capture, worker and delivery as outcomes: any of them may succeed or
fail wherever the code has an error path. `WorkerExchange`, `Capture` and `Delivery` open
these three up and justify what `HostSession` assumes of them: the calls return, nothing
is left behind, one call is one insertion. `HostEndpoint` composes what surrounds the
controller: the lock, the socket, the server, the portal thread and the clients.

### HostSession

One action is one access to shared state (a load, store or compare-exchange of an
atomic, the snapshot's mutex, a send or receive on the queue) with the thread-local
work around it. A label in `pc[c]` (client) or `hpc` (host thread) stands for the point
between two accesses.

* Clients. `ToggleStatus` reads the snapshot and chooses between cancelling the
  startup (`CancelStarting`, `CancelTooLate`), queueing a restart (`Reserve`,
  `Inspect`, `InspectOwner`, `Unreserve`, `Promote`, `Wake`) and asking for admission
  (`Admit`, `AdmitRefused`, `Recheck`, `SendToggle`, `AwaitFails`, `Release`).
  `SettingsStatus`, `AdmitSettings`, `SendSettings` are `reload` and the two setters,
  which have the same shape.
* Host. `AcceptStart` ... `ReceiveShutdown` are the arms of the `match` on the queue;
  `TickExpire` ... `TickIdle` the 100 ms time-out arm; `TailDropStale` ... `RestartRelease`
  the restart check that ends every turn of the loop; `PreflightOk` ...
  `StartPublish` is `start_active`; `StopSucceeds` ... `FinishPublish` is
  `finish_active` with `deliver_outcome`.
* Time. `TerminalElapses` and `LimitElapses` let the two-second terminal display and
  the recording limit fall due at any moment.

Abstractions. An admission number is fetched from a counter and never reused, so the
name of the thread that holds it stands for it, with its finish bit. Capture, worker
and delivery are their outcomes: each may succeed or fail wherever the code has an
error path. Texts, levels, notifications and exact times are left out. `deliveries`
and `cancelAccepted` are history variables.

### SessionContract and the refinement

`SessionContract` says what a watcher may rely on: sessions are numbered, one at a
time, and move along one graph; a transcript is inserted at most once and only while
`Delivering` is shown; `Success` after `Delivering` means it was inserted; while the
host is up a session keeps advancing until `Idle`. `HostSession!Contract` instantiates
it with the published snapshot, the set of generations delivered and the life of the
host thread. `ContractKept` is the safety part, `ContractServed` adds the liveness.

### StreamSession

Owner and thread share `finish_requested` and `cancel_requested` (atomics) and, under
the mutex, `owner_released` and `result`. The thread's labels are the points of `run`
between two accesses or two waits; `Checks` is every look at `cancel_requested`,
`Fails` every error return. The file grows by chunks of one read; `Full` is the
audio limit. `holders` says who would close the recording's descriptor, `frees` and
`closes` count (history). Deepgram and `pw-record` are external: the provider answers
what it has heard in order, sends Metadata only after CloseStream and after the last
segment, or breaks at any time. The path-based start used by the legacy daemon is not
covered. Nor is the exit of the worker process, which ends the thread with it:
`SessionDestroyed` is about a process that stays.

### WorkerExchange

One dictation, from the readiness check to the result. The host thread's position
`host.pc` walks through `resolve_worker` and the helper of local models, `probe_worker`,
`start`, the recording, `finish`, and the fallback of `retry_batch`; `join` is the scope of
the watcher thread that raises the interrupt during start. Each of the four processes has
its process state, its pipes, its reader thread (`rpc`) and the channel of capacity one.
`ReaderRead` ... `ReaderSend` is `read_line` split at its accesses: reading, looking at
`output_allowed`, sending; `before` is what it saw. `RecvPoll` ... `RecvDisconnected` is
one turn of `receive`, `Terminate` and `Reap` the two ends of a child, `Quiet` the question
whether the stream was conclusively silent. `Deadline` may pass at any moment.

A worker is any process: it writes good, declining or bad frames, exits, or hangs. A frame
is known by what its decoding says; sizes and the text of notices are left out. Only the
readiness helper is given a descendant that keeps its pipe, since only for it the code
kills the process group; `CallsReturn` assumes that a worker has none.

### Capture

Positions of the thread that owns a `Capture`: creating the directory and the two files,
spawning `pw-record`, startup, recording, the tail, `stop`, `terminate` with its three
signals, trimming, writing the WAV, processing, removing. `ret` is where `terminate`
returns to: the same code serves the limit, stop, cancel and drop. Lengths are bytes, two
to a sample, because truncation to whole samples and the limit of local models are what
`WavIsRecording` is about. The level meter only reads and the fixture recorder exists in
debug builds only: both are left out. `recorded` and `ended` are history.

### Delivery

`deliver` with its tools. `cand` is the clipboard tool just started, `owner` the one
retained from the delivery before, `sel` the selection with the process that answers for
it. `Verify` compares the selection with the text, `Retain` replaces the owner, which
terminates the earlier one. A tool may be missing, fail, hang until the deadline kills it,
or act and then fail (`ToolActs`, `ToolExits`). Other applications and a clipboard manager
take the selection at any moment (`TakeSelection`). `typed` and `pasted` record what
reached the window; `foreign` says that somebody else took the selection, `stale` that an
owner from before could answer for the new one.

### PortalShortcut and HostEndpoint

`PortalShortcut` is the portal thread: `Recv`, the bounded requests (`Setup`, `Request`)
which may succeed, fail, time out or be cut short by Shutdown, `Persist` of the consent,
waiting for the shortcut (`Lost`, `Stopped`), `CloseBounded`. The portal is external.

`HostEndpoint` extends it with the processes around it. `Start` ... `Remove` is
`Ownership::acquire`: lock, look at the socket file, probe it, look again, remove it.
`Spawn`, `Bind` are `start_native_host`, `Abort` and `Undo` its error paths; `Quit` ...
`Exit` is `shutdown_native_host` in its order. `Accept` ... `JoinConnections` is the accept
loop, `ReadFrame`, `Call`, `Reply` the thread of one connection, `Connect`, `Send`, `Ends`
the command line tool. The legacy daemon takes the same lock and replaces the socket
without a probe; `Old` is an owner of a release that took no lock. `path` is whose file the
socket is, `root` who swept the scratch directory last. Hosts are numbered in the order
they start. Any process can be killed: its lock goes, its files stay.

### ConfigRewrite

`mutate_config_at` step by step. The contents of the file count the changes of each
setting and of the editor, so no two are equal and comparing them is what
`ensure_source_unchanged` does with bytes. The setters of one process are serialised by
the controller; each setting's writer stands for one process at a time, and the lock is
taken only after the file was read, as in the code. The editor saves by renaming or in
place, never takes the lock, and reads and writes in one step: what an editor does to a
change made while its window was open is not the program's doing. `durable` is what a
power loss may go back to: the directory is synced after the rename, the contents before
it. An in-place save that a power loss interrupts is taken to be finished later.

## 3. Runs

| Run | Instance | Result |
|---|---|---|
| `host_session_safety` | 2 clients, 3 calls, symmetry on clients | passes, 845,530 states, depth 74 |
| `host_session_live` | 2 clients, 2 calls, `FairSpec` | passes, 46,003 states |
| `host_session_cancel` | 2 clients, 4 calls | `CancelledNeverDelivered` violated (37 states) |
| `stream_session` | 4 chunks, audio limit 3, `FairSpec` | passes, 14,386 states |
| `stream_drain` | 2 chunks, audio limit 3 | `StreamDrained` violated (19 states) |
| `worker_exchange` | all four configurations; two frames from the stream, one from probe and batch; `FairSpec` | passes, about 574,000 states |
| `worker_rest` | the same | `AtMostOneRest` violated (39 states) |
| `capture` | limit 2 bytes, 5 bytes recorded, one kill; `FairSpec` | passes, 7,914 states, depth 23 |
| `delivery` | 2 texts, 3 deliveries | passes, 119,796 states, depth 30 |
| `delivery_repeat` | 2 texts, 2 deliveries | `FallbackPreserves` violated (14 states) |
| `host_endpoint` | 2 hosts, daemon, old owner, 1 client, 2 inputs, 1 kill; `FairSpec` | passes, 427,118 states, depth 43 |
| `config_rewrite` | 2 settings changed twice, 2 saves, 2 crashes | passes, 219,777 states, depth 47 |

Deadlock is checked except in `host_endpoint` and `config_rewrite`, where every process may
have ended and there is nothing left to do. Elsewhere `Halted` and `Over` are the only
places where the system may stop.

**host_session_safety.** `AdmissionHeld` and `ReservationHeld`: the two words that
exclude others are always somebody's who will give them back. `OneMutation`: a queued
or running start or settings change owns a plain admission. `MicrophoneShown`,
`DeliveredOnce`, `CancelNotLost`, `RestartServesItsGeneration`, `TerminalTimed`, and
`ContractKept`, the refinement. `MaxPresses` bounds the calls, and with them the
sessions. Two clients are enough for every race on a word that one holds and another
wants; three calls give a session, a press during it and a restart after it, with the
duration limit and recorder death occurring by themselves. The theorems of section 4
remove the bounds for all ten.

**host_session_live.** Weak fairness of the host thread and of each thread inside a
call (the operating system schedules threads), of sending the shutdown command once
its flag is stored (the same thread does both), and of the two timers. Starting,
stopping, processing and delivering end because the code bounds each by a deadline
(worker time-outs, recorder kill, supervised desktop tools). Entering a call is never
fair: users need not press. Two calls allow a session and a restart; the bound is
smaller since liveness checking is without symmetry.

**host_session_cancel.** A stop press for session g can be queued while the host tears
g down, since the snapshot still says Recording. A ready restart takes its finish
admission over and starts g+1; a cancel accepted while g+1 is Starting is queued
behind the old stop. If readiness wins its race with the cancel, the old stop matches
`Recording`, because `Command::Toggle` carries the state expected and no generation, and
g+1 is finished and delivered although its cancel returned Ok.

**stream_session.** `DestroyedLast` (no use after free, no double free), `Settled`
(nothing leaked, the recording closed once), `TranscriptCoversStream`, `OwnerReturns`,
`SessionDestroyed`. Fairness is on the two threads only; the provider owes nothing,
since every wait on it is bounded. Four chunks against a limit of three reach the
limit from below, exactly and beyond; more chunks only repeat the read loop.

**stream_drain.** The thread reads the file, finds nothing new, and only then looks at
`finish_requested`. The last audio and the finish can both arrive in between; the loop
ends without another read and a transcript without its tail is reported as success.

**worker_exchange.** `Supervised` (no orphan, never two workers), `RetryOnlyIfSilent`,
`OutcomeAuthentic`, `CallsReturn`; the three invariants are theorems of section 4. Fair are the host thread, the watcher, the readers and
the clock; the workers owe nothing, not even to exit. A second frame is what a stream
worker needs to answer twice; a third would only meet a channel already full.

**worker_rest.** `docs/adr-unified-core-cli-and-native-hosts.md` says "Streaming failure
permits at most one REST fallback". When its stream fails, the stream worker makes a REST
request of its own (`stream_batch.zig`). If it then dies before it wrote a byte, it is
conclusively silent and the host starts a batch worker, which makes another.

**capture.** `ScratchGone`, `WavIsRecording`, `MicrophoneReleased`. Five bytes against a
limit of two pass it and end inside a sample; one kill is enough, since the next start
sweeps whatever the one before left. Only the session thread is fair; `pw-record` may ignore
INT and TERM, and a KILL is the kernel's.

**delivery.** `ClipboardKept`, `InsertedOnce`, `NothingLeftRunning`. Three deliveries let
an owner from two deliveries ago, one from the last and the new one meet. The conditions
`~foreign` and `~stale` of `ClipboardKept` are the cases in which the selection is not the
program's to keep, and the one the next run shows.

**delivery_repeat.** The same text twice. `verify_clipboard` may read the selection before
the new tool has claimed it, find the text of the earlier owner, and accept; retaining the
new tool terminates the earlier one. The fallback is reported and the clipboard is empty,
while `README.md` of the repository says that it "preserves the transcript".

**host_endpoint.** `OwnsWhatItUses`, `ToggledOnce`, `ShutdownEnds`, `SetupEnds`. Two hosts
are a killed one and its successor, or two that race; with the daemon and the old owner
every pair of kinds meets. Fair are the threads of a host, of its connections and of the
portal: reads and portal requests end at their time-outs. Users, clients and the portal
owe nothing. A host that failed to accept still ends (`AcceptFails`).

**config_rewrite.** `NoLostUpdate`, `FileWhole`. Two settings are two writers that would
overwrite one another; two changes let one follow another that was reported, or killed.
The theorems of section 4 remove all bounds. The window that remains, a save of the editor
between the second comparison and the rename, is the disjunct `raced`: the two
are separate system calls.

Every property of a passing run has a mutant: a change of one definition that a
plausible bug would make, under which TLC finds the property violated.

## 4. Proofs

The prover shows every invariant that a passing run checks, and the refinement, for all
values of the constants; the runs remain as the check that the statements are not vacuous
(each has a mutant that violates it) and for liveness.

Of the host, for every set of clients and every bound on calls, assuming only that the
host thread is not one of the clients (`HostAssumption`) and that the bound is a natural
number (`BoundAssumption`):

| Theorem | States |
|---|---|
| `TypeCorrect` | `Spec => []TypeOK` |
| `MicrophoneTruth` | `Spec => []MicrophoneShown` |
| `DeliveryOnce` | `Spec => []DeliveredOnce` |
| `ContractRefined` | `Spec => ContractKept` |
| `TerminalNotStuck` | `Spec => []TerminalTimed` |
| `CancelKept` | `Spec => []CancelNotLost` |
| `AdmissionNotLeaked` | `Spec => []AdmissionHeld` |
| `MutationSerialised` | `Spec => []OneMutation` |
| `RestartForItsGeneration` | `Spec => []RestartServesItsGeneration` |
| `ReservationNotLeaked` | `Spec => []ReservationHeld` |

Of the exchange with the workers, for every number of frames each of them may write
(`FramesAssumption`):

| Theorem | States |
|---|---|
| `ExchangeTypes` | `Spec => []TypeOK` |
| `HelpersSupervised` | `Spec => []Supervised` |
| `RetriesOnlySilent` | `Spec => []RetryOnlyIfSilent` |
| `OutcomesAuthentic` | `Spec => []OutcomeAuthentic` |

Of the capture, for every limit of whole samples, every length of recording and every
number of killed hosts (`LimitAssumption`):

| Theorem | States |
|---|---|
| `CaptureTypes` | `Spec => []TypeOK` |
| `NothingLeftBehind` | `Spec => []ScratchGone` |
| `WavFaithful` | `Spec => []WavIsRecording` |

Of the delivery, for every set of transcripts and every number of deliveries, assuming that
the two markers for an empty and a foreign selection are not transcripts
(`TextsAssumption`):

| Theorem | States |
|---|---|
| `DeliveryTypes` | `Spec => []TypeOK` |
| `ClipboardSurvives` | `Spec => []ClipboardKept` |
| `NeverInsertedTwice` | `Spec => []InsertedOnce` |
| `ToolsEnded` | `Spec => []NothingLeftRunning` |

Of the endpoint, for every number of hosts, clients, clicks and kills (`OwnersAssumption`:
the markers are no hosts; `InputsAssumption`: the bound is a natural number):

| Theorem | States |
|---|---|
| `EndpointTypesKept` | `Spec => []TypeOK` |
| `OwnershipKept` | `Spec => []OwnsWhatItUses` |
| `NeverToggledTwice` | `Spec => []ToggledOnce` |

Of the streaming session, for every length of recording and every limit:

| Theorem | States |
|---|---|
| `StreamTypeCorrect` | `Spec => []TypeOK` |
| `LastOneDestroys` | `Spec => []DestroyedLast` |
| `NothingLeaks` | `Spec => []Settled` |
| `WholeStreamTranscribed` | `Spec => []TranscriptCoversStream` |

Of the rewrite of `config.json`, for every set of settings and every bound, assuming that
`NoOne` is not a setting and the bounds are natural numbers (`BoundsAssumption`):

| Theorem | States |
|---|---|
| `UpdatesKept` | `Spec => []NoLostUpdate` |
| `FileAlwaysWhole` | `Spec => []FileWhole` |

*HostSessionProofs.* `TypeOK` is inductive with `JobShape` (why a start or a finish is
under way, by the position of the host thread). `HostInv` adds `Where`, which ties what
is published to the host thread's position, and `DeliveredSoFar`, which says that a
session under way has not been delivered. `Where` is needed because `MicrophoneShown`
says nothing of the positions between taking a session out of `active` and publishing
its end; `DeliveredSoFar` because an ordered sequence stays ordered only if the next
element is new. The refinement goes action by action: each step that changes the
snapshot or the deliveries is named as a step of the contract, the others are shown to
leave its four variables alone. `TerminalTimed` is inductive by itself. `CancelNotLost` is
not: `CancelInv` says that a session being started or recorded whose cancel was accepted
has that cancel, of its own generation, in the queue (`Queued`), and that no generation is
published or cancelled before the host has numbered it.

*HostAdmissionProofs.* `AdmissionHeld` and `OneMutation` need each other and three more
facts: `Waiting` (each waiting client waits for exactly one command, queued or being
served, so a reply cannot release somebody else's admission), `Sending` (who is about
to send a start or a settings change holds a plain admission) and `Taking` (the
takeover never sees a plain admission, and the restart holds its own). Queue lemmas say
what sending and receiving preserve; `AdmissionStep` has one case per action. From there
`RestartServesItsGeneration` is one more step. `ReservationHeld` needs `Reserved`: a client
between reserving and promoting or giving up finds its own generation in the word, so no
two clients are there at once, and a pending word always has such a client.

*WorkerExchangeProofs.* The steps are first described by what they do to the fields
(`Moves`, `Terminates`, `Takes`, `Tells`, `Waited`, `Drops`, `Spawned` for the calling thread,
`Follows` for everybody else), one lemma per action; the invariant is then proved conjunct by
conjunct, with one case per action. `PhaseInv` says which worker each position is about and
where `terminate` will return to. `SupInv` names the one helper that is owed a wait, and with
it `Supervised`. `StreamInv` is what the channel of capacity one can hold: `Fresh(r, n)` and
`Begun(r, n)` count the frames a reader has begun when `n` were taken off its channel and the
next one has not, or has, been announced. So a stream worker found silent, by the end of its
channel and not by its exit, has begun no second frame (`LastInv`), and a worker whose result was
accepted has (`AnswerInv`). `Keeps` says that no step of a reader disturbs either.

*CaptureProofs.* `RecorderInv` and `TerminateInv` say what the recorder and the scratch
directory can be at each position, `terminate` included, which three callers share;
`FrozenInv` follows the file from the recorder's end through the cut into the WAV.

*DeliveryProofs.* `KeptInv` is the heart: unless the copy began with the text in place or
with an owner yet to claim, the previous owner cannot have answered the verification, so what
was verified survives its termination. `SelectionInv` ties the selection to the tool that holds
it, `ToolInv` and `InsertInv` say which tool may run and how much it has inserted at each position.

*HostEndpointProofs.* `LockInv`: whoever is past `Flock` holds the lock. `LiveInv`,
`PathInv` and `RootInv` then say what the socket file and the scratch directory are at each
position; what `acquire` has found dead stays dead because only the holder may bind.
`ChannelInv` bounds the portal's channel by the commands its host has sent.

*StreamSessionProofs.* Two invariants that do not need each other. `OwnInv` says, by the
positions of the two sides, who has let go (`Release`) and where the descriptor is
(`Descriptor`): a published result is never absent, so the owner either takes it and
destroys, or has released the session before the thread looked. `CoverInv` is about the
queue of messages: what is not a segment is the provider's last word (`LastWords`), the last
segment on its way covers all that was answered, and without one the transcript does
(`LastSegment`). Metadata then finds everything answered, and `Successes` carries that to the
owner.

*ConfigRewriteProofs.* `NoLostUpdate` says nothing of the positions between reading and
renaming. `Inv` adds them: `Exclusive` (from the lock to the return a writer is alone),
`Kept` (from the first comparison a writer holds the other settings as they are on disk,
and what would survive a power loss holds all that was reported), `Saves` (after the second
comparison it also holds the editor's last save, unless one raced; a save in place cuts the
file short, so no comparison succeeds during it) and `Sound` (only whole, synced files are
renamed). The case of `Rename` is where they meet. One lemma per action.

Only model-checked, in every module, is liveness under fairness (`CallsReturn` of both
modules, `RestartHonoured`, `ContractServed`, `ShutdownExits`, `OwnerReturns`,
`SessionDestroyed`, `MicrophoneReleased`, `ShutdownEnds`, `SetupEnds`): it needs `ENABLED`,
which this prover does not reason about. The four violations are counterexamples and stay
with TLC.

## 5. Not modelled

* GTK and SwiftUI, theme, autostart, packaging, benchmarks: presentation or glue. The
  HUD's own `Model` in `main.rs` is a single-threaded function of the snapshots.
* Decoding and validation of configuration and frames (`protocol.rs`, most of
  `config.rs`): data rather than control. A frame that does not decode and settings that do
  not go together are outcomes in `WorkerExchange` and `ConfigRewrite`.
* The inside of the Zig worker, other than the streaming session: sequential, and any of
  its behaviours is one of the processes of `WorkerExchange`.
* Edit plans, the legacy daemon's session and event ring, shortcut installation, metrics
  and the macOS host: see the plan.

Known edges that the models describe but no property judges: a recorder that fails with
status 1 between `try_wait` and the interrupt counts as interrupted (`capture.rs:303`); a
setter whose last sync fails reports an error although the new file is in place
(`config.rs:352`); a cloud recording of 300 s meets the limit of the stream and then that of
the batch worker, which are in different modules.

## 6. Plan

Done: the host's controller with its contract, the streaming session, the worker exchange,
capture, delivery, ownership with control socket and portal, the configuration rewrite.
Left, in this order; each with its MC module, mutants and map.

1. `EventBus` with the legacy daemon: ring, cursors, gaps; strictly consecutive reads.
2. `ShortcutInstall`: three files, rollback, concurrent edits.
3. `Coordinator` (macOS): phases, late callbacks of earlier sessions, refining
   `SessionContract` where it makes the same promise.
4. `HudModel` (`main.rs`): what is shown follows the snapshots, late timers included.
5. `EditPlan` (`cleanup_engine.zig`, `keywords.zig`): validation and application of
   edit plans against a reference definition.

Theorems next: that `WorkerExchange`, `Capture` and `Delivery` implement what
`HostSession` takes from them (an abstract call each: begun, one outcome, nothing left), and
the safety of each new module with its inductive invariant.
