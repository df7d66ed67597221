--------------------------- MODULE StreamSession ---------------------------
(***************************************************************************)
(* A Deepgram streaming session (daemon/stt/deepgram_stream.zig): a heap   *)
(* object shared by its owner (stream_batch.run, which holds the finish    *)
(* line) and a detached thread that follows the growing PCM file and talks *)
(* to the provider. Whoever lets go last destroys it. The owner waits for  *)
(* the result only until a deadline; the thread may finish later.          *)
(*                                                                         *)
(* Audio is counted in chunks of one read. The provider is external: it    *)
(* answers what it has heard in order, Metadata last, or breaks.           *)
(***************************************************************************)
EXTENDS Naturals, Sequences

CONSTANTS MaxFile,    \* bound: chunks the recorder may append
          MaxAudio    \* max_audio_bytes, in chunks

ASSUME AudioAssumption == MaxFile \in Nat /\ MaxAudio \in Nat

VARIABLES
  file,             \* chunks appended to the PCM file
  recording,        \* the host's recorder is still appending
  finishRequested,  \* atomic
  cancelRequested,  \* atomic
  ownerReleased,    \* under the mutex: the owner has given up
  result,           \* under the mutex: what the thread published
  opc,              \* where the owner is
  outcome,          \* what finish or cancel got: a result or "timeout"
  wpc,              \* where the thread is
  verdict,          \* the thread's result, before it is published
  holders,          \* who would close the recording: self.recording, run's local
  sent,             \* chunks written to the provider
  transcript,       \* chunks covered by the final segments received
  metadata,         \* metadata_received
  inbox,            \* messages from the provider not yet read
  answered,         \* external: chunks covered by the final segments sent
  provider,         \* external: "open", then "closing", then "over"
  frees,            \* history: times the session was destroyed
  closes            \* history: times the recording was closed

atomics == <<finishRequested, cancelRequested>>
locked == <<ownerReleased, result>>
ownerVars == <<opc, outcome>>
threadVars == <<wpc, verdict, sent, transcript, metadata>>
memory == <<holders, frees, closes>>
source == <<file, recording>>
external == <<answered, provider>>
vars == <<source, atomics, locked, ownerVars, threadVars, memory, inbox, external>>

Final(n) == [type |-> "Results", upto |-> n]
Metadata == [type |-> "Metadata", upto |-> 0]
Broken == [type |-> "Error", upto |-> 0]   \* an Error, a close, a malformed event

Init ==
  /\ file = 0 /\ recording = TRUE
  /\ finishRequested = FALSE /\ cancelRequested = FALSE
  /\ ownerReleased = FALSE /\ result = "none"
  /\ opc = "serving" /\ outcome = "none"
  /\ wpc = "dial" /\ verdict = "none" /\ sent = 0 /\ transcript = 0
  /\ metadata = FALSE
  /\ holders = {"session"} /\ frees = 0 /\ closes = 0
  /\ inbox = <<>> /\ answered = 0 /\ provider = "open"

-----------------------------------------------------------------------------
(* The recorder, in the host process *)

Append1 ==
  /\ recording /\ file < MaxFile
  /\ file' = file + 1
  /\ UNCHANGED <<recording, atomics, locked, ownerVars, threadVars, memory, inbox,
                 external>>

StopRecording ==
  /\ recording
  /\ recording' = FALSE
  /\ UNCHANGED <<file, atomics, locked, ownerVars, threadVars, memory, inbox,
                 external>>

-----------------------------------------------------------------------------
(* The owner *)

\* finish: the host sends the finish line only after the capture is flushed.
RequestFinish ==
  /\ opc = "serving" /\ ~recording
  /\ finishRequested' = TRUE
  /\ opc' = "wait"
  /\ UNCHANGED <<source, cancelRequested, locked, outcome, threadVars, memory,
                 inbox, external>>

\* cancel, on end of input or a bad finish line: two stores, in this order.
RequestCancel ==
  /\ opc = "serving"
  /\ cancelRequested' = TRUE
  /\ opc' = "cancelling"
  /\ UNCHANGED <<source, finishRequested, locked, outcome, threadVars, memory,
                 inbox, external>>

CancelFinish ==
  /\ opc = "cancelling"
  /\ finishRequested' = TRUE
  /\ opc' = "wait"
  /\ UNCHANGED <<source, cancelRequested, locked, outcome, threadVars, memory,
                 inbox, external>>

\* takeResult, one turn of its loop under the mutex: the result is there ...
TakeResult ==
  /\ opc = "wait" /\ result # "none"
  /\ outcome' = result
  /\ result' = "none"
  /\ opc' = "destroy"
  /\ UNCHANGED <<source, atomics, ownerReleased, threadVars, memory, inbox, external>>

\* Mutant of TakeTimeout: the owner destroys the session when it gives up.
MTakeTimeout ==
  /\ opc = "wait" /\ result = "none"
  /\ cancelRequested' = TRUE
  /\ outcome' = "timeout"
  /\ opc' = "destroy"
  /\ UNCHANGED <<source, finishRequested, ownerReleased, result, threadVars, memory,
                 inbox, external>>

\* Mutant of TakeTimeout: it gives up without telling the thread.
MTakeSilently ==
  /\ opc = "wait" /\ result = "none"
  /\ outcome' = "timeout"
  /\ opc' = "done"
  /\ UNCHANGED <<source, atomics, locked, threadVars, memory, inbox, external>>

\* Mutant of TakeTimeout: the failure it reports is left in the session too.
MTakeRecorded ==
  /\ opc = "wait" /\ result = "none"
  /\ cancelRequested' = TRUE
  /\ ownerReleased' = TRUE
  /\ outcome' = "timeout"
  /\ result' = "timeout"
  /\ opc' = "done"
  /\ UNCHANGED <<source, finishRequested, threadVars, memory, inbox, external>>

\* Mutant of TakeTimeout: the deadline is ignored and the loop polls on.
MTakeForever == opc = "wait" /\ result = "none" /\ UNCHANGED vars

\* ... or the deadline has passed: the session is left to the thread.
TakeTimeout ==
  /\ opc = "wait" /\ result = "none"
  /\ cancelRequested' = TRUE
  /\ ownerReleased' = TRUE
  /\ outcome' = "timeout"
  /\ opc' = "done"
  /\ UNCHANGED <<source, finishRequested, result, threadVars, memory, inbox, external>>

\* destroy closes the recording only if the thread never took it over.
Destroy ==
  /\ frees' = frees + 1
  /\ holders' = holders \ {"session"}
  /\ closes' = IF "session" \in holders THEN closes + 1 ELSE closes

OwnerDestroys ==
  /\ opc = "destroy"
  /\ Destroy
  /\ opc' = "done"
  /\ UNCHANGED <<source, atomics, locked, outcome, threadVars, inbox, external>>

-----------------------------------------------------------------------------
(* The thread: run, then publishResult *)

\* Leave run: its own file is closed and the verdict is ready to publish.
Leave(v) ==
  /\ verdict' = v
  /\ wpc' = "publish"
  /\ holders' = holders \ {"worker"}
  /\ closes' = IF "worker" \in holders THEN closes + 1 ELSE closes
  /\ UNCHANGED frees

Step(from, to) == wpc = from /\ wpc' = to /\ UNCHANGED <<verdict, memory>>

\* The phases that end in an error return of their own: a failed connect,
\* handshake, open, read or write, the finalize deadline included.
Fails ==
  /\ wpc \in {"dial", "handshake", "open", "read", "drainRead", "closing", "await",
              "awaitRead"}
  /\ Leave("failed")
  /\ UNCHANGED <<source, atomics, locked, ownerVars, sent, transcript, metadata,
                 inbox, external>>

Connects ==
  /\ Step("dial", "dialled") \/ Step("handshake", "shook")
  /\ UNCHANGED <<source, atomics, locked, ownerVars, sent, transcript, metadata,
                 inbox, external>>

\* The places that look at cancel_requested.
Checks ==
  /\ wpc \in {"dialled", "shook", "top", "drain"} \/ (wpc = "await" /\ ~metadata)
  /\ IF cancelRequested
     THEN Leave("failed")
     ELSE \/ Step("dialled", "handshake")
          \/ Step("shook", "open")
          \/ Step("top", IF sent = MaxAudio THEN "full" ELSE "read")
          \/ Step("drain", "drainRead")
          \/ Step("await", "awaitRead")
  /\ UNCHANGED <<source, atomics, locked, ownerVars, sent, transcript, metadata,
                 inbox, external>>

\* Mutant of OpenRecording: the descriptor stays in the session as well.
MOpenRecording ==
  /\ wpc = "open"
  /\ holders' = holders \cup {"worker"}
  /\ wpc' = "top"
  /\ UNCHANGED <<source, atomics, locked, ownerVars, verdict, sent, transcript,
                 metadata, frees, closes, inbox, external>>

\* openRecording moves the descriptor out of the session.
OpenRecording ==
  /\ wpc = "open"
  /\ holders' = {"worker"}
  /\ wpc' = "top"
  /\ UNCHANGED <<source, atomics, locked, ownerVars, verdict, sent, transcript,
                 metadata, frees, closes, inbox, external>>

\* All the audio allowed has been sent: stop, or fail if no finish was asked.
Full ==
  /\ wpc = "full"
  /\ IF finishRequested THEN Step("full", "closing") ELSE Leave("failed")
  /\ UNCHANGED <<source, atomics, locked, ownerVars, sent, transcript, metadata,
                 inbox, external>>

\* readPositional finds a chunk, and it is written to the provider ...
SendChunk ==
  /\ wpc = "read" /\ sent < file
  /\ sent' = sent + 1
  /\ wpc' = "drain"
  /\ UNCHANGED <<source, atomics, locked, ownerVars, verdict, transcript, metadata,
                 memory, inbox, external>>

\* ... or finds nothing new; finish_requested is looked at afterwards.
EndOfFile ==
  /\ sent = file
  /\ Step("read", "eof")
  /\ UNCHANGED <<source, atomics, locked, ownerVars, sent, transcript, metadata,
                 inbox, external>>

AfterEof ==
  /\ Step("eof", IF finishRequested THEN "closing" ELSE "top")
  /\ UNCHANGED <<source, atomics, locked, ownerVars, sent, transcript, metadata,
                 inbox, external>>

\* drainAvailable stops after 32 messages, a read timeout or a closed socket.
DrainEnds ==
  /\ Step("drain", "top") \/ Step("drainRead", "top")
  /\ UNCHANGED <<source, atomics, locked, ownerVars, sent, transcript, metadata,
                 inbox, external>>

\* A read timeout while waiting for Metadata: look at the deadline again.
AwaitQuiet ==
  /\ inbox = <<>>
  /\ Step("awaitRead", "await")
  /\ UNCHANGED <<source, atomics, locked, ownerVars, sent, transcript, metadata,
                 inbox, external>>

\* processMessage: a final segment is appended, Metadata noted, the rest fails.
ProcessMessage ==
  /\ wpc \in {"drainRead", "awaitRead"} /\ inbox # <<>>
  /\ inbox' = Tail(inbox)
  /\ IF Head(inbox) = Broken
     THEN Leave("failed") /\ UNCHANGED <<transcript, metadata>>
     ELSE /\ transcript' = IF Head(inbox) = Metadata THEN transcript ELSE Head(inbox).upto
          /\ metadata' = (metadata \/ Head(inbox) = Metadata)
          /\ Step("drainRead", "drain") \/ Step("awaitRead", "await")
  /\ UNCHANGED <<source, atomics, locked, ownerVars, sent, external>>

CloseStream ==
  /\ Step("closing", "await")
  /\ provider' = IF provider = "open" THEN "closing" ELSE provider
  /\ UNCHANGED <<source, atomics, locked, ownerVars, sent, transcript, metadata,
                 inbox, answered>>

\* Mutant of Succeeds: Metadata is not waited for.
MSucceeds ==
  /\ wpc = "await"
  /\ Leave("success")
  /\ UNCHANGED <<source, atomics, locked, ownerVars, sent, transcript, metadata,
                 inbox, external>>

Succeeds ==
  /\ wpc = "await" /\ metadata
  /\ Leave("success")
  /\ UNCHANGED <<source, atomics, locked, ownerVars, sent, transcript, metadata,
                 inbox, external>>

\* Mutant of Publish: owner_released is not looked at.
MPublish ==
  /\ wpc = "publish"
  /\ result' = verdict
  /\ wpc' = "done"
  /\ UNCHANGED <<source, atomics, ownerReleased, ownerVars, verdict, sent, transcript,
                 metadata, memory, inbox, external>>

\* publishResult, under the mutex: hand the result over, or keep the session.
Publish ==
  /\ wpc = "publish"
  /\ IF ownerReleased
     THEN wpc' = "destroy" /\ UNCHANGED result
     ELSE wpc' = "done" /\ result' = verdict
  /\ UNCHANGED <<source, atomics, ownerReleased, ownerVars, verdict, sent, transcript,
                 metadata, memory, inbox, external>>

\* After the owner left: the result is freed, the session destroyed.
ThreadDestroys ==
  /\ wpc = "destroy"
  /\ Destroy
  /\ wpc' = "done"
  /\ UNCHANGED <<source, atomics, locked, ownerVars, verdict, sent, transcript,
                 metadata, inbox, external>>

-----------------------------------------------------------------------------
(* External: the provider *)

Answer ==
  /\ provider # "over" /\ answered < sent
  /\ \E n \in answered + 1 .. sent : answered' = n /\ inbox' = Append(inbox, Final(n))
  /\ UNCHANGED <<source, atomics, locked, ownerVars, threadVars, memory, provider>>

\* After CloseStream: the last segments first, then Metadata.
Finalize ==
  /\ provider = "closing" /\ answered = sent
  /\ provider' = "over"
  /\ inbox' = Append(inbox, Metadata)
  /\ UNCHANGED <<source, atomics, locked, ownerVars, threadVars, memory, answered>>

Break ==
  /\ provider # "over"
  /\ provider' = "over"
  /\ inbox' = Append(inbox, Broken)
  /\ UNCHANGED <<source, atomics, locked, ownerVars, threadVars, memory, answered>>

-----------------------------------------------------------------------------
OwnerStep == CancelFinish \/ TakeResult \/ TakeTimeout \/ OwnerDestroys

ThreadStep ==
  \/ Fails \/ Connects \/ Checks \/ OpenRecording \/ Full \/ SendChunk
  \/ EndOfFile \/ AfterEof \/ DrainEnds \/ AwaitQuiet \/ ProcessMessage
  \/ CloseStream \/ Succeeds \/ Publish \/ ThreadDestroys

\* Both sides are gone and the recording is over.
Over == opc = "done" /\ wpc = "done" /\ ~recording /\ UNCHANGED vars

Next ==
  \/ Append1 \/ StopRecording
  \/ RequestFinish \/ RequestCancel \/ OwnerStep
  \/ ThreadStep
  \/ Answer \/ Finalize \/ Break
  \/ Over

Spec == Init /\ [][Next]_vars

\* Both threads run; the provider owes nothing, since every wait on it is bounded.
FairSpec == Spec /\ WF_vars(OwnerStep) /\ WF_vars(ThreadStep)

-----------------------------------------------------------------------------
OwnerLabels == {"serving", "cancelling", "wait", "destroy", "done"}
ThreadLabels ==
  {"dial", "dialled", "handshake", "shook", "open", "top", "full", "read", "eof",
   "drain", "drainRead", "closing", "await", "awaitRead", "publish", "destroy", "done"}
Verdicts == {"none", "success", "failed"}
Messages == [type : {"Results", "Metadata", "Error"}, upto : Nat]

\* Type correctness of the session, its two threads and the provider.
TypeOK ==
  /\ file \in Nat /\ recording \in BOOLEAN
  /\ finishRequested \in BOOLEAN /\ cancelRequested \in BOOLEAN
  /\ ownerReleased \in BOOLEAN /\ result \in Verdicts
  /\ opc \in OwnerLabels /\ outcome \in Verdicts \cup {"timeout"}
  /\ wpc \in ThreadLabels /\ verdict \in Verdicts
  /\ sent \in Nat /\ transcript \in Nat /\ metadata \in BOOLEAN
  /\ holders \subseteq {"session", "worker"} /\ frees \in Nat /\ closes \in Nat
  /\ inbox \in Seq(Messages) /\ answered \in Nat
  /\ provider \in {"open", "closing", "over"}

\* No use after free and no double free: once the session is destroyed neither
\* side touches it again, whoever destroyed it.
DestroyedLast == frees <= 1 /\ (frees = 1 => opc = "done" /\ wpc = "done")

\* Nothing leaks: when both sides are gone the session has been destroyed, the
\* recording closed exactly once, and no result is left behind in it.
Settled ==
  /\ closes <= 1
  /\ opc = "done" /\ wpc = "done" => frees = 1 /\ closes = 1 /\ result = "none"

\* A transcript handed to the owner covers everything that was streamed: the
\* stream was closed after the last chunk and Metadata came after the last segment.
TranscriptCoversStream == outcome = "success" => transcript = sent

\* The owner gets an answer or gives up; the session is destroyed in the end.
OwnerReturns == opc \in {"cancelling", "wait"} ~> opc = "done"
SessionDestroyed == opc = "done" ~> frees = 1

\* The final PCM drain of docs/macos-release-qualification.md: a streamed
\* transcript covers the whole recording. It fails when the last chunk and the
\* finish request both arrive between the thread's empty read of the file and its
\* look at finish_requested.
StreamDrained == outcome = "success" => sent = file
=============================================================================
