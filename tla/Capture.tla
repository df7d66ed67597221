------------------------------ MODULE Capture ------------------------------
(***************************************************************************)
(* The microphone of one dictation after another (ui/linux/src/capture.rs, *)
(* with start_active and finish_active of session.rs that own the Capture, *)
(* and runtime.rs's session_root): pw-record appends to audio.pcm in a     *)
(* scratch directory; stopping it turns the file into audio.wav; every     *)
(* path removes the directory. The host may be killed at any time; the     *)
(* kernel then kills the recorder, and the next start wipes the root.      *)
(*                                                                         *)
(* Lengths are in bytes; a sample is two.                                  *)
(***************************************************************************)
EXTENDS Integers

CONSTANTS PcmLimit,   \* what set_pcm_limit is given for a local model
          MaxBytes,   \* bound: bytes the recorder writes
          MaxCrashes  \* bound: host processes killed

ASSUME LimitAssumption == /\ PcmLimit \in Nat \ {0} /\ PcmLimit % 2 = 0
                          /\ MaxBytes \in Nat /\ MaxCrashes \in Nat

NoFile == -1

VARIABLES
  pc,       \* where the session thread is
  ret,      \* where terminate returns to
  dir,      \* the scratch directory: [exists, pcm, wav], files by their length
  rec,      \* pw-record: "none", "live", "reaped" or its exit, not yet waited for
  signals,  \* the signals it was sent
  local,    \* a local model: pcm_limit is Some
  frozen,   \* frozen_at is Some
  crashes,
  recorded, \* history: bytes in audio.pcm when the recorder ended
  own       \* history: the recorder failed by itself, before terminate looked

vars == <<pc, ret, dir, rec, signals, local, frozen, crashes, recorded, own>>
ended == <<recorded, own>>
call == <<local, frozen, crashes>>

NoDir == [exists |-> FALSE, pcm |-> NoFile, wav |-> NoFile]
Exits == {"success", "code1", "killed"}

Init ==
  /\ pc = "idle" /\ ret = "idle" /\ dir = NoDir /\ rec = "none" /\ signals = {}
  /\ local = FALSE /\ frozen = FALSE /\ crashes = 0 /\ recorded = 0 /\ own = FALSE

-----------------------------------------------------------------------------
(* Capture::start: each step may fail, and StartupCleanup removes the directory *)

MakeDir ==
  /\ pc = "idle"
  /\ pc' = "pcm" /\ dir' = [NoDir EXCEPT !.exists = TRUE]
  /\ UNCHANGED <<ret, rec, signals, call, ended>>

CreatePcm ==
  /\ pc = "pcm"
  /\ pc' = "wav" /\ dir' = [dir EXCEPT !.pcm = 0]
  /\ UNCHANGED <<ret, rec, signals, call, ended>>

CreateWav ==
  /\ pc = "wav"
  /\ pc' = "spawn" /\ dir' = [dir EXCEPT !.wav = 0]
  /\ UNCHANGED <<ret, rec, signals, call, ended>>

\* Mutant of StartFails: without StartupCleanup.
MStartFails ==
  /\ pc \in {"pcm", "wav", "spawn"}
  /\ pc' = "idle"
  /\ UNCHANGED <<ret, dir, rec, signals, call, ended>>

StartFails ==
  /\ pc \in {"pcm", "wav", "spawn"}
  /\ pc' = "idle" /\ dir' = NoDir
  /\ UNCHANGED <<ret, rec, signals, call, ended>>

\* The recorder runs; from here the worker starts up (start_active).
SpawnRecorder ==
  /\ pc = "spawn"
  /\ pc' = "startup" /\ rec' = "live" /\ signals' = {}
  /\ local' \in BOOLEAN /\ frozen' = FALSE /\ recorded' = 0 /\ own' = FALSE
  /\ UNCHANGED <<ret, dir, crashes>>

-----------------------------------------------------------------------------
(* start_active and the run loop, while the recorder runs *)

Dead == rec \in Exits \cup {"reaped"}
Step(p) == pc' = p /\ UNCHANGED <<ret, dir, rec, signals, call, ended>>

\* poll_capture: the duration limit freezes the capture, a dead recorder ends it.
StartupLimit ==
  /\ pc = "startup" /\ ~frozen /\ ~Dead
  /\ pc' = "try_wait" /\ ret' = "startup"
  /\ UNCHANGED <<dir, rec, signals, call, ended>>

StartupFails == pc = "startup" /\ Step("drop")      \* worker, stop or dead recorder
StartupReady == pc = "startup" /\ Step("recording")

\* wait_for_tail, then stop; the run loop's cancel on a dead recorder, on shutdown.
FinishActive == pc = "recording" /\ Step("tail")
TailEnds == pc = "tail" /\ Step("stop")
TailCancelled == pc = "tail" /\ ~frozen /\ Step("drop")
CancelCapture ==
  /\ pc = "recording"
  /\ IF frozen THEN Step("remove")
     ELSE /\ pc' = "try_wait" /\ ret' = "remove"
          /\ UNCHANGED <<dir, rec, signals, call, ended>>

Stop ==
  /\ pc = "stop"
  /\ IF frozen THEN Step("trim")
     ELSE /\ pc' = "try_wait" /\ ret' = "trim"
          /\ UNCHANGED <<dir, rec, signals, call, ended>>

-----------------------------------------------------------------------------
(* terminate: SIGINT, SIGTERM, SIGKILL; freeze judges the exit status *)

\* The status 1 of a recorder that was interrupted is a normal end.
Returns(status, interrupted) ==
  /\ rec' = "reaped"
  /\ IF ret = "remove" THEN pc' = ret /\ UNCHANGED frozen
     ELSE IF status = "success" \/ (interrupted /\ status = "code1")
     THEN pc' = ret /\ frozen' = TRUE
     ELSE pc' = "drop" /\ UNCHANGED frozen
  /\ UNCHANGED <<ret, dir, signals, local, crashes, ended>>

TryWait ==
  /\ pc = "try_wait"
  /\ \/ rec \in Exits /\ Returns(rec, FALSE)
     \/ rec = "live" /\ Step("sigint")

Send(signal, p) ==
  /\ signals' = IF rec = "live" THEN signals \cup {signal} ELSE signals
  /\ pc' = p
  /\ UNCHANGED <<ret, dir, rec, call, ended>>

\* A signal to a recorder that has exited but was not waited for succeeds as well.
\* (MSendTerm, a mutant of SendTerm: another signal is sent.)
SendInt == pc = "sigint" /\ Send("INT", "wait_int")
MSendTerm == pc = "wait_int" /\ rec = "live" /\ Send("HUP", "wait_term")
SendTerm == pc = "wait_int" /\ rec = "live" /\ Send("TERM", "wait_term")
WaitInt == pc = "wait_int" /\ rec \in Exits /\ Returns(rec, TRUE)
WaitTerm == pc = "wait_term" /\ rec \in Exits /\ Returns(rec, FALSE)

\* Mutant of Kill: the recorder is asked once more instead.
MKill == pc = "wait_term" /\ rec = "live" /\ Send("TERM", "wait_term")

\* SIGKILL and wait.
Kill ==
  /\ pc = "wait_term" /\ rec = "live"
  /\ Returns("killed", FALSE)

-----------------------------------------------------------------------------
(* finish_wav, processing, cleanup *)

\* Mutant of Trim: a capture longer than the limit is left as it is.
MTrim == pc = "trim" /\ Step("write")

Trim ==
  /\ pc = "trim"
  /\ pc' = "write"
  /\ dir' = IF local /\ dir.pcm > PcmLimit THEN [dir EXCEPT !.pcm = PcmLimit] ELSE dir
  /\ UNCHANGED <<ret, rec, signals, call, ended>>

WriteWav ==
  /\ pc = "write" /\ dir.pcm % 2 = 0
  /\ pc' = "process" /\ dir' = [dir EXCEPT !.wav = dir.pcm, !.pcm = NoFile]
  /\ UNCHANGED <<ret, rec, signals, call, ended>>

\* Half a sample, or a failed write, sync or remove.
WavFails == pc \in {"trim", "write"} /\ Step("drop")

\* The worker has answered, or the recording was too short or silent: Cleanup.
Processed == pc = "process" /\ Step("remove")

Remove ==
  /\ pc = "remove"
  /\ pc' = "idle" /\ dir' = NoDir
  /\ UNCHANGED <<ret, rec, signals, call, ended>>

\* Drop: kill what still runs, remove the directory.
Drop ==
  /\ pc = "drop"
  /\ pc' = "idle" /\ dir' = NoDir /\ rec' = "reaped"
  /\ recorded' = IF rec = "live" THEN dir.pcm ELSE recorded
  /\ UNCHANGED <<ret, signals, call, own>>

-----------------------------------------------------------------------------
(* The recorder (external), the death of the host and its next start *)

Append(n) ==
  /\ rec = "live" /\ dir.pcm + n <= MaxBytes
  /\ dir' = [dir EXCEPT !.pcm = @ + n]
  /\ UNCHANGED <<pc, ret, rec, signals, call, ended>>

RecorderExits(status) ==
  /\ rec = "live"
  /\ rec' = status /\ recorded' = dir.pcm
  /\ own' = (signals = {} /\ pc # "sigint" /\ status # "success")
  /\ UNCHANGED <<pc, ret, dir, signals, call>>

Crash ==
  /\ pc # "down" /\ crashes < MaxCrashes
  /\ pc' = "down" /\ crashes' = crashes + 1
  /\ rec' = IF rec = "none" THEN rec ELSE "reaped"
  /\ UNCHANGED <<ret, dir, signals, local, frozen, ended>>

SessionRoot ==
  /\ pc = "down"
  /\ pc' = "idle" /\ dir' = NoDir
  /\ UNCHANGED <<ret, rec, signals, call, ended>>

HostStep ==
  \/ CreatePcm \/ CreateWav \/ StartFails \/ SpawnRecorder \/ StartupFails \/ StartupReady
  \/ TailEnds \/ TailCancelled \/ Stop \/ TryWait \/ SendInt \/ SendTerm \/ WaitInt
  \/ WaitTerm \/ Kill \/ Trim \/ WriteWav \/ WavFails \/ Processed \/ Remove \/ Drop

Next ==
  \/ HostStep \/ MakeDir \/ StartupLimit \/ FinishActive \/ CancelCapture
  \/ \E n \in 1..2 : Append(n)
  \/ \E status \in Exits : RecorderExits(status)
  \/ Crash \/ SessionRoot

Spec == Init /\ [][Next]_vars

\* The session thread runs; nothing is asked of the recorder or of the user.
FairSpec == Spec /\ WF_vars(HostStep)

-----------------------------------------------------------------------------
(* Properties *)

TypeOK ==
  /\ pc \in {"idle", "pcm", "wav", "spawn", "startup", "recording", "tail", "stop",
             "try_wait", "sigint", "wait_int", "wait_term", "trim", "write", "process",
             "remove", "drop", "down"}
  /\ ret \in {"idle", "startup", "remove", "trim"}
  /\ dir \in [exists : BOOLEAN, pcm : NoFile..MaxBytes, wav : NoFile..MaxBytes]
  /\ rec \in {"none", "live", "reaped"} \cup Exits
  /\ signals \in SUBSET {"INT", "TERM"}
  /\ local \in BOOLEAN /\ frozen \in BOOLEAN /\ own \in BOOLEAN
  /\ crashes \in 0..MaxCrashes /\ recorded \in 0..MaxBytes

\* Between dictations no scratch audio is left and no recorder runs, whichever
\* step failed and also after a host that was killed.
ScratchGone == pc = "idle" => dir = NoDir /\ rec \in {"none", "reaped"}

\* The WAV that is processed holds exactly what was recorded when the recorder
\* ended, cut to the limit of a local model, in whole samples; nothing can
\* still be appended, and a recorder that had failed by itself when freeze looked
\* at it surfaced as an error.
WavIsRecording ==
  pc = "process" =>
    /\ frozen /\ rec = "reaped" /\ dir.pcm = NoFile /\ ~own
    /\ dir.wav = IF local /\ recorded > PcmLimit THEN PcmLimit ELSE recorded
    /\ dir.wav % 2 = 0

\* Once a dictation is being stopped, cancelled or dropped the microphone is
\* released, even if the recorder ignores the signals it can ignore.
MicrophoneReleased ==
  pc \in {"tail", "stop", "try_wait", "sigint", "wait_int", "wait_term", "drop"}
    ~> rec # "live"

=============================================================================
