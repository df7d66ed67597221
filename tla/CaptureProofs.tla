---------------------------- MODULE CaptureProofs ----------------------------
(***************************************************************************)
(* Proofs about Capture, for any limit, any length of recording and any    *)
(* number of killed hosts. The three invariants of the runs need one that  *)
(* says, for each position of the session thread, what the recorder, the   *)
(* directory and the flag `frozen` can be there.                           *)
(***************************************************************************)
EXTENDS Capture, TLAPS

-----------------------------------------------------------------------------
(* The inductive invariant *)

\* Positions inside terminate, and those at which a recorder may still run.
Terminating == {"try_wait", "sigint", "wait_int", "wait_term"}
Running == {"startup", "recording", "tail", "stop", "drop"} \cup Terminating

\* A recorder that runs, or has ended and was not waited for, belongs to a
\* dictation that is not frozen; its end is noted with the file as it is then.
RecorderInv ==
  /\ rec = "live" => pc \in Running /\ dir.pcm >= 0 /\ ~own /\ ~frozen
  /\ rec \in Exits => /\ pc \in Running /\ recorded = dir.pcm /\ ~frozen
                      /\ rec = "success" => ~own
  /\ pc \in {"wav", "spawn"} => dir.pcm >= 0
  /\ pc = "idle" => dir = NoDir

\* terminate is entered once per capture, and past its first look at the recorder
\* any exit is a consequence of the signals.
TerminateInv ==
  /\ pc \in Terminating => ret \in {"startup", "remove", "trim"} /\ ~frozen
  /\ pc \in Terminating \ {"try_wait"} => ~own
  /\ pc \in {"wait_int", "wait_term"} /\ rec = "live" => signals # {}

\* What the recording is cut to.
Cut(n) == IF local /\ n > PcmLimit THEN PcmLimit ELSE n

\* A frozen capture has a recorder that ended well and a file nobody appends to;
\* from there the file is cut, then moved into the WAV.
FrozenInv ==
  /\ pc \in Running \ {"drop"} /\ frozen =>
       rec = "reaped" /\ ~own /\ recorded = dir.pcm
  /\ pc \in {"trim", "write"} => frozen /\ rec = "reaped" /\ ~own
  /\ pc = "trim" => dir.pcm = recorded
  /\ pc = "write" => dir.pcm = Cut(recorded)

CaptureInv == TypeOK /\ RecorderInv /\ TerminateInv /\ FrozenInv /\ WavIsRecording

-----------------------------------------------------------------------------
(* Its proof *)

USE LimitAssumption DEF vars, ended, call, NoFile, NoDir, Exits

\* The scratch directory's fields.
LEMMA DirTypes ==
  ASSUME TypeOK
  PROVE  /\ dir.exists \in BOOLEAN /\ dir.pcm \in -1..MaxBytes /\ dir.wav \in -1..MaxBytes
         /\ dir.pcm \in Int /\ dir.wav \in Int /\ recorded \in Nat
         /\ MaxBytes \in Nat /\ PcmLimit \in Nat
  BY DEF TypeOK

\* Every step keeps the types: a file never grows past the bound, and the length
\* noted when the recorder ends is that of a file that exists.
LEMMA TypeStep ==
  ASSUME TypeOK, RecorderInv, TerminateInv, [Next]_vars
  PROVE  TypeOK'
<1> USE DirTypes DEF TypeOK
<1>1. CASE CreatePcm
  BY <1>1 DEF CreatePcm
<1>2. CASE CreateWav
  BY <1>2 DEF CreateWav
<1>3. CASE StartFails
  BY <1>3 DEF StartFails
<1>4. CASE SpawnRecorder
  <2>1. /\ UNCHANGED <<ret, dir, crashes>> /\ pc' = "startup" /\ rec' = "live"
        /\ signals' = {} /\ local' \in BOOLEAN /\ frozen' = FALSE
        /\ recorded' = 0 /\ own' = FALSE
    BY <1>4 DEF SpawnRecorder
  <2>2. own' \in BOOLEAN /\ frozen' \in BOOLEAN
    BY <2>1
  <2>3. recorded' \in 0..MaxBytes
    BY <2>1
  <2> QED
    BY <2>1, <2>2, <2>3
<1>5. CASE StartupFails
  BY <1>5 DEF StartupFails, Step
<1>6. CASE StartupReady
  BY <1>6 DEF StartupReady, Step
<1>7. CASE TailEnds
  BY <1>7 DEF TailEnds, Step
<1>8. CASE TailCancelled
  BY <1>8 DEF TailCancelled, Step
<1>9. CASE Stop
  BY <1>9 DEF Stop, Step
<1>10. CASE TryWait
  BY <1>10 DEF TryWait, Step, Returns, TerminateInv, Terminating
<1>11. CASE SendInt
  BY <1>11 DEF SendInt, Send
<1>12. CASE SendTerm
  BY <1>12 DEF SendTerm, Send
<1>13. CASE WaitInt
  BY <1>13 DEF WaitInt, Returns, TerminateInv, Terminating
<1>14. CASE WaitTerm
  BY <1>14 DEF WaitTerm, Returns, TerminateInv, Terminating
<1>15. CASE Kill
  BY <1>15 DEF Kill, Returns, TerminateInv, Terminating
<1>16. CASE Trim
  BY <1>16 DEF Trim
<1>17. CASE WriteWav
  <2>1. /\ pc' = "process" /\ UNCHANGED <<ret, rec, signals, call, ended>>
        /\ dir' = [dir EXCEPT !.wav = dir.pcm, !.pcm = NoFile]
    BY <1>17 DEF WriteWav
  <2>2. dir' = [exists |-> dir.exists, pcm |-> NoFile, wav |-> dir.pcm]
    BY <2>1
  <2>3. dir' \in [exists : BOOLEAN, pcm : NoFile..MaxBytes, wav : NoFile..MaxBytes]
    BY <2>2
  <2> QED
    BY <2>1, <2>3
<1>18. CASE WavFails
  BY <1>18 DEF WavFails, Step
<1>19. CASE Processed
  BY <1>19 DEF Processed, Step
<1>20. CASE Remove
  BY <1>20 DEF Remove
<1>21. CASE Drop
  BY <1>21 DEF Drop, RecorderInv
<1>22. CASE MakeDir
  <2>1. dir' = [exists |-> TRUE, pcm |-> NoFile, wav |-> NoFile]
    BY <1>22 DEF MakeDir
  <2>2. pc' = "pcm" /\ UNCHANGED <<ret, rec, signals, call, ended>>
    BY <1>22 DEF MakeDir
  <2>3. dir' \in [exists : BOOLEAN, pcm : NoFile..MaxBytes, wav : NoFile..MaxBytes]
    BY <2>1
  <2> QED
    BY <2>2, <2>3
<1>23. CASE StartupLimit
  BY <1>23 DEF StartupLimit, Dead
<1>24. CASE FinishActive
  BY <1>24 DEF FinishActive, Step
<1>25. CASE CancelCapture
  BY <1>25 DEF CancelCapture, Step
<1>26. CASE Crash
  BY <1>26 DEF Crash
<1>27. CASE SessionRoot
  BY <1>27 DEF SessionRoot
<1>28. ASSUME NEW n \in 1..2, Append(n)
      PROVE  TypeOK'
  BY <1>28 DEF Append, RecorderInv
<1>29. ASSUME NEW status \in Exits, RecorderExits(status)
      PROVE  TypeOK'
  BY <1>29 DEF RecorderExits, RecorderInv
<1>30. CASE UNCHANGED vars
  BY <1>30
<1> QED
  BY <1>1, <1>2, <1>3, <1>4, <1>5, <1>6, <1>7, <1>8, <1>9, <1>10, <1>11, <1>12,
      <1>13, <1>14, <1>15, <1>16, <1>17, <1>18, <1>19, <1>20, <1>21, <1>22, <1>23,
      <1>24, <1>25, <1>26, <1>27, <1>28, <1>29, <1>30 DEF Next, HostStep

\* Every step keeps the recorder in step with the thread that owns it.
LEMMA RecorderStep ==
  ASSUME TypeOK, RecorderInv, TerminateInv, FrozenInv, [Next]_vars
  PROVE  RecorderInv'
<1> USE DirTypes DEF RecorderInv, Running, Terminating
<1>1. CASE CreatePcm
  BY <1>1 DEF CreatePcm, TypeOK
<1>2. CASE CreateWav
  BY <1>2 DEF CreateWav, TypeOK
<1>3. CASE StartFails
  BY <1>3 DEF StartFails, TypeOK
<1>4. CASE SpawnRecorder
  BY <1>4 DEF SpawnRecorder, TypeOK
<1>5. CASE StartupFails
  BY <1>5 DEF StartupFails, Step, TypeOK
<1>6. CASE StartupReady
  BY <1>6 DEF StartupReady, Step, TypeOK
<1>7. CASE TailEnds
  BY <1>7 DEF TailEnds, Step, TypeOK
<1>8. CASE TailCancelled
  BY <1>8 DEF TailCancelled, Step, TypeOK, FrozenInv
<1>9. CASE Stop
  BY <1>9 DEF Stop, Step, TypeOK, FrozenInv
<1>10. CASE TryWait
  BY <1>10 DEF TryWait, Step, Returns, TypeOK, TerminateInv
<1>11. CASE SendInt
  BY <1>11 DEF SendInt, Send, TypeOK
<1>12. CASE SendTerm
  BY <1>12 DEF SendTerm, Send, TypeOK
<1>13. CASE WaitInt
  BY <1>13 DEF WaitInt, Returns, TypeOK, TerminateInv
<1>14. CASE WaitTerm
  BY <1>14 DEF WaitTerm, Returns, TypeOK, TerminateInv
<1>15. CASE Kill
  BY <1>15 DEF Kill, Returns, TypeOK, TerminateInv
<1>16. CASE Trim
  BY <1>16 DEF Trim, TypeOK
<1>17. CASE WriteWav
  BY <1>17 DEF WriteWav, TypeOK
<1>18. CASE WavFails
  BY <1>18 DEF WavFails, Step, TypeOK
<1>19. CASE Processed
  BY <1>19 DEF Processed, Step, TypeOK
<1>20. CASE Remove
  BY <1>20 DEF Remove, TypeOK
<1>21. CASE Drop
  BY <1>21 DEF Drop, TypeOK
<1>22. CASE MakeDir
  BY <1>22 DEF MakeDir, TypeOK
<1>23. CASE StartupLimit
  BY <1>23 DEF StartupLimit, Dead, TypeOK
<1>24. CASE FinishActive
  BY <1>24 DEF FinishActive, Step, TypeOK
<1>25. CASE CancelCapture
  BY <1>25 DEF CancelCapture, Step, TypeOK, FrozenInv
<1>26. CASE Crash
  BY <1>26 DEF Crash, TypeOK
<1>27. CASE SessionRoot
  BY <1>27 DEF SessionRoot, TypeOK
<1>28. ASSUME NEW n \in 1..2, Append(n)
      PROVE  RecorderInv'
  BY <1>28 DEF Append, TypeOK
<1>29. ASSUME NEW status \in Exits, RecorderExits(status)
      PROVE  RecorderInv'
  BY <1>29 DEF RecorderExits, TypeOK
<1>30. CASE UNCHANGED vars
  BY <1>30 DEF TypeOK
<1> QED
  BY <1>1, <1>2, <1>3, <1>4, <1>5, <1>6, <1>7, <1>8, <1>9, <1>10, <1>11, <1>12,
      <1>13, <1>14, <1>15, <1>16, <1>17, <1>18, <1>19, <1>20, <1>21, <1>22, <1>23,
      <1>24, <1>25, <1>26, <1>27, <1>28, <1>29, <1>30 DEF Next, HostStep

\* Every step keeps what terminate relies on.
LEMMA TerminateStep ==
  ASSUME TypeOK, RecorderInv, TerminateInv, [Next]_vars
  PROVE  TerminateInv'
<1> USE DirTypes DEF TerminateInv, RecorderInv, Running, Terminating
<1>1. CASE CreatePcm
  BY <1>1 DEF CreatePcm, TypeOK
<1>2. CASE CreateWav
  BY <1>2 DEF CreateWav, TypeOK
<1>3. CASE StartFails
  BY <1>3 DEF StartFails, TypeOK
<1>4. CASE SpawnRecorder
  BY <1>4 DEF SpawnRecorder, TypeOK
<1>5. CASE StartupFails
  BY <1>5 DEF StartupFails, Step, TypeOK
<1>6. CASE StartupReady
  BY <1>6 DEF StartupReady, Step, TypeOK
<1>7. CASE TailEnds
  BY <1>7 DEF TailEnds, Step, TypeOK
<1>8. CASE TailCancelled
  BY <1>8 DEF TailCancelled, Step, TypeOK
<1>9. CASE Stop
  BY <1>9 DEF Stop, Step, TypeOK
<1>10. CASE TryWait
  BY <1>10 DEF TryWait, Step, Returns, TypeOK
<1>11. CASE SendInt
  BY <1>11 DEF SendInt, Send, TypeOK
<1>12. CASE SendTerm
  BY <1>12 DEF SendTerm, Send, TypeOK
<1>13. CASE WaitInt
  BY <1>13 DEF WaitInt, Returns, TypeOK
<1>14. CASE WaitTerm
  BY <1>14 DEF WaitTerm, Returns, TypeOK
<1>15. CASE Kill
  BY <1>15 DEF Kill, Returns, TypeOK
<1>16. CASE Trim
  BY <1>16 DEF Trim, TypeOK
<1>17. CASE WriteWav
  BY <1>17 DEF WriteWav, TypeOK
<1>18. CASE WavFails
  BY <1>18 DEF WavFails, Step, TypeOK
<1>19. CASE Processed
  BY <1>19 DEF Processed, Step, TypeOK
<1>20. CASE Remove
  BY <1>20 DEF Remove, TypeOK
<1>21. CASE Drop
  BY <1>21 DEF Drop, TypeOK
<1>22. CASE MakeDir
  BY <1>22 DEF MakeDir, TypeOK
<1>23. CASE StartupLimit
  BY <1>23 DEF StartupLimit, Dead, TypeOK
<1>24. CASE FinishActive
  BY <1>24 DEF FinishActive, Step, TypeOK
<1>25. CASE CancelCapture
  BY <1>25 DEF CancelCapture, Step, TypeOK
<1>26. CASE Crash
  BY <1>26 DEF Crash, TypeOK
<1>27. CASE SessionRoot
  BY <1>27 DEF SessionRoot, TypeOK
<1>28. ASSUME NEW n \in 1..2, Append(n)
      PROVE  TerminateInv'
  BY <1>28 DEF Append, TypeOK
<1>29. ASSUME NEW status \in Exits, RecorderExits(status)
      PROVE  TerminateInv'
  BY <1>29 DEF RecorderExits, TypeOK
<1>30. CASE UNCHANGED vars
  BY <1>30 DEF TypeOK
<1> QED
  BY <1>1, <1>2, <1>3, <1>4, <1>5, <1>6, <1>7, <1>8, <1>9, <1>10, <1>11, <1>12,
      <1>13, <1>14, <1>15, <1>16, <1>17, <1>18, <1>19, <1>20, <1>21, <1>22, <1>23,
      <1>24, <1>25, <1>26, <1>27, <1>28, <1>29, <1>30 DEF Next, HostStep

\* Every step keeps a frozen recording as it was recorded.
LEMMA FrozenStep ==
  ASSUME TypeOK, RecorderInv, TerminateInv, FrozenInv, [Next]_vars
  PROVE  FrozenInv'
<1> USE DirTypes DEF FrozenInv, Cut, RecorderInv, TerminateInv, Running, Terminating
<1>1. CASE CreatePcm
  BY <1>1 DEF CreatePcm, TypeOK
<1>2. CASE CreateWav
  BY <1>2 DEF CreateWav, TypeOK
<1>3. CASE StartFails
  BY <1>3 DEF StartFails, TypeOK
<1>4. CASE SpawnRecorder
  BY <1>4 DEF SpawnRecorder, TypeOK
<1>5. CASE StartupFails
  BY <1>5 DEF StartupFails, Step, TypeOK
<1>6. CASE StartupReady
  BY <1>6 DEF StartupReady, Step, TypeOK
<1>7. CASE TailEnds
  BY <1>7 DEF TailEnds, Step, TypeOK
<1>8. CASE TailCancelled
  BY <1>8 DEF TailCancelled, Step, TypeOK
<1>9. CASE Stop
  BY <1>9 DEF Stop, Step, TypeOK
<1>10. CASE TryWait
  BY <1>10 DEF TryWait, Step, Returns, TypeOK
<1>11. CASE SendInt
  BY <1>11 DEF SendInt, Send, TypeOK
<1>12. CASE SendTerm
  BY <1>12 DEF SendTerm, Send, TypeOK
<1>13. CASE WaitInt
  BY <1>13 DEF WaitInt, Returns, TypeOK
<1>14. CASE WaitTerm
  BY <1>14 DEF WaitTerm, Returns, TypeOK
<1>15. CASE Kill
  BY <1>15 DEF Kill, Returns, TypeOK
<1>16. CASE Trim
  BY <1>16 DEF Trim, TypeOK
<1>17. CASE WriteWav
  BY <1>17 DEF WriteWav, TypeOK
<1>18. CASE WavFails
  BY <1>18 DEF WavFails, Step, TypeOK
<1>19. CASE Processed
  BY <1>19 DEF Processed, Step, TypeOK
<1>20. CASE Remove
  BY <1>20 DEF Remove, TypeOK
<1>21. CASE Drop
  BY <1>21 DEF Drop, TypeOK
<1>22. CASE MakeDir
  BY <1>22 DEF MakeDir, TypeOK
<1>23. CASE StartupLimit
  BY <1>23 DEF StartupLimit, Dead, TypeOK
<1>24. CASE FinishActive
  BY <1>24 DEF FinishActive, Step, TypeOK
<1>25. CASE CancelCapture
  BY <1>25 DEF CancelCapture, Step, TypeOK
<1>26. CASE Crash
  BY <1>26 DEF Crash, TypeOK
<1>27. CASE SessionRoot
  BY <1>27 DEF SessionRoot, TypeOK
<1>28. ASSUME NEW n \in 1..2, Append(n)
      PROVE  FrozenInv'
  BY <1>28 DEF Append, TypeOK
<1>29. ASSUME NEW status \in Exits, RecorderExits(status)
      PROVE  FrozenInv'
  BY <1>29 DEF RecorderExits, TypeOK
<1>30. CASE UNCHANGED vars
  BY <1>30 DEF TypeOK
<1> QED
  BY <1>1, <1>2, <1>3, <1>4, <1>5, <1>6, <1>7, <1>8, <1>9, <1>10, <1>11, <1>12,
      <1>13, <1>14, <1>15, <1>16, <1>17, <1>18, <1>19, <1>20, <1>21, <1>22, <1>23,
      <1>24, <1>25, <1>26, <1>27, <1>28, <1>29, <1>30 DEF Next, HostStep

\* The WAV is written from the cut file, in whole samples.
LEMMA WavStep ==
  ASSUME TypeOK, RecorderInv, TerminateInv, FrozenInv, WavIsRecording, [Next]_vars
  PROVE  WavIsRecording'
<1> USE DirTypes DEF WavIsRecording
<1>1. CASE CreatePcm
  BY <1>1 DEF CreatePcm
<1>2. CASE CreateWav
  BY <1>2 DEF CreateWav
<1>3. CASE StartFails
  BY <1>3 DEF StartFails
<1>4. CASE SpawnRecorder
  BY <1>4 DEF SpawnRecorder
<1>5. CASE StartupFails
  BY <1>5 DEF StartupFails, Step
<1>6. CASE StartupReady
  BY <1>6 DEF StartupReady, Step
<1>7. CASE TailEnds
  BY <1>7 DEF TailEnds, Step
<1>8. CASE TailCancelled
  BY <1>8 DEF TailCancelled, Step
<1>9. CASE Stop
  BY <1>9 DEF Stop, Step
<1>10. CASE TryWait
  BY <1>10 DEF TryWait, Step, Returns, TerminateInv, Terminating
<1>11. CASE SendInt
  BY <1>11 DEF SendInt, Send
<1>12. CASE SendTerm
  BY <1>12 DEF SendTerm, Send
<1>13. CASE WaitInt
  BY <1>13 DEF WaitInt, Returns, TerminateInv, Terminating
<1>14. CASE WaitTerm
  BY <1>14 DEF WaitTerm, Returns, TerminateInv, Terminating
<1>15. CASE Kill
  BY <1>15 DEF Kill, Returns, TerminateInv, Terminating
<1>16. CASE Trim
  BY <1>16 DEF Trim
<1>17. CASE WriteWav
  BY <1>17 DEF WriteWav, FrozenInv, Cut, TypeOK
<1>18. CASE WavFails
  BY <1>18 DEF WavFails, Step
<1>19. CASE Processed
  BY <1>19 DEF Processed, Step
<1>20. CASE Remove
  BY <1>20 DEF Remove
<1>21. CASE Drop
  BY <1>21 DEF Drop
<1>22. CASE MakeDir
  BY <1>22 DEF MakeDir
<1>23. CASE StartupLimit
  BY <1>23 DEF StartupLimit, Dead
<1>24. CASE FinishActive
  BY <1>24 DEF FinishActive, Step
<1>25. CASE CancelCapture
  BY <1>25 DEF CancelCapture, Step
<1>26. CASE Crash
  BY <1>26 DEF Crash
<1>27. CASE SessionRoot
  BY <1>27 DEF SessionRoot
<1>28. ASSUME NEW n \in 1..2, Append(n)
      PROVE  WavIsRecording'
  BY <1>28 DEF Append, RecorderInv, Running, Terminating
<1>29. ASSUME NEW status \in Exits, RecorderExits(status)
      PROVE  WavIsRecording'
  BY <1>29 DEF RecorderExits, RecorderInv, Running, Terminating
<1>30. CASE UNCHANGED vars
  BY <1>30
<1> QED
  BY <1>1, <1>2, <1>3, <1>4, <1>5, <1>6, <1>7, <1>8, <1>9, <1>10, <1>11, <1>12,
      <1>13, <1>14, <1>15, <1>16, <1>17, <1>18, <1>19, <1>20, <1>21, <1>22, <1>23,
      <1>24, <1>25, <1>26, <1>27, <1>28, <1>29, <1>30 DEF Next, HostStep

\* A host that has just been started owns nothing.
LEMMA CaptureInit == Init => CaptureInv
<1> SUFFICES ASSUME Init PROVE CaptureInv
  OBVIOUS
<1>1. TypeOK
  <2>1. dir \in [exists : BOOLEAN, pcm : NoFile..MaxBytes, wav : NoFile..MaxBytes]
    BY DEF Init
  <2>2. recorded \in 0..MaxBytes /\ crashes \in 0..MaxCrashes
    BY DEF Init
  <2>3. own \in BOOLEAN /\ local \in BOOLEAN /\ frozen \in BOOLEAN
    BY DEF Init
  <2> QED
    BY <2>1, <2>2, <2>3 DEF Init, TypeOK
<1>2. RecorderInv /\ TerminateInv /\ FrozenInv /\ WavIsRecording
  BY DEF Init, RecorderInv, TerminateInv, FrozenInv, WavIsRecording, Running, Terminating
<1> QED
  BY <1>1, <1>2 DEF CaptureInv

\* The capture invariant holds throughout.
LEMMA CaptureInvariant == Spec => []CaptureInv
<1>1. CaptureInv /\ [Next]_vars => CaptureInv'
  BY TypeStep, RecorderStep, TerminateStep, FrozenStep, WavStep DEF CaptureInv
<1> QED
  BY CaptureInit, <1>1, PTL DEF Spec

\* Type correctness of the thread, the scratch files and the recorder.
THEOREM CaptureTypes == Spec => []TypeOK
<1>1. CaptureInv => TypeOK
  BY DEF CaptureInv
<1> QED
  BY CaptureInvariant, <1>1, PTL

\* Between dictations no scratch audio is left and no recorder runs, whichever
\* step failed and whenever the host was killed.
THEOREM NothingLeftBehind == Spec => []ScratchGone
<1>1. CaptureInv => ScratchGone
  BY DEF CaptureInv, TypeOK, RecorderInv, ScratchGone, Running, Terminating
<1> QED
  BY CaptureInvariant, <1>1, PTL

\* The WAV handed to the worker is the recording as it was when the recorder ended,
\* cut to the limit and in whole samples, whatever the limit and the length are.
THEOREM WavFaithful == Spec => []WavIsRecording
<1>1. CaptureInv => WavIsRecording
  BY DEF CaptureInv
<1> QED
  BY CaptureInvariant, <1>1, PTL
=============================================================================
