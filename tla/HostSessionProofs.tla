------------------------- MODULE HostSessionProofs -------------------------
(***************************************************************************)
(* Proofs about HostSession, for any set of clients and any number of calls*)
(***************************************************************************)
EXTENDS HostSession, TLAPS

-----------------------------------------------------------------------------
(* The inductive invariant *)

\* Positions of the host thread at which no session is being started or ended.
Resting == {"recv", "tail", "takeover", "restartIdle", "expire", "teardown",
            "limit", "exiting", "exited"}

\* Why a start or a finish is under way, by the position of the host thread.
JobShape ==
  /\ hpc \in Starts => job.why \in {"toggle", "restart"}
  /\ hpc \in Finishes => job.why \in {"toggle", "limit"}
  /\ hpc = "reply" => job.why = "toggle"
  /\ hpc \in {"restartClear", "restartRelease"} => job.why = "restart"
  /\ hpc = "limitRelease" => job.why = "limit"
  /\ hpc \in Resting => job = NoJob

\* Positions at which a session may be active.
MayBeActive == {"recv", "tail", "reply", "restartClear", "restartRelease", "limit"}

\* Positions between sessions: not active here means the last session has ended.
Between == {"recv", "tail", "takeover", "restartIdle", "expire", "reply",
            "restartClear", "restartRelease", "limitRelease"}

\* What is published at each position of the host thread.
Where ==
  /\ active => hpc \in MayBeActive /\ snapshot = Snap("Recording", generation)
  /\ hpc = "limit" => active
  /\ hpc \in Between /\ ~active =>
       snapshot.state \in Terminal \cup {"Idle"} /\ snapshot.gen = generation
  /\ hpc = "teardown" => snapshot = Snap("Recording", generation)
  /\ hpc = "start" => snapshot = Snap("Idle", generation)
  /\ hpc \in {"starting", "ready"} => snapshot = Snap("Starting", generation)
  /\ hpc \in {"startFailed", "startPublish"} =>
       \/ snapshot = Snap("Starting", generation)
       \/ generation > 0 /\ snapshot = Snap("Idle", generation - 1)
  /\ hpc = "stopping" => snapshot = Snap("Stopping", generation)
  /\ hpc = "processing" => snapshot = Snap("Processing", generation)
  /\ hpc = "delivering" => snapshot = Snap("Delivering", generation)
  /\ hpc = "finished" =>
       /\ snapshot.gen = generation
       /\ \/ snapshot.state = "Stopping" /\ verdict = "Error"
          \/ snapshot.state = "Processing" /\ verdict \in {"Success", "Error"}
          \/ snapshot.state = "Delivering" /\ verdict \in {"Success", "Error"}
  /\ hpc \in {"startPublish", "teardown"} => verdict \in {"Error", "Cancelled"}

\* What has been delivered at each position: nothing for a session under way,
\* until Deliver, and nothing for a session that does not exist.
Undelivered == {"starting", "ready", "startFailed", "startPublish", "stopping",
                "processing", "delivering", "teardown"}
DeliveredSoFar ==
  /\ \A i \in 1..Len(deliveries) : deliveries[i] <= generation
  /\ active \/ hpc \in Undelivered =>
       \A i \in 1..Len(deliveries) : deliveries[i] < generation
  /\ hpc = "finished" /\ ~(snapshot.state = "Delivering" /\ verdict = "Success") =>
       \A i \in 1..Len(deliveries) : deliveries[i] < generation
  /\ hpc = "finished" /\ snapshot.state = "Delivering" /\ verdict = "Success" =>
       \E i \in 1..Len(deliveries) : deliveries[i] = generation

HostInv == TypeOK /\ JobShape /\ Where /\ DeliveredSoFar /\ DeliveredOnce

-----------------------------------------------------------------------------
(* Types *)

USE DEF vars, shared, hostVars, clientVars, history

\* The values the code writes into its shared words are well typed.
LEMMA ValueTypes ==
  /\ \A s \in States, g \in Nat : Snap(s, g) \in Snapshots
  /\ NoAdmission \in Admissions
  /\ \A w \in Clients \cup {Host}, f \in BOOLEAN : Admission(w, f) \in Admissions
  /\ Admission(Host, TRUE) \in Admissions /\ Admission(Host, FALSE) \in Admissions
  /\ NoRestart \in Restarts
  /\ \A g \in Nat : Pending(g) \in Restarts /\ Ready(g) \in Restarts
  /\ NoJob \in Jobs
  /\ \A c \in Clients, s \in States : ToggleCmd(c, s) \in Commands
  /\ \A c \in Clients : SettingsCmd(c) \in Commands
  /\ \A g \in Nat : CancelCmd(g) \in Commands
  /\ ReadyCmd \in Commands /\ ShutdownCmd \in Commands
  BY DEF Snap, Snapshots, States, Terminal, NoAdmission, Admission, Admissions,
         NoRestart, Pending, Ready, Restarts, NoJob, Jobs, Command, ToggleCmd,
         SettingsCmd, CancelCmd, ReadyCmd, ShutdownCmd, Commands

\* Reading a field of a well-typed value.
LEMMA FieldTypes ==
  /\ \A s \in Snapshots : s.state \in States /\ s.gen \in Nat
  /\ \A m \in Commands : m.from \in Clients \cup {Host}
  BY DEF Snapshots, Commands

\* Sending and receiving keep the queue a sequence of commands.
LEMMA AppendTypes ==
  ASSUME NEW q \in Seq(Commands), NEW m \in Commands
  PROVE  Append(q, m) \in Seq(Commands)
  OBVIOUS

\* What is received, and what is left, are commands.
LEMMA QueueTypes ==
  ASSUME NEW q \in Seq(Commands), q # <<>>
  PROVE  Tail(q) \in Seq(Commands) /\ Head(q) \in Commands
  OBVIOUS

ClientTypes ==
  /\ pc \in [Clients -> ClientLabels]
  /\ expected \in [Clients -> Snapshots]
  /\ res \in [Clients -> Results]

\* The three ways a client's position changes keep its variables well typed.
LEMMA MoveTypes ==
  ASSUME ClientTypes, NEW c,
         \/ \E l \in ClientLabels : Goto(c, l)
         \/ \E r \in Results : ReleaseWith(c, r) \/ Return(c, r)
  PROVE  ClientTypes'
<1>1. Snap("Idle", 0) \in Snapshots
  BY ValueTypes DEF States
<1>2. CASE \E l \in ClientLabels : Goto(c, l)
  BY <1>2 DEF ClientTypes, Goto
<1>3. CASE \E r \in Results : ReleaseWith(c, r)
  BY <1>3 DEF ClientTypes, ReleaseWith, ClientLabels
<1>4. CASE \E r \in Results : Return(c, r)
  BY <1>1, <1>4 DEF ClientTypes, Return, ClientLabels
<1> QED
  BY <1>2, <1>3, <1>4

\* A client's step keeps the types, action by action.
LEMMA ClientTypeStep ==
  ASSUME TypeOK, NEW c \in Clients,
         ToggleStatus(c) \/ SettingsStatus(c) \/ ClientStep(c)
  PROVE  TypeOK'
<1> USE ValueTypes, FieldTypes
<1>0. ClientTypes
  BY DEF TypeOK, ClientTypes
<1>1. CASE ToggleStatus(c)
  BY <1>1 DEF ToggleStatus, Call, TypeOK, ClientLabels
<1>2. CASE CancelStarting(c)
  <2>1. ClientTypes'
    BY <1>0, <1>2, MoveTypes DEF CancelStarting, ClientTypes, ClientLabels,
        Results
  <2> QED
    BY <1>2, <2>1, AppendTypes DEF CancelStarting, TypeOK, ClientTypes
<1>3. CASE CancelTooLate(c)
  <2>1. ClientTypes'
    BY <1>0, <1>3, MoveTypes DEF CancelTooLate, ClientTypes, ClientLabels, Results
  <2> QED
    BY <1>3, <2>1 DEF CancelTooLate, TypeOK, ClientTypes
<1>4. CASE Admit(c)
  <2>1. ClientTypes'
    BY <1>0, <1>4, MoveTypes DEF Admit, ClientTypes, ClientLabels, Results
  <2> QED
    BY <1>4, <2>1 DEF Admit, TypeOK, ClientTypes
<1>5. CASE AdmitRefused(c)
  <2>1. ClientTypes'
    BY <1>0, <1>5, MoveTypes DEF AdmitRefused, ClientTypes, ClientLabels, Results
  <2> QED
    BY <1>5, <2>1 DEF AdmitRefused, TypeOK, ClientTypes
<1>6. CASE Recheck(c)
  <2>1. ClientTypes'
    BY <1>0, <1>6, MoveTypes DEF Recheck, ClientTypes, ClientLabels, Results
  <2> QED
    BY <1>6, <2>1 DEF Recheck, TypeOK, ClientTypes
<1>7. CASE SendToggle(c)
  <2>1. ClientTypes'
    BY <1>0, <1>7, MoveTypes DEF SendToggle, Listening, ClientTypes, ClientLabels,
        Results
  <2> QED
    BY <1>7, <2>1, AppendTypes DEF SendToggle, Listening, TypeOK, ClientTypes
<1>8. CASE AwaitFails(c)
  <2>1. ClientTypes'
    BY <1>0, <1>8, MoveTypes DEF AwaitFails, Listening, ClientTypes, ClientLabels,
        Results
  <2> QED
    BY <1>8, <2>1 DEF AwaitFails, Listening, TypeOK, ClientTypes
<1>9. CASE Release(c)
  <2>1. ClientTypes'
    BY <1>0, <1>9, MoveTypes DEF Release, Holds, ClientTypes, ClientLabels,
        Results
  <2> QED
    BY <1>9, <2>1 DEF Release, Holds, TypeOK, ClientTypes
<1>10. CASE Reserve(c)
  <2>1. ClientTypes'
    BY <1>0, <1>10, MoveTypes DEF Reserve, ClientTypes, ClientLabels, Results
  <2> QED
    BY <1>10, <2>1 DEF Reserve, TypeOK, ClientTypes
<1>11. CASE Inspect(c)
  <2>1. ClientTypes'
    BY <1>0, <1>11, MoveTypes DEF Inspect, ClientTypes, ClientLabels, Results
  <2> QED
    BY <1>11, <2>1 DEF Inspect, TypeOK, ClientTypes
<1>12. CASE InspectOwner(c)
  <2>1. ClientTypes'
    BY <1>0, <1>12, MoveTypes DEF InspectOwner, ClientTypes, ClientLabels, Results
  <2> QED
    BY <1>12, <2>1 DEF InspectOwner, TypeOK, ClientTypes
<1>13. CASE Unreserve(c)
  <2>1. ClientTypes'
    BY <1>0, <1>13, MoveTypes DEF Unreserve, ClientTypes, ClientLabels, Results
  <2> QED
    BY <1>13, <2>1 DEF Unreserve, TypeOK, ClientTypes
<1>14. CASE Promote(c)
  <2>1. ClientTypes'
    BY <1>0, <1>14, MoveTypes DEF Promote, ClientTypes, ClientLabels, Results
  <2> QED
    BY <1>14, <2>1 DEF Promote, TypeOK, ClientTypes
<1>15. CASE Wake(c)
  <2>1. ClientTypes'
    BY <1>0, <1>15, MoveTypes DEF Wake, Listening, ClientTypes, ClientLabels,
        Results
  <2> QED
    BY <1>15, <2>1, AppendTypes DEF Wake, Listening, TypeOK, ClientTypes
<1>16. CASE SettingsStatus(c)
  <2>1. ClientTypes'
    BY <1>0, <1>16, MoveTypes DEF SettingsStatus, Call, ClientTypes, ClientLabels,
        Results
  <2> QED
    BY <1>16, <2>1 DEF SettingsStatus, Call, TypeOK, ClientTypes
<1>17. CASE AdmitSettings(c)
  <2>1. ClientTypes'
    BY <1>0, <1>17, MoveTypes DEF AdmitSettings, ClientTypes, ClientLabels,
        Results
  <2> QED
    BY <1>17, <2>1 DEF AdmitSettings, TypeOK, ClientTypes
<1>18. CASE SendSettings(c)
  <2>1. ClientTypes'
    BY <1>0, <1>18, MoveTypes DEF SendSettings, Listening, ClientTypes,
        ClientLabels, Results
  <2> QED
    BY <1>18, <2>1, AppendTypes DEF SendSettings, Listening, TypeOK, ClientTypes
<1> QED
  BY <1>1, <1>2, <1>3, <1>4, <1>5, <1>6, <1>7, <1>8, <1>9, <1>10, <1>11, <1>12,
      <1>13, <1>14, <1>15, <1>16, <1>17, <1>18 DEF ClientStep

\* A step of the host thread keeps the types; JobShape says where it goes on.
LEMMA HostTypeStep ==
  ASSUME TypeOK, JobShape, HostStep
  PROVE  TypeOK'
<1> USE ValueTypes, FieldTypes
<1>0. ClientTypes
  BY DEF TypeOK, ClientTypes
<1>1. CASE AcceptStart
  BY <1>1, QueueTypes DEF AcceptStart, Received, Pop, TypeOK, HostLabels, States,
      Terminal, Jobs
<1>2. CASE AcceptStop
  BY <1>2, QueueTypes DEF AcceptStop, Received, Pop, Publish, TypeOK, HostLabels,
      States, Terminal, Jobs
<1>3. CASE RejectToggle
  <2>1. ClientTypes'
    BY <1>0, <1>3, MoveTypes DEF RejectToggle, Received, Pop, Results
  <2> QED
    BY <1>3, <2>1, QueueTypes DEF RejectToggle, Received, Pop, TypeOK, HostLabels,
        States, Terminal, ClientTypes
<1>4. CASE ReceiveSettings
  <2>1. ClientTypes'
    BY <1>0, <1>4, MoveTypes DEF ReceiveSettings, Received, Pop, Results
  <2> QED
    BY <1>4, <2>1, QueueTypes DEF ReceiveSettings, Received, Pop, TypeOK,
        HostLabels, States, Terminal, ClientTypes
<1>5. CASE ReceiveCancel
  BY <1>5, QueueTypes DEF ReceiveCancel, Received, Pop, Arm, TypeOK, HostLabels,
      States, Terminal
<1>6. CASE ReceiveReady
  BY <1>6, QueueTypes DEF ReceiveReady, Received, Pop, TypeOK, HostLabels, States,
      Terminal
<1>7. CASE ReceiveShutdown
  BY <1>7, QueueTypes DEF ReceiveShutdown, Received, Pop, TypeOK, HostLabels,
      States, Terminal
<1>8. CASE Exit
  BY <1>8 DEF Exit, TypeOK, HostLabels, States, Terminal
<1>9. CASE Teardown
  BY <1>9 DEF Teardown, Publish, Arm, PublishTerminal, TypeOK, HostLabels, States,
      Terminal
<1>10. CASE TickExpire
  BY <1>10 DEF TickExpire, Tick, TypeOK, HostLabels, States, Terminal
<1>11. CASE Expire
  BY <1>11 DEF Expire, Publish, TypeOK, HostLabels, States, Terminal
<1>12. CASE TickCaptureDied
  BY <1>12 DEF TickCaptureDied, Tick, TypeOK, HostLabels, States, Terminal
<1>13. CASE TickLimit
  BY <1>13 DEF TickLimit, Tick, TypeOK, HostLabels, States, Terminal
<1>14. CASE LimitStop
  BY <1>14 DEF LimitStop, Publish, TypeOK, HostLabels, States, Terminal, Jobs
<1>15. CASE LimitRelease
  BY <1>15 DEF LimitRelease, TypeOK, HostLabels, States, Terminal
<1>16. CASE TickIdle
  BY <1>16 DEF TickIdle, Tick, TypeOK, HostLabels, States, Terminal
<1>17. CASE TailDropStale
  BY <1>17 DEF TailDropStale, RestartDue, TypeOK, HostLabels, States, Terminal
<1>18. CASE TailLoadOwner
  BY <1>18 DEF TailLoadOwner, RestartDue, TypeOK, HostLabels, States, Terminal
<1>19. CASE TailContinue
  BY <1>19 DEF TailContinue, RestartDue, TypeOK, HostLabels, States, Terminal
<1>20. CASE Takeover
  BY <1>20 DEF Takeover, TypeOK, HostLabels, States, Terminal
<1>21. CASE RestartIdle
  BY <1>21 DEF RestartIdle, Publish, TypeOK, HostLabels, States, Terminal, Jobs
<1>22. CASE RestartClear
  BY <1>22 DEF RestartClear, TypeOK, HostLabels, States, Terminal
<1>23. CASE RestartRelease
  BY <1>23 DEF RestartRelease, TypeOK, HostLabels, States, Terminal
<1>24. CASE PreflightOk
  <2>1. generation + 1 \in Nat /\ "Starting" \in States
    BY DEF TypeOK, States
  <2>2. snapshot' \in Snapshots /\ generation' \in Nat /\ hpc' \in HostLabels
    BY <1>24, <2>1 DEF PreflightOk, HostLabels
  <2>3. limitDue' \in BOOLEAN /\ active' \in BOOLEAN
    BY <1>24 DEF PreflightOk, TypeOK
  <2> QED
    BY <1>24, <2>2, <2>3 DEF PreflightOk, TypeOK
<1>25. CASE PreflightFails
  BY <1>25 DEF PreflightFails, TypeOK, HostLabels, States, Terminal
<1>26. CASE WorkerStarts
  BY <1>26 DEF WorkerStarts, Interrupted, TypeOK, HostLabels, States, Terminal
<1>27. CASE WorkerFails
  BY <1>27 DEF WorkerFails, TypeOK, HostLabels, States, Terminal
<1>28. CASE StartSucceeds
  BY <1>28 DEF StartSucceeds, Publish, AfterJob, TypeOK, HostLabels, JobShape,
      Starts, Finishes, States, Terminal
<1>29. CASE StartFails
  BY <1>29 DEF StartFails, Interrupted, TypeOK, HostLabels, States, Terminal
<1>30. CASE StartPublish
  BY <1>30 DEF StartPublish, Publish, Arm, PublishTerminal, AfterJob, TypeOK,
      HostLabels, JobShape, Starts, Finishes, States, Terminal
<1>31. CASE StopSucceeds
  BY <1>31 DEF StopSucceeds, Publish, TypeOK, HostLabels, States, Terminal
<1>32. CASE StopFails
  BY <1>32 DEF StopFails, Outcome, TypeOK, HostLabels, States, Terminal
<1>33. CASE WorkerErrs
  BY <1>33 DEF WorkerErrs, Outcome, TypeOK, HostLabels, States, Terminal
<1>34. CASE NoSpeech
  BY <1>34 DEF NoSpeech, Outcome, TypeOK, HostLabels, States, Terminal
<1>35. CASE Transcript
  BY <1>35 DEF Transcript, Publish, TypeOK, HostLabels, States, Terminal
<1>36. CASE Deliver
  BY <1>36 DEF Deliver, Outcome, TypeOK, HostLabels, States, Terminal
<1>37. CASE DeliveryFails
  BY <1>37 DEF DeliveryFails, Outcome, TypeOK, HostLabels, States, Terminal
<1>38. CASE FinishPublish
  BY <1>38 DEF FinishPublish, Publish, Arm, PublishTerminal, AfterJob, TypeOK,
      HostLabels, JobShape, Starts, Finishes, States, Terminal
<1>39. CASE Reply
  <2>1. ClientTypes'
    BY <1>0, <1>39, MoveTypes DEF Reply, Results
  <2> QED
    BY <1>39, <2>1 DEF Reply, TypeOK, HostLabels, States, Terminal, ClientTypes
<1> QED
  BY <1>1, <1>2, <1>3, <1>4, <1>5, <1>6, <1>7, <1>8, <1>9, <1>10, <1>11, <1>12,
      <1>13, <1>14, <1>15, <1>16, <1>17, <1>18, <1>19, <1>20, <1>21, <1>22, <1>23,
      <1>24, <1>25, <1>26, <1>27, <1>28, <1>29, <1>30, <1>31, <1>32, <1>33, <1>34,
      <1>35, <1>36, <1>37, <1>38, <1>39 DEF HostStep

\* Only the host thread writes its variables, the snapshot and the deliveries
\* (time alone moves `terminal` and `limitDue`).
hostFrame == <<snapshot, hpc, generation, active, verdict, job, owner, deliveries>>

\* A step of a client, of time or of shutdown leaves them all unchanged.
LEMMA Frame ==
  ASSUME [Next]_vars, ~HostStep
  PROVE  UNCHANGED hostFrame
<1>1. ASSUME NEW c \in Clients, ToggleStatus(c) \/ SettingsStatus(c) \/ ClientStep(c)
      PROVE  UNCHANGED hostFrame
  BY <1>1 DEF hostFrame, ToggleStatus, SettingsStatus, ClientStep, CancelStarting,
     CancelTooLate, Admit, AdmitRefused, Recheck, SendToggle, AwaitFails, Release,
     Reserve, Inspect, InspectOwner, Unreserve, Promote, Wake, AdmitSettings,
     SendSettings
<1>2. CASE ShutdownFlag \/ ShutdownSend \/ TerminalElapses \/ LimitElapses \/ Halted
  BY <1>2 DEF hostFrame, ShutdownFlag, ShutdownSend, TerminalElapses, LimitElapses,
     Halted
<1>3. CASE UNCHANGED vars
  BY <1>3 DEF hostFrame
<1> QED
  BY <1>1, <1>2, <1>3 DEF Next

\* Why the host thread is where it is: each position is reached for one reason.
LEMMA JobStep ==
  ASSUME TypeOK, JobShape, [Next]_vars
  PROVE  JobShape'
<1> USE DEF JobShape, Starts, Finishes, Resting, NoJob
<1>1. CASE AcceptStart
  BY <1>1 DEF AcceptStart, Received
<1>2. CASE AcceptStop
  BY <1>2 DEF AcceptStop, Received
<1>3. CASE RejectToggle
  BY <1>3 DEF RejectToggle, Received
<1>4. CASE ReceiveSettings
  BY <1>4 DEF ReceiveSettings, Received
<1>5. CASE ReceiveCancel
  BY <1>5 DEF ReceiveCancel, Received
<1>6. CASE ReceiveReady
  BY <1>6 DEF ReceiveReady, Received
<1>7. CASE ReceiveShutdown
  BY <1>7 DEF ReceiveShutdown, Received
<1>8. CASE Exit
  BY <1>8 DEF Exit
<1>9. CASE Teardown
  BY <1>9 DEF Teardown
<1>10. CASE TickExpire
  BY <1>10 DEF TickExpire, Tick
<1>11. CASE Expire
  BY <1>11 DEF Expire
<1>12. CASE TickCaptureDied
  BY <1>12 DEF TickCaptureDied, Tick
<1>13. CASE TickLimit
  BY <1>13 DEF TickLimit, Tick
<1>14. CASE LimitStop
  BY <1>14 DEF LimitStop
<1>15. CASE LimitRelease
  BY <1>15 DEF LimitRelease
<1>16. CASE TickIdle
  BY <1>16 DEF TickIdle, Tick
<1>17. CASE TailDropStale
  BY <1>17 DEF TailDropStale
<1>18. CASE TailLoadOwner
  BY <1>18 DEF TailLoadOwner
<1>19. CASE TailContinue
  BY <1>19 DEF TailContinue
<1>20. CASE Takeover
  BY <1>20 DEF Takeover
<1>21. CASE RestartIdle
  BY <1>21 DEF RestartIdle
<1>22. CASE RestartClear
  BY <1>22 DEF RestartClear
<1>23. CASE RestartRelease
  BY <1>23 DEF RestartRelease
<1>24. CASE PreflightOk
  BY <1>24 DEF PreflightOk
<1>25. CASE PreflightFails
  BY <1>25 DEF PreflightFails
<1>26. CASE WorkerStarts
  BY <1>26 DEF WorkerStarts
<1>27. CASE WorkerFails
  BY <1>27 DEF WorkerFails
<1>28. CASE StartSucceeds
  BY <1>28 DEF StartSucceeds, AfterJob
<1>29. CASE StartFails
  BY <1>29 DEF StartFails
<1>30. CASE StartPublish
  BY <1>30 DEF StartPublish, AfterJob
<1>31. CASE StopSucceeds
  BY <1>31 DEF StopSucceeds
<1>32. CASE StopFails
  BY <1>32 DEF StopFails, Outcome
<1>33. CASE WorkerErrs
  BY <1>33 DEF WorkerErrs, Outcome
<1>34. CASE NoSpeech
  BY <1>34 DEF NoSpeech, Outcome
<1>35. CASE Transcript
  BY <1>35 DEF Transcript
<1>36. CASE Deliver
  BY <1>36 DEF Deliver, Outcome
<1>37. CASE DeliveryFails
  BY <1>37 DEF DeliveryFails, Outcome
<1>38. CASE FinishPublish
  BY <1>38 DEF FinishPublish, AfterJob
<1>39. CASE Reply
  BY <1>39 DEF Reply
<1>40. CASE ~HostStep
  BY <1>40, Frame DEF hostFrame
<1> QED
  BY <1>1, <1>2, <1>3, <1>4, <1>5, <1>6, <1>7, <1>8, <1>9, <1>10, <1>11, <1>12,
      <1>13, <1>14, <1>15, <1>16, <1>17, <1>18, <1>19, <1>20, <1>21, <1>22, <1>23,
      <1>24, <1>25, <1>26, <1>27, <1>28, <1>29, <1>30, <1>31, <1>32, <1>33, <1>34,
      <1>35, <1>36, <1>37, <1>38, <1>39, <1>40 DEF HostStep

\* A host that has just been spawned rests at recv with nothing to do.
LEMMA TypeInit == Init => TypeOK /\ JobShape
<1> SUFFICES ASSUME Init PROVE TypeOK /\ JobShape
  OBVIOUS
<1>1. TypeOK
  <2>1. ClientTypes
    BY ValueTypes DEF Init, ClientTypes, ClientLabels, Results, States
  <2>2. /\ snapshot \in Snapshots /\ admitted \in Admissions
        /\ restart \in Restarts /\ job \in Jobs /\ owner \in Admissions
    BY ValueTypes DEF Init, States, NoJob
  <2>3. /\ shutdown \in {"no", "flagged", "sent"} /\ terminal \in {"none", "armed", "due"}
        /\ hpc \in HostLabels /\ verdict \in States
    BY DEF Init, HostLabels, States
  <2>4. queue \in Seq(Commands) /\ deliveries \in Seq(Nat)
    BY DEF Init
  <2>5. active \in BOOLEAN /\ limitDue \in BOOLEAN
    BY DEF Init
  <2> QED
    BY <2>1, <2>2, <2>3, <2>4, <2>5 DEF Init, TypeOK, ClientTypes
<1>2. JobShape
  BY DEF Init, JobShape, Starts, Finishes, Resting, NoJob
<1> QED
  BY <1>1, <1>2

\* Types and positions together are inductive: AfterJob is defined only because
\* JobShape says why the job exists.
LEMMA TypeStep ==
  ASSUME TypeOK, JobShape, [Next]_vars
  PROVE  TypeOK' /\ JobShape'
<1> SUFFICES TypeOK'
  BY JobStep
<1>1. ASSUME NEW c \in Clients, ToggleStatus(c) \/ SettingsStatus(c) \/ ClientStep(c)
      PROVE  TypeOK'
  BY <1>1, ClientTypeStep
<1>2. CASE HostStep
  BY <1>2, HostTypeStep
<1>3. CASE ShutdownFlag
  BY <1>3 DEF TypeOK, ShutdownFlag
<1>4. CASE ShutdownSend
  BY <1>4, ValueTypes, AppendTypes DEF TypeOK, ShutdownSend
<1>5. CASE TerminalElapses \/ LimitElapses
  BY <1>5 DEF TypeOK, TerminalElapses, LimitElapses
<1>6. CASE Halted \/ UNCHANGED vars
  BY <1>6 DEF TypeOK, Halted
<1> QED
  BY <1>1, <1>2, <1>3, <1>4, <1>5, <1>6 DEF Next

\* Type correctness: every shared word, the queue and the locals of every thread
\* hold values of their types, for any number of clients and calls.
THEOREM TypeCorrect == Spec => []TypeOK
<1>1. TypeOK /\ JobShape /\ [Next]_vars => (TypeOK /\ JobShape)'
  BY TypeStep
<1> QED
  BY TypeInit, <1>1, PTL DEF Spec

-----------------------------------------------------------------------------
(* The session: what is published, active and delivered *)

\* What is published at each position of the host thread stays in step with it.
LEMMA WhereStep ==
  ASSUME TypeOK, JobShape, Where, [Next]_vars
  PROVE  Where'
<1> USE DEF Where, MayBeActive, Between, Snap
<1>1. CASE AcceptStart
  BY <1>1 DEF AcceptStart, Received, Pop, TypeOK, JobShape, Starts, Finishes,
      Terminal, Snapshots
<1>2. CASE AcceptStop
  BY <1>2 DEF AcceptStop, Received, Pop, Publish
<1>3. CASE RejectToggle
  BY <1>3 DEF RejectToggle, ReleaseWith, Received, Pop
<1>4. CASE ReceiveSettings
  BY <1>4 DEF ReceiveSettings, ReleaseWith, Received, Pop
<1>5. CASE ReceiveCancel
  BY <1>5 DEF ReceiveCancel, Received, Pop, Arm
<1>6. CASE ReceiveReady
  BY <1>6 DEF ReceiveReady, Received, Pop
<1>7. CASE ReceiveShutdown
  BY <1>7 DEF ReceiveShutdown, Received, Pop
<1>8. CASE Exit
  BY <1>8 DEF Exit
<1>9. CASE Teardown
  BY <1>9 DEF Teardown, Publish, Arm, PublishTerminal, Terminal, TypeOK, JobShape,
      Starts, Finishes
<1>10. CASE TickExpire
  BY <1>10 DEF TickExpire, Tick
<1>11. CASE Expire
  BY <1>11 DEF Expire, Publish
<1>12. CASE TickCaptureDied
  BY <1>12 DEF TickCaptureDied, Tick
<1>13. CASE TickLimit
  BY <1>13 DEF TickLimit, Tick
<1>14. CASE LimitStop
  BY <1>14 DEF LimitStop, Publish
<1>15. CASE LimitRelease
  BY <1>15 DEF LimitRelease
<1>16. CASE TickIdle
  BY <1>16 DEF TickIdle, Tick
<1>17. CASE TailDropStale
  BY <1>17 DEF TailDropStale, RestartDue
<1>18. CASE TailLoadOwner
  BY <1>18 DEF TailLoadOwner, RestartDue
<1>19. CASE TailContinue
  BY <1>19 DEF TailContinue, RestartDue
<1>20. CASE Takeover
  BY <1>20 DEF Takeover
<1>21. CASE RestartIdle
  BY <1>21 DEF RestartIdle, Publish
<1>22. CASE RestartClear
  BY <1>22 DEF RestartClear
<1>23. CASE RestartRelease
  BY <1>23 DEF RestartRelease
<1>24. CASE PreflightOk
  BY <1>24 DEF PreflightOk
<1>25. CASE PreflightFails
  BY <1>25 DEF PreflightFails, Terminal, TypeOK, JobShape, Starts, Finishes
<1>26. CASE WorkerStarts
  BY <1>26 DEF WorkerStarts, Interrupted
<1>27. CASE WorkerFails
  BY <1>27 DEF WorkerFails
<1>28. CASE StartSucceeds
  BY <1>28 DEF StartSucceeds, Publish, AfterJob, JobShape, Starts, Finishes
<1>29. CASE StartFails
  BY <1>29 DEF StartFails, Interrupted
<1>30. CASE StartPublish
  BY <1>30 DEF StartPublish, Publish, Arm, PublishTerminal, AfterJob, Terminal,
      TypeOK, JobShape, Starts, Finishes
<1>31. CASE StopSucceeds
  BY <1>31 DEF StopSucceeds, Publish
<1>32. CASE StopFails
  BY <1>32 DEF StopFails, Outcome
<1>33. CASE WorkerErrs
  BY <1>33 DEF WorkerErrs, Outcome
<1>34. CASE NoSpeech
  BY <1>34 DEF NoSpeech, Outcome
<1>35. CASE Transcript
  BY <1>35 DEF Transcript, Publish
<1>36. CASE Deliver
  BY <1>36 DEF Deliver, Outcome
<1>37. CASE DeliveryFails
  BY <1>37 DEF DeliveryFails, Outcome
<1>38. CASE FinishPublish
  BY <1>38 DEF FinishPublish, Publish, Arm, PublishTerminal, AfterJob, Terminal,
      TypeOK, JobShape, Starts, Finishes
<1>39. CASE Reply
  BY <1>39 DEF Reply, ReleaseWith
<1>40. CASE ~HostStep
  BY <1>40, Frame DEF hostFrame
<1> QED
  BY <1>1, <1>2, <1>3, <1>4, <1>5, <1>6, <1>7, <1>8, <1>9, <1>10, <1>11, <1>12,
      <1>13, <1>14, <1>15, <1>16, <1>17, <1>18, <1>19, <1>20, <1>21, <1>22, <1>23,
      <1>24, <1>25, <1>26, <1>27, <1>28, <1>29, <1>30, <1>31, <1>32, <1>33, <1>34,
      <1>35, <1>36, <1>37, <1>38, <1>39, <1>40 DEF HostStep

\* Every host action but Deliver leaves `deliveries` alone; Deliver appends the
\* generation of the session it finishes.
LEMMA DeliveredStep ==
  ASSUME TypeOK, JobShape, Where, DeliveredSoFar, DeliveredOnce, [Next]_vars
  PROVE  DeliveredSoFar' /\ DeliveredOnce'
<1> USE DEF DeliveredSoFar, DeliveredOnce, Undelivered
<1>1. CASE AcceptStart
  BY <1>1 DEF AcceptStart, Received, Pop
<1>2. CASE AcceptStop
  BY <1>2 DEF AcceptStop, Received, Pop, Publish
<1>3. CASE RejectToggle
  BY <1>3 DEF RejectToggle, ReleaseWith, Received, Pop
<1>4. CASE ReceiveSettings
  BY <1>4 DEF ReceiveSettings, ReleaseWith, Received, Pop
<1>5. CASE ReceiveCancel
  BY <1>5 DEF ReceiveCancel, Received, Pop, Arm
<1>6. CASE ReceiveReady
  BY <1>6 DEF ReceiveReady, Received, Pop
<1>7. CASE ReceiveShutdown
  BY <1>7 DEF ReceiveShutdown, Received, Pop
<1>8. CASE Exit
  BY <1>8 DEF Exit
<1>9. CASE Teardown
  BY <1>9 DEF Teardown, Publish, Arm, PublishTerminal
<1>10. CASE TickExpire
  BY <1>10 DEF TickExpire, Tick
<1>11. CASE Expire
  BY <1>11 DEF Expire, Publish
<1>12. CASE TickCaptureDied
  BY <1>12 DEF TickCaptureDied, Tick
<1>13. CASE TickLimit
  BY <1>13 DEF TickLimit, Tick
<1>14. CASE LimitStop
  BY <1>14 DEF LimitStop, Publish, TypeOK, Where, MayBeActive
<1>15. CASE LimitRelease
  BY <1>15 DEF LimitRelease
<1>16. CASE TickIdle
  BY <1>16 DEF TickIdle, Tick
<1>17. CASE TailDropStale
  BY <1>17 DEF TailDropStale, RestartDue
<1>18. CASE TailLoadOwner
  BY <1>18 DEF TailLoadOwner, RestartDue
<1>19. CASE TailContinue
  BY <1>19 DEF TailContinue, RestartDue
<1>20. CASE Takeover
  BY <1>20 DEF Takeover
<1>21. CASE RestartIdle
  BY <1>21 DEF RestartIdle, Publish
<1>22. CASE RestartClear
  BY <1>22 DEF RestartClear
<1>23. CASE RestartRelease
  BY <1>23 DEF RestartRelease
<1>24. CASE PreflightOk
  BY <1>24 DEF PreflightOk, TypeOK
<1>25. CASE PreflightFails
  BY <1>25 DEF PreflightFails, TypeOK
<1>26. CASE WorkerStarts
  BY <1>26 DEF WorkerStarts, Interrupted
<1>27. CASE WorkerFails
  BY <1>27 DEF WorkerFails
<1>28. CASE StartSucceeds
  BY <1>28 DEF StartSucceeds, Publish, AfterJob, TypeOK, JobShape, Where,
      MayBeActive, Starts, Finishes
<1>29. CASE StartFails
  BY <1>29 DEF StartFails, Interrupted
<1>30. CASE StartPublish
  BY <1>30 DEF StartPublish, Publish, Arm, PublishTerminal, AfterJob
<1>31. CASE StopSucceeds
  BY <1>31 DEF StopSucceeds, Publish
<1>32. CASE StopFails
  BY <1>32 DEF StopFails, Outcome
<1>33. CASE WorkerErrs
  BY <1>33 DEF WorkerErrs, Outcome
<1>34. CASE NoSpeech
  BY <1>34 DEF NoSpeech, Outcome, TypeOK, JobShape, Where, MayBeActive, Starts,
      Finishes, Snap
<1>35. CASE Transcript
  BY <1>35 DEF Transcript, Publish
<1>36. CASE Deliver
  BY <1>36 DEF Deliver, Outcome, TypeOK, JobShape, Where, MayBeActive, Starts,
      Finishes, Snap
<1>37. CASE DeliveryFails
  BY <1>37 DEF DeliveryFails, Outcome
<1>38. CASE FinishPublish
  BY <1>38 DEF FinishPublish, Publish, Arm, PublishTerminal, AfterJob, TypeOK,
      JobShape, Where, MayBeActive, Starts, Finishes
<1>39. CASE Reply
  BY <1>39 DEF Reply, ReleaseWith
<1>40. CASE ~HostStep
  BY <1>40, Frame DEF hostFrame
<1> QED
  BY <1>1, <1>2, <1>3, <1>4, <1>5, <1>6, <1>7, <1>8, <1>9, <1>10, <1>11, <1>12,
      <1>13, <1>14, <1>15, <1>16, <1>17, <1>18, <1>19, <1>20, <1>21, <1>22, <1>23,
      <1>24, <1>25, <1>26, <1>27, <1>28, <1>29, <1>30, <1>31, <1>32, <1>33, <1>34,
      <1>35, <1>36, <1>37, <1>38, <1>39, <1>40 DEF HostStep

\* The session invariant holds when the host is spawned ...
LEMMA HostInvInit == Init => HostInv
<1> SUFFICES ASSUME Init PROVE HostInv
  OBVIOUS
<1>1. TypeOK /\ JobShape
  BY TypeInit
<1>2. Where
  BY DEF Init, Where, MayBeActive, Between, Terminal, Snap
<1>3. DeliveredSoFar /\ DeliveredOnce
  BY DEF Init, DeliveredSoFar, DeliveredOnce, Undelivered
<1> QED
  BY <1>1, <1>2, <1>3 DEF HostInv

\* ... is kept by every step ...
LEMMA HostInvStep == HostInv /\ [Next]_vars => HostInv'
  BY TypeStep, WhereStep, DeliveredStep DEF HostInv

\* ... and so holds throughout.
LEMMA HostInvariant == Spec => []HostInv
  BY HostInvInit, HostInvStep, PTL DEF Spec

\* Where the thread is decides what the snapshot may say of the microphone.
LEMMA ShownFromWhere == HostInv => MicrophoneShown
  BY DEF HostInv, MicrophoneShown, Where, TypeOK, HostLabels, MayBeActive, Between,
     Terminal, Snap, Finishes

\* The snapshot never lies about the microphone: Recording is published exactly
\* while a session is active (or one already taken is being torn down), and Idle
\* is never published while one is being finished.
THEOREM MicrophoneTruth == Spec => []MicrophoneShown
  BY HostInvariant, ShownFromWhere, PTL

\* A session's transcript is delivered at most once, in the order of the
\* sessions, whichever of stop, limit and restart ended it.
THEOREM DeliveryOnce == Spec => []DeliveredOnce
<1>1. HostInv => DeliveredOnce
  BY DEF HostInv
<1> QED
  BY HostInvariant, <1>1, PTL

-----------------------------------------------------------------------------
(* Refinement *)

\* The host starts where the contract starts.
LEMMA ContractInit == Init => Contract!Init
  BY DEF Init, Contract!Init, Snap, Listening

\* Every step of the host thread is a step of the contract or leaves what the
\* contract sees unchanged; no other thread changes what it sees.
LEMMA ContractStep ==
  ASSUME TypeOK, JobShape, Where, DeliveredSoFar, [Next]_vars
  PROVE  [Contract!Next]_(Contract!cvars)
<1> USE DEF Contract!Next, Contract!cvars, Contract!Advance, Contract!Proceed,
            Contract!Succeed, Contract!GiveUp, Contract!Settle, Contract!Move,
            Contract!Begin, Contract!Insert, Contract!Close, Contract!Running,
            Contract!Ended
<1>1. CASE AcceptStart
  BY <1>1 DEF AcceptStart, Received, Pop, Listening
<1>2. CASE AcceptStop
  BY <1>2 DEF AcceptStop, Received, Pop, Publish, Where, MayBeActive, Snap,
      Listening
<1>3. CASE RejectToggle
  BY <1>3 DEF RejectToggle, ReleaseWith, Received, Pop, Listening
<1>4. CASE ReceiveSettings
  BY <1>4 DEF ReceiveSettings, ReleaseWith, Received, Pop, Listening
<1>5. CASE ReceiveCancel
  BY <1>5 DEF ReceiveCancel, Received, Pop, Arm, Listening
<1>6. CASE ReceiveReady
  BY <1>6 DEF ReceiveReady, Received, Pop, Listening
<1>7. CASE ReceiveShutdown
  BY <1>7 DEF ReceiveShutdown, Received, Pop, Listening
<1>8. CASE Exit
  BY <1>8 DEF Exit, Listening
<1>9. CASE Teardown
  BY <1>9 DEF Teardown, Publish, Arm, PublishTerminal, Where, MayBeActive, Snap,
      Listening
<1>10. CASE TickExpire
  BY <1>10 DEF TickExpire, Tick, Listening
<1>11. CASE Expire
  BY <1>11 DEF Expire, Publish, TypeOK, JobShape, Where, Between, MayBeActive,
      DeliveredSoFar, Undelivered, Starts, Finishes, Terminal, Snap, Listening
<1>12. CASE TickCaptureDied
  BY <1>12 DEF TickCaptureDied, Tick, Listening
<1>13. CASE TickLimit
  BY <1>13 DEF TickLimit, Tick, Listening
<1>14. CASE LimitStop
  BY <1>14 DEF LimitStop, Publish, Where, MayBeActive, Snap, Listening
<1>15. CASE LimitRelease
  BY <1>15 DEF LimitRelease, Listening
<1>16. CASE TickIdle
  BY <1>16 DEF TickIdle, Tick, Listening
<1>17. CASE TailDropStale
  BY <1>17 DEF TailDropStale, RestartDue, Listening
<1>18. CASE TailLoadOwner
  BY <1>18 DEF TailLoadOwner, RestartDue, Listening
<1>19. CASE TailContinue
  BY <1>19 DEF TailContinue, RestartDue, Listening
<1>20. CASE Takeover
  BY <1>20 DEF Takeover, Listening
<1>21. CASE RestartIdle
  BY <1>21 DEF RestartIdle, Publish, TypeOK, JobShape, Where, Between,
      MayBeActive, DeliveredSoFar, Undelivered, Starts, Finishes, Terminal, Snap,
      Listening
<1>22. CASE RestartClear
  BY <1>22 DEF RestartClear, Listening
<1>23. CASE RestartRelease
  BY <1>23 DEF RestartRelease, Listening
<1>24. CASE PreflightOk
  BY <1>24 DEF PreflightOk, Where, MayBeActive, Snap, Listening
<1>25. CASE PreflightFails
  BY <1>25 DEF PreflightFails, Listening
<1>26. CASE WorkerStarts
  BY <1>26 DEF WorkerStarts, Interrupted, Listening
<1>27. CASE WorkerFails
  BY <1>27 DEF WorkerFails, Listening
<1>28. CASE StartSucceeds
  BY <1>28 DEF StartSucceeds, Publish, AfterJob, JobShape, Starts, Finishes,
      Where, Between, Terminal, Snap, Listening
<1>29. CASE StartFails
  BY <1>29 DEF StartFails, Interrupted, Listening
<1>30. CASE StartPublish
  BY <1>30 DEF StartPublish, Publish, Arm, PublishTerminal, AfterJob, TypeOK,
      JobShape, Starts, Finishes, Where, DeliveredSoFar, Undelivered, Snap,
      Listening
<1>31. CASE StopSucceeds
  BY <1>31 DEF StopSucceeds, Publish, Where, MayBeActive, Snap, Listening
<1>32. CASE StopFails
  BY <1>32 DEF StopFails, Outcome, Listening
<1>33. CASE WorkerErrs
  BY <1>33 DEF WorkerErrs, Outcome, Listening
<1>34. CASE NoSpeech
  BY <1>34 DEF NoSpeech, Outcome, Listening
<1>35. CASE Transcript
  BY <1>35 DEF Transcript, Publish, Where, MayBeActive, Snap, Listening
<1>36. CASE Deliver
  BY <1>36 DEF Deliver, Outcome, Where, MayBeActive, Snap, Listening
<1>37. CASE DeliveryFails
  BY <1>37 DEF DeliveryFails, Outcome, Listening
<1>38. CASE FinishPublish
  BY <1>38 DEF FinishPublish, Publish, Arm, PublishTerminal, AfterJob, TypeOK,
      JobShape, Starts, Finishes, Where, DeliveredSoFar, Undelivered, Snap,
      Listening
<1>39. CASE Reply
  BY <1>39 DEF Reply, ReleaseWith, Listening
<1>40. CASE ~HostStep
  BY <1>40, Frame DEF hostFrame, Listening
<1> QED
  BY <1>1, <1>2, <1>3, <1>4, <1>5, <1>6, <1>7, <1>8, <1>9, <1>10, <1>11, <1>12,
      <1>13, <1>14, <1>15, <1>16, <1>17, <1>18, <1>19, <1>20, <1>21, <1>22, <1>23,
      <1>24, <1>25, <1>26, <1>27, <1>28, <1>29, <1>30, <1>31, <1>32, <1>33, <1>34,
      <1>35, <1>36, <1>37, <1>38, <1>39, <1>40 DEF HostStep

\* The host session implements the contract: seen through its snapshot and its
\* deliveries, only the contract's steps happen.
THEOREM ContractRefined == Spec => ContractKept
<1>1. HostInv /\ [Next]_vars => [Contract!Next]_(Contract!cvars)
  BY ContractStep DEF HostInv
<1> QED
  BY HostInvariant, ContractInit, <1>1, PTL DEF Spec, ContractKept, Contract!Spec

-----------------------------------------------------------------------------
(* The terminal timer, and a cancelled startup *)

\* Terminal states are published with their timer, and the timer is stopped only
\* where Idle is published: stronger than TerminalTimed, and inductive.
Timed == snapshot.state \in Terminal => terminal # "none"

\* Nobody but the host thread publishes, and time never stops the timer.
LEMMA TimerFrame ==
  ASSUME [Next]_vars, ~HostStep
  PROVE  snapshot' = snapshot /\ (terminal' = terminal \/ terminal' = "due")
<1>1. snapshot' = snapshot
  BY Frame DEF hostFrame
<1>2. ASSUME NEW c \in Clients, ToggleStatus(c) \/ SettingsStatus(c) \/ ClientStep(c)
      PROVE  terminal' = terminal
  BY <1>2 DEF ToggleStatus, SettingsStatus, ClientStep, CancelStarting, CancelTooLate,
      Admit, AdmitRefused, Recheck, SendToggle, AwaitFails, Release, Reserve, Inspect,
      InspectOwner, Unreserve, Promote, Wake, AdmitSettings, SendSettings
<1>3. CASE ShutdownFlag \/ ShutdownSend \/ LimitElapses \/ Halted \/ UNCHANGED vars
  BY <1>1, <1>3 DEF ShutdownFlag, ShutdownSend, LimitElapses, Halted
<1>4. CASE TerminalElapses
  BY <1>1, <1>4 DEF TerminalElapses
<1> QED
  BY <1>1, <1>2, <1>3, <1>4 DEF Next

\* Each publication of a terminal state arms the timer.
LEMMA TimedStep ==
  ASSUME Timed, [Next]_vars
  PROVE  Timed'
<1> USE DEF Timed, Terminal, Snap
<1>1. CASE AcceptStart
  BY <1>1 DEF AcceptStart, Received, Pop
<1>2. CASE AcceptStop
  BY <1>2 DEF AcceptStop, Received, Pop, Publish
<1>3. CASE RejectToggle
  BY <1>3 DEF RejectToggle, ReleaseWith, Received, Pop
<1>4. CASE ReceiveSettings
  BY <1>4 DEF ReceiveSettings, ReleaseWith, Received, Pop
<1>5. CASE ReceiveCancel
  BY <1>5 DEF ReceiveCancel, Received, Pop, Arm
<1>6. CASE ReceiveReady
  BY <1>6 DEF ReceiveReady, Received, Pop
<1>7. CASE ReceiveShutdown
  BY <1>7 DEF ReceiveShutdown, Received, Pop
<1>8. CASE Exit
  BY <1>8 DEF Exit
<1>9. CASE Teardown
  BY <1>9 DEF Teardown, Publish, Arm, PublishTerminal
<1>10. CASE TickExpire
  BY <1>10 DEF TickExpire, Tick
<1>11. CASE Expire
  BY <1>11 DEF Expire, Publish
<1>12. CASE TickCaptureDied
  BY <1>12 DEF TickCaptureDied, Tick
<1>13. CASE TickLimit
  BY <1>13 DEF TickLimit, Tick
<1>14. CASE LimitStop
  BY <1>14 DEF LimitStop, Publish
<1>15. CASE LimitRelease
  BY <1>15 DEF LimitRelease
<1>16. CASE TickIdle
  BY <1>16 DEF TickIdle, Tick
<1>17. CASE TailDropStale
  BY <1>17 DEF TailDropStale, RestartDue
<1>18. CASE TailLoadOwner
  BY <1>18 DEF TailLoadOwner, RestartDue
<1>19. CASE TailContinue
  BY <1>19 DEF TailContinue, RestartDue
<1>20. CASE Takeover
  BY <1>20 DEF Takeover
<1>21. CASE RestartIdle
  BY <1>21 DEF RestartIdle, Publish
<1>22. CASE RestartClear
  BY <1>22 DEF RestartClear
<1>23. CASE RestartRelease
  BY <1>23 DEF RestartRelease
<1>24. CASE PreflightOk
  BY <1>24 DEF PreflightOk
<1>25. CASE PreflightFails
  BY <1>25 DEF PreflightFails
<1>26. CASE WorkerStarts
  BY <1>26 DEF WorkerStarts
<1>27. CASE WorkerFails
  BY <1>27 DEF WorkerFails
<1>28. CASE StartSucceeds
  BY <1>28 DEF StartSucceeds, Publish
<1>29. CASE StartFails
  BY <1>29 DEF StartFails
<1>30. CASE StartPublish
  BY <1>30 DEF StartPublish, Publish, Arm, PublishTerminal
<1>31. CASE StopSucceeds
  BY <1>31 DEF StopSucceeds, Publish
<1>32. CASE StopFails
  BY <1>32 DEF StopFails, Outcome
<1>33. CASE WorkerErrs
  BY <1>33 DEF WorkerErrs, Outcome
<1>34. CASE NoSpeech
  BY <1>34 DEF NoSpeech, Outcome
<1>35. CASE Transcript
  BY <1>35 DEF Transcript, Publish
<1>36. CASE Deliver
  BY <1>36 DEF Deliver, Outcome
<1>37. CASE DeliveryFails
  BY <1>37 DEF DeliveryFails, Outcome
<1>38. CASE FinishPublish
  BY <1>38 DEF FinishPublish, Publish, Arm, PublishTerminal
<1>39. CASE Reply
  BY <1>39 DEF Reply, ReleaseWith
<1>40. CASE ~HostStep
  BY <1>40, TimerFrame
<1> QED
  BY <1>1, <1>2, <1>3, <1>4, <1>5, <1>6, <1>7, <1>8, <1>9, <1>10, <1>11, <1>12,
      <1>13, <1>14, <1>15, <1>16, <1>17, <1>18, <1>19, <1>20, <1>21, <1>22, <1>23,
      <1>24, <1>25, <1>26, <1>27, <1>28, <1>29, <1>30, <1>31, <1>32, <1>33, <1>34,
      <1>35, <1>36, <1>37, <1>38, <1>39, <1>40 DEF HostStep

\* A terminal state always has its timer: the host never leaves the HUD showing
\* how a session ended with nothing left to take it down.
THEOREM TerminalNotStuck == Spec => []TerminalTimed
<1>1. Init => Timed
  BY DEF Init, Timed, Terminal, Snap
<1>2. Timed /\ [Next]_vars => Timed'
  BY TimedStep
<1>3. Timed => TerminalTimed
  BY DEF Timed, TerminalTimed
<1> QED
  BY <1>1, <1>2, <1>3, PTL DEF Spec

\* The command that ends the session numbered g is in the queue.
Queued(g) == \E i \in 1..Len(queue) : queue[i] = CancelCmd(g)

\* Nothing is published or cancelled ahead of the host's own numbering, and the
\* cancel of a session being started or recorded is still queued.
CancelInv ==
  /\ snapshot.gen <= generation
  /\ \A g \in cancelAccepted : g <= generation
  /\ (active \/ hpc \in {"starting", "ready"}) /\ generation \in cancelAccepted =>
       Queued(generation)

\* A command stays in a queue that others are appended to ...
LEMMA QueuedAppend ==
  ASSUME queue \in Seq(Commands), NEW m, queue' = Append(queue, m)
  PROVE  /\ \A g : Queued(g) => Queued(g)'
         /\ \A g : m = CancelCmd(g) => Queued(g)'
<1>1. /\ Len(queue') = Len(queue) + 1 /\ Len(queue) \in Nat
      /\ queue'[Len(queue) + 1] = m
      /\ \A i \in 1..Len(queue) : queue'[i] = queue[i]
  OBVIOUS
<1>2. /\ Len(queue) + 1 \in 1..Len(queue')
      /\ \A i \in 1..Len(queue) : i \in 1..Len(queue')
  BY <1>1
<1> QED
  BY <1>1, <1>2 DEF Queued

\* ... and in a queue whose head, another command, was received.
LEMMA QueuedPop ==
  ASSUME queue \in Seq(Commands), queue # <<>>, queue' = Tail(queue),
         NEW g, Head(queue) # CancelCmd(g), Queued(g)
  PROVE  Queued(g)'
<1>1. PICK i \in 1..Len(queue) : queue[i] = CancelCmd(g)
  BY DEF Queued
<1>2. i # 1
  BY <1>1
<1>3. i - 1 \in 1..Len(Tail(queue)) /\ Tail(queue)[i - 1] = queue[i]
  BY <1>2
<1> QED
  BY <1>1, <1>3 DEF Queued

\* What the threads other than the host's do to the cancelled sessions: either
\* nothing is cancelled and the queue at most grows, or the published session is
\* and its command is sent.
LEMMA CancelFrame ==
  ASSUME TypeOK, [Next]_vars, ~HostStep
  PROVE  /\ \A g : Queued(g) => Queued(g)'
         /\ \/ cancelAccepted' = cancelAccepted
            \/ /\ cancelAccepted' = cancelAccepted \cup {snapshot.gen}
               /\ Queued(snapshot.gen)'
<1> USE DEF TypeOK
<1>1. ASSUME NEW c \in Clients, CancelStarting(c)
      PROVE  /\ \A g : Queued(g) => Queued(g)'
             /\ cancelAccepted' = cancelAccepted \cup {snapshot.gen}
             /\ Queued(snapshot.gen)'
  <2>1. queue' = Append(queue, CancelCmd(snapshot.gen)) /\ snapshot' = snapshot
        /\ cancelAccepted' = cancelAccepted \cup {snapshot.gen}
    BY <1>1 DEF CancelStarting
  <2> QED
    BY <2>1, QueuedAppend
<1>2. ASSUME NEW c \in Clients, SendToggle(c) \/ SendSettings(c) \/ Wake(c)
      PROVE  (\A g : Queued(g) => Queued(g)') /\ cancelAccepted' = cancelAccepted
  <2>1. queue' = queue \/ \E m : queue' = Append(queue, m)
    BY <1>2 DEF SendToggle, SendSettings, Wake
  <2>2. cancelAccepted' = cancelAccepted
    BY <1>2 DEF SendToggle, SendSettings, Wake
  <2> QED
    BY <2>1, <2>2, QueuedAppend DEF Queued
<1>3. CASE ShutdownSend
  <2>1. queue' = Append(queue, ShutdownCmd) /\ cancelAccepted' = cancelAccepted
    BY <1>3 DEF ShutdownSend
  <2> QED
    BY <2>1, QueuedAppend
<1>4. ASSUME NEW c \in Clients,
             \/ ToggleStatus(c) \/ SettingsStatus(c) \/ CancelTooLate(c)
             \/ Admit(c) \/ AdmitRefused(c) \/ Recheck(c) \/ AwaitFails(c) \/ Release(c)
             \/ Reserve(c) \/ Inspect(c) \/ InspectOwner(c) \/ Unreserve(c)
             \/ Promote(c) \/ AdmitSettings(c)
      PROVE  queue' = queue /\ cancelAccepted' = cancelAccepted
  BY <1>4 DEF ToggleStatus, SettingsStatus, CancelTooLate, Admit, AdmitRefused, Recheck,
      AwaitFails, Release, Reserve, Inspect, InspectOwner, Unreserve, Promote,
      AdmitSettings
<1>5. CASE ShutdownFlag \/ TerminalElapses \/ LimitElapses \/ Halted \/ UNCHANGED vars
  <2>1. queue' = queue /\ cancelAccepted' = cancelAccepted
    BY <1>5 DEF ShutdownFlag, TerminalElapses, LimitElapses, Halted
  <2> QED
    BY <2>1 DEF Queued
<1>6. (queue' = queue /\ cancelAccepted' = cancelAccepted) =>
        (\A g : Queued(g) => Queued(g)') /\ cancelAccepted' = cancelAccepted
  BY DEF Queued
<1> QED
  BY <1>1, <1>2, <1>3, <1>4, <1>5, <1>6 DEF Next, ClientStep

\* A command other than the cancel of this session is received.
LEMMA CancelPopped ==
  ASSUME TypeOK, CancelInv, NEW op, Received(op), Pop, op # "CancelStartup",
         UNCHANGED <<generation, cancelAccepted>>
  PROVE  active /\ generation \in cancelAccepted => Queued(generation)'
<1>1. queue # <<>> /\ queue' = Tail(queue) /\ Head(queue).op = op
  BY DEF Received, Pop
<1>2. Head(queue) # CancelCmd(generation)
  BY <1>1 DEF CancelCmd, Command
<1> QED
  BY <1>1, <1>2, QueuedPop DEF CancelInv, TypeOK

\* Only receiving its own cancel ends the obligation, and that ends the session.
LEMMA CancelStep ==
  ASSUME TypeOK, JobShape, Where, CancelInv, [Next]_vars
  PROVE  CancelInv'
<1>0. generation \in Nat /\ snapshot.gen \in Nat /\ cancelAccepted \subseteq Nat
  BY FieldTypes DEF TypeOK
<1>1. CASE AcceptStart
  <2>1. /\ hpc' \notin {"starting", "ready"} /\ snapshot'.gen <= generation
        /\ (active' => active) /\ UNCHANGED <<generation, cancelAccepted>>
    BY <1>1, <1>0 DEF AcceptStart, Received, Pop, CancelInv, Snap
  <2>2. active /\ generation \in cancelAccepted => Queued(generation)'
    BY <1>1, <2>1, CancelPopped DEF AcceptStart
  <2> QED
    BY <2>1, <2>2 DEF CancelInv
<1>2. CASE AcceptStop
  <2>1. /\ hpc' \notin {"starting", "ready"} /\ snapshot'.gen <= generation
        /\ (active' => active) /\ UNCHANGED <<generation, cancelAccepted>>
    BY <1>2, <1>0 DEF AcceptStop, Received, Pop, Publish, CancelInv, Snap
  <2>2. active /\ generation \in cancelAccepted => Queued(generation)'
    BY <1>2, <2>1, CancelPopped DEF AcceptStop
  <2> QED
    BY <2>1, <2>2 DEF CancelInv
<1>3. CASE RejectToggle
  <2>1. /\ hpc' \notin {"starting", "ready"} /\ snapshot'.gen <= generation
        /\ (active' => active) /\ UNCHANGED <<generation, cancelAccepted>>
    BY <1>3, <1>0 DEF RejectToggle, ReleaseWith, Received, Pop, CancelInv, Snap
  <2>2. active /\ generation \in cancelAccepted => Queued(generation)'
    BY <1>3, <2>1, CancelPopped DEF RejectToggle
  <2> QED
    BY <2>1, <2>2 DEF CancelInv
<1>4. CASE ReceiveSettings
  <2>1. /\ hpc' \notin {"starting", "ready"} /\ snapshot'.gen <= generation
        /\ (active' => active) /\ UNCHANGED <<generation, cancelAccepted>>
    BY <1>4, <1>0 DEF ReceiveSettings, ReleaseWith, Received, Pop, CancelInv, Snap
  <2>2. active /\ generation \in cancelAccepted => Queued(generation)'
    BY <1>4, <2>1, CancelPopped DEF ReceiveSettings
  <2> QED
    BY <2>1, <2>2 DEF CancelInv
<1>5. CASE ReceiveCancel
  <2>1. /\ queue # <<>> /\ queue' = Tail(queue)
        /\ hpc' \notin {"starting", "ready"}
        /\ active' = (active /\ Head(queue).gen # generation)
        /\ UNCHANGED <<snapshot, generation, cancelAccepted>>
    BY <1>5 DEF ReceiveCancel, Received, Pop
  <2>2. Head(queue).gen # generation => Head(queue) # CancelCmd(generation)
    BY DEF CancelCmd, Command
  <2>3. active' /\ generation \in cancelAccepted => Queued(generation)'
    BY <2>1, <2>2, QueuedPop DEF CancelInv, TypeOK
  <2> QED
    BY <2>1, <2>3 DEF CancelInv
<1>6. CASE ReceiveReady
  <2>1. /\ hpc' \notin {"starting", "ready"} /\ snapshot'.gen <= generation
        /\ (active' => active) /\ UNCHANGED <<generation, cancelAccepted>>
    BY <1>6, <1>0 DEF ReceiveReady, Received, Pop, CancelInv, Snap
  <2>2. active /\ generation \in cancelAccepted => Queued(generation)'
    BY <1>6, <2>1, CancelPopped DEF ReceiveReady
  <2> QED
    BY <2>1, <2>2 DEF CancelInv
<1>7. CASE ReceiveShutdown
  <2>1. /\ hpc' \notin {"starting", "ready"} /\ snapshot'.gen <= generation
        /\ (active' => active) /\ UNCHANGED <<generation, cancelAccepted>>
    BY <1>7, <1>0 DEF ReceiveShutdown, Received, Pop, CancelInv, Snap
  <2>2. active /\ generation \in cancelAccepted => Queued(generation)'
    BY <1>7, <2>1, CancelPopped DEF ReceiveShutdown
  <2> QED
    BY <2>1, <2>2 DEF CancelInv
<1>8. CASE Exit
  <2>1. ~active
    BY <1>8 DEF Exit, Where, MayBeActive
  <2> QED
    BY <1>8, <2>1 DEF Exit, CancelInv
<1>9. CASE Teardown
  BY <1>9, <1>0 DEF Teardown, Publish, Arm, PublishTerminal, CancelInv, Queued, Snap
<1>10. CASE TickExpire
  BY <1>10, <1>0 DEF TickExpire, Tick, CancelInv, Queued, Snap
<1>11. CASE Expire
  BY <1>11, <1>0 DEF Expire, Publish, CancelInv, Queued, Snap
<1>12. CASE TickCaptureDied
  BY <1>12, <1>0 DEF TickCaptureDied, Tick, CancelInv, Queued, Snap
<1>13. CASE TickLimit
  BY <1>13, <1>0 DEF TickLimit, Tick, CancelInv, Queued, Snap
<1>14. CASE LimitStop
  BY <1>14, <1>0 DEF LimitStop, Publish, CancelInv, Queued, Snap
<1>15. CASE LimitRelease
  BY <1>15, <1>0 DEF LimitRelease, CancelInv, Queued, Snap
<1>16. CASE TickIdle
  BY <1>16, <1>0 DEF TickIdle, Tick, CancelInv, Queued, Snap
<1>17. CASE TailDropStale
  BY <1>17, <1>0 DEF TailDropStale, RestartDue, CancelInv, Queued, Snap
<1>18. CASE TailLoadOwner
  BY <1>18, <1>0 DEF TailLoadOwner, RestartDue, CancelInv, Queued, Snap
<1>19. CASE TailContinue
  BY <1>19, <1>0 DEF TailContinue, RestartDue, CancelInv, Queued, Snap
<1>20. CASE Takeover
  BY <1>20, <1>0 DEF Takeover, CancelInv, Queued, Snap
<1>21. CASE RestartIdle
  BY <1>21, <1>0 DEF RestartIdle, Publish, CancelInv, Queued, Snap
<1>22. CASE RestartClear
  BY <1>22, <1>0 DEF RestartClear, CancelInv, Queued, Snap
<1>23. CASE RestartRelease
  BY <1>23, <1>0 DEF RestartRelease, CancelInv, Queued, Snap
<1>24. CASE PreflightOk
  <2>1. generation' = generation + 1 /\ snapshot'.gen <= generation + 1
        /\ cancelAccepted' = cancelAccepted
    BY <1>24, <1>0 DEF PreflightOk, CancelInv, Snap
  <2>2. \A g \in cancelAccepted : g <= generation
    BY DEF CancelInv
  <2>3. generation + 1 \notin cancelAccepted
    BY <1>0, <2>2
  <2> QED
    BY <1>0, <2>1, <2>2, <2>3 DEF CancelInv
<1>25. CASE PreflightFails
  <2>1. generation' = generation + 1 /\ snapshot'.gen <= generation + 1
        /\ cancelAccepted' = cancelAccepted
    BY <1>25, <1>0 DEF PreflightFails, CancelInv, Snap
  <2>2. \A g \in cancelAccepted : g <= generation
    BY DEF CancelInv
  <2>3. generation + 1 \notin cancelAccepted
    BY <1>0, <2>2
  <2> QED
    BY <1>0, <2>1, <2>2, <2>3 DEF CancelInv
<1>26. CASE WorkerStarts
  BY <1>26, <1>0 DEF WorkerStarts, Interrupted, CancelInv, Queued, Snap
<1>27. CASE WorkerFails
  BY <1>27, <1>0 DEF WorkerFails, CancelInv, Queued, Snap
<1>28. CASE StartSucceeds
  BY <1>28, <1>0 DEF StartSucceeds, Publish, AfterJob, CancelInv, Queued, Snap,
      JobShape, Starts, Finishes
<1>29. CASE StartFails
  BY <1>29, <1>0 DEF StartFails, Interrupted, CancelInv, Queued, Snap
<1>30. CASE StartPublish
  BY <1>30, <1>0 DEF StartPublish, Publish, Arm, PublishTerminal, AfterJob,
      CancelInv, Queued, Snap, JobShape, Starts, Finishes
<1>31. CASE StopSucceeds
  BY <1>31, <1>0 DEF StopSucceeds, Publish, CancelInv, Queued, Snap
<1>32. CASE StopFails
  BY <1>32, <1>0 DEF StopFails, Outcome, CancelInv, Queued, Snap
<1>33. CASE WorkerErrs
  BY <1>33, <1>0 DEF WorkerErrs, Outcome, CancelInv, Queued, Snap
<1>34. CASE NoSpeech
  BY <1>34, <1>0 DEF NoSpeech, Outcome, CancelInv, Queued, Snap
<1>35. CASE Transcript
  BY <1>35, <1>0 DEF Transcript, Publish, CancelInv, Queued, Snap
<1>36. CASE Deliver
  BY <1>36, <1>0 DEF Deliver, Outcome, CancelInv, Queued, Snap
<1>37. CASE DeliveryFails
  BY <1>37, <1>0 DEF DeliveryFails, Outcome, CancelInv, Queued, Snap
<1>38. CASE FinishPublish
  BY <1>38, <1>0 DEF FinishPublish, Publish, Arm, PublishTerminal, AfterJob,
      CancelInv, Queued, Snap, JobShape, Starts, Finishes
<1>39. CASE Reply
  BY <1>39, <1>0 DEF Reply, ReleaseWith, CancelInv, Queued, Snap
<1>40. CASE ~HostStep
  <2>1. UNCHANGED <<snapshot, hpc, generation, active>>
    BY <1>40, Frame DEF hostFrame
  <2>2. CancelInv => CancelInv'
    BY <1>0, <1>40, <2>1, CancelFrame DEF CancelInv
  <2> QED
    BY <2>2
<1> QED
  BY <1>1, <1>2, <1>3, <1>4, <1>5, <1>6, <1>7, <1>8, <1>9, <1>10, <1>11, <1>12,
      <1>13, <1>14, <1>15, <1>16, <1>17, <1>18, <1>19, <1>20, <1>21, <1>22, <1>23,
      <1>24, <1>25, <1>26, <1>27, <1>28, <1>29, <1>30, <1>31, <1>32, <1>33, <1>34,
      <1>35, <1>36, <1>37, <1>38, <1>39, <1>40 DEF HostStep

\* An accepted startup cancel is never lost: a session that is recording although
\* its cancel was answered Ok still has the command that will end it queued.
THEOREM CancelKept == Spec => []CancelNotLost
<1>1. Init => CancelInv
  BY DEF Init, CancelInv, Snap
<1>2. HostInv /\ CancelInv /\ [Next]_vars => CancelInv'
  BY CancelStep DEF HostInv
<1>3. CancelInv => CancelNotLost
  BY DEF CancelInv, CancelNotLost, Queued
<1> QED
  BY HostInvariant, <1>1, <1>2, <1>3, PTL DEF Spec
=============================================================================
