------------------------ MODULE StreamSessionProofs ------------------------
(***************************************************************************)
(* For any length of recording and any limit: the streaming session is     *)
(* freed once, by the last one out; the recording is closed once; and a    *)
(* transcript reported as a success covers all that was streamed. OwnInv   *)
(* is about the two sides, CoverInv about the messages on their way.       *)
(***************************************************************************)
EXTENDS StreamSession, TLAPS

Early == {"dial", "dialled", "handshake", "shook", "open"}
Late == {"top", "full", "read", "eof", "drain", "drainRead", "closing", "await", "awaitRead"}
Asking == {"serving", "cancelling", "wait"}

\* The part of the type invariant that the provider has no share in.
Labels ==
  /\ opc \in OwnerLabels /\ wpc \in ThreadLabels
  /\ ownerReleased \in BOOLEAN
  /\ frees \in Nat /\ closes \in Nat

\* Who has let go of the session, by the positions of the two sides. A result
\* that is published is never "none", so the owner sees it.
Release ==
  /\ ownerReleased => opc = "done"
  /\ wpc = "publish" => verdict # "none"
  /\ wpc \in Early \cup Late \cup {"publish"} =>
       /\ frees = 0 /\ result = "none" /\ opc # "destroy"
       /\ opc = "done" => ownerReleased
  /\ wpc = "destroy" => ownerReleased /\ frees = 0 /\ result = "none"
  /\ wpc = "done" =>
       \/ ownerReleased /\ frees = 1 /\ result = "none"
       \/ ~ownerReleased /\ opc \in Asking /\ frees = 0 /\ result # "none"
       \/ ~ownerReleased /\ opc = "destroy" /\ frees = 0 /\ result = "none"
       \/ ~ownerReleased /\ opc = "done" /\ frees = 1 /\ result = "none"

\* Where the recording's descriptor is.
Unopened == holders = {"session"} /\ closes = 0
Opened == holders = {"worker"} /\ closes = 0
Closed == holders = {} /\ closes = 1

Descriptor ==
  /\ wpc \in Early => Unopened
  /\ wpc \in Late => Opened
  /\ wpc \in {"publish", "destroy", "done"} => Closed \/ (Unopened /\ frees = 0)

OwnInv == Labels /\ Release /\ Descriptor

-----------------------------------------------------------------------------
\* Nothing is shared when the session starts.
LEMMA OwnInit == Init => OwnInv
<1> SUFFICES ASSUME Init PROVE OwnInv  OBVIOUS
<1>1. Labels  BY DEF Init, Labels, OwnerLabels, ThreadLabels
<1>2. Release  BY DEF Init, Release, Early, Late
<1>3. Descriptor  BY DEF Init, Descriptor, Unopened, Early, Late
<1> QED  BY <1>1, <1>2, <1>3 DEF OwnInv

\* Steps that leave every shared word of the session alone.
LEMMA OwnFrame ==
  ASSUME OwnInv, UNCHANGED <<opc, wpc, ownerReleased, result, verdict, memory>>
  PROVE  OwnInv'
BY DEF OwnInv, Labels, Release, Descriptor, Unopened, Opened, Closed, memory

\* The owner asks for the end of the stream and waits.
LEMMA OwnAsk ==
  ASSUME OwnInv, opc \in Asking, opc' \in Asking,
         UNCHANGED <<wpc, ownerReleased, result, verdict, memory>>
  PROVE  OwnInv'
BY DEF OwnInv, Labels, Release, Descriptor, Unopened, Opened, Closed, memory,
       Asking, OwnerLabels

\* The thread moves before it has taken the descriptor over ...
LEMMA OwnEarly ==
  ASSUME OwnInv, NEW a \in Early, NEW b \in Early, Step(a, b),
         UNCHANGED <<opc, ownerReleased, result>>
  PROVE  OwnInv'
BY DEF OwnInv, Labels, Release, Descriptor, Unopened, Opened, Closed, memory, Step,
       Early, Late, ThreadLabels

\* ... and after it.
LEMMA OwnLate ==
  ASSUME OwnInv, NEW a \in Late, NEW b \in Late, Step(a, b),
         UNCHANGED <<opc, ownerReleased, result>>
  PROVE  OwnInv'
BY DEF OwnInv, Labels, Release, Descriptor, Unopened, Opened, Closed, memory, Step,
       Early, Late, ThreadLabels

\* The thread leaves run: its descriptor, if it has one, is closed.
LEMMA OwnLeave ==
  ASSUME OwnInv, wpc \in Early \cup Late, NEW v, v # "none", Leave(v),
         UNCHANGED <<opc, ownerReleased, result>>
  PROVE  OwnInv'
<1>1. Labels'  BY DEF OwnInv, Labels, Leave, ThreadLabels
<1>2. Release'  BY DEF OwnInv, Release, Leave, Early, Late
<1>3. Descriptor'
  <2>1. CASE wpc \in Early
    <3>1. {"session"} \ {"worker"} = {"session"} /\ "worker" \notin {"session"}  OBVIOUS
    <3> QED  BY <2>1, <3>1 DEF OwnInv, Descriptor, Release, Unopened, Closed, Leave, Early, Late
  <2>2. CASE wpc \in Late
    <3>1. {"worker"} \ {"worker"} = {}  OBVIOUS
    <3> QED  BY <2>2, <3>1 DEF OwnInv, Descriptor, Opened, Closed, Leave, Early, Late
  <2> QED  BY <2>1, <2>2
<1> QED  BY <1>1, <1>2, <1>3 DEF OwnInv

\* Whoever destroys the session closes a recording that was never opened.
LEMMA DestroyCloses ==
  ASSUME Closed \/ Unopened, frees = 0, Destroy
  PROVE  Closed' /\ frees' = 1
<1>1. {"session"} \ {"session"} = {} /\ {} \ {"session"} = {}  OBVIOUS
<1> QED  BY <1>1 DEF Closed, Unopened, Destroy

\* The owner's three ways out: with the result, at its deadline, by destroying.
LEMMA OwnOwner ==
  ASSUME OwnInv, TakeResult \/ TakeTimeout \/ OwnerDestroys
  PROVE  OwnInv'
<1>1. CASE TakeResult
  <2>1. wpc = "done" /\ ~ownerReleased /\ frees = 0
    BY <1>1 DEF OwnInv, Labels, Release, TakeResult, ThreadLabels, Early, Late
  <2> QED
    BY <1>1, <2>1 DEF OwnInv, Labels, Release, Descriptor, TakeResult, OwnerLabels,
       Unopened, Closed, Early, Late, memory, threadVars
<1>2. CASE TakeTimeout
  <2>1. wpc # "done" /\ frees = 0
    BY <1>2 DEF OwnInv, Labels, Release, TakeTimeout, ThreadLabels, Early, Late
  <2>2. wpc # "destroy"  BY <1>2 DEF OwnInv, Release, TakeTimeout
  <2>3. Labels'  BY <1>2 DEF OwnInv, Labels, TakeTimeout, OwnerLabels, memory, threadVars
  <2>4. Release'
    BY <1>2, <2>1, <2>2 DEF OwnInv, Release, TakeTimeout, memory, threadVars
  <2>5. Descriptor'
    BY <1>2 DEF OwnInv, Descriptor, TakeTimeout, Unopened, Opened, Closed, memory, threadVars
  <2> QED  BY <2>3, <2>4, <2>5 DEF OwnInv
<1>3. CASE OwnerDestroys
  <2>1. wpc = "done" /\ ~ownerReleased /\ frees = 0 /\ result = "none"
    BY <1>3 DEF OwnInv, Labels, Release, OwnerDestroys, ThreadLabels, Early, Late, Asking
  <2>2. Closed' /\ frees' = 1
    BY <1>3, <2>1, DestroyCloses DEF OwnInv, Descriptor, OwnerDestroys
  <2>3. /\ opc' = "done" /\ wpc' = "done" /\ ownerReleased' = ownerReleased
        /\ result' = result /\ verdict' = verdict
    BY <1>3, <2>1 DEF OwnerDestroys, threadVars, locked
  <2>4. Labels'  BY <2>2, <2>3 DEF OwnInv, Labels, Closed, OwnerLabels, ThreadLabels
  <2>5. Release'  BY <2>1, <2>2, <2>3 DEF OwnInv, Release, Early, Late
  <2>6. Descriptor'  BY <2>2, <2>3 DEF Descriptor, Early, Late
  <2> QED  BY <2>4, <2>5, <2>6 DEF OwnInv
<1> QED  BY <1>1, <1>2, <1>3

\* The thread's two: it hands the result over, or destroys what was left to it.
LEMMA OwnThreadEnds ==
  ASSUME OwnInv, Publish \/ ThreadDestroys
  PROVE  OwnInv'
<1>1. CASE Publish
  <2>1. /\ wpc = "publish" /\ verdict # "none" /\ frees = 0 /\ result = "none"
        /\ opc # "destroy" /\ (opc = "done" => ownerReleased) /\ (ownerReleased => opc = "done")
    BY <1>1 DEF OwnInv, Release, Publish
  <2>2. Labels'  BY <1>1 DEF OwnInv, Labels, Publish, ThreadLabels, ownerVars, memory
  <2>3. Release'
    BY <1>1, <2>1
       DEF OwnInv, Labels, Release, Publish, OwnerLabels, Asking, Early, Late, ownerVars, memory
  <2>4. Descriptor'
    BY <1>1, <2>1
       DEF OwnInv, Descriptor, Publish, Unopened, Closed, Early, Late, memory
  <2> QED  BY <2>2, <2>3, <2>4 DEF OwnInv
<1>2. CASE ThreadDestroys
  <2>1. ownerReleased /\ frees = 0 /\ result = "none" /\ opc = "done"
    BY <1>2 DEF OwnInv, Release, ThreadDestroys
  <2>2. Closed' /\ frees' = 1
    BY <1>2, <2>1, DestroyCloses DEF OwnInv, Descriptor, ThreadDestroys
  <2>3. /\ opc' = "done" /\ wpc' = "done" /\ ownerReleased' = ownerReleased /\ result' = result
    BY <1>2, <2>1 DEF ThreadDestroys, ownerVars, locked
  <2>4. Labels'  BY <2>2, <2>3 DEF OwnInv, Labels, Closed, OwnerLabels, ThreadLabels
  <2>5. Release'  BY <2>1, <2>2, <2>3 DEF OwnInv, Release, Early, Late
  <2>6. Descriptor'  BY <2>2, <2>3 DEF Descriptor, Early, Late
  <2> QED  BY <2>4, <2>5, <2>6 DEF OwnInv
<1> QED  BY <1>1, <1>2

\* The thread inside run: every action is a move within a phase, the opening of
\* the recording, or a return.
LEMMA OwnRun ==
  ASSUME OwnInv, ThreadStep, ~Publish, ~ThreadDestroys
  PROVE  OwnInv'
<1> USE DEF ownerVars, locked
<1>1. CASE Fails  BY <1>1, OwnLeave DEF Fails, Early, Late
<1>2. CASE Connects
  <2>1. CASE Step("dial", "dialled")  BY <1>2, <2>1, OwnEarly DEF Connects, Early
  <2>2. CASE Step("handshake", "shook")  BY <1>2, <2>2, OwnEarly DEF Connects, Early
  <2> QED  BY <1>2, <2>1, <2>2 DEF Connects
<1>3. CASE Checks
  <2>1. CASE cancelRequested  BY <1>3, <2>1, OwnLeave DEF Checks, Early, Late
  <2>2. CASE ~cancelRequested
    <3>0. UNCHANGED <<opc, ownerReleased, result>>  BY <1>3 DEF Checks
    <3>1. \/ Step("dialled", "handshake") \/ Step("shook", "open")
          \/ Step("top", "full") \/ Step("top", "read")
          \/ Step("drain", "drainRead") \/ Step("await", "awaitRead")
      BY <1>3, <2>2 DEF Checks
    <3>2. CASE Step("dialled", "handshake")  BY <3>0, <3>2, OwnEarly DEF Early
    <3>3. CASE Step("shook", "open")  BY <3>0, <3>3, OwnEarly DEF Early
    <3>4. CASE Step("top", "full")  BY <3>0, <3>4, OwnLate DEF Late
    <3>5. CASE Step("top", "read")  BY <3>0, <3>5, OwnLate DEF Late
    <3>6. CASE Step("drain", "drainRead")  BY <3>0, <3>6, OwnLate DEF Late
    <3>7. CASE Step("await", "awaitRead")  BY <3>0, <3>7, OwnLate DEF Late
    <3> QED  BY <3>1, <3>2, <3>3, <3>4, <3>5, <3>6, <3>7
  <2> QED  BY <2>1, <2>2
<1>4. CASE OpenRecording
  <2>1. Labels'  BY <1>4 DEF OwnInv, Labels, OpenRecording, ThreadLabels
  <2>2. Release'  BY <1>4 DEF OwnInv, Release, OpenRecording, Early, Late
  <2>3. Descriptor'  BY <1>4 DEF OwnInv, Descriptor, OpenRecording, Unopened, Opened, Early, Late
  <2> QED  BY <2>1, <2>2, <2>3 DEF OwnInv
<1>5. CASE Full
  <2>1. CASE finishRequested  BY <1>5, <2>1, OwnLate DEF Full, Late
  <2>2. CASE ~finishRequested  BY <1>5, <2>2, OwnLeave DEF Full, Late
  <2> QED  BY <2>1, <2>2
<1>6. CASE SendChunk
  <2>1. Step("read", "drain")  BY <1>6 DEF SendChunk, Step
  <2> QED  BY <1>6, <2>1, OwnLate DEF SendChunk, Late
<1>7. CASE EndOfFile  BY <1>7, OwnLate DEF EndOfFile, Late
<1>8. CASE AfterEof
  <2>1. Step("eof", "closing") \/ Step("eof", "top")  BY <1>8 DEF AfterEof
  <2> QED  BY <1>8, <2>1, OwnLate DEF AfterEof, Late
<1>9. CASE DrainEnds  BY <1>9, OwnLate DEF DrainEnds, Late
<1>10. CASE AwaitQuiet  BY <1>10, OwnLate DEF AwaitQuiet, Late
<1>11. CASE ProcessMessage
  <2>1. CASE Head(inbox) = Broken  BY <1>11, <2>1, OwnLeave DEF ProcessMessage, Late
  <2>2. CASE Head(inbox) # Broken
    <3>1. Step("drainRead", "drain") \/ Step("awaitRead", "await")
      BY <1>11, <2>2 DEF ProcessMessage
    <3> QED  BY <1>11, <3>1, OwnLate DEF ProcessMessage, Late
  <2> QED  BY <2>1, <2>2
<1>12. CASE CloseStream  BY <1>12, OwnLate DEF CloseStream, Late
<1>13. CASE Succeeds  BY <1>13, OwnLeave DEF Succeeds, Late
<1> QED
  BY <1>1, <1>2, <1>3, <1>4, <1>5, <1>6, <1>7, <1>8, <1>9, <1>10, <1>11, <1>12, <1>13
     DEF ThreadStep

\* Every step of the session keeps the invariant.
LEMMA OwnNext == OwnInv /\ [Next]_vars => OwnInv'
<1> SUFFICES ASSUME OwnInv, [Next]_vars PROVE OwnInv'  OBVIOUS
<1> USE DEF ownerVars, threadVars, locked
<1>1. CASE Append1 \/ StopRecording  BY <1>1, OwnFrame DEF Append1, StopRecording
<1>2. CASE RequestFinish  BY <1>2, OwnAsk DEF RequestFinish, Asking
<1>3. CASE RequestCancel  BY <1>3, OwnAsk DEF RequestCancel, Asking
<1>4. CASE CancelFinish  BY <1>4, OwnAsk DEF CancelFinish, Asking
<1>5. CASE TakeResult \/ TakeTimeout \/ OwnerDestroys  BY <1>5, OwnOwner
<1>6. CASE ThreadStep  BY <1>6, OwnRun, OwnThreadEnds
<1>7. CASE Answer \/ Finalize \/ Break  BY <1>7, OwnFrame DEF Answer, Finalize, Break
<1>8. CASE Over \/ UNCHANGED vars  BY <1>8, OwnFrame DEF Over, vars
<1> QED
  BY <1>1, <1>2, <1>3, <1>4, <1>5, <1>6, <1>7, <1>8 DEF Next, OwnerStep

\* The invariant holds always.
LEMMA OwnAlways == Spec => []OwnInv
BY OwnInit, OwnNext, PTL DEF Spec

-----------------------------------------------------------------------------
(* Types *)

\* What the provider sends are messages.
LEMMA MessageTypes ==
  /\ \A n \in Nat : Final(n) \in Messages
  /\ Metadata \in Messages /\ Broken \in Messages
BY DEF Final, Metadata, Broken, Messages

\* Leaving run keeps the types of what it changes.
LEMMA LeaveTypes ==
  ASSUME TypeOK, Leave("failed")
  PROVE  /\ verdict' \in Verdicts /\ wpc' \in ThreadLabels
         /\ holders' \subseteq {"session", "worker"} /\ frees' \in Nat /\ closes' \in Nat
BY DEF TypeOK, Leave, Verdicts, ThreadLabels

\* Every step keeps the types.
LEMMA TypeStep == TypeOK /\ [Next]_vars => TypeOK'
<1> SUFFICES ASSUME TypeOK, [Next]_vars PROVE TypeOK'  OBVIOUS
<1> USE DEF source, atomics, locked, ownerVars, threadVars, memory, external, TypeOK
<1>1. CASE Append1  BY <1>1 DEF Append1
<1>2. CASE StopRecording  BY <1>2 DEF StopRecording
<1>3. CASE RequestFinish  BY <1>3 DEF RequestFinish, OwnerLabels
<1>4. CASE RequestCancel  BY <1>4 DEF RequestCancel, OwnerLabels
<1>5. CASE CancelFinish  BY <1>5 DEF CancelFinish, OwnerLabels
<1>6. CASE TakeResult  BY <1>6 DEF TakeResult, OwnerLabels, Verdicts
<1>7. CASE TakeTimeout  BY <1>7 DEF TakeTimeout, OwnerLabels
<1>8. CASE OwnerDestroys  BY <1>8 DEF OwnerDestroys, Destroy, OwnerLabels
<1>9. CASE ThreadDestroys  BY <1>9 DEF ThreadDestroys, Destroy, ThreadLabels
<1>10. CASE Fails  BY <1>10 DEF Fails, Leave, ThreadLabels, Verdicts
<1>11. CASE Succeeds  BY <1>11 DEF Succeeds, Leave, ThreadLabels, Verdicts
<1>12. CASE Connects  BY <1>12 DEF Connects, Step, ThreadLabels
<1>13. CASE OpenRecording  BY <1>13 DEF OpenRecording, ThreadLabels
<1>14. CASE SendChunk  BY <1>14 DEF SendChunk, ThreadLabels
<1>15. CASE EndOfFile  BY <1>15 DEF EndOfFile, Step, ThreadLabels
<1>16. CASE AfterEof  BY <1>16 DEF AfterEof, Step, ThreadLabels
<1>17. CASE DrainEnds  BY <1>17 DEF DrainEnds, Step, ThreadLabels
<1>18. CASE AwaitQuiet  BY <1>18 DEF AwaitQuiet, Step, ThreadLabels
<1>19. CASE CloseStream  BY <1>19 DEF CloseStream, Step, ThreadLabels
<1>20. CASE Publish  BY <1>20 DEF Publish, ThreadLabels
<1>21. CASE Checks
  <2>1. CASE cancelRequested
    <3>1. /\ Leave("failed")
          /\ UNCHANGED <<file, recording, finishRequested, cancelRequested, ownerReleased,
                         result, opc, outcome, sent, transcript, metadata, inbox, answered,
                         provider>>
      BY <1>21, <2>1 DEF Checks
    <3> QED  BY <3>1, LeaveTypes
  <2>2. CASE ~cancelRequested  BY <1>21, <2>2 DEF Checks, Step, ThreadLabels
  <2> QED  BY <2>1, <2>2
<1>22. CASE Full
  <2>1. CASE finishRequested  BY <1>22, <2>1 DEF Full, Step, ThreadLabels
  <2>2. CASE ~finishRequested
    <3>1. /\ Leave("failed")
          /\ UNCHANGED <<file, recording, finishRequested, cancelRequested, ownerReleased,
                         result, opc, outcome, sent, transcript, metadata, inbox, answered,
                         provider>>
      BY <1>22, <2>2 DEF Full
    <3> QED  BY <3>1, LeaveTypes
  <2> QED  BY <2>1, <2>2
<1>23. CASE ProcessMessage
  <2>1. Head(inbox) \in Messages /\ Tail(inbox) \in Seq(Messages)
    BY <1>23 DEF ProcessMessage
  <2>2. Head(inbox).upto \in Nat  BY <2>1 DEF Messages
  <2>3. CASE Head(inbox) = Broken
    <3>1. /\ Leave("failed") /\ inbox' = Tail(inbox)
          /\ UNCHANGED <<file, recording, finishRequested, cancelRequested, ownerReleased,
                         result, opc, outcome, sent, transcript, metadata, answered,
                         provider>>
      BY <1>23, <2>3 DEF ProcessMessage
    <3> QED  BY <2>1, <3>1, LeaveTypes
  <2>4. CASE Head(inbox) # Broken
    <3>1. transcript' \in Nat  BY <1>23, <2>2, <2>4 DEF ProcessMessage
    <3>2. metadata' \in BOOLEAN  BY <1>23, <2>4 DEF ProcessMessage
    <3>3. /\ UNCHANGED <<file, recording, finishRequested, cancelRequested, ownerReleased,
                         result, opc, outcome, verdict, sent, holders, frees, closes,
                         answered, provider>>
          /\ wpc' \in ThreadLabels /\ inbox' = Tail(inbox)
      BY <1>23, <2>4 DEF ProcessMessage, Step, ThreadLabels
    <3> QED  BY <2>1, <3>1, <3>2, <3>3
  <2> QED  BY <2>3, <2>4
<1>24. CASE Answer
  <2>1. PICK n \in answered + 1 .. sent : answered' = n /\ inbox' = Append(inbox, Final(n))
    BY <1>24 DEF Answer
  <2>2. n \in Nat  BY <2>1
  <2>3. inbox' \in Seq(Messages)  BY <2>1, <2>2, MessageTypes
  <2> QED  BY <1>24, <2>1, <2>2, <2>3 DEF Answer
<1>25. CASE Finalize
  <2>1. inbox' \in Seq(Messages)  BY <1>25, MessageTypes DEF Finalize
  <2> QED  BY <1>25, <2>1 DEF Finalize
<1>26. CASE Break
  <2>1. inbox' \in Seq(Messages)  BY <1>26, MessageTypes DEF Break
  <2> QED  BY <1>26, <2>1 DEF Break
<1>27. CASE UNCHANGED vars  BY <1>27 DEF vars
<1> QED
  BY <1>1, <1>2, <1>3, <1>4, <1>5, <1>6, <1>7, <1>8, <1>9, <1>10, <1>11, <1>12, <1>13,
     <1>14, <1>15, <1>16, <1>17, <1>18, <1>19, <1>20, <1>21, <1>22, <1>23, <1>24, <1>25,
     <1>26, <1>27
     DEF Next, OwnerStep, ThreadStep, Over

\* Type correctness, for any length of recording and any limit.
THEOREM StreamTypeCorrect == Spec => []TypeOK
<1>1. Init => TypeOK
  <2> SUFFICES ASSUME Init PROVE TypeOK  OBVIOUS
  <2>1. inbox \in Seq(Messages) /\ opc \in OwnerLabels /\ wpc \in ThreadLabels
    BY DEF Init, OwnerLabels, ThreadLabels
  <2>2. result \in Verdicts /\ outcome \in Verdicts /\ verdict \in Verdicts
    BY DEF Init, Verdicts
  <2> QED  BY <2>1, <2>2 DEF Init, TypeOK
<1> QED  BY <1>1, TypeStep, PTL DEF Spec

-----------------------------------------------------------------------------
(* What the transcript covers *)

Past == {"await", "awaitRead", "publish", "destroy", "done"}
IsFinal(m) == m.type = "Results"

\* Metadata and a break are the provider's last words, and Metadata is sent only
\* when all that was streamed has been answered and nothing more will be.
LastWords ==
  /\ provider = "closing" => wpc \in Past
  /\ \A i \in 1..Len(inbox) :
       \/ IsFinal(inbox[i])
       \/ inbox[i] \in {Metadata, Broken} /\ i = Len(inbox) /\ provider = "over"
  /\ \A i \in 1..Len(inbox) : inbox[i] = Metadata => wpc \in Past /\ answered = sent
  /\ metadata => wpc \in Past /\ answered = sent /\ inbox = <<>> /\ provider = "over"

\* The last segment on its way covers what was answered; if there is none, the
\* transcript does.
LastSegment ==
  /\ \A i \in 1..Len(inbox) :
       IsFinal(inbox[i]) /\ (i < Len(inbox) => ~IsFinal(inbox[i + 1]))
         => inbox[i].upto = answered
  /\ (Len(inbox) > 0 => ~IsFinal(inbox[1])) => transcript = answered

\* Success, on its way from the thread to the owner, means Metadata was received.
Successes ==
  /\ verdict = "success" => metadata
  /\ result = "success" => metadata
  /\ outcome = "success" => metadata

CoverInv == LastWords /\ LastSegment /\ Successes

\* The three kinds of message are told apart.
LEMMA Kinds ==
  /\ ~IsFinal(Metadata) /\ ~IsFinal(Broken) /\ Metadata # Broken
  /\ \A n : IsFinal(Final(n)) /\ Final(n).upto = n /\ Final(n) # Metadata
BY DEF IsFinal, Metadata, Broken, Final

\* Nothing has been streamed or answered at the start.
LEMMA CoverInit == Init => CoverInv
BY DEF Init, CoverInv, LastWords, LastSegment, Successes

\* Steps without the provider: the thread moves on and results change hands.
LEMMA CoverFrame ==
  ASSUME CoverInv, UNCHANGED <<inbox, answered, sent, transcript, metadata, provider>>,
         wpc \in Past => wpc' \in Past,
         verdict' = "success" => verdict = "success" \/ metadata,
         result' = "success" => result = "success" \/ verdict = "success",
         outcome' = "success" => outcome = "success" \/ result = "success"
  PROVE  CoverInv'
<1>1. LastWords'  BY DEF CoverInv, LastWords
<1>2. LastSegment'  BY DEF CoverInv, LastSegment
<1>3. Successes'  BY DEF CoverInv, Successes
<1> QED  BY <1>1, <1>2, <1>3 DEF CoverInv

\* One more message from a provider that has not had its last word.
LEMMA CoverAppend ==
  ASSUME TypeOK, CoverInv, NEW m \in Messages, inbox' = Append(inbox, m),
         provider # "over",
         UNCHANGED <<sent, transcript, metadata, wpc, verdict, result, outcome>>,
         \/ IsFinal(m) /\ m.upto = answered' /\ provider' = provider
         \/ m = Metadata /\ provider = "closing" /\ answered' = answered /\ answered = sent
            /\ provider' = "over"
         \/ m = Broken /\ answered' = answered /\ provider' = "over"
  PROVE  CoverInv'
<1>1. /\ Len(inbox) \in Nat /\ Len(inbox') = Len(inbox) + 1
      /\ \A i \in 1..Len(inbox) : inbox'[i] = inbox[i]
      /\ inbox'[Len(inbox) + 1] = m
  BY DEF TypeOK
<1>2. ~metadata /\ \A i \in 1..Len(inbox) : IsFinal(inbox[i])
  BY DEF CoverInv, LastWords
<1>3. \A i \in 1..Len(inbox) : inbox[i] # Metadata  BY <1>2, Kinds
<1>4. LastWords'
  <2>1. provider' = "closing" => wpc' \in Past  BY DEF CoverInv, LastWords
  <2>2. \A i \in 1..Len(inbox') :
          \/ IsFinal(inbox'[i])
          \/ inbox'[i] \in {Metadata, Broken} /\ i = Len(inbox') /\ provider' = "over"
    BY <1>1, <1>2
  <2>3. \A i \in 1..Len(inbox') : inbox'[i] = Metadata => wpc' \in Past /\ answered' = sent'
    <3>1. m = Metadata => wpc' \in Past /\ answered' = sent'
      BY Kinds DEF CoverInv, LastWords
    <3> QED  BY <1>1, <1>3, <3>1
  <2> QED  BY <1>2, <2>1, <2>2, <2>3 DEF LastWords, IsFinal
<1>5. LastSegment'
  <2>1. \A i \in 1..Len(inbox') :
          IsFinal(inbox'[i]) /\ (i < Len(inbox') => ~IsFinal(inbox'[i + 1]))
            => inbox'[i].upto = answered'
    <3> SUFFICES ASSUME NEW i \in 1..Len(inbox'), IsFinal(inbox'[i]),
                        i < Len(inbox') => ~IsFinal(inbox'[i + 1])
                 PROVE  inbox'[i].upto = answered'
      OBVIOUS
    <3>1. CASE i = Len(inbox) + 1  BY <1>1, <3>1, Kinds
    <3>2. CASE i # Len(inbox) + 1
      <4>1. i = Len(inbox)
        BY <1>1, <1>2, <3>2
      <4>2. ~IsFinal(m)  BY <1>1, <4>1
      <4> QED  BY <1>1, <1>2, <4>1, <4>2 DEF CoverInv, LastSegment
    <3> QED  BY <3>1, <3>2
  <2>2. (Len(inbox') > 0 => ~IsFinal(inbox'[1])) => transcript' = answered'
    <3>1. CASE Len(inbox) = 0  BY <1>1, <3>1 DEF CoverInv, LastSegment
    <3>2. CASE Len(inbox) > 0  BY <1>1, <1>2, <3>2
    <3> QED  BY <1>1, <3>1, <3>2
  <2> QED  BY <2>1, <2>2 DEF LastSegment, IsFinal
<1>6. Successes'  BY DEF CoverInv, Successes
<1> QED  BY <1>4, <1>5, <1>6 DEF CoverInv

\* The thread reads the oldest message.
LEMMA CoverRead ==
  ASSUME TypeOK, CoverInv, ProcessMessage
  PROVE  CoverInv'
<1> USE DEF ownerVars, locked, external
<1>0. /\ inbox # <<>> /\ inbox \in Seq(Messages) /\ inbox' = Tail(inbox)
      /\ wpc \in {"drainRead", "awaitRead"}
      /\ UNCHANGED <<answered, sent, provider, result, outcome>>
  BY DEF ProcessMessage, TypeOK
<1>1. /\ Len(inbox) \in Nat /\ Len(inbox) > 0 /\ Len(inbox') = Len(inbox) - 1
      /\ Head(inbox) = inbox[1]
      /\ \A i \in 1..Len(inbox') : inbox'[i] = inbox[i + 1] /\ i + 1 \in 1..Len(inbox)
  BY <1>0
<1>2. ~metadata  BY <1>0 DEF CoverInv, LastWords
<1>3. /\ verdict' # "success" /\ result # "success" /\ outcome # "success"
      /\ wpc \in Past => wpc' \in Past
  <2>1. CASE Head(inbox) = Broken
    BY <1>0, <1>2, <2>1 DEF ProcessMessage, Leave, CoverInv, Successes, Past
  <2>2. CASE Head(inbox) # Broken
    BY <1>0, <1>2, <2>2 DEF ProcessMessage, Step, CoverInv, Successes, Past
  <2> QED  BY <2>1, <2>2
<1>4. metadata' => inbox[1] = Metadata
  <2>1. CASE Head(inbox) = Broken  BY <1>2, <2>1 DEF ProcessMessage
  <2>2. CASE Head(inbox) # Broken  BY <1>1, <1>2, <2>2 DEF ProcessMessage
  <2> QED  BY <2>1, <2>2
<1>5. LastWords'
  <2>1. provider' = "closing" => wpc' \in Past  BY <1>0, <1>3 DEF CoverInv, LastWords
  <2>2. \A i \in 1..Len(inbox') :
          \/ IsFinal(inbox'[i])
          \/ inbox'[i] \in {Metadata, Broken} /\ i = Len(inbox') /\ provider' = "over"
    <3> TAKE i \in 1..Len(inbox')
    <3>1. /\ i + 1 \in 1..Len(inbox) /\ inbox'[i] = inbox[i + 1]
          /\ i + 1 = Len(inbox) => i = Len(inbox')
      BY <1>1
    <3>2. \/ IsFinal(inbox[i + 1])
          \/ inbox[i + 1] \in {Metadata, Broken} /\ i + 1 = Len(inbox) /\ provider = "over"
      BY <3>1 DEF CoverInv, LastWords
    <3> QED  BY <1>0, <3>1, <3>2
  <2>3. \A i \in 1..Len(inbox') : inbox'[i] = Metadata => wpc' \in Past /\ answered' = sent'
    BY <1>0, <1>1, <1>3 DEF CoverInv, LastWords
  <2>4. metadata' => wpc' \in Past /\ answered' = sent' /\ inbox' = <<>> /\ provider' = "over"
    <3> SUFFICES ASSUME inbox[1] = Metadata
                 PROVE  wpc' \in Past /\ answered' = sent' /\ inbox' = <<>> /\ provider' = "over"
      BY <1>4
    <3>1. 1 \in 1..Len(inbox)  BY <1>1
    <3>2. wpc \in Past /\ answered = sent /\ Len(inbox) = 1 /\ provider = "over"
      BY <3>1, Kinds DEF CoverInv, LastWords
    <3>3. inbox' = <<>>  BY <1>0, <1>1, <3>2
    <3> QED  BY <1>0, <1>3, <3>2, <3>3
  <2> QED  BY <2>1, <2>2, <2>3, <2>4 DEF LastWords, IsFinal
<1>6. LastSegment'
  <2>1. \A i \in 1..Len(inbox') :
          IsFinal(inbox'[i]) /\ (i < Len(inbox') => ~IsFinal(inbox'[i + 1]))
            => inbox'[i].upto = answered'
    <3> SUFFICES ASSUME NEW i \in 1..Len(inbox'), IsFinal(inbox'[i]),
                        i < Len(inbox') => ~IsFinal(inbox'[i + 1])
                 PROVE  inbox'[i].upto = answered'
      OBVIOUS
    <3>1. i + 1 \in 1..Len(inbox) /\ inbox'[i] = inbox[i + 1]  BY <1>1
    <3>2. i + 1 < Len(inbox) => ~IsFinal(inbox[i + 1 + 1])  BY <1>1, <3>1
    <3> QED  BY <1>0, <3>1, <3>2 DEF CoverInv, LastSegment
  <2>2. (Len(inbox') > 0 => ~IsFinal(inbox'[1])) => transcript' = answered'
    <3> SUFFICES ASSUME Len(inbox') > 0 => ~IsFinal(inbox'[1])
                 PROVE  transcript' = answered'
      OBVIOUS
    <3>0. 1 \in 1..Len(inbox)  BY <1>1
    <3>1. CASE IsFinal(inbox[1])
      <4>1. transcript' = inbox[1].upto
        BY <1>1, <3>1, Kinds DEF ProcessMessage
      <4>2. 1 < Len(inbox) => ~IsFinal(inbox[1 + 1])  BY <1>1
      <4> QED  BY <1>0, <3>0, <3>1, <4>1, <4>2 DEF CoverInv, LastSegment
    <3>2. CASE ~IsFinal(inbox[1])
      <4>1. transcript = answered  BY <3>2 DEF CoverInv, LastSegment
      <4>2. inbox[1] \in {Metadata, Broken}  BY <3>0, <3>2 DEF CoverInv, LastWords
      <4>3. transcript' = transcript  BY <1>1, <4>2 DEF ProcessMessage
      <4> QED  BY <1>0, <4>1, <4>3
    <3> QED  BY <3>1, <3>2
  <2> QED  BY <2>1, <2>2 DEF LastSegment, IsFinal
<1>7. Successes'  BY <1>0, <1>3 DEF Successes
<1> QED  BY <1>5, <1>6, <1>7 DEF CoverInv

\* A chunk is streamed only before CloseStream, when no Metadata is on its way.
LEMMA CoverSend ==
  ASSUME CoverInv, SendChunk
  PROVE  CoverInv'
<1>1. /\ wpc \notin Past /\ wpc' = "drain"
      /\ UNCHANGED <<inbox, answered, transcript, metadata, provider, verdict, result, outcome>>
  BY DEF SendChunk, Past, ownerVars, locked, external
<1>2. LastWords'  BY <1>1 DEF CoverInv, LastWords
<1>3. LastSegment'  BY <1>1 DEF CoverInv, LastSegment
<1>4. Successes'  BY <1>1 DEF CoverInv, Successes
<1> QED  BY <1>2, <1>3, <1>4 DEF CoverInv

\* CloseStream is the last thing the thread sends.
LEMMA CoverClose ==
  ASSUME CoverInv, CloseStream
  PROVE  CoverInv'
<1>1. /\ wpc' \in Past /\ (provider = "over" => provider' = "over")
      /\ UNCHANGED <<inbox, answered, sent, transcript, metadata, verdict, result, outcome>>
  BY DEF CloseStream, Step, Past, ownerVars, locked, memory
<1>2. LastWords'  BY <1>1 DEF CoverInv, LastWords
<1>3. LastSegment'  BY <1>1 DEF CoverInv, LastSegment
<1>4. Successes'  BY <1>1 DEF CoverInv, Successes
<1> QED  BY <1>2, <1>3, <1>4 DEF CoverInv

\* Every step keeps what is known of the transcript.
LEMMA CoverNext == TypeOK /\ CoverInv /\ [Next]_vars => CoverInv'
<1> SUFFICES ASSUME TypeOK, CoverInv, [Next]_vars PROVE CoverInv'  OBVIOUS
<1> USE DEF ownerVars, threadVars, locked, external
<1>1. CASE Append1  BY <1>1, CoverFrame DEF Append1
<1>2. CASE StopRecording  BY <1>2, CoverFrame DEF StopRecording
<1>3. CASE RequestFinish  BY <1>3, CoverFrame DEF RequestFinish
<1>4. CASE RequestCancel  BY <1>4, CoverFrame DEF RequestCancel
<1>5. CASE CancelFinish  BY <1>5, CoverFrame DEF CancelFinish
<1>6. CASE TakeResult  BY <1>6, CoverFrame DEF TakeResult
<1>7. CASE TakeTimeout  BY <1>7, CoverFrame DEF TakeTimeout
<1>8. CASE OwnerDestroys  BY <1>8, CoverFrame DEF OwnerDestroys
<1>9. CASE ThreadDestroys  BY <1>9, CoverFrame DEF ThreadDestroys, Past
<1>10. CASE Fails  BY <1>10, CoverFrame DEF Fails, Leave, Past
<1>11. CASE Succeeds  BY <1>11, CoverFrame DEF Succeeds, Leave, Past
<1>12. CASE Connects  BY <1>12, CoverFrame DEF Connects, Step, Past
<1>13. CASE OpenRecording  BY <1>13, CoverFrame DEF OpenRecording, Past
<1>14. CASE EndOfFile  BY <1>14, CoverFrame DEF EndOfFile, Step, Past
<1>15. CASE AfterEof  BY <1>15, CoverFrame DEF AfterEof, Step, Past
<1>16. CASE DrainEnds  BY <1>16, CoverFrame DEF DrainEnds, Step, Past
<1>17. CASE AwaitQuiet  BY <1>17, CoverFrame DEF AwaitQuiet, Step, Past
<1>18. CASE Publish  BY <1>18, CoverFrame DEF Publish, Past
<1>19. CASE Checks
  <2>1. CASE cancelRequested  BY <1>19, <2>1, CoverFrame DEF Checks, Leave, Past
  <2>2. CASE ~cancelRequested  BY <1>19, <2>2, CoverFrame DEF Checks, Step, Past
  <2> QED  BY <2>1, <2>2
<1>20. CASE Full
  <2>1. CASE finishRequested  BY <1>20, <2>1, CoverFrame DEF Full, Step, Past
  <2>2. CASE ~finishRequested  BY <1>20, <2>2, CoverFrame DEF Full, Leave, Past
  <2> QED  BY <2>1, <2>2
<1>21. CASE ProcessMessage  BY <1>21, CoverRead
<1>22. CASE SendChunk  BY <1>22, CoverSend
<1>23. CASE CloseStream  BY <1>23, CoverClose
<1>24. CASE Answer
  <2>1. PICK n \in answered + 1 .. sent : answered' = n /\ inbox' = Append(inbox, Final(n))
    BY <1>24 DEF Answer
  <2>2. Final(n) \in Messages  BY <2>1, MessageTypes DEF TypeOK
  <2> QED  BY <1>24, <2>1, <2>2, Kinds, CoverAppend DEF Answer
<1>25. CASE Finalize  BY <1>25, MessageTypes, CoverAppend DEF Finalize
<1>26. CASE Break  BY <1>26, MessageTypes, CoverAppend DEF Break
<1>27. CASE UNCHANGED vars  BY <1>27, CoverFrame DEF vars
<1> QED
  BY <1>1, <1>2, <1>3, <1>4, <1>5, <1>6, <1>7, <1>8, <1>9, <1>10, <1>11, <1>12, <1>13,
     <1>14, <1>15, <1>16, <1>17, <1>18, <1>19, <1>20, <1>21, <1>22, <1>23, <1>24, <1>25,
     <1>26, <1>27
     DEF Next, OwnerStep, ThreadStep, Over

-----------------------------------------------------------------------------
(* Theorems *)

\* No use after free and no double free, wherever the owner's deadline falls
\* between the thread's steps (takeResult, publishResult, destroy).
THEOREM LastOneDestroys == Spec => []DestroyedLast
<1>1. OwnInv => DestroyedLast
  BY DEF OwnInv, Labels, Release, DestroyedLast, OwnerLabels, ThreadLabels, Early, Late, Asking
<1> QED  BY <1>1, OwnAlways, PTL

\* Nothing leaks: when both sides are gone the session has been destroyed, the
\* recording closed exactly once and no result left behind, also when the thread
\* failed before it took the descriptor over (openRecording, destroy).
THEOREM NothingLeaks == Spec => []Settled
<1>1. OwnInv => Settled
  <2> SUFFICES ASSUME OwnInv PROVE Settled  OBVIOUS
  <2>1. Unopened \/ Opened \/ Closed
    BY DEF OwnInv, Labels, Descriptor, ThreadLabels, Early, Late
  <2>2. closes <= 1  BY <2>1 DEF Unopened, Opened, Closed
  <2>3. opc = "done" /\ wpc = "done" => frees = 1 /\ result = "none"
    BY DEF OwnInv, Release, Asking
  <2>4. opc = "done" /\ wpc = "done" => closes = 1
    BY <2>3 DEF OwnInv, Descriptor, Closed
  <2> QED  BY <2>2, <2>3, <2>4 DEF Settled
<1> QED  BY <1>1, OwnAlways, PTL

\* A transcript the owner is handed as a success covers every chunk that was
\* streamed: Metadata can only follow the last segment, and no chunk is streamed
\* after CloseStream (processMessage, finalize).
THEOREM WholeStreamTranscribed == Spec => []TranscriptCoversStream
<1>1. TypeOK /\ CoverInv => TranscriptCoversStream
  BY DEF CoverInv, LastWords, LastSegment, Successes, TranscriptCoversStream
<1> QED  BY <1>1, StreamTypeCorrect, CoverInit, CoverNext, PTL DEF Spec
=============================================================================
