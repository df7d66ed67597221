------------------------ MODULE HostAdmissionProofs ------------------------
(***************************************************************************)
(* Proofs about the admission word of HostSession: it is never leaked, and *)
(* it really serialises the starts and the settings changes. Neither is    *)
(* inductive alone: a queued start must be known to belong to a client that*)
(* still waits for it, and only for it, and the host's takeover must be    *)
(* known never to hit a plain admission. Then about the restart word: a    *)
(* reservation is never leaked and a restart serves its own generation.    *)
(***************************************************************************)
EXTENDS HostSessionProofs

-----------------------------------------------------------------------------
(* The inductive invariant *)

\* A command whose sender waits for a reply.
Asks(cmd) == cmd.op \in {"Toggle", "Settings"}
Plain(cmd) == cmd.op = "Settings" \/ (cmd.op = "Toggle" /\ cmd.state = "Idle")

\* A client waits for exactly one command, queued or being served.
Waiting ==
  /\ \A i \in 1..Len(queue) :
       Asks(queue[i]) => queue[i].from \in Clients /\ pc[queue[i].from] = "await"
  /\ \A i, j \in 1..Len(queue) :
       Asks(queue[i]) /\ Asks(queue[j]) /\ i # j => queue[i].from # queue[j].from
  /\ job.why = "toggle" =>
       /\ job.from \in Clients
       /\ pc[job.from] = "await"
       /\ \A i \in 1..Len(queue) : Asks(queue[i]) => queue[i].from # job.from
  /\ hpc = "exited" => \A i \in 1..Len(queue) : ~Asks(queue[i])

\* A client about to send a start or a settings change holds a plain admission.
Sending ==
  \A c \in Clients :
    \/ pc[c] \in {"recheck", "send"} /\ expected[c].state = "Idle"
    \/ pc[c] = "sendSettings"
    => admitted = Admission(c, FALSE)

\* What the host thread knows of the admission word when it restarts.
Taking ==
  /\ hpc = "takeover" => owner.kind # "plain"
  /\ hpc = "restartIdle" => admitted = Admission(Host, FALSE)

AdmissionInv ==
  TypeOK /\ JobShape /\ AdmissionHeld /\ OneMutation /\ Waiting /\ Sending /\ Taking

USE HostAssumption DEF vars, shared, hostVars, clientVars, history

-----------------------------------------------------------------------------
(* The queue *)

\* What a queue is after a command was sent.
LEMMA Appended ==
  ASSUME NEW q \in Seq(Commands), NEW m
  PROVE  /\ Len(Append(q, m)) = Len(q) + 1
         /\ Append(q, m)[Len(q) + 1] = m
         /\ \A i \in 1..Len(q) : Append(q, m)[i] = q[i]
         /\ \A i \in 1..Len(q) + 1 : i \in 1..Len(q) \/ i = Len(q) + 1
  OBVIOUS

\* What is left of it after its head was received.
LEMMA Popped ==
  ASSUME NEW q \in Seq(Commands), q # <<>>
  PROVE  /\ 1 \in 1..Len(q) /\ Head(q) = q[1]
         /\ \A i \in 1..Len(Tail(q)) :
              i + 1 \in 1..Len(q) /\ i + 1 # 1 /\ Tail(q)[i] = q[i + 1]
  OBVIOUS

\* A client that was not waiting appends a command: it waits for it if the
\* command asks for a reply, and holds the admission if the command is plain.
LEMMA SendKeeps ==
  ASSUME TypeOK, Waiting, OneMutation,
         NEW c \in Clients, pc[c] # "await",
         NEW m, queue' = Append(queue, m),
         NEW l, pc' = [pc EXCEPT ![c] = l],
         Asks(m) => m.from = c /\ l = "await" /\ hpc # "exited",
         Plain(m) => admitted = Admission(m.from, FALSE),
         UNCHANGED <<admitted, hpc, job>>
  PROVE  Waiting' /\ OneMutation'
<1>1. /\ Len(queue') = Len(queue) + 1 /\ Len(queue) \in Nat
      /\ queue'[Len(queue) + 1] = m
      /\ \A i \in 1..Len(queue) : queue'[i] = queue[i]
      /\ \A i \in 1..Len(queue') : i \in 1..Len(queue) \/ i = Len(queue) + 1
  BY Appended DEF TypeOK
<1>2. /\ \A d \in Clients : d # c => pc'[d] = pc[d]
      /\ pc'[c] = l
  BY DEF TypeOK
<1>3. \A i \in 1..Len(queue) : Asks(queue[i]) => queue[i].from # c
  BY DEF Waiting
<1>4. ASSUME NEW i \in 1..Len(queue'), Asks(queue'[i])
      PROVE  queue'[i].from \in Clients /\ pc'[queue'[i].from] = "await"
  BY <1>1, <1>2, <1>3, <1>4 DEF Waiting
<1>5. ASSUME NEW i \in 1..Len(queue'), NEW j \in 1..Len(queue'),
             Asks(queue'[i]), Asks(queue'[j]), i # j
      PROVE  queue'[i].from # queue'[j].from
  BY <1>1, <1>3, <1>5 DEF Waiting
<1>6. job.why = "toggle" => job.from # c
  BY DEF Waiting
<1>7. job.why = "toggle" =>
        /\ job.from \in Clients /\ pc'[job.from] = "await"
        /\ \A i \in 1..Len(queue') : Asks(queue'[i]) => queue'[i].from # job.from
  BY <1>1, <1>2, <1>6 DEF Waiting
<1>8. hpc = "exited" => \A i \in 1..Len(queue') : ~Asks(queue'[i])
  BY <1>1 DEF Waiting
<1>9. Waiting'
  BY <1>4, <1>5, <1>7, <1>8 DEF Waiting, Asks
<1>10. OneMutation'
  BY <1>1 DEF OneMutation, Plain
<1> QED
  BY <1>9, <1>10

\* A command that asks for nothing may be sent by anybody, at any time.
LEMMA NotifyKeeps ==
  ASSUME TypeOK, Waiting, OneMutation,
         NEW m, queue' = Append(queue, m), ~Asks(m), ~Plain(m),
         UNCHANGED <<admitted, hpc, job, pc>>
  PROVE  Waiting' /\ OneMutation'
<1>1. /\ Len(queue') = Len(queue) + 1
      /\ queue'[Len(queue) + 1] = m
      /\ \A i \in 1..Len(queue) : queue'[i] = queue[i]
      /\ \A i \in 1..Len(queue') : i \in 1..Len(queue) \/ i = Len(queue) + 1
  BY Appended DEF TypeOK
<1>2. Waiting'
  BY <1>1 DEF Waiting, Asks
<1>3. OneMutation'
  BY <1>1 DEF OneMutation, Plain
<1> QED
  BY <1>2, <1>3

\* The host thread takes a toggle off the queue and goes on to serve it.
LEMMA ServeKeeps ==
  ASSUME TypeOK, JobShape, Waiting,
         Received("Toggle"), Pop,
         job' = [why |-> "toggle", from |-> Head(queue).from],
         hpc' # "exited", UNCHANGED pc
  PROVE  Waiting'
<1>0. hpc = "recv" /\ queue # <<>> /\ queue' = Tail(queue) /\ Head(queue).op = "Toggle"
  BY DEF Received, Pop
<1>1. /\ 1 \in 1..Len(queue) /\ Head(queue) = queue[1]
      /\ \A i \in 1..Len(queue') :
           i + 1 \in 1..Len(queue) /\ i + 1 # 1 /\ queue'[i] = queue[i + 1]
  BY <1>0, Popped DEF TypeOK
<1>2. \A i \in 1..Len(queue') :
        Asks(queue'[i]) => queue'[i].from \in Clients /\ pc[queue'[i].from] = "await"
  BY <1>1 DEF Waiting
<1>3. \A i, j \in 1..Len(queue') :
        Asks(queue'[i]) /\ Asks(queue'[j]) /\ i # j => queue'[i].from # queue'[j].from
  <2> TAKE i, j \in 1..Len(queue')
  <2>1. i # j => i + 1 # j + 1
    OBVIOUS
  <2> QED
    BY <1>1, <2>1 DEF Waiting
<1>4. Asks(queue[1])
  BY <1>0, <1>1 DEF Asks
<1>5. job'.why = "toggle" /\ job'.from = queue[1].from
  BY <1>0, <1>1
<1>6. \A i \in 1..Len(queue') : Asks(queue'[i]) => queue'[i].from # queue[1].from
  BY <1>1, <1>4 DEF Waiting
<1> QED
  BY <1>0, <1>1, <1>2, <1>3, <1>4, <1>5, <1>6 DEF Waiting, Asks

-----------------------------------------------------------------------------
(* Steps that leave the admission word and the queue alone *)

\* A client that moves between positions at which it holds nothing.
LEMMA IdleMove ==
  ASSUME TypeOK, AdmissionHeld, OneMutation, Waiting, Sending, Taking,
         NEW c \in Clients, NEW l,
         pc' = [pc EXCEPT ![c] = l],
         pc[c] \notin Holding, l \notin Holding,
         \A d \in Clients : d # c => expected'[d] = expected[d],
         UNCHANGED <<admitted, queue, hpc, job, owner>>
  PROVE  AdmissionHeld' /\ OneMutation' /\ Waiting' /\ Sending' /\ Taking'
<1>1. /\ \A d \in Clients : d # c => pc'[d] = pc[d]
      /\ pc'[c] = l
  BY DEF TypeOK
<1>2. AdmissionHeld'
  BY <1>1 DEF AdmissionHeld, Holds, IsFinish
<1>3. OneMutation'
  BY DEF OneMutation
<1>4. Waiting'
  BY <1>1 DEF Waiting, Asks, Holding
<1>5. Sending'
  BY <1>1 DEF Sending, Holding
<1>6. Taking'
  BY DEF Taking
<1> QED
  BY <1>2, <1>3, <1>4, <1>5, <1>6

\* The host thread goes on with the start or the finish it is working on.
LEMMA WorkMove ==
  ASSUME TypeOK, JobShape, AdmissionHeld, OneMutation, Waiting, Sending, Taking,
         hpc \in Starts \cup Finishes,
         hpc' \in Starts => hpc \in Starts,
         hpc' \notin {"takeover", "restartIdle", "exited"},
         UNCHANGED <<admitted, queue, job, pc, expected>>
  PROVE  AdmissionHeld' /\ OneMutation' /\ Waiting' /\ Sending' /\ Taking'
<1>1. hpc # "limit" /\ hpc # "restartIdle"
  BY DEF Starts, Finishes
<1>2. AdmissionHeld'
  BY <1>1 DEF AdmissionHeld, Holds, IsFinish
<1>3. OneMutation'
  BY DEF OneMutation
<1>4. Waiting'
  BY DEF Waiting, Asks
<1>5. Sending' /\ Taking'
  BY DEF Sending, Taking
<1> QED
  BY <1>2, <1>3, <1>4, <1>5

-----------------------------------------------------------------------------
\* Every action keeps the five parts of the invariant. Actions that touch neither
\* the admission word nor the queue go through IdleMove or WorkMove; a command
\* sent through SendKeeps or NotifyKeeps; a toggle received through ServeKeeps.
LEMMA AdmissionStep ==
  ASSUME TypeOK, JobShape, AdmissionHeld, OneMutation, Waiting, Sending, Taking,
         [Next]_vars
  PROVE  AdmissionHeld' /\ OneMutation' /\ Waiting' /\ Sending' /\ Taking'
<1> USE DEF Asks, Holds, Admission, NoAdmission, IsFinish, NoJob
<1>1. ASSUME NEW c \in Clients, ToggleStatus(c)
      PROVE  AdmissionHeld' /\ OneMutation' /\ Waiting' /\ Sending' /\ Taking'
  <2>1. \E l \in ClientLabels \ Holding : pc' = [pc EXCEPT ![c] = l]
    BY <1>1 DEF ToggleStatus, Call, ClientLabels, Holding
  <2>2. /\ pc[c] \notin Holding /\ UNCHANGED <<admitted, queue, hpc, job, owner>>
        /\ \A d \in Clients : d # c => expected'[d] = expected[d]
    BY <1>1 DEF ToggleStatus, Call, Holding, TypeOK
  <2> QED
    BY <2>1, <2>2, IdleMove
<1>2. ASSUME NEW c \in Clients, CancelStarting(c)
      PROVE  AdmissionHeld' /\ OneMutation' /\ Waiting' /\ Sending' /\ Taking'
  <2>0. ~Asks(CancelCmd(snapshot.gen)) /\ ~Plain(CancelCmd(snapshot.gen))
    BY DEF CancelCmd, Command, Plain
  <2>1. Waiting' /\ OneMutation'
    BY <1>2, <2>0, SendKeeps DEF CancelStarting, Return
  <2>2. AdmissionHeld'
    BY <1>2 DEF CancelStarting, Return, CancelCmd, Command, AdmissionHeld, Holding
  <2>3. Sending'
    BY <1>2 DEF CancelStarting, Return, Sending
  <2>4. Taking'
    BY <1>2 DEF CancelStarting, Return, Taking
  <2> QED
    BY <2>1, <2>2, <2>3, <2>4
<1>3. ASSUME NEW c \in Clients, CancelTooLate(c)
      PROVE  AdmissionHeld' /\ OneMutation' /\ Waiting' /\ Sending' /\ Taking'
  <2>1. \E l \in ClientLabels \ Holding : pc' = [pc EXCEPT ![c] = l]
    BY <1>3 DEF CancelTooLate, Return, ClientLabels, Holding
  <2>2. /\ pc[c] \notin Holding /\ UNCHANGED <<admitted, queue, hpc, job, owner>>
        /\ \A d \in Clients : d # c => expected'[d] = expected[d]
    BY <1>3 DEF CancelTooLate, Return, Holding, TypeOK
  <2> QED
    BY <2>1, <2>2, IdleMove
<1>4. ASSUME NEW c \in Clients, Admit(c)
      PROVE  AdmissionHeld' /\ OneMutation' /\ Waiting' /\ Sending' /\ Taking'
  <2>1. AdmissionHeld'
    BY <1>4 DEF Admit, Goto, AdmissionHeld, Holding, TypeOK
  <2>2. OneMutation'
    BY <1>4 DEF Admit, Goto, OneMutation
  <2>3. Waiting'
    BY <1>4 DEF Admit, Goto, Waiting
  <2>4. Sending'
    BY <1>4 DEF Admit, Goto, Sending
  <2>5. Taking'
    BY <1>4 DEF Admit, Goto, Taking
  <2> QED
    BY <2>1, <2>2, <2>3, <2>4, <2>5
<1>5. ASSUME NEW c \in Clients, AdmitRefused(c)
      PROVE  AdmissionHeld' /\ OneMutation' /\ Waiting' /\ Sending' /\ Taking'
  <2>1. \E l \in ClientLabels \ Holding : pc' = [pc EXCEPT ![c] = l]
    BY <1>5 DEF AdmitRefused, Goto, Return, ClientLabels, Holding
  <2>2. /\ pc[c] \notin Holding /\ UNCHANGED <<admitted, queue, hpc, job, owner>>
        /\ \A d \in Clients : d # c => expected'[d] = expected[d]
    BY <1>5 DEF AdmitRefused, Goto, Return, Holding, TypeOK
  <2> QED
    BY <2>1, <2>2, IdleMove
<1>6. ASSUME NEW c \in Clients, Recheck(c)
      PROVE  AdmissionHeld' /\ OneMutation' /\ Waiting' /\ Sending' /\ Taking'
  <2>1. AdmissionHeld'
    BY <1>6 DEF Recheck, Goto, ReleaseWith, AdmissionHeld, Holding, TypeOK
  <2>2. OneMutation'
    BY <1>6 DEF Recheck, Goto, ReleaseWith, OneMutation
  <2>3. Waiting'
    BY <1>6 DEF Recheck, Goto, ReleaseWith, Waiting, TypeOK
  <2>4. Sending'
    BY <1>6 DEF Recheck, Goto, ReleaseWith, Sending, AdmissionHeld, TypeOK
  <2>5. Taking'
    BY <1>6 DEF Recheck, Goto, ReleaseWith, Taking
  <2> QED
    BY <2>1, <2>2, <2>3, <2>4, <2>5
<1>7. ASSUME NEW c \in Clients, SendToggle(c)
      PROVE  AdmissionHeld' /\ OneMutation' /\ Waiting' /\ Sending' /\ Taking'
  <2>1. Waiting' /\ OneMutation'
    <3> DEFINE m == ToggleCmd(c, expected[c].state)
    <3>1. CASE Listening
      <4>1. m.op = "Toggle" /\ m.from = c /\ m.state = expected[c].state
        BY DEF ToggleCmd, Command
      <4>2. /\ pc[c] # "await" /\ queue' = Append(queue, m)
            /\ pc' = [pc EXCEPT ![c] = "await"]
            /\ UNCHANGED <<admitted, hpc, job>>
        BY <1>7, <3>1 DEF SendToggle, Goto
      <4> HIDE DEF m
      <4>3. Asks(m) => m.from = c /\ hpc # "exited"
        BY <3>1, <4>1 DEF Listening
      <4>4. Plain(m) => admitted = Admission(m.from, FALSE)
        BY <1>7, <4>1 DEF Plain, Sending, SendToggle
      <4> QED
        BY <4>2, <4>3, <4>4, SendKeeps
    <3>2. CASE ~Listening
      BY <1>7, <3>2 DEF SendToggle, ReleaseWith, Waiting, OneMutation, TypeOK, Listening
    <3> QED
      BY <3>1, <3>2
  <2>2. AdmissionHeld'
    BY <1>7 DEF SendToggle, Goto, ReleaseWith, Listening, ToggleCmd, Command,
        AdmissionHeld, Holding, TypeOK
  <2>3. Sending'
    BY <1>7 DEF SendToggle, Goto, ReleaseWith, Listening, ToggleCmd, Command,
        Sending, AdmissionHeld, TypeOK
  <2>4. Taking'
    BY <1>7 DEF SendToggle, Goto, ReleaseWith, Listening, Taking
  <2> QED
    BY <2>1, <2>2, <2>3, <2>4
<1>8. ASSUME NEW c \in Clients, AwaitFails(c)
      PROVE  AdmissionHeld' /\ OneMutation' /\ Waiting' /\ Sending' /\ Taking'
  <2>1. AdmissionHeld'
    BY <1>8 DEF AwaitFails, ReleaseWith, Listening, AdmissionHeld, Holding
  <2>2. OneMutation'
    BY <1>8 DEF AwaitFails, ReleaseWith, Listening, OneMutation
  <2>3. Waiting'
    BY <1>8 DEF AwaitFails, ReleaseWith, Listening, Waiting, TypeOK, JobShape,
        Resting
  <2>4. Sending'
    BY <1>8 DEF AwaitFails, ReleaseWith, Listening, Sending
  <2>5. Taking'
    BY <1>8 DEF AwaitFails, ReleaseWith, Listening, Taking
  <2> QED
    BY <2>1, <2>2, <2>3, <2>4, <2>5
<1>9. ASSUME NEW c \in Clients, Release(c)
      PROVE  AdmissionHeld' /\ OneMutation' /\ Waiting' /\ Sending' /\ Taking'
  <2>1. AdmissionHeld'
    BY <1>9 DEF Release, Return, Holds, AdmissionHeld
  <2>2. OneMutation'
    BY <1>9 DEF Release, Return, Holds, OneMutation, Starts, Waiting, Sending,
        AdmissionHeld, Holding, Taking, TypeOK, JobShape, Resting
  <2>3. Waiting'
    BY <1>9 DEF Release, Return, Holds, Waiting
  <2>4. Sending'
    BY <1>9 DEF Release, Return, Holds, Sending
  <2>5. Taking'
    BY <1>9 DEF Release, Return, Holds, Taking
  <2> QED
    BY <2>1, <2>2, <2>3, <2>4, <2>5
<1>10. ASSUME NEW c \in Clients, Reserve(c)
      PROVE  AdmissionHeld' /\ OneMutation' /\ Waiting' /\ Sending' /\ Taking'
  <2>1. \E l \in ClientLabels \ Holding : pc' = [pc EXCEPT ![c] = l]
    BY <1>10 DEF Reserve, Goto, Return, ClientLabels, Holding
  <2>2. /\ pc[c] \notin Holding /\ UNCHANGED <<admitted, queue, hpc, job, owner>>
        /\ \A d \in Clients : d # c => expected'[d] = expected[d]
    BY <1>10 DEF Reserve, Goto, Return, Holding, TypeOK
  <2> QED
    BY <2>1, <2>2, IdleMove
<1>11. ASSUME NEW c \in Clients, Inspect(c)
      PROVE  AdmissionHeld' /\ OneMutation' /\ Waiting' /\ Sending' /\ Taking'
  <2>1. \E l \in ClientLabels \ Holding : pc' = [pc EXCEPT ![c] = l]
    BY <1>11 DEF Inspect, Goto, ClientLabels, Holding
  <2>2. /\ pc[c] \notin Holding /\ UNCHANGED <<admitted, queue, hpc, job, owner>>
        /\ \A d \in Clients : d # c => expected'[d] = expected[d]
    BY <1>11 DEF Inspect, Goto, Holding, TypeOK
  <2> QED
    BY <2>1, <2>2, IdleMove
<1>12. ASSUME NEW c \in Clients, InspectOwner(c)
      PROVE  AdmissionHeld' /\ OneMutation' /\ Waiting' /\ Sending' /\ Taking'
  <2>1. \E l \in ClientLabels \ Holding : pc' = [pc EXCEPT ![c] = l]
    BY <1>12 DEF InspectOwner, Goto, ClientLabels, Holding
  <2>2. /\ pc[c] \notin Holding /\ UNCHANGED <<admitted, queue, hpc, job, owner>>
        /\ \A d \in Clients : d # c => expected'[d] = expected[d]
    BY <1>12 DEF InspectOwner, Goto, Holding, TypeOK
  <2> QED
    BY <2>1, <2>2, IdleMove
<1>13. ASSUME NEW c \in Clients, Unreserve(c)
      PROVE  AdmissionHeld' /\ OneMutation' /\ Waiting' /\ Sending' /\ Taking'
  <2>1. \E l \in ClientLabels \ Holding : pc' = [pc EXCEPT ![c] = l]
    BY <1>13 DEF Unreserve, Goto, Return, ClientLabels, Holding
  <2>2. /\ pc[c] \notin Holding /\ UNCHANGED <<admitted, queue, hpc, job, owner>>
        /\ \A d \in Clients : d # c => expected'[d] = expected[d]
    BY <1>13 DEF Unreserve, Goto, Return, Holding, TypeOK
  <2> QED
    BY <2>1, <2>2, IdleMove
<1>14. ASSUME NEW c \in Clients, Promote(c)
      PROVE  AdmissionHeld' /\ OneMutation' /\ Waiting' /\ Sending' /\ Taking'
  <2>1. \E l \in ClientLabels \ Holding : pc' = [pc EXCEPT ![c] = l]
    BY <1>14 DEF Promote, Goto, ClientLabels, Holding
  <2>2. /\ pc[c] \notin Holding /\ UNCHANGED <<admitted, queue, hpc, job, owner>>
        /\ \A d \in Clients : d # c => expected'[d] = expected[d]
    BY <1>14 DEF Promote, Goto, Holding, TypeOK
  <2> QED
    BY <2>1, <2>2, IdleMove
<1>15. ASSUME NEW c \in Clients, Wake(c)
      PROVE  AdmissionHeld' /\ OneMutation' /\ Waiting' /\ Sending' /\ Taking'
  <2>1. Waiting' /\ OneMutation'
    <3> DEFINE m == ReadyCmd
    <3>1. CASE Listening
      <4>1. ~Asks(m) /\ ~Plain(m)
        BY DEF ReadyCmd, Command, Plain
      <4>2. /\ pc[c] # "await" /\ queue' = Append(queue, m)
            /\ pc' = [pc EXCEPT ![c] = "idle"]
            /\ UNCHANGED <<admitted, hpc, job>>
        BY <1>15, <3>1 DEF Wake, Return
      <4> QED
        BY <4>1, <4>2, SendKeeps
    <3>2. CASE ~Listening
      <4>1. /\ UNCHANGED <<queue, admitted, hpc, job>>
            /\ pc' = [pc EXCEPT ![c] = "idle"] /\ pc[c] = "wake"
        BY <1>15, <3>2 DEF Wake, Return
      <4>2. Waiting'
        BY <4>1 DEF Waiting, TypeOK
      <4>3. OneMutation'
        BY <4>1 DEF OneMutation
      <4> QED
        BY <4>2, <4>3
    <3> QED
      BY <3>1, <3>2
  <2>2. AdmissionHeld'
    BY <1>15 DEF Wake, Return, Listening, ReadyCmd, Command, AdmissionHeld,
        Holding, TypeOK
  <2>3. Sending'
    BY <1>15 DEF Wake, Return, Listening, ReadyCmd, Command, Sending,
        AdmissionHeld, TypeOK
  <2>4. Taking'
    BY <1>15 DEF Wake, Return, Listening, Taking
  <2> QED
    BY <2>1, <2>2, <2>3, <2>4
<1>16. ASSUME NEW c \in Clients, SettingsStatus(c)
      PROVE  AdmissionHeld' /\ OneMutation' /\ Waiting' /\ Sending' /\ Taking'
  <2>1. \E l \in ClientLabels \ Holding : pc' = [pc EXCEPT ![c] = l]
    BY <1>16 DEF SettingsStatus, Call, Goto, Return, ClientLabels, Holding
  <2>2. /\ pc[c] \notin Holding /\ UNCHANGED <<admitted, queue, hpc, job, owner>>
        /\ \A d \in Clients : d # c => expected'[d] = expected[d]
    BY <1>16 DEF SettingsStatus, Call, Goto, Return, Holding, TypeOK
  <2> QED
    BY <2>1, <2>2, IdleMove
<1>17. ASSUME NEW c \in Clients, AdmitSettings(c)
      PROVE  AdmissionHeld' /\ OneMutation' /\ Waiting' /\ Sending' /\ Taking'
  <2>1. AdmissionHeld'
    BY <1>17 DEF AdmitSettings, Goto, Return, AdmissionHeld, Holding, TypeOK
  <2>2. OneMutation'
    BY <1>17 DEF AdmitSettings, Goto, Return, OneMutation
  <2>3. Waiting'
    BY <1>17 DEF AdmitSettings, Goto, Return, Waiting, TypeOK
  <2>4. Sending'
    BY <1>17 DEF AdmitSettings, Goto, Return, Sending, AdmissionHeld, TypeOK
  <2>5. Taking'
    BY <1>17 DEF AdmitSettings, Goto, Return, Taking
  <2> QED
    BY <2>1, <2>2, <2>3, <2>4, <2>5
<1>18. ASSUME NEW c \in Clients, SendSettings(c)
      PROVE  AdmissionHeld' /\ OneMutation' /\ Waiting' /\ Sending' /\ Taking'
  <2>1. Waiting' /\ OneMutation'
    <3> DEFINE m == SettingsCmd(c)
    <3>1. CASE Listening
      <4>1. m.op = "Settings" /\ m.from = c
        BY DEF SettingsCmd, Command
      <4>2. /\ pc[c] # "await" /\ queue' = Append(queue, m)
            /\ pc' = [pc EXCEPT ![c] = "await"]
            /\ UNCHANGED <<admitted, hpc, job>>
        BY <1>18, <3>1 DEF SendSettings, Goto
      <4> HIDE DEF m
      <4>3. Asks(m) => m.from = c /\ hpc # "exited"
        BY <3>1, <4>1 DEF Listening
      <4>4. Plain(m) => admitted = Admission(m.from, FALSE)
        BY <1>18, <4>1 DEF Plain, Sending, SendSettings
      <4> QED
        BY <4>2, <4>3, <4>4, SendKeeps
    <3>2. CASE ~Listening
      BY <1>18, <3>2 DEF SendSettings, ReleaseWith, Waiting, OneMutation, TypeOK, Listening
    <3> QED
      BY <3>1, <3>2
  <2>2. AdmissionHeld'
    BY <1>18 DEF SendSettings, Goto, ReleaseWith, Listening, SettingsCmd, Command,
        AdmissionHeld, Holding, TypeOK
  <2>3. Sending'
    BY <1>18 DEF SendSettings, Goto, ReleaseWith, Listening, SettingsCmd, Command,
        Sending, AdmissionHeld, TypeOK
  <2>4. Taking'
    BY <1>18 DEF SendSettings, Goto, ReleaseWith, Listening, Taking
  <2> QED
    BY <2>1, <2>2, <2>3, <2>4
<1>19. CASE AcceptStart
  <2>1. AdmissionHeld'
    BY <1>19 DEF AcceptStart, Received, Pop, AdmissionHeld, Holding, TypeOK,
        JobShape, Resting
  <2>2. OneMutation'
    BY <1>19 DEF AcceptStart, Received, Pop, OneMutation
  <2>3. Waiting'
    BY <1>19, ServeKeeps DEF AcceptStart
  <2>4. Sending'
    BY <1>19 DEF AcceptStart, Received, Pop, Sending
  <2>5. Taking'
    BY <1>19 DEF AcceptStart, Received, Pop, Taking
  <2> QED
    BY <2>1, <2>2, <2>3, <2>4, <2>5
<1>20. CASE AcceptStop
  <2>1. AdmissionHeld'
    BY <1>20 DEF AcceptStop, Received, Pop, Publish, AdmissionHeld, Holding,
        TypeOK, JobShape, Resting
  <2>2. OneMutation'
    BY <1>20 DEF AcceptStop, Received, Pop, Publish, OneMutation, Starts
  <2>3. Waiting'
    BY <1>20, ServeKeeps DEF AcceptStop
  <2>4. Sending'
    BY <1>20 DEF AcceptStop, Received, Pop, Publish, Sending
  <2>5. Taking'
    BY <1>20 DEF AcceptStop, Received, Pop, Publish, Taking
  <2> QED
    BY <2>1, <2>2, <2>3, <2>4, <2>5
<1>21. CASE RejectToggle
  <2>1. AdmissionHeld'
    BY <1>21 DEF RejectToggle, ReleaseWith, Received, Pop, AdmissionHeld, Holding
  <2>2. OneMutation'
    BY <1>21 DEF RejectToggle, ReleaseWith, Received, Pop, OneMutation, Starts
  <2>3. Waiting'
    BY <1>21 DEF RejectToggle, ReleaseWith, Received, Pop, Waiting
  <2>4. Sending'
    BY <1>21 DEF RejectToggle, ReleaseWith, Received, Pop, Sending
  <2>5. Taking'
    BY <1>21 DEF RejectToggle, ReleaseWith, Received, Pop, Taking
  <2> QED
    BY <2>1, <2>2, <2>3, <2>4, <2>5
<1>22. CASE ReceiveSettings
  <2>1. AdmissionHeld'
    BY <1>22 DEF ReceiveSettings, ReleaseWith, Received, Pop, AdmissionHeld,
        Holding, TypeOK
  <2>2. OneMutation'
    BY <1>22 DEF ReceiveSettings, ReleaseWith, Received, Pop, OneMutation, Starts
  <2>3. Waiting'
    BY <1>22 DEF ReceiveSettings, ReleaseWith, Received, Pop, Waiting, TypeOK,
        JobShape, Resting
  <2>4. Sending'
    BY <1>22 DEF ReceiveSettings, ReleaseWith, Received, Pop, Sending,
        AdmissionHeld, TypeOK
  <2>5. Taking'
    BY <1>22 DEF ReceiveSettings, ReleaseWith, Received, Pop, Taking
  <2> QED
    BY <2>1, <2>2, <2>3, <2>4, <2>5
<1>23. CASE ReceiveCancel
  <2>1. AdmissionHeld'
    BY <1>23 DEF ReceiveCancel, Received, Pop, Arm, AdmissionHeld
  <2>2. OneMutation'
    BY <1>23 DEF ReceiveCancel, Received, Pop, Arm, OneMutation, Starts
  <2>3. Waiting'
    BY <1>23 DEF ReceiveCancel, Received, Pop, Arm, Waiting
  <2>4. Sending'
    BY <1>23 DEF ReceiveCancel, Received, Pop, Arm, Sending
  <2>5. Taking'
    BY <1>23 DEF ReceiveCancel, Received, Pop, Arm, Taking
  <2> QED
    BY <2>1, <2>2, <2>3, <2>4, <2>5
<1>24. CASE ReceiveReady
  <2>1. AdmissionHeld'
    BY <1>24 DEF ReceiveReady, Received, Pop, AdmissionHeld
  <2>2. OneMutation'
    BY <1>24 DEF ReceiveReady, Received, Pop, OneMutation, Starts
  <2>3. Waiting'
    BY <1>24 DEF ReceiveReady, Received, Pop, Waiting
  <2>4. Sending'
    BY <1>24 DEF ReceiveReady, Received, Pop, Sending
  <2>5. Taking'
    BY <1>24 DEF ReceiveReady, Received, Pop, Taking
  <2> QED
    BY <2>1, <2>2, <2>3, <2>4, <2>5
<1>25. CASE ReceiveShutdown
  <2>1. AdmissionHeld'
    BY <1>25 DEF ReceiveShutdown, Received, Pop, AdmissionHeld
  <2>2. OneMutation'
    BY <1>25 DEF ReceiveShutdown, Received, Pop, OneMutation, Starts
  <2>3. Waiting'
    BY <1>25 DEF ReceiveShutdown, Received, Pop, Waiting
  <2>4. Sending'
    BY <1>25 DEF ReceiveShutdown, Received, Pop, Sending
  <2>5. Taking'
    BY <1>25 DEF ReceiveShutdown, Received, Pop, Taking
  <2> QED
    BY <2>1, <2>2, <2>3, <2>4, <2>5
<1>26. CASE Exit
  <2>1. AdmissionHeld'
    BY <1>26 DEF Exit, AdmissionHeld
  <2>2. OneMutation'
    BY <1>26 DEF Exit, OneMutation, Starts
  <2>3. Waiting'
    BY <1>26 DEF Exit, Waiting
  <2>4. Sending'
    BY <1>26 DEF Exit, Sending
  <2>5. Taking'
    BY <1>26 DEF Exit, Taking
  <2> QED
    BY <2>1, <2>2, <2>3, <2>4, <2>5
<1>27. CASE Teardown
  <2>1. AdmissionHeld'
    BY <1>27 DEF Teardown, Publish, Arm, PublishTerminal, AdmissionHeld
  <2>2. OneMutation'
    BY <1>27 DEF Teardown, Publish, Arm, PublishTerminal, OneMutation, Starts
  <2>3. Waiting'
    BY <1>27 DEF Teardown, Publish, Arm, PublishTerminal, Waiting
  <2>4. Sending'
    BY <1>27 DEF Teardown, Publish, Arm, PublishTerminal, Sending
  <2>5. Taking'
    BY <1>27 DEF Teardown, Publish, Arm, PublishTerminal, Taking
  <2> QED
    BY <2>1, <2>2, <2>3, <2>4, <2>5
<1>28. CASE TickExpire
  <2>1. AdmissionHeld'
    BY <1>28 DEF TickExpire, Tick, AdmissionHeld
  <2>2. OneMutation'
    BY <1>28 DEF TickExpire, Tick, OneMutation, Starts
  <2>3. Waiting'
    BY <1>28 DEF TickExpire, Tick, Waiting
  <2>4. Sending'
    BY <1>28 DEF TickExpire, Tick, Sending
  <2>5. Taking'
    BY <1>28 DEF TickExpire, Tick, Taking
  <2> QED
    BY <2>1, <2>2, <2>3, <2>4, <2>5
<1>29. CASE Expire
  <2>1. AdmissionHeld'
    BY <1>29 DEF Expire, Publish, AdmissionHeld
  <2>2. OneMutation'
    BY <1>29 DEF Expire, Publish, OneMutation, Starts
  <2>3. Waiting'
    BY <1>29 DEF Expire, Publish, Waiting
  <2>4. Sending'
    BY <1>29 DEF Expire, Publish, Sending
  <2>5. Taking'
    BY <1>29 DEF Expire, Publish, Taking
  <2> QED
    BY <2>1, <2>2, <2>3, <2>4, <2>5
<1>30. CASE TickCaptureDied
  <2>1. AdmissionHeld'
    BY <1>30 DEF TickCaptureDied, Tick, AdmissionHeld
  <2>2. OneMutation'
    BY <1>30 DEF TickCaptureDied, Tick, OneMutation, Starts
  <2>3. Waiting'
    BY <1>30 DEF TickCaptureDied, Tick, Waiting
  <2>4. Sending'
    BY <1>30 DEF TickCaptureDied, Tick, Sending
  <2>5. Taking'
    BY <1>30 DEF TickCaptureDied, Tick, Taking
  <2> QED
    BY <2>1, <2>2, <2>3, <2>4, <2>5
<1>31. CASE TickLimit
  <2>1. AdmissionHeld'
    BY <1>31 DEF TickLimit, Tick, AdmissionHeld
  <2>2. OneMutation'
    BY <1>31 DEF TickLimit, Tick, OneMutation, Starts
  <2>3. Waiting'
    BY <1>31 DEF TickLimit, Tick, Waiting
  <2>4. Sending'
    BY <1>31 DEF TickLimit, Tick, Sending
  <2>5. Taking'
    BY <1>31 DEF TickLimit, Tick, Taking
  <2> QED
    BY <2>1, <2>2, <2>3, <2>4, <2>5
<1>32. CASE LimitStop
  <2>1. AdmissionHeld'
    BY <1>32 DEF LimitStop, Publish, AdmissionHeld, Holding, TypeOK, JobShape,
        Resting
  <2>2. OneMutation'
    BY <1>32 DEF LimitStop, Publish, OneMutation, Starts
  <2>3. Waiting'
    BY <1>32 DEF LimitStop, Publish, Waiting
  <2>4. Sending'
    BY <1>32 DEF LimitStop, Publish, Sending
  <2>5. Taking'
    BY <1>32 DEF LimitStop, Publish, Taking
  <2> QED
    BY <2>1, <2>2, <2>3, <2>4, <2>5
<1>33. CASE LimitRelease
  <2>1. AdmissionHeld'
    BY <1>33 DEF LimitRelease, AdmissionHeld, Holding, Admissions, TypeOK,
        JobShape, Resting
  <2>2. OneMutation'
    BY <1>33 DEF LimitRelease, OneMutation, Starts
  <2>3. Waiting'
    BY <1>33 DEF LimitRelease, Waiting
  <2>4. Sending'
    BY <1>33 DEF LimitRelease, Sending
  <2>5. Taking'
    BY <1>33 DEF LimitRelease, Taking
  <2> QED
    BY <2>1, <2>2, <2>3, <2>4, <2>5
<1>34. CASE TickIdle
  <2>1. AdmissionHeld'
    BY <1>34 DEF TickIdle, Tick, AdmissionHeld
  <2>2. OneMutation'
    BY <1>34 DEF TickIdle, Tick, OneMutation, Starts
  <2>3. Waiting'
    BY <1>34 DEF TickIdle, Tick, Waiting
  <2>4. Sending'
    BY <1>34 DEF TickIdle, Tick, Sending
  <2>5. Taking'
    BY <1>34 DEF TickIdle, Tick, Taking
  <2> QED
    BY <2>1, <2>2, <2>3, <2>4, <2>5
<1>35. CASE TailDropStale
  <2>1. AdmissionHeld'
    BY <1>35 DEF TailDropStale, RestartDue, AdmissionHeld
  <2>2. OneMutation'
    BY <1>35 DEF TailDropStale, RestartDue, OneMutation, Starts
  <2>3. Waiting'
    BY <1>35 DEF TailDropStale, RestartDue, Waiting
  <2>4. Sending'
    BY <1>35 DEF TailDropStale, RestartDue, Sending
  <2>5. Taking'
    BY <1>35 DEF TailDropStale, RestartDue, Taking
  <2> QED
    BY <2>1, <2>2, <2>3, <2>4, <2>5
<1>36. CASE TailLoadOwner
  <2>1. AdmissionHeld'
    BY <1>36 DEF TailLoadOwner, RestartDue, AdmissionHeld
  <2>2. OneMutation'
    BY <1>36 DEF TailLoadOwner, RestartDue, OneMutation, Starts
  <2>3. Waiting'
    BY <1>36 DEF TailLoadOwner, RestartDue, Waiting
  <2>4. Sending'
    BY <1>36 DEF TailLoadOwner, RestartDue, Sending
  <2>5. Taking'
    BY <1>36 DEF TailLoadOwner, RestartDue, Taking
  <2> QED
    BY <2>1, <2>2, <2>3, <2>4, <2>5
<1>37. CASE TailContinue
  <2>1. AdmissionHeld'
    BY <1>37 DEF TailContinue, RestartDue, AdmissionHeld
  <2>2. OneMutation'
    BY <1>37 DEF TailContinue, RestartDue, OneMutation, Starts
  <2>3. Waiting'
    BY <1>37 DEF TailContinue, RestartDue, Waiting
  <2>4. Sending'
    BY <1>37 DEF TailContinue, RestartDue, Sending
  <2>5. Taking'
    BY <1>37 DEF TailContinue, RestartDue, Taking
  <2> QED
    BY <2>1, <2>2, <2>3, <2>4, <2>5
<1>38. CASE Takeover
  <2>1. AdmissionHeld'
    BY <1>38 DEF Takeover, AdmissionHeld
  <2>2. OneMutation'
    BY <1>38 DEF Takeover, OneMutation, Starts, Waiting, Sending, AdmissionHeld,
        Holding, Taking, TypeOK, JobShape, Resting
  <2>3. Waiting'
    BY <1>38 DEF Takeover, Waiting
  <2>4. Sending'
    BY <1>38 DEF Takeover, Sending, AdmissionHeld, Holding, Taking, TypeOK,
        JobShape, Resting
  <2>5. Taking'
    BY <1>38 DEF Takeover, Taking
  <2> QED
    BY <2>1, <2>2, <2>3, <2>4, <2>5
<1>39. CASE RestartIdle
  <2>1. AdmissionHeld'
    BY <1>39 DEF RestartIdle, Publish, AdmissionHeld, Holding, TypeOK, JobShape,
        Resting
  <2>2. OneMutation'
    BY <1>39 DEF RestartIdle, Publish, OneMutation, Starts, Waiting, Sending,
        AdmissionHeld, Holding, Taking, TypeOK, JobShape, Resting
  <2>3. Waiting'
    BY <1>39 DEF RestartIdle, Publish, Waiting
  <2>4. Sending'
    BY <1>39 DEF RestartIdle, Publish, Sending
  <2>5. Taking'
    BY <1>39 DEF RestartIdle, Publish, Taking
  <2> QED
    BY <2>1, <2>2, <2>3, <2>4, <2>5
<1>40. CASE RestartClear
  <2>1. AdmissionHeld'
    BY <1>40 DEF RestartClear, AdmissionHeld
  <2>2. OneMutation'
    BY <1>40 DEF RestartClear, OneMutation, Starts
  <2>3. Waiting'
    BY <1>40 DEF RestartClear, Waiting
  <2>4. Sending'
    BY <1>40 DEF RestartClear, Sending
  <2>5. Taking'
    BY <1>40 DEF RestartClear, Taking
  <2> QED
    BY <2>1, <2>2, <2>3, <2>4, <2>5
<1>41. CASE RestartRelease
  <2>1. AdmissionHeld'
    BY <1>41 DEF RestartRelease, AdmissionHeld, Holding, Admissions, TypeOK,
        JobShape, Resting
  <2>2. OneMutation'
    BY <1>41 DEF RestartRelease, OneMutation, Starts, Waiting, Sending,
        AdmissionHeld, Holding, Taking, Admissions, TypeOK, JobShape, Resting
  <2>3. Waiting'
    BY <1>41 DEF RestartRelease, Waiting
  <2>4. Sending'
    BY <1>41 DEF RestartRelease, Sending
  <2>5. Taking'
    BY <1>41 DEF RestartRelease, Taking
  <2> QED
    BY <2>1, <2>2, <2>3, <2>4, <2>5
<1>42. CASE PreflightOk
  BY <1>42, WorkMove DEF PreflightOk, Starts, Finishes
<1>43. CASE PreflightFails
  BY <1>43, WorkMove DEF PreflightFails, Starts, Finishes
<1>44. CASE WorkerStarts
  BY <1>44, WorkMove DEF WorkerStarts, Starts, Finishes
<1>45. CASE WorkerFails
  BY <1>45, WorkMove DEF WorkerFails, Starts, Finishes
<1>46. CASE StartSucceeds
  BY <1>46, WorkMove DEF StartSucceeds, Publish, AfterJob, JobShape, Starts,
      Finishes
<1>47. CASE StartFails
  BY <1>47, WorkMove DEF StartFails, Starts, Finishes
<1>48. CASE StartPublish
  BY <1>48, WorkMove DEF StartPublish, Publish, Arm, PublishTerminal, AfterJob,
      JobShape, Starts, Finishes
<1>49. CASE StopSucceeds
  BY <1>49, WorkMove DEF StopSucceeds, Starts, Finishes
<1>50. CASE StopFails
  BY <1>50, WorkMove DEF StopFails, Outcome, Starts, Finishes
<1>51. CASE WorkerErrs
  BY <1>51, WorkMove DEF WorkerErrs, Outcome, Starts, Finishes
<1>52. CASE NoSpeech
  BY <1>52, WorkMove DEF NoSpeech, Outcome, Starts, Finishes
<1>53. CASE Transcript
  BY <1>53, WorkMove DEF Transcript, Starts, Finishes
<1>54. CASE Deliver
  BY <1>54, WorkMove DEF Deliver, Outcome, Starts, Finishes
<1>55. CASE DeliveryFails
  BY <1>55, WorkMove DEF DeliveryFails, Outcome, Starts, Finishes
<1>56. CASE FinishPublish
  BY <1>56, WorkMove DEF FinishPublish, Publish, Arm, PublishTerminal, AfterJob,
      JobShape, Starts, Finishes
<1>57. CASE Reply
  <2>1. AdmissionHeld'
    BY <1>57 DEF Reply, ReleaseWith, AdmissionHeld, Holding, TypeOK, JobShape,
        Resting
  <2>2. OneMutation'
    BY <1>57 DEF Reply, ReleaseWith, OneMutation, Starts
  <2>3. Waiting'
    BY <1>57 DEF Reply, ReleaseWith, Waiting, TypeOK, JobShape, Resting
  <2>4. Sending'
    BY <1>57 DEF Reply, ReleaseWith, Sending
  <2>5. Taking'
    BY <1>57 DEF Reply, ReleaseWith, Taking
  <2> QED
    BY <2>1, <2>2, <2>3, <2>4, <2>5
<1>58. CASE ShutdownFlag
  <2>1. AdmissionHeld'
    BY <1>58 DEF ShutdownFlag, AdmissionHeld
  <2>2. OneMutation'
    BY <1>58 DEF ShutdownFlag, OneMutation
  <2>3. Waiting'
    BY <1>58 DEF ShutdownFlag, Waiting
  <2>4. Sending'
    BY <1>58 DEF ShutdownFlag, Sending
  <2>5. Taking'
    BY <1>58 DEF ShutdownFlag, Taking
  <2> QED
    BY <2>1, <2>2, <2>3, <2>4, <2>5
<1>59. CASE ShutdownSend
  <2>0. ~Asks(ShutdownCmd) /\ ~Plain(ShutdownCmd)
    BY DEF ShutdownCmd, Command, Plain
  <2>1. Waiting' /\ OneMutation'
    BY <1>59, <2>0, NotifyKeeps DEF ShutdownSend
  <2>2. AdmissionHeld'
    BY <1>59 DEF ShutdownSend, AdmissionHeld
  <2>3. Sending'
    BY <1>59 DEF ShutdownSend, Sending
  <2>4. Taking'
    BY <1>59 DEF ShutdownSend, Taking
  <2> QED
    BY <2>1, <2>2, <2>3, <2>4
<1>60. CASE TerminalElapses \/ LimitElapses \/ Halted \/ UNCHANGED vars
  BY <1>60 DEF TerminalElapses, LimitElapses, Halted, AdmissionHeld, OneMutation,
     Waiting, Sending, Taking
<1> QED
  BY <1>1, <1>2, <1>3, <1>4, <1>5, <1>6, <1>7, <1>8, <1>9, <1>10, <1>11, <1>12,
      <1>13, <1>14, <1>15, <1>16, <1>17, <1>18, <1>19, <1>20, <1>21, <1>22, <1>23,
      <1>24, <1>25, <1>26, <1>27, <1>28, <1>29, <1>30, <1>31, <1>32, <1>33, <1>34,
      <1>35, <1>36, <1>37, <1>38, <1>39, <1>40, <1>41, <1>42, <1>43, <1>44, <1>45,
      <1>46, <1>47, <1>48, <1>49, <1>50, <1>51, <1>52, <1>53, <1>54, <1>55, <1>56,
      <1>57, <1>58, <1>59, <1>60
     DEF Next, ClientStep, HostStep

\* Nothing is admitted, queued or awaited at first.
LEMMA AdmissionInit == Init => AdmissionInv
<1> SUFFICES ASSUME Init PROVE AdmissionInv
  OBVIOUS
<1>1. TypeOK /\ JobShape
  BY TypeInit
<1>2. AdmissionHeld /\ Sending /\ Taking
  BY DEF Init, AdmissionHeld, Holds, NoAdmission, Sending, Taking
<1>3. OneMutation /\ Waiting
  BY DEF Init, OneMutation, Waiting, Starts
<1> QED
  BY <1>1, <1>2, <1>3 DEF AdmissionInv

\* The admission invariant holds throughout.
LEMMA AdmissionInvariant == Spec => []AdmissionInv
<1>1. AdmissionInv /\ [Next]_vars => AdmissionInv'
  BY TypeStep, AdmissionStep DEF AdmissionInv
<1> QED
  BY AdmissionInit, <1>1, PTL DEF Spec

\* The admission word is never leaked: whoever it names is between taking it and
\* giving it back, so Busy always has an end: the call, restart or automatic stop
\* that holds it.
THEOREM AdmissionNotLeaked == Spec => []AdmissionHeld
<1>1. AdmissionInv => AdmissionHeld
  BY DEF AdmissionInv
<1> QED
  BY AdmissionInvariant, <1>1, PTL

\* At most one start or settings change is queued or being served, and its client
\* holds the admission: the restart takeover never overtakes it.
THEOREM MutationSerialised == Spec => []OneMutation
<1>1. AdmissionInv => OneMutation
  BY DEF AdmissionInv
<1> QED
  BY AdmissionInvariant, <1>1, PTL

-----------------------------------------------------------------------------
(* The restart word *)

\* A word that asks for a restart is touched by a client only once the host thread
\* is gone and its wake-up fails.
LEMMA ReadyFrame ==
  ASSUME [Next]_vars, ~HostStep, restart.phase = "ready", hpc # "exited"
  PROVE  restart' = restart
<1> USE DEF NoRestart, Pending
<1>1. ASSUME NEW c \in Clients, Reserve(c) \/ Unreserve(c) \/ Promote(c)
      PROVE  restart' = restart
  BY <1>1 DEF Reserve, Unreserve, Promote
<1>2. ASSUME NEW c \in Clients, Wake(c)
      PROVE  restart' = restart
  BY <1>2 DEF Wake, Listening
<1>3. ASSUME NEW c \in Clients,
             \/ ToggleStatus(c) \/ SettingsStatus(c) \/ CancelStarting(c)
             \/ CancelTooLate(c) \/ Admit(c) \/ AdmitRefused(c) \/ Recheck(c)
             \/ SendToggle(c) \/ AwaitFails(c) \/ Release(c) \/ Inspect(c)
             \/ InspectOwner(c) \/ AdmitSettings(c) \/ SendSettings(c)
      PROVE  restart' = restart
  BY <1>3 DEF ToggleStatus, SettingsStatus, CancelStarting, CancelTooLate, Admit,
      AdmitRefused, Recheck, SendToggle, AwaitFails, Release, Inspect, InspectOwner,
      AdmitSettings, SendSettings
<1>4. CASE ShutdownFlag \/ ShutdownSend \/ TerminalElapses \/ LimitElapses \/ Halted
           \/ UNCHANGED vars
  BY <1>4 DEF ShutdownFlag, ShutdownSend, TerminalElapses, LimitElapses, Halted
<1> QED
  BY <1>1, <1>2, <1>3, <1>4 DEF Next, ClientStep

\* From its takeover to the start it leads to, the host keeps the word it looked at.
LEMMA ServesStep ==
  ASSUME TypeOK, JobShape, RestartServesItsGeneration, [Next]_vars
  PROVE  RestartServesItsGeneration'
<1> USE DEF RestartServesItsGeneration
<1>1. CASE AcceptStart
  BY <1>1 DEF AcceptStart
<1>2. CASE AcceptStop
  BY <1>2 DEF AcceptStop, Received, Pop, Publish
<1>3. CASE RejectToggle
  BY <1>3 DEF RejectToggle, ReleaseWith, Received, Pop
<1>4. CASE ReceiveSettings
  BY <1>4 DEF ReceiveSettings, ReleaseWith, Received, Pop
<1>5. CASE ReceiveCancel
  BY <1>5 DEF ReceiveCancel, Received, Pop, Arm
<1>6. CASE ReceiveReady
  BY <1>6 DEF ReceiveReady, Received, Pop
<1>7. CASE ReceiveShutdown
  BY <1>7 DEF ReceiveShutdown, Received, Pop
<1>8. CASE Exit
  BY <1>8 DEF Exit
<1>9. CASE Teardown
  BY <1>9 DEF Teardown, Publish, Arm, PublishTerminal
<1>10. CASE TickExpire
  BY <1>10 DEF TickExpire, Tick
<1>11. CASE Expire
  BY <1>11 DEF Expire, Publish
<1>12. CASE TickCaptureDied
  BY <1>12 DEF TickCaptureDied, Tick
<1>13. CASE TickLimit
  BY <1>13 DEF TickLimit, Tick
<1>14. CASE LimitStop
  BY <1>14 DEF LimitStop, Publish
<1>15. CASE LimitRelease
  BY <1>15 DEF LimitRelease
<1>16. CASE TickIdle
  BY <1>16 DEF TickIdle, Tick
<1>17. CASE TailDropStale
  BY <1>17 DEF TailDropStale, RestartDue
<1>18. CASE TailLoadOwner
  <2>1. restart \in Restarts
    BY DEF TypeOK
  <2>2. restart.phase = "ready" /\ restart.gen = generation
    BY <1>18 DEF TailLoadOwner, RestartDue
  <2>3. restart = Ready(generation)
    BY <2>1, <2>2 DEF Restarts, Ready
  <2> QED
    BY <1>18, <2>3 DEF TailLoadOwner
<1>19. CASE TailContinue
  BY <1>19 DEF TailContinue, RestartDue
<1>20. CASE Takeover
  BY <1>20 DEF Takeover
<1>21. CASE RestartIdle
  BY <1>21 DEF RestartIdle, Publish
<1>22. CASE RestartClear
  BY <1>22 DEF RestartClear
<1>23. CASE RestartRelease
  BY <1>23 DEF RestartRelease
<1>24. CASE PreflightOk
  BY <1>24 DEF PreflightOk
<1>25. CASE PreflightFails
  BY <1>25 DEF PreflightFails
<1>26. CASE WorkerStarts
  BY <1>26 DEF WorkerStarts, Interrupted
<1>27. CASE WorkerFails
  BY <1>27 DEF WorkerFails
<1>28. CASE StartSucceeds
  BY <1>28 DEF StartSucceeds, Publish, AfterJob, JobShape, Starts, Finishes
<1>29. CASE StartFails
  BY <1>29 DEF StartFails, Interrupted
<1>30. CASE StartPublish
  BY <1>30 DEF StartPublish, Publish, Arm, PublishTerminal, AfterJob, JobShape,
      Starts, Finishes
<1>31. CASE StopSucceeds
  BY <1>31 DEF StopSucceeds, Publish
<1>32. CASE StopFails
  BY <1>32 DEF StopFails, Outcome
<1>33. CASE WorkerErrs
  BY <1>33 DEF WorkerErrs, Outcome
<1>34. CASE NoSpeech
  BY <1>34 DEF NoSpeech, Outcome
<1>35. CASE Transcript
  BY <1>35 DEF Transcript, Publish
<1>36. CASE Deliver
  BY <1>36 DEF Deliver, Outcome
<1>37. CASE DeliveryFails
  BY <1>37 DEF DeliveryFails, Outcome
<1>38. CASE FinishPublish
  BY <1>38 DEF FinishPublish, Publish, Arm, PublishTerminal, AfterJob, JobShape,
      Starts, Finishes
<1>39. CASE Reply
  BY <1>39 DEF Reply, ReleaseWith
<1>40. CASE ~HostStep
  <2>1. UNCHANGED <<hpc, generation, job>>
    BY <1>40, Frame DEF hostFrame
  <2>2. Ready(generation).phase = "ready"
    BY DEF Ready
  <2>3. restart = Ready(generation) /\ hpc # "exited" => restart' = restart
    BY <1>40, <2>2, ReadyFrame
  <2> QED
    BY <2>1, <2>3
<1> QED
  BY <1>1, <1>2, <1>3, <1>4, <1>5, <1>6, <1>7, <1>8, <1>9, <1>10, <1>11, <1>12,
      <1>13, <1>14, <1>15, <1>16, <1>17, <1>18, <1>19, <1>20, <1>21, <1>22, <1>23,
      <1>24, <1>25, <1>26, <1>27, <1>28, <1>29, <1>30, <1>31, <1>32, <1>33, <1>34,
      <1>35, <1>36, <1>37, <1>38, <1>39, <1>40 DEF HostStep

\* A restart serves the generation it was asked for: no session is started for a
\* request that named an earlier one.
THEOREM RestartForItsGeneration == Spec => []RestartServesItsGeneration
<1>1. Init => RestartServesItsGeneration
  BY DEF Init, RestartServesItsGeneration
<1>2. AdmissionInv /\ RestartServesItsGeneration /\ [Next]_vars
        => RestartServesItsGeneration'
  BY ServesStep DEF AdmissionInv
<1> QED
  BY AdmissionInvariant, <1>1, <1>2, PTL DEF Spec

\* Whoever decides about a restart has reserved the word, so nobody else decides,
\* and a reservation has somebody deciding about it.
Reserved ==
  /\ \A c \in Clients : pc[c] \in Reserving => restart = Pending(expected[c].gen)
  /\ \A c, d \in Clients : pc[c] \in Reserving /\ pc[d] \in Reserving => c = d
  /\ restart.phase = "pending" => \E c \in Clients : pc[c] \in Reserving

\* The words differ in their phase.
LEMMA Phases ==
  ASSUME NEW g
  PROVE  /\ NoRestart.phase = "none" /\ Pending(g).phase = "pending"
         /\ Ready(g).phase = "ready"
  BY DEF NoRestart, Pending, Ready

\* A thread that decides nothing before and after moves; the others stay, and the
\* word stays or goes between two values that are not reservations.
LEMMA ReservedMove ==
  ASSUME TypeOK, Reserved, NEW c \in Clients,
         pc[c] \notin Reserving,
         NEW l, pc' = [pc EXCEPT ![c] = l], l \notin Reserving,
         \A d \in Clients : d # c => expected'[d] = expected[d],
         \/ restart' = restart
         \/ restart.phase # "pending" /\ restart'.phase # "pending"
  PROVE  Reserved'
<1>1. /\ \A d \in Clients : d # c => pc'[d] = pc[d]
      /\ pc'[c] = l
  BY DEF TypeOK
<1>2. restart.phase # "pending" => \A d \in Clients : pc[d] \notin Reserving
  BY Phases DEF Reserved
<1>3. \A d \in Clients : pc'[d] \in Reserving <=> pc[d] \in Reserving /\ d # c
  BY <1>1
<1>4. CASE restart' = restart
  BY <1>1, <1>3, <1>4 DEF Reserved
<1>5. CASE restart.phase # "pending" /\ restart'.phase # "pending"
  BY <1>2, <1>3, <1>5 DEF Reserved
<1> QED
  BY <1>4, <1>5

\* Nobody moves and no reservation is made or dropped.
LEMMA ReservedStay ==
  ASSUME Reserved, UNCHANGED <<pc, expected>>,
         \/ restart' = restart
         \/ restart.phase # "pending" /\ restart'.phase # "pending"
  PROVE  Reserved'
<1>1. restart.phase # "pending" => \A d \in Clients : pc[d] \notin Reserving
  BY Phases DEF Reserved
<1> QED
  BY <1>1 DEF Reserved

\* The decider makes up its mind: it stays one with the word as it is, or stops
\* being one and leaves a word that is not a reservation.
LEMMA ReservedDecide ==
  ASSUME TypeOK, Reserved, NEW c \in Clients, pc[c] \in Reserving,
         NEW l, pc' = [pc EXCEPT ![c] = l],
         \A d \in Clients : d # c => expected'[d] = expected[d],
         \/ l \in Reserving /\ expected' = expected /\ restart' = restart
         \/ l \notin Reserving /\ restart'.phase # "pending"
  PROVE  Reserved'
<1>1. /\ \A d \in Clients : d # c => pc'[d] = pc[d]
      /\ pc'[c] = l
  BY DEF TypeOK
<1>2. \A d \in Clients : pc[d] \in Reserving => d = c
  BY DEF Reserved
<1>3. CASE l \in Reserving /\ expected' = expected /\ restart' = restart
  BY <1>1, <1>2, <1>3 DEF Reserved
<1>4. CASE l \notin Reserving /\ restart'.phase # "pending"
  BY <1>1, <1>2, <1>4 DEF Reserved
<1> QED
  BY <1>3, <1>4

\* The host thread moves only a client that waits for its reply, and drops only
\* words that are ready.
LEMMA ReservedStep ==
  ASSUME TypeOK, JobShape, Waiting, Reserved, [Next]_vars
  PROVE  Reserved'
<1> USE Phases
<1>1. ASSUME NEW c \in Clients, ToggleStatus(c)
      PROVE  Reserved'
  <2>1. \E l \in ClientLabels \ Reserving : pc' = [pc EXCEPT ![c] = l]
    BY <1>1 DEF ToggleStatus, Call, ClientLabels, Reserving
  <2>2. /\ pc[c] \notin Reserving
        /\ \A d \in Clients : d # c => expected'[d] = expected[d]
    BY <1>1 DEF ToggleStatus, Call, Reserving, TypeOK
  <2>3. \/ restart' = restart
        \/ restart.phase # "pending" /\ restart'.phase # "pending"
    BY <1>1 DEF ToggleStatus, Call
  <2> QED
    BY <2>1, <2>2, <2>3, ReservedMove
<1>2. ASSUME NEW c \in Clients, CancelStarting(c)
      PROVE  Reserved'
  <2>1. \E l \in ClientLabels \ Reserving : pc' = [pc EXCEPT ![c] = l]
    BY <1>2 DEF CancelStarting, Return, ClientLabels, Reserving
  <2>2. /\ pc[c] \notin Reserving
        /\ \A d \in Clients : d # c => expected'[d] = expected[d]
    BY <1>2 DEF CancelStarting, Return, Reserving, TypeOK
  <2>3. \/ restart' = restart
        \/ restart.phase # "pending" /\ restart'.phase # "pending"
    BY <1>2 DEF CancelStarting, Return
  <2> QED
    BY <2>1, <2>2, <2>3, ReservedMove
<1>3. ASSUME NEW c \in Clients, CancelTooLate(c)
      PROVE  Reserved'
  <2>1. \E l \in ClientLabels \ Reserving : pc' = [pc EXCEPT ![c] = l]
    BY <1>3 DEF CancelTooLate, Return, ClientLabels, Reserving
  <2>2. /\ pc[c] \notin Reserving
        /\ \A d \in Clients : d # c => expected'[d] = expected[d]
    BY <1>3 DEF CancelTooLate, Return, Reserving, TypeOK
  <2>3. \/ restart' = restart
        \/ restart.phase # "pending" /\ restart'.phase # "pending"
    BY <1>3 DEF CancelTooLate, Return
  <2> QED
    BY <2>1, <2>2, <2>3, ReservedMove
<1>4. ASSUME NEW c \in Clients, Admit(c)
      PROVE  Reserved'
  <2>1. \E l \in ClientLabels \ Reserving : pc' = [pc EXCEPT ![c] = l]
    BY <1>4 DEF Admit, Goto, ClientLabels, Reserving
  <2>2. /\ pc[c] \notin Reserving
        /\ \A d \in Clients : d # c => expected'[d] = expected[d]
    BY <1>4 DEF Admit, Goto, Reserving, TypeOK
  <2>3. \/ restart' = restart
        \/ restart.phase # "pending" /\ restart'.phase # "pending"
    BY <1>4 DEF Admit, Goto
  <2> QED
    BY <2>1, <2>2, <2>3, ReservedMove
<1>5. ASSUME NEW c \in Clients, AdmitRefused(c)
      PROVE  Reserved'
  <2>1. \E l \in ClientLabels \ Reserving : pc' = [pc EXCEPT ![c] = l]
    BY <1>5 DEF AdmitRefused, Goto, Return, ClientLabels, Reserving
  <2>2. /\ pc[c] \notin Reserving
        /\ \A d \in Clients : d # c => expected'[d] = expected[d]
    BY <1>5 DEF AdmitRefused, Goto, Return, Reserving, TypeOK
  <2>3. \/ restart' = restart
        \/ restart.phase # "pending" /\ restart'.phase # "pending"
    BY <1>5 DEF AdmitRefused, Goto, Return
  <2> QED
    BY <2>1, <2>2, <2>3, ReservedMove
<1>6. ASSUME NEW c \in Clients, Recheck(c)
      PROVE  Reserved'
  <2>1. \E l \in ClientLabels \ Reserving : pc' = [pc EXCEPT ![c] = l]
    BY <1>6 DEF Recheck, Goto, ReleaseWith, ClientLabels, Reserving
  <2>2. /\ pc[c] \notin Reserving
        /\ \A d \in Clients : d # c => expected'[d] = expected[d]
    BY <1>6 DEF Recheck, Goto, ReleaseWith, Reserving, TypeOK
  <2>3. \/ restart' = restart
        \/ restart.phase # "pending" /\ restart'.phase # "pending"
    BY <1>6 DEF Recheck, Goto, ReleaseWith
  <2> QED
    BY <2>1, <2>2, <2>3, ReservedMove
<1>7. ASSUME NEW c \in Clients, SendToggle(c)
      PROVE  Reserved'
  <2>1. \E l \in ClientLabels \ Reserving : pc' = [pc EXCEPT ![c] = l]
    BY <1>7 DEF SendToggle, Goto, ReleaseWith, Listening, ClientLabels, Reserving
  <2>2. /\ pc[c] \notin Reserving
        /\ \A d \in Clients : d # c => expected'[d] = expected[d]
    BY <1>7 DEF SendToggle, Goto, ReleaseWith, Listening, Reserving, TypeOK
  <2>3. \/ restart' = restart
        \/ restart.phase # "pending" /\ restart'.phase # "pending"
    BY <1>7 DEF SendToggle, Goto, ReleaseWith, Listening
  <2> QED
    BY <2>1, <2>2, <2>3, ReservedMove
<1>8. ASSUME NEW c \in Clients, AwaitFails(c)
      PROVE  Reserved'
  <2>1. \E l \in ClientLabels \ Reserving : pc' = [pc EXCEPT ![c] = l]
    BY <1>8 DEF AwaitFails, ReleaseWith, Listening, ClientLabels, Reserving
  <2>2. /\ pc[c] \notin Reserving
        /\ \A d \in Clients : d # c => expected'[d] = expected[d]
    BY <1>8 DEF AwaitFails, ReleaseWith, Listening, Reserving, TypeOK
  <2>3. \/ restart' = restart
        \/ restart.phase # "pending" /\ restart'.phase # "pending"
    BY <1>8 DEF AwaitFails, ReleaseWith, Listening
  <2> QED
    BY <2>1, <2>2, <2>3, ReservedMove
<1>9. ASSUME NEW c \in Clients, Release(c)
      PROVE  Reserved'
  <2>1. \E l \in ClientLabels \ Reserving : pc' = [pc EXCEPT ![c] = l]
    BY <1>9 DEF Release, Return, Holds, ClientLabels, Reserving
  <2>2. /\ pc[c] \notin Reserving
        /\ \A d \in Clients : d # c => expected'[d] = expected[d]
    BY <1>9 DEF Release, Return, Holds, Reserving, TypeOK
  <2>3. \/ restart' = restart
        \/ restart.phase # "pending" /\ restart'.phase # "pending"
    BY <1>9 DEF Release, Return, Holds
  <2> QED
    BY <2>1, <2>2, <2>3, ReservedMove
<1>10. ASSUME NEW c \in Clients, Reserve(c)
      PROVE  Reserved'
  <2>1. CASE restart = NoRestart
    <3>1. /\ restart' = Pending(expected[c].gen) /\ expected' = expected
          /\ pc' = [pc EXCEPT ![c] = "inspect"]
      BY <1>10, <2>1 DEF Reserve, Goto
    <3>2. \A d \in Clients : pc[d] \notin Reserving
      BY <2>1 DEF Reserved
    <3>3. \A d \in Clients : pc'[d] \in Reserving <=> d = c
      BY <3>1, <3>2 DEF TypeOK, Reserving
    <3> QED
      BY <3>1, <3>3 DEF Reserved
  <2>2. CASE restart # NoRestart
    <3>1. pc' = [pc EXCEPT ![c] = "idle"] /\ restart' = restart
      BY <1>10, <2>2 DEF Reserve, Return
    <3>2. pc[c] \notin Reserving /\ \A d \in Clients : d # c => expected'[d] = expected[d]
      BY <1>10, <2>2 DEF Reserve, Return, Reserving, TypeOK
    <3> QED
      BY <3>1, <3>2, ReservedMove DEF Reserving
  <2> QED
    BY <2>1, <2>2
<1>11. ASSUME NEW c \in Clients, Inspect(c)
      PROVE  Reserved'
  <2>1. \E l \in Reserving : pc' = [pc EXCEPT ![c] = l]
    BY <1>11 DEF Inspect, Goto, Reserving
  <2>2. pc[c] \in Reserving /\ UNCHANGED <<expected, restart>>
    BY <1>11 DEF Inspect, Goto, Reserving
  <2> QED
    BY <2>1, <2>2, ReservedDecide
<1>12. ASSUME NEW c \in Clients, InspectOwner(c)
      PROVE  Reserved'
  <2>1. \E l \in Reserving : pc' = [pc EXCEPT ![c] = l]
    BY <1>12 DEF InspectOwner, Goto, Reserving
  <2>2. pc[c] \in Reserving /\ UNCHANGED <<expected, restart>>
    BY <1>12 DEF InspectOwner, Goto, Reserving
  <2> QED
    BY <2>1, <2>2, ReservedDecide
<1>13. ASSUME NEW c \in Clients, Unreserve(c)
      PROVE  Reserved'
  <2>1. pc[c] \in Reserving
    BY <1>13 DEF Unreserve, Reserving
  <2>2. restart = Pending(expected[c].gen)
    BY <2>1 DEF Reserved
  <2>3. \E l \in ClientLabels \ Reserving : pc' = [pc EXCEPT ![c] = l]
    BY <1>13, <2>2 DEF Unreserve, Goto, Return, ClientLabels, Reserving
  <2>4. restart'.phase # "pending" /\ \A d \in Clients : d # c => expected'[d] = expected[d]
    BY <1>13, <2>2 DEF Unreserve, Goto, Return, TypeOK
  <2> QED
    BY <2>1, <2>3, <2>4, ReservedDecide
<1>14. ASSUME NEW c \in Clients, Promote(c)
      PROVE  Reserved'
  <2>1. pc[c] \in Reserving
    BY <1>14 DEF Promote, Reserving
  <2>2. restart = Pending(expected[c].gen)
    BY <2>1 DEF Reserved
  <2>3. \E l \in ClientLabels \ Reserving : pc' = [pc EXCEPT ![c] = l]
    BY <1>14, <2>2 DEF Promote, Goto, ClientLabels, Reserving
  <2>4. restart'.phase # "pending" /\ \A d \in Clients : d # c => expected'[d] = expected[d]
    BY <1>14, <2>2 DEF Promote, Goto, TypeOK
  <2> QED
    BY <2>1, <2>3, <2>4, ReservedDecide
<1>15. ASSUME NEW c \in Clients, Wake(c)
      PROVE  Reserved'
  <2>1. \E l \in ClientLabels \ Reserving : pc' = [pc EXCEPT ![c] = l]
    BY <1>15 DEF Wake, Return, Listening, ClientLabels, Reserving
  <2>2. /\ pc[c] \notin Reserving
        /\ \A d \in Clients : d # c => expected'[d] = expected[d]
    BY <1>15 DEF Wake, Return, Listening, Reserving, TypeOK
  <2>3. \/ restart' = restart
        \/ restart.phase # "pending" /\ restart'.phase # "pending"
    BY <1>15 DEF Wake, Return, Listening
  <2> QED
    BY <2>1, <2>2, <2>3, ReservedMove
<1>16. ASSUME NEW c \in Clients, SettingsStatus(c)
      PROVE  Reserved'
  <2>1. \E l \in ClientLabels \ Reserving : pc' = [pc EXCEPT ![c] = l]
    BY <1>16 DEF SettingsStatus, Call, Goto, Return, ClientLabels, Reserving
  <2>2. /\ pc[c] \notin Reserving
        /\ \A d \in Clients : d # c => expected'[d] = expected[d]
    BY <1>16 DEF SettingsStatus, Call, Goto, Return, Reserving, TypeOK
  <2>3. \/ restart' = restart
        \/ restart.phase # "pending" /\ restart'.phase # "pending"
    BY <1>16 DEF SettingsStatus, Call, Goto, Return
  <2> QED
    BY <2>1, <2>2, <2>3, ReservedMove
<1>17. ASSUME NEW c \in Clients, AdmitSettings(c)
      PROVE  Reserved'
  <2>1. \E l \in ClientLabels \ Reserving : pc' = [pc EXCEPT ![c] = l]
    BY <1>17 DEF AdmitSettings, Goto, Return, ClientLabels, Reserving
  <2>2. /\ pc[c] \notin Reserving
        /\ \A d \in Clients : d # c => expected'[d] = expected[d]
    BY <1>17 DEF AdmitSettings, Goto, Return, Reserving, TypeOK
  <2>3. \/ restart' = restart
        \/ restart.phase # "pending" /\ restart'.phase # "pending"
    BY <1>17 DEF AdmitSettings, Goto, Return
  <2> QED
    BY <2>1, <2>2, <2>3, ReservedMove
<1>18. ASSUME NEW c \in Clients, SendSettings(c)
      PROVE  Reserved'
  <2>1. \E l \in ClientLabels \ Reserving : pc' = [pc EXCEPT ![c] = l]
    BY <1>18 DEF SendSettings, Goto, ReleaseWith, Listening, ClientLabels, Reserving
  <2>2. /\ pc[c] \notin Reserving
        /\ \A d \in Clients : d # c => expected'[d] = expected[d]
    BY <1>18 DEF SendSettings, Goto, ReleaseWith, Listening, Reserving, TypeOK
  <2>3. \/ restart' = restart
        \/ restart.phase # "pending" /\ restart'.phase # "pending"
    BY <1>18 DEF SendSettings, Goto, ReleaseWith, Listening
  <2> QED
    BY <2>1, <2>2, <2>3, ReservedMove
<1>19. CASE AcceptStart
  <2>1. UNCHANGED <<pc, expected, restart>>
    BY <1>19 DEF AcceptStart
  <2> QED
    BY <2>1, ReservedStay
<1>20. CASE AcceptStop
  <2>1. UNCHANGED <<pc, expected, restart>>
    BY <1>20 DEF AcceptStop
  <2> QED
    BY <2>1, ReservedStay
<1>21. CASE RejectToggle
  <2>0. queue # <<>> /\ Head(queue) = queue[1] /\ 1 \in 1..Len(queue) /\ Asks(queue[1])
    BY <1>21, Popped DEF RejectToggle, Received, Asks, TypeOK
  <2>1. Head(queue).from \in Clients /\ pc[Head(queue).from] = "await"
    BY <2>0 DEF Waiting
  <2>2. pc' = [pc EXCEPT ![Head(queue).from] = "release"] /\ UNCHANGED <<expected, restart>>
    BY <1>21 DEF RejectToggle, ReleaseWith
  <2> QED
    BY <2>1, <2>2, ReservedMove DEF Reserving
<1>22. CASE ReceiveSettings
  <2>0. queue # <<>> /\ Head(queue) = queue[1] /\ 1 \in 1..Len(queue) /\ Asks(queue[1])
    BY <1>22, Popped DEF ReceiveSettings, Received, Asks, TypeOK
  <2>1. Head(queue).from \in Clients /\ pc[Head(queue).from] = "await"
    BY <2>0 DEF Waiting
  <2>2. pc' = [pc EXCEPT ![Head(queue).from] = "release"] /\ UNCHANGED <<expected, restart>>
    BY <1>22 DEF ReceiveSettings, ReleaseWith
  <2> QED
    BY <2>1, <2>2, ReservedMove DEF Reserving
<1>23. CASE ReceiveCancel
  <2>1. UNCHANGED <<pc, expected, restart>>
    BY <1>23 DEF ReceiveCancel
  <2> QED
    BY <2>1, ReservedStay
<1>24. CASE ReceiveReady
  <2>1. UNCHANGED <<pc, expected, restart>>
    BY <1>24 DEF ReceiveReady
  <2> QED
    BY <2>1, ReservedStay
<1>25. CASE ReceiveShutdown
  <2>1. UNCHANGED <<pc, expected, restart>>
    BY <1>25 DEF ReceiveShutdown
  <2> QED
    BY <2>1, ReservedStay
<1>26. CASE Exit
  <2>1. UNCHANGED <<pc, expected, restart>>
    BY <1>26 DEF Exit
  <2> QED
    BY <2>1, ReservedStay
<1>27. CASE Teardown
  <2>1. UNCHANGED <<pc, expected, restart>>
    BY <1>27 DEF Teardown
  <2> QED
    BY <2>1, ReservedStay
<1>28. CASE TickExpire
  <2>1. UNCHANGED <<pc, expected, restart>>
    BY <1>28 DEF TickExpire
  <2> QED
    BY <2>1, ReservedStay
<1>29. CASE Expire
  <2>1. UNCHANGED <<pc, expected, restart>>
    BY <1>29 DEF Expire
  <2> QED
    BY <2>1, ReservedStay
<1>30. CASE TickCaptureDied
  <2>1. UNCHANGED <<pc, expected, restart>>
    BY <1>30 DEF TickCaptureDied
  <2> QED
    BY <2>1, ReservedStay
<1>31. CASE TickLimit
  <2>1. UNCHANGED <<pc, expected, restart>>
    BY <1>31 DEF TickLimit
  <2> QED
    BY <2>1, ReservedStay
<1>32. CASE LimitStop
  <2>1. UNCHANGED <<pc, expected, restart>>
    BY <1>32 DEF LimitStop
  <2> QED
    BY <2>1, ReservedStay
<1>33. CASE LimitRelease
  <2>1. UNCHANGED <<pc, expected, restart>>
    BY <1>33 DEF LimitRelease
  <2> QED
    BY <2>1, ReservedStay
<1>34. CASE TickIdle
  <2>1. UNCHANGED <<pc, expected, restart>>
    BY <1>34 DEF TickIdle
  <2> QED
    BY <2>1, ReservedStay
<1>35. CASE TailDropStale
  <2>1. UNCHANGED <<pc, expected>>
    BY <1>35 DEF TailDropStale
  <2>2. \/ restart' = restart
        \/ restart.phase # "pending" /\ restart'.phase # "pending"
    BY <1>35 DEF TailDropStale, RestartDue
  <2> QED
    BY <2>1, <2>2, ReservedStay
<1>36. CASE TailLoadOwner
  <2>1. UNCHANGED <<pc, expected, restart>>
    BY <1>36 DEF TailLoadOwner
  <2> QED
    BY <2>1, ReservedStay
<1>37. CASE TailContinue
  <2>1. UNCHANGED <<pc, expected, restart>>
    BY <1>37 DEF TailContinue
  <2> QED
    BY <2>1, ReservedStay
<1>38. CASE Takeover
  <2>1. UNCHANGED <<pc, expected, restart>>
    BY <1>38 DEF Takeover
  <2> QED
    BY <2>1, ReservedStay
<1>39. CASE RestartIdle
  <2>1. UNCHANGED <<pc, expected, restart>>
    BY <1>39 DEF RestartIdle
  <2> QED
    BY <2>1, ReservedStay
<1>40. CASE RestartClear
  <2>1. UNCHANGED <<pc, expected>>
    BY <1>40 DEF RestartClear
  <2>2. \/ restart' = restart
        \/ restart.phase # "pending" /\ restart'.phase # "pending"
    BY <1>40 DEF RestartClear
  <2> QED
    BY <2>1, <2>2, ReservedStay
<1>41. CASE RestartRelease
  <2>1. UNCHANGED <<pc, expected, restart>>
    BY <1>41 DEF RestartRelease
  <2> QED
    BY <2>1, ReservedStay
<1>42. CASE PreflightOk
  <2>1. UNCHANGED <<pc, expected, restart>>
    BY <1>42 DEF PreflightOk
  <2> QED
    BY <2>1, ReservedStay
<1>43. CASE PreflightFails
  <2>1. UNCHANGED <<pc, expected, restart>>
    BY <1>43 DEF PreflightFails
  <2> QED
    BY <2>1, ReservedStay
<1>44. CASE WorkerStarts
  <2>1. UNCHANGED <<pc, expected, restart>>
    BY <1>44 DEF WorkerStarts
  <2> QED
    BY <2>1, ReservedStay
<1>45. CASE WorkerFails
  <2>1. UNCHANGED <<pc, expected, restart>>
    BY <1>45 DEF WorkerFails
  <2> QED
    BY <2>1, ReservedStay
<1>46. CASE StartSucceeds
  <2>1. UNCHANGED <<pc, expected, restart>>
    BY <1>46 DEF StartSucceeds
  <2> QED
    BY <2>1, ReservedStay
<1>47. CASE StartFails
  <2>1. UNCHANGED <<pc, expected, restart>>
    BY <1>47 DEF StartFails
  <2> QED
    BY <2>1, ReservedStay
<1>48. CASE StartPublish
  <2>1. UNCHANGED <<pc, expected, restart>>
    BY <1>48 DEF StartPublish
  <2> QED
    BY <2>1, ReservedStay
<1>49. CASE StopSucceeds
  <2>1. UNCHANGED <<pc, expected, restart>>
    BY <1>49 DEF StopSucceeds
  <2> QED
    BY <2>1, ReservedStay
<1>50. CASE StopFails
  <2>1. UNCHANGED <<pc, expected, restart>>
    BY <1>50 DEF StopFails, Outcome
  <2> QED
    BY <2>1, ReservedStay
<1>51. CASE WorkerErrs
  <2>1. UNCHANGED <<pc, expected, restart>>
    BY <1>51 DEF WorkerErrs, Outcome
  <2> QED
    BY <2>1, ReservedStay
<1>52. CASE NoSpeech
  <2>1. UNCHANGED <<pc, expected, restart>>
    BY <1>52 DEF NoSpeech, Outcome
  <2> QED
    BY <2>1, ReservedStay
<1>53. CASE Transcript
  <2>1. UNCHANGED <<pc, expected, restart>>
    BY <1>53 DEF Transcript
  <2> QED
    BY <2>1, ReservedStay
<1>54. CASE Deliver
  <2>1. UNCHANGED <<pc, expected, restart>>
    BY <1>54 DEF Deliver, Outcome
  <2> QED
    BY <2>1, ReservedStay
<1>55. CASE DeliveryFails
  <2>1. UNCHANGED <<pc, expected, restart>>
    BY <1>55 DEF DeliveryFails, Outcome
  <2> QED
    BY <2>1, ReservedStay
<1>56. CASE FinishPublish
  <2>1. UNCHANGED <<pc, expected, restart>>
    BY <1>56 DEF FinishPublish
  <2> QED
    BY <2>1, ReservedStay
<1>57. CASE Reply
  <2>1. job.from \in Clients /\ pc[job.from] = "await"
    BY <1>57 DEF Reply, JobShape, Waiting
  <2>2. pc' = [pc EXCEPT ![job.from] = "release"] /\ UNCHANGED <<expected, restart>>
    BY <1>57 DEF Reply, ReleaseWith
  <2> QED
    BY <2>1, <2>2, ReservedMove DEF Reserving
<1>58. CASE ShutdownFlag \/ ShutdownSend \/ TerminalElapses \/ LimitElapses \/ Halted
           \/ UNCHANGED vars
  <2>1. UNCHANGED <<pc, expected, restart>>
    BY <1>58 DEF ShutdownFlag, ShutdownSend, TerminalElapses, LimitElapses, Halted
  <2> QED
    BY <2>1, ReservedStay
<1> QED
  BY <1>1, <1>2, <1>3, <1>4, <1>5, <1>6, <1>7, <1>8, <1>9, <1>10, <1>11, <1>12,
      <1>13, <1>14, <1>15, <1>16, <1>17, <1>18, <1>19, <1>20, <1>21, <1>22, <1>23,
      <1>24, <1>25, <1>26, <1>27, <1>28, <1>29, <1>30, <1>31, <1>32, <1>33, <1>34,
      <1>35, <1>36, <1>37, <1>38, <1>39, <1>40, <1>41, <1>42, <1>43, <1>44, <1>45,
      <1>46, <1>47, <1>48, <1>49, <1>50, <1>51, <1>52, <1>53, <1>54, <1>55, <1>56,
      <1>57, <1>58 DEF Next, ClientStep, HostStep

\* The restart reservation is never leaked: while the word is pending exactly one
\* client is still deciding about it, and about that generation.
THEOREM ReservationNotLeaked == Spec => []ReservationHeld
<1>1. Init => Reserved
  BY DEF Init, Reserved, NoRestart, Reserving
<1>2. AdmissionInv /\ Reserved /\ [Next]_vars => Reserved'
  BY ReservedStep DEF AdmissionInv
<1>3. Reserved => ReservationHeld
  BY DEF Reserved, ReservationHeld, Pending
<1> QED
  BY AdmissionInvariant, <1>1, <1>2, <1>3, PTL DEF Spec
============================================================================
