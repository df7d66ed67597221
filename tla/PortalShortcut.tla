--------------------------- MODULE PortalShortcut ---------------------------
(***************************************************************************)
(* The global shortcut of the desktop portal (ui/linux/src/                *)
(* global_shortcut.rs). Each host process has one portal thread, which     *)
(* takes commands from a channel, asks the portal for a session and a      *)
(* shortcut, and then waits for the shortcut. Every request to the portal  *)
(* races with a Shutdown command and a timer.                              *)
(*                                                                         *)
(* The portal and the user who answers its dialog are external: each       *)
(* request may succeed, fail, or get no answer. HostEndpoint extends this  *)
(* module with the host that starts, commands and joins the thread.        *)
(***************************************************************************)
EXTENDS Naturals, Sequences

CONSTANTS Hosts,      \* host processes, each started at most once
          MaxInputs   \* bound: clicks on Enable, and requests of clients

ASSUME InputsAssumption == MaxInputs \in Nat

VARIABLES
  status,  \* the Status shown in settings, per host
  rx,      \* the command channel
  tpc,     \* where the portal thread is
  after,   \* what the thread does once close_bounded has ended
  inputs,  \* number of clicks and requests so far
  consent  \* the consent marker is on disk (it outlives the processes)

portalVars == <<status, rx, tpc, after, inputs, consent>>

Statuses == {"Disabled", "NeedsSetup", "Initializing", "Active", "Unavailable", "Failed"}
Commands == {"Enable", "Shutdown"}
Bounded == {"setup", "subscribe", "bind"}
ThreadPcs == {"none", "recv", "persist", "active", "close", "done"} \cup Bounded

PortalTypeOK ==
  /\ status \in [Hosts -> Statuses]
  /\ rx \in [Hosts -> Seq(Commands)] /\ \A h \in Hosts : Len(rx[h]) <= MaxInputs + 2
  /\ tpc \in [Hosts -> ThreadPcs] /\ after \in [Hosts -> {"ok", "fail", "stop"}]
  /\ inputs \in 0..MaxInputs /\ consent \in BOOLEAN

PortalInit ==
  /\ status = [h \in Hosts |-> "Disabled"] /\ rx = [h \in Hosts |-> <<>>]
  /\ tpc = [h \in Hosts |-> "none"] /\ after = [h \in Hosts |-> "ok"]
  /\ inputs = 0 /\ consent = FALSE

-----------------------------------------------------------------------------
(* Host: spawn, enable, request_stop, is_finished *)

SpawnPortal(h) ==
  /\ status' = [status EXCEPT ![h] = IF consent THEN "NeedsSetup" ELSE "Disabled"]
  /\ tpc' = [tpc EXCEPT ![h] = "recv"]
  /\ UNCHANGED <<rx, after, inputs, consent>>

Enable(h) ==
  /\ inputs < MaxInputs
  /\ status[h] \notin {"Initializing", "Active"}
  /\ rx' = [rx EXCEPT ![h] = Append(@, "Enable")]
  /\ inputs' = inputs + 1
  /\ UNCHANGED <<status, tpc, after, consent>>

\* A thread that has returned has closed the channel.
RequestStop(h) ==
  /\ rx' = IF tpc[h] = "done" THEN rx ELSE [rx EXCEPT ![h] = Append(@, "Shutdown")]
  /\ UNCHANGED <<status, tpc, after, inputs, consent>>

Finished(h) == tpc[h] \in {"none", "done"}

\* The process ends and takes its threads with it.
PortalDies(h) ==
  /\ status' = [status EXCEPT ![h] = "Disabled"] /\ rx' = [rx EXCEPT ![h] = <<>>]
  /\ tpc' = [tpc EXCEPT ![h] = "none"] /\ after' = [after EXCEPT ![h] = "ok"]
  /\ UNCHANGED <<inputs, consent>>

-----------------------------------------------------------------------------
(* The portal thread: run and register *)

Step(h, from, to) ==
  /\ tpc[h] = from
  /\ tpc' = [tpc EXCEPT ![h] = to]
  /\ UNCHANGED inputs

Pop(h, c) ==
  /\ rx[h] # <<>> /\ Head(rx[h]) = c
  /\ rx' = [rx EXCEPT ![h] = Tail(@)]

\* run: the next command.
Recv(h) ==
  \/ /\ Pop(h, "Shutdown") /\ Step(h, "recv", "done")
     /\ UNCHANGED <<status, after, consent>>
  \/ /\ Pop(h, "Enable") /\ Step(h, "recv", "setup")
     /\ status' = [status EXCEPT ![h] = "Initializing"]
     /\ UNCHANGED <<after, consent>>

\* register's early returns, after close_bounded when there is a session.
Close(h, from, why) ==
  /\ Step(h, from, "close") /\ after' = [after EXCEPT ![h] = why]
  /\ UNCHANGED consent

\* run, after register has returned Failed.
\* Mutant of Shown: the status is left as register set it.
MShown(h) == status[h]

Shown(h) == IF status[h] = "Initializing" THEN "Failed" ELSE status[h]

SetupFails(h) ==
  /\ Step(h, "setup", "recv")
  /\ \/ status' = [status EXCEPT ![h] = Shown(h)]
     \/ status' = [status EXCEPT ![h] = "Unavailable"]  \* the portal is too old
  /\ UNCHANGED <<rx, after, consent>>

\* bounded_or_shutdown: the operation answers, the timer fires, or Shutdown
\* arrives. An Enable that arrives meanwhile is dropped.
Answered(h, from, to) == Step(h, from, to) /\ UNCHANGED <<status, rx, after, consent>>

Setup(h) ==
  \/ Answered(h, "setup", "subscribe")
  \/ SetupFails(h)
  \/ Pop(h, "Shutdown") /\ Step(h, "setup", "done") /\ UNCHANGED <<status, after, consent>>

Request(h, from, to) ==
  \/ Answered(h, from, to)
  \/ Close(h, from, "fail") /\ UNCHANGED <<status, rx>>
  \/ Pop(h, "Shutdown") /\ Close(h, from, "stop") /\ UNCHANGED status

DropEnable(h) ==
  /\ tpc[h] \in Bounded \cup {"active"} /\ Pop(h, "Enable")
  /\ UNCHANGED <<status, tpc, after, inputs, consent>>

\* persist_consent: a marker that is there already is enough. The setup can still
\* fail after it, when the session has no path.
Persist(h) ==
  \/ /\ Step(h, "persist", "active")
     /\ consent' = TRUE /\ status' = [status EXCEPT ![h] = "Active"]
     /\ UNCHANGED <<rx, after>>
  \/ /\ Step(h, "persist", "close") /\ after' = [after EXCEPT ![h] = "fail"]
     /\ consent' \in {consent, TRUE}
     /\ UNCHANGED <<status, rx>>

\* The loop of register: the loss of the shortcut or of the session, and a
\* command. (An activation changes nothing here: it spawns one more caller of
\* HostSession's toggle.)
Lost(h) ==
  /\ Close(h, "active", "ok")
  /\ status' = [status EXCEPT ![h] = "NeedsSetup"]
  /\ UNCHANGED rx

Stopped(h) == Pop(h, "Shutdown") /\ Close(h, "active", "stop") /\ UNCHANGED status

\* close_bounded, and the return to run.
CloseBounded(h) ==
  /\ Step(h, "close", IF after[h] = "stop" THEN "done" ELSE "recv")
  /\ status' = [status EXCEPT ![h] = IF after[h] = "fail" THEN Shown(h) ELSE @]
  /\ after' = [after EXCEPT ![h] = "ok"]
  /\ UNCHANGED <<rx, consent>>

PortalThread(h) ==
  \/ Recv(h) \/ Setup(h)
  \/ Request(h, "subscribe", "bind") \/ Request(h, "bind", "persist")
  \/ Persist(h) \/ DropEnable(h) \/ Stopped(h) \/ CloseBounded(h)
=============================================================================
