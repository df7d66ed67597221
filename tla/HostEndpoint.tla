---------------------------- MODULE HostEndpoint ----------------------------
(***************************************************************************)
(* Who owns the public socket, and what a host process does between its    *)
(* start and its end (ui/linux/src/runtime.rs, control.rs and the host     *)
(* start and shutdown of main.rs), with the portal thread of               *)
(* PortalShortcut and the clients of daemon/host_control.zig.              *)
(*                                                                         *)
(* Hosts and the legacy daemon (daemon/daemon.zig) exclude one another     *)
(* with a lock on a file next to the socket. The socket file outlives a    *)
(* process that is killed; the lock does not. An owner of an earlier       *)
(* release, which takes no lock, may be listening when the system starts.  *)
(* The session controller is the one of HostSession: here it only runs or  *)
(* has been joined, and answers a call or refuses it.                      *)
(***************************************************************************)
EXTENDS PortalShortcut

CONSTANTS Daemon, Old, \* the legacy daemon, an owner that takes no lock
          Clients,     \* runs of the command line tool, one request each
          NoOne,
          MaxCrashes   \* bound: processes killed

Owners == Hosts \cup {Daemon, Old}

ASSUME OwnersAssumption ==
  /\ Hosts \subseteq Nat /\ Daemon # Old /\ {Daemon, Old} \cap Hosts = {}
  /\ NoOne \notin Owners /\ MaxCrashes \in Nat

VARIABLES
  pc,         \* where each host's main thread, and the daemon, is
  lock,       \* the process that holds the endpoint lock
  path,       \* the process whose bind made the socket file
  live,       \* the processes that have the socket open
  seen,       \* acquire: the socket it found
  root,       \* the process that made the scratch directory
  controller, \* the session controller of each host
  stop,       \* Server: the stop flag
  acc,        \* the accept loop
  cli,        \* client: how far it is
  at,         \* client: the host it is connected to
  thread,     \* its connection, in that host
  applied,    \* history: toggles the controllers have done for it
  crashes

vars == <<portalVars, pc, lock, path, live, seen, root, controller, stop, acc, cli, at, thread,
          applied, crashes>>
server == <<stop, acc>>
files == <<lock, path, seen, root>>
clients == <<cli, at, thread, applied>>

HostPcs == {"off", "lock", "stat", "probe", "recheck", "remove", "root", "spawn", "bind",
            "abort", "undo", "serving", "controller", "shortcut", "wait", "server", "drop",
            "exit", "gone"}
\* shutdown_native_host, and what follows it in main.
Stopping == {"controller", "shortcut", "wait", "server", "drop", "exit"}

TypeOK ==
  /\ PortalTypeOK
  /\ pc \in [Hosts \cup {Daemon} -> HostPcs]
  /\ lock \in Owners \cup {NoOne} /\ path \in Owners \cup {NoOne} /\ root \in Hosts \cup {NoOne}
  /\ live \subseteq Owners /\ seen \in [Hosts -> Owners \cup {NoOne}]
  /\ controller \in [Hosts -> {"none", "up", "down"}]
  /\ stop \in [Hosts -> BOOLEAN] /\ acc \in [Hosts -> {"none", "run", "join", "done", "failed"}]
  /\ cli \in [Clients -> {"idle", "open", "sent", "done"}]
  /\ at \in [Clients -> Hosts \cup {NoOne}]
  /\ thread \in [Clients -> {"none", "queued", "reading", "calling", "reply", "closed"}]
  /\ applied \in [Clients -> Nat] /\ crashes \in 0..MaxCrashes

Init ==
  /\ PortalInit
  /\ pc = [h \in Hosts \cup {Daemon} |-> "off"] /\ lock = NoOne
  /\ live \in {{}, {Old}} /\ path \in {NoOne, Old} /\ (live = {Old} => path = Old)
  /\ seen = [h \in Hosts |-> NoOne] /\ root = NoOne
  /\ controller = [h \in Hosts |-> "none"]
  /\ stop = [h \in Hosts |-> FALSE] /\ acc = [h \in Hosts |-> "none"]
  /\ cli = [c \in Clients |-> "idle"] /\ at = [c \in Clients |-> NoOne]
  /\ thread = [c \in Clients |-> "none"] /\ applied = [c \in Clients |-> 0]
  /\ crashes = 0

-----------------------------------------------------------------------------
(* Ownership: acquire, drop *)

Goto(h, from, to) == pc[h] = from /\ pc' = [pc EXCEPT ![h] = to]

\* Hosts are numbered in the order in which they start.
Start(h) ==
  /\ \A g \in Hosts : g < h => pc[g] # "off"
  /\ \/ Goto(h, "off", "lock")
     \/ Goto(h, "off", "gone")  \* an unsafe path, directory or lock file
  /\ UNCHANGED <<portalVars, files, live, controller, server, clients, crashes>>

Flock(h) ==
  /\ \/ lock = NoOne /\ Goto(h, "lock", "stat") /\ lock' = h
     \/ lock # NoOne /\ Goto(h, "lock", "gone") /\ UNCHANGED lock
  /\ UNCHANGED <<portalVars, path, seen, root, live, controller, server, clients, crashes>>

\* acquire fails: the lock file is closed, the socket is left alone.
AcquireFails(h, from) ==
  /\ Goto(h, from, "gone") /\ lock' = NoOne
  /\ UNCHANGED <<portalVars, path, seen, root, live, controller, server, clients, crashes>>

Stat(h) ==
  /\ Goto(h, "stat", IF path = NoOne THEN "root" ELSE "probe")
  /\ seen' = [seen EXCEPT ![h] = path]
  /\ UNCHANGED <<portalVars, lock, path, root, live, controller, server, clients, crashes>>

\* endpoint_live_or_uncertain; the second disjunct is a probe that fails or
\* whose answer is uncertain.
Probe(h) ==
  \/ /\ path \notin live /\ Goto(h, "probe", "recheck")
     /\ UNCHANGED <<portalVars, files, live, controller, server, clients, crashes>>
  \/ AcquireFails(h, "probe")

Recheck(h) ==
  \/ /\ path = seen[h] /\ Goto(h, "recheck", "remove")
     /\ UNCHANGED <<portalVars, files, live, controller, server, clients, crashes>>
  \/ path # seen[h] /\ AcquireFails(h, "recheck")

Remove(h) ==
  \/ /\ path # NoOne /\ Goto(h, "remove", "root") /\ path' = NoOne
     /\ UNCHANGED <<portalVars, lock, seen, root, live, controller, server, clients, crashes>>
  \/ AcquireFails(h, "remove")

\* Drop of Ownership: the socket first, then its field, the lock (Exit).
DropSocket(h) ==
  /\ Goto(h, "drop", "exit") /\ path' = NoOne
  /\ UNCHANGED <<portalVars, lock, seen, root, live, controller, server, clients, crashes>>

-----------------------------------------------------------------------------
(* start_native_host *)

\* session_root: what an earlier host left is removed.
SessionRoot(h) ==
  /\ \/ Goto(h, "root", "spawn") /\ root' = h
     \/ Goto(h, "root", "drop") /\ UNCHANGED root
  /\ UNCHANGED <<portalVars, lock, path, seen, live, controller, server, clients, crashes>>

Spawn(h) ==
  /\ Goto(h, "spawn", "bind")
  /\ controller' = [controller EXCEPT ![h] = "up"] /\ SpawnPortal(h)
  /\ UNCHANGED <<files, live, server, clients, crashes>>

\* Server::bind, which needs the path to be free; a failure after the bind itself
\* may leave the file behind.
Bind(h) ==
  /\ \/ /\ path = NoOne /\ Goto(h, "bind", "serving")
        /\ path' = h /\ live' = live \cup {h} /\ acc' = [acc EXCEPT ![h] = "run"]
     \/ /\ Goto(h, "bind", "abort")
        /\ path' \in IF path = NoOne THEN {NoOne, h} ELSE {path}
        /\ UNCHANGED <<live, acc>>
  /\ UNCHANGED <<portalVars, lock, seen, root, controller, stop, clients, crashes>>

\* The error path: the shortcut, then the controller, then the ownership.
Abort(h) ==
  /\ Goto(h, "abort", "undo") /\ RequestStop(h)
  /\ UNCHANGED <<files, live, controller, server, clients, crashes>>

\* shutdown_and_join waits two seconds and then detaches the thread.
Undo(h) ==
  /\ Goto(h, "undo", "drop") /\ controller' = [controller EXCEPT ![h] = "down"]
  /\ UNCHANGED <<portalVars, files, live, server, clients, crashes>>

-----------------------------------------------------------------------------
(* shutdown_native_host, and the end of the process *)

Quit(h) ==
  /\ Goto(h, "serving", "controller")
  /\ RequestStop(h) /\ stop' = [stop EXCEPT ![h] = TRUE]
  /\ UNCHANGED <<files, live, controller, acc, clients, crashes>>

JoinController(h) ==
  /\ Goto(h, "controller", "shortcut") /\ controller' = [controller EXCEPT ![h] = "down"]
  /\ UNCHANGED <<portalVars, files, live, server, clients, crashes>>

StopShortcut(h) ==
  /\ Goto(h, "shortcut", "wait") /\ RequestStop(h)
  /\ UNCHANGED <<files, live, controller, server, clients, crashes>>

\* shutdown_and_join: Finished, or two seconds have passed.
\* Mutant of JoinShortcut: the stop is sent again with every poll.
MJoinShortcut(h) ==
  /\ \/ Finished(h) /\ Goto(h, "wait", "server")
     \/ ~Finished(h) /\ Goto(h, "wait", "wait")
  /\ RequestStop(h)
  /\ UNCHANGED <<files, live, controller, server, clients, crashes>>

JoinShortcut(h) ==
  /\ Goto(h, "wait", "server")
  /\ UNCHANGED <<portalVars, files, live, controller, server, clients, crashes>>

\* Mutant of JoinServer: the ownership is dropped while the server still runs.
MJoinServer(h) ==
  /\ Goto(h, "server", "drop")
  /\ UNCHANGED <<portalVars, files, live, controller, server, clients, crashes>>

JoinServer(h) ==
  /\ acc[h] \in {"done", "failed"} /\ Goto(h, "server", "drop")
  /\ UNCHANGED <<portalVars, files, live, controller, server, clients, crashes>>

\* The connections of h that are in one of the states ps are closed.
Reset(h, ps) ==
  LET cs == {c \in Clients : at[c] = h /\ thread[c] \in ps} IN
  /\ thread' = [c \in Clients |-> IF c \in cs THEN "closed" ELSE thread[c]]
  /\ at' = [c \in Clients |-> IF c \in cs THEN NoOne ELSE at[c]]

\* The process is gone: its sockets are closed, its threads and its lock too.
Gone(h) ==
  /\ live' = live \ {h} /\ lock' = IF lock = h THEN NoOne ELSE lock
  /\ Reset(h, {"queued", "reading", "calling", "reply"})
  /\ IF h \notin Hosts THEN UNCHANGED <<portalVars, controller, server, seen>> ELSE
       /\ PortalDies(h)
       /\ controller' = [controller EXCEPT ![h] = "none"]
       /\ acc' = [acc EXCEPT ![h] = "none"] /\ stop' = [stop EXCEPT ![h] = FALSE]
       /\ seen' = [seen EXCEPT ![h] = NoOne]
  /\ UNCHANGED <<path, root, cli, applied>>

\* The lock is released as main returns; nothing but a detached portal thread
\* runs between the two.
Exit(h) == Goto(h, "exit", "gone") /\ Gone(h) /\ UNCHANGED crashes

Crash(h) ==
  /\ crashes < MaxCrashes /\ crashes' = crashes + 1
  /\ pc[h] \notin {"off", "gone"} /\ pc' = [pc EXCEPT ![h] = "gone"]
  /\ Gone(h)

-----------------------------------------------------------------------------
(* The other owners *)

\* The daemon locks, removes whatever socket there is, and listens until it
\* is killed.
DaemonStart ==
  /\ pc[Daemon] = "off" /\ lock = NoOne
  /\ pc' = [pc EXCEPT ![Daemon] = "bind"] /\ lock' = Daemon /\ path' = NoOne
  /\ UNCHANGED <<portalVars, seen, root, live, controller, server, clients, crashes>>

DaemonListen ==
  /\ Goto(Daemon, "bind", "serving") /\ path' = Daemon /\ live' = live \cup {Daemon}
  /\ UNCHANGED <<portalVars, lock, seen, root, controller, server, clients, crashes>>

\* The older owner leaves its socket behind, or removes it.
OldEnds ==
  /\ Old \in live /\ live' = live \ {Old}
  /\ path' \in {path} \cup (IF path = Old THEN {NoOne} ELSE {})
  /\ UNCHANGED <<portalVars, pc, lock, seen, root, controller, server, clients, crashes>>

-----------------------------------------------------------------------------
(* The accept loop *)

Mine(h) == {c \in Clients : at[c] = h}

Accept(h) ==
  /\ acc[h] = "run" /\ ~stop[h]
  /\ \E c \in Mine(h) :
       /\ thread[c] = "queued"
       /\ thread' = [thread EXCEPT ![c] = "reading"]
  /\ UNCHANGED <<portalVars, pc, files, live, controller, server, cli, at, applied, crashes>>

\* The listener is closed, and with it what waited to be accepted.
Closed(h) == live' = live \ {h} /\ Reset(h, {"queued"})

AcceptFails(h) ==
  /\ acc[h] = "run" /\ acc' = [acc EXCEPT ![h] = "failed"] /\ Closed(h)
  /\ UNCHANGED <<portalVars, pc, files, controller, stop, cli, applied, crashes>>

AcceptStops(h) ==
  /\ acc[h] = "run" /\ stop[h] /\ acc' = [acc EXCEPT ![h] = "join"]
  /\ UNCHANGED <<portalVars, pc, files, live, controller, stop, clients, crashes>>

\* Mutant of ConnectionsEnd: connections nobody will accept are waited for.
MConnectionsEnd(h) == Mine(h) = {}

ConnectionsEnd(h) == \A c \in Mine(h) : thread[c] = "queued"

JoinConnections(h) ==
  /\ acc[h] = "join" /\ ConnectionsEnd(h)
  /\ acc' = [acc EXCEPT ![h] = "done"] /\ Closed(h)
  /\ UNCHANGED <<portalVars, pc, files, controller, stop, cli, applied, crashes>>

-----------------------------------------------------------------------------
(* exchange, and the client *)

Thread(c, from, to) ==
  /\ thread[c] = from /\ thread' = [thread EXCEPT ![c] = to]
  /\ at' = [at EXCEPT ![c] = IF to = "closed" THEN NoOne ELSE @]
  /\ UNCHANGED <<portalVars, pc, files, live, controller, server, cli, crashes>>

\* read_frame and decode: a toggle, another request or a malformed one, or
\* none within the read timeout.
ReadFrame(c) ==
  /\ UNCHANGED applied
  /\ \/ cli[c] = "sent" /\ Thread(c, "reading", "calling")
     \/ Thread(c, "reading", "reply")

\* Controller::toggle: done, refused as busy, or the controller is gone.
Call(c) ==
  /\ Thread(c, "calling", "reply")
  /\ \/ controller[at[c]] = "up" /\ applied' = [applied EXCEPT ![c] = @ + 1]
     \/ UNCHANGED applied

Reply(c) == Thread(c, "reply", "closed") /\ UNCHANGED applied

Client(c, from, to) ==
  /\ cli[c] = from /\ cli' = [cli EXCEPT ![c] = to]
  /\ UNCHANGED <<status, rx, tpc, after, consent, pc, files, live, controller, server, applied,
                 crashes>>

Connect(c) ==
  /\ inputs < MaxInputs /\ inputs' = inputs + 1
  /\ \/ /\ path \in live \cap Hosts /\ Client(c, "idle", "open")
        /\ at' = [at EXCEPT ![c] = path] /\ thread' = [thread EXCEPT ![c] = "queued"]
     \/ path \notin live \cap Hosts /\ Client(c, "idle", "done") /\ UNCHANGED <<at, thread>>

Send(c) == Client(c, "open", "sent") /\ UNCHANGED <<inputs, at, thread>>

\* The reply, or the end of the stream without one; a toggle is never sent
\* again.
\* Mutant of Ends: a request that got no answer is sent again.
MEnds(c) ==
  /\ thread[c] = "closed"
  /\ \/ Client(c, "open", "done")
     \/ Client(c, "sent", "idle")
  /\ UNCHANGED <<inputs, at, thread>>

Ends(c) ==
  /\ thread[c] = "closed"
  /\ \/ Client(c, "open", "done")
     \/ Client(c, "sent", "done")
  /\ UNCHANGED <<inputs, at, thread>>

-----------------------------------------------------------------------------
HostStep(h) ==
  \/ Flock(h) \/ Stat(h) \/ Probe(h) \/ Recheck(h) \/ Remove(h)
  \/ SessionRoot(h) \/ Spawn(h) \/ Bind(h) \/ Abort(h) \/ Undo(h)
  \/ JoinController(h) \/ StopShortcut(h) \/ JoinShortcut(h) \/ JoinServer(h)
  \/ DropSocket(h) \/ Exit(h)

AcceptLoop(h) == Accept(h) \/ AcceptStops(h) \/ JoinConnections(h)

Exchange(c) == ReadFrame(c) \/ Call(c) \/ Reply(c)

Others == <<pc, files, live, controller, server, clients, crashes>>
Portal(h) == PortalThread(h) /\ UNCHANGED Others
Desktop(h) ==
  \/ Lost(h) /\ UNCHANGED Others
  \/ pc[h] = "serving" /\ Enable(h) /\ UNCHANGED Others

Environment ==
  \/ \E h \in Hosts : Start(h) \/ Quit(h) \/ AcceptFails(h) \/ Desktop(h)
  \/ \E h \in Hosts \cup {Daemon} : Crash(h)
  \/ DaemonStart \/ DaemonListen \/ OldEnds
  \/ \E c \in Clients : Connect(c) \/ Send(c) \/ Ends(c)

Next ==
  \/ \E h \in Hosts : HostStep(h) \/ AcceptLoop(h) \/ Portal(h)
  \/ \E c \in Clients : Exchange(c)
  \/ Environment

Spec == Init /\ [][Next]_vars

\* Every thread keeps running; reads, portal requests and joins end at their
\* timeouts. Starts, quits, crashes, clicks and clients are not owed.
Fairness ==
  /\ \A h \in Hosts :
       WF_vars(HostStep(h)) /\ WF_vars(AcceptLoop(h)) /\ WF_vars(Portal(h))
  /\ \A c \in Clients : WF_vars(Exchange(c))

FairSpec == Spec /\ Fairness

-----------------------------------------------------------------------------
(* Properties *)

\* A host that listens can be reached: the socket file is its own, and
\* no other owner has removed or replaced it. The scratch directory of a host
\* whose controller runs has not been swept by another. An owner that took no
\* lock keeps its socket too, until the daemon, which does not look, starts
\* (runtime.rs Ownership::acquire and drop, the order of shutdown_native_host).
OwnsWhatItUses ==
  /\ \A h \in Hosts \cup {Daemon} : h \in live => path = h
  /\ \A h \in Hosts : controller[h] = "up" => root = h
  /\ Old \in live => path = Old \/ pc[Daemon] # "off"

\* A run of the command line tool toggles at most once, although its host may
\* be killed before it answers and another may have taken over
\* (host_control.zig sendWithExchange, control.rs exchange).
ToggledOnce == \A c \in Clients : applied[c] <= 1

\* A host that has been asked to stop frees the endpoint and ends, with
\* requests in progress, clients that send nothing, a portal that does not
\* answer or an accept loop that has failed (main.rs shutdown_native_host).
ShutdownEnds == \A h \in Hosts : pc[h] \in Stopping ~> pc[h] = "gone"

\* The shortcut setup does not stay at Initializing, a status in which enable
\* refuses every further attempt (global_shortcut.rs run, register).
SetupEnds ==
  \A h \in Hosts : status[h] = "Initializing" ~> status[h] # "Initializing" \/ pc[h] # "serving"
=============================================================================
