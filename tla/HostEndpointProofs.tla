------------------------- MODULE HostEndpointProofs -------------------------
(***************************************************************************)
(* Proofs about HostEndpoint, for any number of hosts, clients, inputs and *)
(* crashes. That a host keeps its socket and its scratch directory follows *)
(* from the lock: only its holder is past `Flock`, and only the holder     *)
(* touches the path, so what one owner has looked at stays as it was.      *)
(***************************************************************************)
EXTENDS HostEndpoint, TLAPS

-----------------------------------------------------------------------------
(* The inductive invariant *)

\* The positions at which a host holds the lock, those past the removal of an
\* older socket, those at which it may be listening, and those at which its
\* controller may run.
Removed == {"root", "spawn", "bind", "abort", "undo", "serving", "controller",
            "shortcut", "wait", "server", "drop"}
Locked == {"stat", "probe", "recheck", "remove", "exit"} \cup Removed
Listening == {"serving", "controller", "shortcut", "wait", "server"}
Controlled == {"bind", "abort", "undo", "serving", "controller"}

\* The lock has one holder, and whoever is past it is the holder.
LockInv ==
  /\ \A h \in Hosts : pc[h] \in Locked => lock = h
  /\ pc[Daemon] \in {"bind", "serving"} => lock = Daemon
  /\ pc[Daemon] \in {"off", "bind", "serving", "gone"}

\* A listening owner is where it can be, its accept loop has not ended, and the
\* socket file is its own.
LiveInv ==
  /\ \A h \in Hosts :
       h \in live => pc[h] \in Listening /\ acc[h] \in {"run", "join"} /\ path = h
  /\ Daemon \in live => pc[Daemon] = "serving" /\ path = Daemon

\* What acquire found dead stays dead, and an older owner's socket is not in place
\* once acquire is past its removal.
PathInv ==
  /\ \A h \in Hosts : pc[h] \in {"recheck", "remove"} => path \notin live
  /\ \A h \in Hosts : pc[h] \in Removed => path # Old
  /\ Old \in live => path = Old \/ pc[Daemon] # "off"

\* The scratch directory belongs to the host that is about to spawn, or has
\* spawned, its controller.
RootInv ==
  /\ \A h \in Hosts : controller[h] = "up" => pc[h] \in Controlled /\ root = h
  /\ \A h \in Hosts : pc[h] = "spawn" => root = h

\* A request is done for a client only in its one connection's call.
ToggleInv ==
  \A c \in Clients :
    /\ cli[c] = "idle" => thread[c] = "none"
    /\ thread[c] \in {"none", "queued", "reading", "calling"} => applied[c] = 0
    /\ applied[c] <= 1

\* The command channel holds at most the clicks, and after them the one or two
\* Shutdown commands that a host at p has sent.
Early == {"off", "lock", "stat", "probe", "recheck", "remove", "root", "spawn", "bind",
          "abort", "serving"}
Sent(p) == IF p \in Early THEN 0 ELSE IF p \in {"undo", "controller", "shortcut"} THEN 1 ELSE 2
ChannelInv == \A h \in Hosts : Len(rx[h]) <= inputs + Sent(pc[h])

-----------------------------------------------------------------------------
(* Types *)

USE OwnersAssumption, InputsAssumption
    DEF vars, portalVars, server, files, clients, Owners

\* The words this module types besides those of the portal thread.
EndpointTypes ==
  /\ pc \in [Hosts \cup {Daemon} -> HostPcs]
  /\ lock \in Owners \cup {NoOne} /\ path \in Owners \cup {NoOne} /\ root \in Hosts \cup {NoOne}
  /\ live \subseteq Owners /\ seen \in [Hosts -> Owners \cup {NoOne}]
  /\ controller \in [Hosts -> {"none", "up", "down"}]
  /\ stop \in [Hosts -> BOOLEAN] /\ acc \in [Hosts -> {"none", "run", "join", "done", "failed"}]
  /\ cli \in [Clients -> {"idle", "open", "sent", "done"}]
  /\ at \in [Clients -> Hosts \cup {NoOne}]
  /\ thread \in [Clients -> {"none", "queued", "reading", "calling", "reply", "closed"}]
  /\ applied \in [Clients -> Nat] /\ crashes \in 0..MaxCrashes

\* Every step keeps the types of the endpoint.
LEMMA EndpointTypeStep ==
  ASSUME EndpointTypes, [Next]_vars
  PROVE  EndpointTypes'
<1> USE DEF EndpointTypes, HostPcs
<1>1. ASSUME NEW h \in Hosts, Start(h) PROVE EndpointTypes'
  BY <1>1, ZenonT(40) DEF Start, Goto
<1>2. ASSUME NEW h \in Hosts, Flock(h) PROVE EndpointTypes'
  <2>1. CASE lock = NoOne
    <3>1. /\ pc[h] = "lock" /\ pc' = [pc EXCEPT ![h] = "stat"] /\ lock' = h
          /\ UNCHANGED <<portalVars, path, seen, root, live, controller, server, clients, crashes>>
      BY <1>2, <2>1 DEF Flock, Goto
    <3> QED
      BY <2>1, <3>1
  <2>2. CASE lock # NoOne
    <3>1. /\ pc[h] = "lock" /\ pc' = [pc EXCEPT ![h] = "gone"] /\ lock' = lock
          /\ UNCHANGED <<portalVars, path, seen, root, live, controller, server, clients, crashes>>
      BY <1>2, <2>2 DEF Flock, Goto
    <3> QED
      BY <2>2, <3>1
  <2> QED
    BY <2>1, <2>2
<1>3. ASSUME NEW h \in Hosts, Stat(h) PROVE EndpointTypes'
  BY <1>3 DEF Stat, Goto
<1>4. ASSUME NEW h \in Hosts, Probe(h) PROVE EndpointTypes'
  <2>1. CASE AcquireFails(h, "probe")
    BY <2>1 DEF AcquireFails, Goto
  <2>2. CASE ~AcquireFails(h, "probe")
    <3>1. /\ path \notin live /\ pc[h] = "probe" /\ pc' = [pc EXCEPT ![h] = "recheck"]
          /\ path' = path
          /\ UNCHANGED <<portalVars, lock, seen, root, live, controller, server, clients, crashes>>
      BY <1>4, <2>2 DEF Probe, Goto
    <3> QED
      BY <3>1
  <2> QED
    BY <2>1, <2>2
<1>5. ASSUME NEW h \in Hosts, Recheck(h) PROVE EndpointTypes'
  <2>1. CASE AcquireFails(h, "recheck")
    BY <2>1 DEF AcquireFails, Goto
  <2>2. CASE ~AcquireFails(h, "recheck")
    <3>1. /\ path = seen[h] /\ pc[h] = "recheck" /\ pc' = [pc EXCEPT ![h] = "remove"]
          /\ path' = path
          /\ UNCHANGED <<portalVars, lock, seen, root, live, controller, server, clients, crashes>>
      BY <1>5, <2>2 DEF Recheck, Goto
    <3> QED
      BY <3>1
  <2> QED
    BY <2>1, <2>2
<1>6. ASSUME NEW h \in Hosts, Remove(h) PROVE EndpointTypes'
  <2>1. CASE AcquireFails(h, "remove")
    BY <2>1 DEF AcquireFails, Goto
  <2>2. CASE ~AcquireFails(h, "remove")
    <3>1. /\ path # NoOne /\ pc[h] = "remove" /\ pc' = [pc EXCEPT ![h] = "root"]
          /\ path' = NoOne
          /\ UNCHANGED <<portalVars, lock, seen, root, live, controller, server, clients, crashes>>
      BY <1>6, <2>2 DEF Remove, Goto
    <3> QED
      BY <3>1
  <2> QED
    BY <2>1, <2>2
<1>7. ASSUME NEW h \in Hosts, SessionRoot(h) PROVE EndpointTypes'
  BY <1>7, ZenonT(40) DEF SessionRoot, Goto
<1>8. ASSUME NEW h \in Hosts, Spawn(h) PROVE EndpointTypes'
  BY <1>8 DEF Spawn, Goto
<1>9. ASSUME NEW h \in Hosts, Bind(h) PROVE EndpointTypes'
  <2>0. /\ pc[h] = "bind"
        /\ UNCHANGED <<portalVars, lock, seen, root, controller, stop, clients, crashes>>
    BY <1>9 DEF Bind, Goto
  <2>1. CASE Goto(h, "bind", "serving")
    <3>1. /\ path = NoOne /\ pc' = [pc EXCEPT ![h] = "serving"]
          /\ path' = h /\ live' = live \cup {h} /\ acc' = [acc EXCEPT ![h] = "run"]
      BY <1>9, <2>1 DEF Bind, Goto
    <3> QED
      BY <2>0, <3>1
  <2>2. CASE Goto(h, "bind", "abort")
    <3>1. /\ pc' = [pc EXCEPT ![h] = "abort"] /\ UNCHANGED <<live, acc>>
          /\ \/ path = NoOne /\ path' \in {NoOne, h}
             \/ path # NoOne /\ path' = path
      BY <1>9, <2>2 DEF Bind, Goto
    <3> QED
      BY <2>0, <3>1
  <2> QED
    BY <1>9, <2>1, <2>2 DEF Bind
<1>10. ASSUME NEW h \in Hosts, Abort(h) PROVE EndpointTypes'
  BY <1>10 DEF Abort, Goto
<1>11. ASSUME NEW h \in Hosts, Undo(h) PROVE EndpointTypes'
  BY <1>11 DEF Undo, Goto
<1>12. ASSUME NEW h \in Hosts, Quit(h) PROVE EndpointTypes'
  BY <1>12 DEF Quit, Goto
<1>13. ASSUME NEW h \in Hosts, JoinController(h) PROVE EndpointTypes'
  BY <1>13 DEF JoinController, Goto
<1>14. ASSUME NEW h \in Hosts, StopShortcut(h) PROVE EndpointTypes'
  BY <1>14 DEF StopShortcut, Goto
<1>15. ASSUME NEW h \in Hosts, JoinShortcut(h) PROVE EndpointTypes'
  BY <1>15 DEF JoinShortcut, Goto
<1>16. ASSUME NEW h \in Hosts, JoinServer(h) PROVE EndpointTypes'
  BY <1>16 DEF JoinServer, Goto
<1>17. ASSUME NEW h \in Hosts, DropSocket(h) PROVE EndpointTypes'
  BY <1>17 DEF DropSocket, Goto
<1>18. ASSUME NEW h \in Hosts, Exit(h) PROVE EndpointTypes'
  BY <1>18 DEF Exit, Goto, Gone, Reset
<1>19. ASSUME NEW h \in Hosts, Accept(h) PROVE EndpointTypes'
  BY <1>19 DEF Accept, Mine
<1>20. ASSUME NEW h \in Hosts, AcceptStops(h) PROVE EndpointTypes'
  BY <1>20 DEF AcceptStops
<1>21. ASSUME NEW h \in Hosts, JoinConnections(h) PROVE EndpointTypes'
  BY <1>21 DEF JoinConnections, Closed, Reset
<1>22. ASSUME NEW h \in Hosts, AcceptFails(h) PROVE EndpointTypes'
  BY <1>22 DEF AcceptFails, Closed, Reset
<1>23. ASSUME NEW h \in Hosts \cup {Daemon}, Crash(h) PROVE EndpointTypes'
  <2>1. pc' \in [Hosts \cup {Daemon} -> HostPcs] /\ crashes' \in 0..MaxCrashes
    BY <1>23 DEF Crash
  <2>2. live' \subseteq Owners /\ lock' \in Owners \cup {NoOne}
        /\ UNCHANGED <<path, root, cli, applied>>
    BY <1>23 DEF Crash, Gone
  <2>3. at' \in [Clients -> Hosts \cup {NoOne}]
    BY <1>23 DEF Crash, Gone, Reset
  <2>4. thread' \in [Clients -> {"none", "queued", "reading", "calling", "reply", "closed"}]
    BY <1>23 DEF Crash, Gone, Reset
  <2>5. controller' \in [Hosts -> {"none", "up", "down"}] /\ stop' \in [Hosts -> BOOLEAN]
        /\ acc' \in [Hosts -> {"none", "run", "join", "done", "failed"}]
        /\ seen' \in [Hosts -> Owners \cup {NoOne}]
    BY <1>23 DEF Crash, Gone
  <2> QED
    BY <2>1, <2>2, <2>3, <2>4, <2>5
<1>24. ASSUME NEW h \in Hosts, Portal(h) PROVE EndpointTypes'
  BY <1>24 DEF Portal, Others
<1>25. ASSUME NEW h \in Hosts, Desktop(h) PROVE EndpointTypes'
  BY <1>25 DEF Desktop, Others
<1>26. CASE DaemonStart
  BY <1>26 DEF DaemonStart
<1>27. CASE DaemonListen
  BY <1>27 DEF DaemonListen, Goto
<1>28. CASE OldEnds
  BY <1>28 DEF OldEnds
<1>29. ASSUME NEW c \in Clients, Connect(c) PROVE EndpointTypes'
  <2>1. at' \in [Clients -> Hosts \cup {NoOne}]
    BY <1>29 DEF Connect, Client
  <2>2. thread' \in [Clients -> {"none", "queued", "reading", "calling", "reply", "closed"}]
    BY <1>29 DEF Connect, Client
  <2>3. cli' \in [Clients -> {"idle", "open", "sent", "done"}]
    BY <1>29 DEF Connect, Client
  <2>4. UNCHANGED <<pc, files, live, controller, server, applied, crashes>>
    BY <1>29 DEF Connect, Client
  <2> QED
    BY <2>1, <2>2, <2>3, <2>4
<1>30. ASSUME NEW c \in Clients, Send(c) PROVE EndpointTypes'
  BY <1>30 DEF Send, Client
<1>31. ASSUME NEW c \in Clients, Ends(c) PROVE EndpointTypes'
  BY <1>31 DEF Ends, Client
<1>32. ASSUME NEW c \in Clients, ReadFrame(c) PROVE EndpointTypes'
  BY <1>32, ZenonT(40) DEF ReadFrame, Thread
<1>33. ASSUME NEW c \in Clients, Call(c) PROVE EndpointTypes'
  BY <1>33 DEF Call, Thread
<1>34. ASSUME NEW c \in Clients, Reply(c) PROVE EndpointTypes'
  BY <1>34 DEF Reply, Thread
<1>35. CASE UNCHANGED vars
  BY <1>35
<1> QED
  BY <1>1, <1>2, <1>3, <1>4, <1>5, <1>6, <1>7, <1>8, <1>9, <1>10, <1>11, <1>12,
      <1>13, <1>14, <1>15, <1>16, <1>17, <1>18, <1>19, <1>20, <1>21, <1>22, <1>23,
      <1>24, <1>25, <1>26, <1>27, <1>28, <1>29, <1>30, <1>31, <1>32, <1>33, <1>34,
      <1>35 DEF Next, HostStep, AcceptLoop, Exchange, Environment

-----------------------------------------------------------------------------
(* Ownership *)

\* Only the holder of the lock goes past it.
LEMMA LockStep ==
  ASSUME EndpointTypes, LockInv, [Next]_vars
  PROVE  LockInv'
<1> USE DEF EndpointTypes, LockInv, Locked, Removed
<1>1. ASSUME NEW h \in Hosts, Start(h) PROVE LockInv'
  <2>1. \E p \in {"lock", "gone"} : pc' = [pc EXCEPT ![h] = p]
    BY <1>1 DEF Start, Goto
  <2>2. UNCHANGED <<portalVars, files, live, controller, server, clients, crashes>>
    BY <1>1 DEF Start
  <2> QED
    BY <2>1, <2>2
<1>2. ASSUME NEW h \in Hosts, Flock(h) PROVE LockInv'
  <2>1. CASE lock = NoOne
    <3>1. /\ pc[h] = "lock" /\ pc' = [pc EXCEPT ![h] = "stat"] /\ lock' = h
          /\ UNCHANGED <<portalVars, path, seen, root, live, controller, server, clients, crashes>>
      BY <1>2, <2>1 DEF Flock, Goto
    <3> QED
      BY <2>1, <3>1
  <2>2. CASE lock # NoOne
    <3>1. /\ pc[h] = "lock" /\ pc' = [pc EXCEPT ![h] = "gone"] /\ lock' = lock
          /\ UNCHANGED <<portalVars, path, seen, root, live, controller, server, clients, crashes>>
      BY <1>2, <2>2 DEF Flock, Goto
    <3> QED
      BY <2>2, <3>1
  <2> QED
    BY <2>1, <2>2
<1>3. ASSUME NEW h \in Hosts, Stat(h) PROVE LockInv'
  BY <1>3 DEF Stat, Goto
<1>4. ASSUME NEW h \in Hosts, Probe(h) PROVE LockInv'
  <2>1. CASE AcquireFails(h, "probe")
    BY <2>1 DEF AcquireFails, Goto
  <2>2. CASE ~AcquireFails(h, "probe")
    <3>1. /\ path \notin live /\ pc[h] = "probe" /\ pc' = [pc EXCEPT ![h] = "recheck"]
          /\ path' = path
          /\ UNCHANGED <<portalVars, lock, seen, root, live, controller, server, clients, crashes>>
      BY <1>4, <2>2 DEF Probe, Goto
    <3> QED
      BY <3>1
  <2> QED
    BY <2>1, <2>2
<1>5. ASSUME NEW h \in Hosts, Recheck(h) PROVE LockInv'
  <2>1. CASE AcquireFails(h, "recheck")
    BY <2>1 DEF AcquireFails, Goto
  <2>2. CASE ~AcquireFails(h, "recheck")
    <3>1. /\ path = seen[h] /\ pc[h] = "recheck" /\ pc' = [pc EXCEPT ![h] = "remove"]
          /\ path' = path
          /\ UNCHANGED <<portalVars, lock, seen, root, live, controller, server, clients, crashes>>
      BY <1>5, <2>2 DEF Recheck, Goto
    <3> QED
      BY <3>1
  <2> QED
    BY <2>1, <2>2
<1>6. ASSUME NEW h \in Hosts, Remove(h) PROVE LockInv'
  <2>1. CASE AcquireFails(h, "remove")
    BY <2>1 DEF AcquireFails, Goto
  <2>2. CASE ~AcquireFails(h, "remove")
    <3>1. /\ path # NoOne /\ pc[h] = "remove" /\ pc' = [pc EXCEPT ![h] = "root"]
          /\ path' = NoOne
          /\ UNCHANGED <<portalVars, lock, seen, root, live, controller, server, clients, crashes>>
      BY <1>6, <2>2 DEF Remove, Goto
    <3> QED
      BY <3>1
  <2> QED
    BY <2>1, <2>2
<1>7. ASSUME NEW h \in Hosts, SessionRoot(h) PROVE LockInv'
  BY <1>7 DEF SessionRoot, Goto
<1>8. ASSUME NEW h \in Hosts, Spawn(h) PROVE LockInv'
  BY <1>8 DEF Spawn, Goto
<1>9. ASSUME NEW h \in Hosts, Bind(h) PROVE LockInv'
  BY <1>9 DEF Bind, Goto
<1>10. ASSUME NEW h \in Hosts, Abort(h) PROVE LockInv'
  BY <1>10 DEF Abort, Goto
<1>11. ASSUME NEW h \in Hosts, Undo(h) PROVE LockInv'
  BY <1>11 DEF Undo, Goto
<1>12. ASSUME NEW h \in Hosts, Quit(h) PROVE LockInv'
  BY <1>12 DEF Quit, Goto
<1>13. ASSUME NEW h \in Hosts, JoinController(h) PROVE LockInv'
  BY <1>13 DEF JoinController, Goto
<1>14. ASSUME NEW h \in Hosts, StopShortcut(h) PROVE LockInv'
  BY <1>14 DEF StopShortcut, Goto
<1>15. ASSUME NEW h \in Hosts, JoinShortcut(h) PROVE LockInv'
  BY <1>15 DEF JoinShortcut, Goto
<1>16. ASSUME NEW h \in Hosts, JoinServer(h) PROVE LockInv'
  BY <1>16 DEF JoinServer, Goto
<1>17. ASSUME NEW h \in Hosts, DropSocket(h) PROVE LockInv'
  BY <1>17 DEF DropSocket, Goto
<1>18. ASSUME NEW h \in Hosts, Exit(h) PROVE LockInv'
  BY <1>18 DEF Exit, Goto, Gone
<1>19. ASSUME NEW h \in Hosts, Accept(h) PROVE LockInv'
  BY <1>19 DEF Accept, Mine
<1>20. ASSUME NEW h \in Hosts, AcceptStops(h) PROVE LockInv'
  BY <1>20 DEF AcceptStops
<1>21. ASSUME NEW h \in Hosts, JoinConnections(h) PROVE LockInv'
  BY <1>21 DEF JoinConnections, Closed
<1>22. ASSUME NEW h \in Hosts, AcceptFails(h) PROVE LockInv'
  BY <1>22 DEF AcceptFails, Closed
<1>23. ASSUME NEW h \in Hosts \cup {Daemon}, Crash(h) PROVE LockInv'
  BY <1>23 DEF Crash, Gone
<1>24. ASSUME NEW h \in Hosts, Portal(h) PROVE LockInv'
  BY <1>24 DEF Portal, Others
<1>25. ASSUME NEW h \in Hosts, Desktop(h) PROVE LockInv'
  BY <1>25 DEF Desktop, Others
<1>26. CASE DaemonStart
  BY <1>26 DEF DaemonStart
<1>27. CASE DaemonListen
  BY <1>27 DEF DaemonListen, Goto
<1>28. CASE OldEnds
  BY <1>28 DEF OldEnds
<1>29. ASSUME NEW c \in Clients, Connect(c) PROVE LockInv'
  BY <1>29 DEF Connect, Client
<1>30. ASSUME NEW c \in Clients, Send(c) PROVE LockInv'
  BY <1>30 DEF Send, Client
<1>31. ASSUME NEW c \in Clients, Ends(c) PROVE LockInv'
  BY <1>31 DEF Ends, Client
<1>32. ASSUME NEW c \in Clients, ReadFrame(c) PROVE LockInv'
  BY <1>32 DEF ReadFrame, Thread
<1>33. ASSUME NEW c \in Clients, Call(c) PROVE LockInv'
  BY <1>33 DEF Call, Thread
<1>34. ASSUME NEW c \in Clients, Reply(c) PROVE LockInv'
  BY <1>34 DEF Reply, Thread
<1>35. CASE UNCHANGED vars
  BY <1>35
<1> QED
  BY <1>1, <1>2, <1>3, <1>4, <1>5, <1>6, <1>7, <1>8, <1>9, <1>10, <1>11, <1>12,
      <1>13, <1>14, <1>15, <1>16, <1>17, <1>18, <1>19, <1>20, <1>21, <1>22, <1>23,
      <1>24, <1>25, <1>26, <1>27, <1>28, <1>29, <1>30, <1>31, <1>32, <1>33, <1>34,
      <1>35 DEF Next, HostStep, AcceptLoop, Exchange, Environment

\* Only the holder of the lock touches the path, and only when it does not listen.
LEMMA LiveStep ==
  ASSUME EndpointTypes, LockInv, LiveInv, [Next]_vars
  PROVE  LiveInv'
<1> USE DEF EndpointTypes, LiveInv, Listening, LockInv, Locked, Removed
<1>1. ASSUME NEW h \in Hosts, Start(h) PROVE LiveInv'
  BY <1>1 DEF Start, Goto
<1>2. ASSUME NEW h \in Hosts, Flock(h) PROVE LiveInv'
  BY <1>2 DEF Flock, Goto
<1>3. ASSUME NEW h \in Hosts, Stat(h) PROVE LiveInv'
  BY <1>3 DEF Stat, Goto
<1>4. ASSUME NEW h \in Hosts, Probe(h) PROVE LiveInv'
  BY <1>4 DEF Probe, Goto, AcquireFails
<1>5. ASSUME NEW h \in Hosts, Recheck(h) PROVE LiveInv'
  BY <1>5 DEF Recheck, Goto, AcquireFails
<1>6. ASSUME NEW h \in Hosts, Remove(h) PROVE LiveInv'
  BY <1>6 DEF Remove, Goto, AcquireFails
<1>7. ASSUME NEW h \in Hosts, SessionRoot(h) PROVE LiveInv'
  BY <1>7 DEF SessionRoot, Goto
<1>8. ASSUME NEW h \in Hosts, Spawn(h) PROVE LiveInv'
  BY <1>8 DEF Spawn, Goto
<1>9. ASSUME NEW h \in Hosts, Bind(h) PROVE LiveInv'
  BY <1>9 DEF Bind, Goto
<1>10. ASSUME NEW h \in Hosts, Abort(h) PROVE LiveInv'
  BY <1>10 DEF Abort, Goto
<1>11. ASSUME NEW h \in Hosts, Undo(h) PROVE LiveInv'
  BY <1>11 DEF Undo, Goto
<1>12. ASSUME NEW h \in Hosts, Quit(h) PROVE LiveInv'
  BY <1>12 DEF Quit, Goto
<1>13. ASSUME NEW h \in Hosts, JoinController(h) PROVE LiveInv'
  BY <1>13 DEF JoinController, Goto
<1>14. ASSUME NEW h \in Hosts, StopShortcut(h) PROVE LiveInv'
  BY <1>14 DEF StopShortcut, Goto
<1>15. ASSUME NEW h \in Hosts, JoinShortcut(h) PROVE LiveInv'
  BY <1>15 DEF JoinShortcut, Goto
<1>16. ASSUME NEW h \in Hosts, JoinServer(h) PROVE LiveInv'
  BY <1>16 DEF JoinServer, Goto
<1>17. ASSUME NEW h \in Hosts, DropSocket(h) PROVE LiveInv'
  BY <1>17 DEF DropSocket, Goto
<1>18. ASSUME NEW h \in Hosts, Exit(h) PROVE LiveInv'
  BY <1>18 DEF Exit, Goto, Gone
<1>19. ASSUME NEW h \in Hosts, Accept(h) PROVE LiveInv'
  BY <1>19 DEF Accept, Mine
<1>20. ASSUME NEW h \in Hosts, AcceptStops(h) PROVE LiveInv'
  BY <1>20 DEF AcceptStops
<1>21. ASSUME NEW h \in Hosts, JoinConnections(h) PROVE LiveInv'
  BY <1>21 DEF JoinConnections, Closed
<1>22. ASSUME NEW h \in Hosts, AcceptFails(h) PROVE LiveInv'
  BY <1>22 DEF AcceptFails, Closed
<1>23. ASSUME NEW h \in Hosts \cup {Daemon}, Crash(h) PROVE LiveInv'
  BY <1>23 DEF Crash, Gone
<1>24. ASSUME NEW h \in Hosts, Portal(h) PROVE LiveInv'
  BY <1>24 DEF Portal, Others
<1>25. ASSUME NEW h \in Hosts, Desktop(h) PROVE LiveInv'
  BY <1>25 DEF Desktop, Others
<1>26. CASE DaemonStart
  BY <1>26 DEF DaemonStart
<1>27. CASE DaemonListen
  BY <1>27 DEF DaemonListen, Goto
<1>28. CASE OldEnds
  BY <1>28 DEF OldEnds
<1>29. ASSUME NEW c \in Clients, Connect(c) PROVE LiveInv'
  BY <1>29 DEF Connect, Client
<1>30. ASSUME NEW c \in Clients, Send(c) PROVE LiveInv'
  BY <1>30 DEF Send, Client
<1>31. ASSUME NEW c \in Clients, Ends(c) PROVE LiveInv'
  BY <1>31 DEF Ends, Client
<1>32. ASSUME NEW c \in Clients, ReadFrame(c) PROVE LiveInv'
  BY <1>32 DEF ReadFrame, Thread
<1>33. ASSUME NEW c \in Clients, Call(c) PROVE LiveInv'
  BY <1>33 DEF Call, Thread
<1>34. ASSUME NEW c \in Clients, Reply(c) PROVE LiveInv'
  BY <1>34 DEF Reply, Thread
<1>35. CASE UNCHANGED vars
  BY <1>35
<1> QED
  BY <1>1, <1>2, <1>3, <1>4, <1>5, <1>6, <1>7, <1>8, <1>9, <1>10, <1>11, <1>12,
      <1>13, <1>14, <1>15, <1>16, <1>17, <1>18, <1>19, <1>20, <1>21, <1>22, <1>23,
      <1>24, <1>25, <1>26, <1>27, <1>28, <1>29, <1>30, <1>31, <1>32, <1>33, <1>34,
      <1>35 DEF Next, HostStep, AcceptLoop, Exchange, Environment

\* While it holds the lock, what a host has seen of the path stays true.
LEMMA PathStep ==
  ASSUME EndpointTypes, LockInv, LiveInv, PathInv, [Next]_vars
  PROVE  PathInv'
<1> USE DEF EndpointTypes, PathInv, LockInv, Locked, Removed
<1>1. ASSUME NEW h \in Hosts, Start(h) PROVE PathInv'
  BY <1>1, ZenonT(40) DEF Start, Goto
<1>2. ASSUME NEW h \in Hosts, Flock(h) PROVE PathInv'
  BY <1>2, ZenonT(40) DEF Flock, Goto
<1>3. ASSUME NEW h \in Hosts, Stat(h) PROVE PathInv'
  BY <1>3 DEF Stat, Goto
<1>4. ASSUME NEW h \in Hosts, Probe(h) PROVE PathInv'
  <2>1. CASE AcquireFails(h, "probe")
    BY <2>1 DEF AcquireFails, Goto
  <2>2. CASE ~AcquireFails(h, "probe")
    <3>1. /\ path \notin live /\ pc[h] = "probe" /\ pc' = [pc EXCEPT ![h] = "recheck"]
          /\ path' = path
          /\ UNCHANGED <<portalVars, lock, seen, root, live, controller, server, clients, crashes>>
      BY <1>4, <2>2 DEF Probe, Goto
    <3> QED
      BY <3>1
  <2> QED
    BY <2>1, <2>2
<1>5. ASSUME NEW h \in Hosts, Recheck(h) PROVE PathInv'
  <2>1. CASE AcquireFails(h, "recheck")
    BY <2>1 DEF AcquireFails, Goto
  <2>2. CASE ~AcquireFails(h, "recheck")
    <3>1. /\ path = seen[h] /\ pc[h] = "recheck" /\ pc' = [pc EXCEPT ![h] = "remove"]
          /\ path' = path
          /\ UNCHANGED <<portalVars, lock, seen, root, live, controller, server, clients, crashes>>
      BY <1>5, <2>2 DEF Recheck, Goto
    <3> QED
      BY <3>1
  <2> QED
    BY <2>1, <2>2
<1>6. ASSUME NEW h \in Hosts, Remove(h) PROVE PathInv'
  <2>1. CASE AcquireFails(h, "remove")
    BY <2>1 DEF AcquireFails, Goto
  <2>2. CASE ~AcquireFails(h, "remove")
    <3>1. /\ path # NoOne /\ pc[h] = "remove" /\ pc' = [pc EXCEPT ![h] = "root"]
          /\ path' = NoOne
          /\ UNCHANGED <<portalVars, lock, seen, root, live, controller, server, clients, crashes>>
      BY <1>6, <2>2 DEF Remove, Goto
    <3> QED
      BY <3>1
  <2> QED
    BY <2>1, <2>2
<1>7. ASSUME NEW h \in Hosts, SessionRoot(h) PROVE PathInv'
  BY <1>7 DEF SessionRoot, Goto
<1>8. ASSUME NEW h \in Hosts, Spawn(h) PROVE PathInv'
  BY <1>8 DEF Spawn, Goto
<1>9. ASSUME NEW h \in Hosts, Bind(h) PROVE PathInv'
  <2>0. /\ pc[h] = "bind"
        /\ UNCHANGED <<portalVars, lock, seen, root, controller, stop, clients, crashes>>
    BY <1>9 DEF Bind, Goto
  <2>1. CASE Goto(h, "bind", "serving")
    <3>1. /\ path = NoOne /\ pc' = [pc EXCEPT ![h] = "serving"]
          /\ path' = h /\ live' = live \cup {h} /\ acc' = [acc EXCEPT ![h] = "run"]
      BY <1>9, <2>1 DEF Bind, Goto, EndpointTypes
    <3> QED
      BY <2>0, <3>1
  <2>2. CASE Goto(h, "bind", "abort")
    <3>1. /\ pc' = [pc EXCEPT ![h] = "abort"] /\ UNCHANGED <<live, acc>>
          /\ \/ path = NoOne /\ path' \in {NoOne, h}
             \/ path # NoOne /\ path' = path
      BY <1>9, <2>2 DEF Bind, Goto, EndpointTypes
    <3> QED
      BY <2>0, <3>1
  <2> QED
    BY <1>9, <2>1, <2>2 DEF Bind
<1>10. ASSUME NEW h \in Hosts, Abort(h) PROVE PathInv'
  BY <1>10 DEF Abort, Goto
<1>11. ASSUME NEW h \in Hosts, Undo(h) PROVE PathInv'
  BY <1>11 DEF Undo, Goto
<1>12. ASSUME NEW h \in Hosts, Quit(h) PROVE PathInv'
  BY <1>12 DEF Quit, Goto
<1>13. ASSUME NEW h \in Hosts, JoinController(h) PROVE PathInv'
  BY <1>13 DEF JoinController, Goto
<1>14. ASSUME NEW h \in Hosts, StopShortcut(h) PROVE PathInv'
  BY <1>14 DEF StopShortcut, Goto
<1>15. ASSUME NEW h \in Hosts, JoinShortcut(h) PROVE PathInv'
  BY <1>15 DEF JoinShortcut, Goto
<1>16. ASSUME NEW h \in Hosts, JoinServer(h) PROVE PathInv'
  BY <1>16 DEF JoinServer, Goto
<1>17. ASSUME NEW h \in Hosts, DropSocket(h) PROVE PathInv'
  BY <1>17 DEF DropSocket, Goto
<1>18. ASSUME NEW h \in Hosts, Exit(h) PROVE PathInv'
  BY <1>18 DEF Exit, Goto, Gone
<1>19. ASSUME NEW h \in Hosts, Accept(h) PROVE PathInv'
  BY <1>19 DEF Accept, Mine
<1>20. ASSUME NEW h \in Hosts, AcceptStops(h) PROVE PathInv'
  BY <1>20 DEF AcceptStops
<1>21. ASSUME NEW h \in Hosts, JoinConnections(h) PROVE PathInv'
  BY <1>21 DEF JoinConnections, Closed
<1>22. ASSUME NEW h \in Hosts, AcceptFails(h) PROVE PathInv'
  BY <1>22 DEF AcceptFails, Closed
<1>23. ASSUME NEW h \in Hosts \cup {Daemon}, Crash(h) PROVE PathInv'
  BY <1>23 DEF Crash, Gone
<1>24. ASSUME NEW h \in Hosts, Portal(h) PROVE PathInv'
  BY <1>24 DEF Portal, Others
<1>25. ASSUME NEW h \in Hosts, Desktop(h) PROVE PathInv'
  BY <1>25 DEF Desktop, Others
<1>26. CASE DaemonStart
  BY <1>26 DEF DaemonStart
<1>27. CASE DaemonListen
  BY <1>27 DEF DaemonListen, Goto
<1>28. CASE OldEnds
  BY <1>28 DEF OldEnds
<1>29. ASSUME NEW c \in Clients, Connect(c) PROVE PathInv'
  BY <1>29 DEF Connect, Client
<1>30. ASSUME NEW c \in Clients, Send(c) PROVE PathInv'
  BY <1>30 DEF Send, Client
<1>31. ASSUME NEW c \in Clients, Ends(c) PROVE PathInv'
  BY <1>31 DEF Ends, Client
<1>32. ASSUME NEW c \in Clients, ReadFrame(c) PROVE PathInv'
  BY <1>32 DEF ReadFrame, Thread
<1>33. ASSUME NEW c \in Clients, Call(c) PROVE PathInv'
  BY <1>33 DEF Call, Thread
<1>34. ASSUME NEW c \in Clients, Reply(c) PROVE PathInv'
  BY <1>34 DEF Reply, Thread
<1>35. CASE UNCHANGED vars
  BY <1>35
<1> QED
  BY <1>1, <1>2, <1>3, <1>4, <1>5, <1>6, <1>7, <1>8, <1>9, <1>10, <1>11, <1>12,
      <1>13, <1>14, <1>15, <1>16, <1>17, <1>18, <1>19, <1>20, <1>21, <1>22, <1>23,
      <1>24, <1>25, <1>26, <1>27, <1>28, <1>29, <1>30, <1>31, <1>32, <1>33, <1>34,
      <1>35 DEF Next, HostStep, AcceptLoop, Exchange, Environment

\* Nobody sweeps the scratch directory of a host whose controller runs.
LEMMA RootStep ==
  ASSUME EndpointTypes, LockInv, RootInv, [Next]_vars
  PROVE  RootInv'
<1> USE DEF EndpointTypes, RootInv, Controlled, LockInv, Locked, Removed
<1>1. ASSUME NEW h \in Hosts, Start(h) PROVE RootInv'
  BY <1>1 DEF Start, Goto
<1>2. ASSUME NEW h \in Hosts, Flock(h) PROVE RootInv'
  BY <1>2 DEF Flock, Goto
<1>3. ASSUME NEW h \in Hosts, Stat(h) PROVE RootInv'
  BY <1>3 DEF Stat, Goto
<1>4. ASSUME NEW h \in Hosts, Probe(h) PROVE RootInv'
  BY <1>4 DEF Probe, Goto, AcquireFails
<1>5. ASSUME NEW h \in Hosts, Recheck(h) PROVE RootInv'
  BY <1>5 DEF Recheck, Goto, AcquireFails
<1>6. ASSUME NEW h \in Hosts, Remove(h) PROVE RootInv'
  BY <1>6 DEF Remove, Goto, AcquireFails
<1>7. ASSUME NEW h \in Hosts, SessionRoot(h) PROVE RootInv'
  BY <1>7 DEF SessionRoot, Goto
<1>8. ASSUME NEW h \in Hosts, Spawn(h) PROVE RootInv'
  BY <1>8 DEF Spawn, Goto
<1>9. ASSUME NEW h \in Hosts, Bind(h) PROVE RootInv'
  BY <1>9 DEF Bind, Goto
<1>10. ASSUME NEW h \in Hosts, Abort(h) PROVE RootInv'
  BY <1>10 DEF Abort, Goto
<1>11. ASSUME NEW h \in Hosts, Undo(h) PROVE RootInv'
  BY <1>11 DEF Undo, Goto
<1>12. ASSUME NEW h \in Hosts, Quit(h) PROVE RootInv'
  BY <1>12 DEF Quit, Goto
<1>13. ASSUME NEW h \in Hosts, JoinController(h) PROVE RootInv'
  BY <1>13 DEF JoinController, Goto
<1>14. ASSUME NEW h \in Hosts, StopShortcut(h) PROVE RootInv'
  BY <1>14 DEF StopShortcut, Goto
<1>15. ASSUME NEW h \in Hosts, JoinShortcut(h) PROVE RootInv'
  BY <1>15 DEF JoinShortcut, Goto
<1>16. ASSUME NEW h \in Hosts, JoinServer(h) PROVE RootInv'
  BY <1>16 DEF JoinServer, Goto
<1>17. ASSUME NEW h \in Hosts, DropSocket(h) PROVE RootInv'
  BY <1>17 DEF DropSocket, Goto
<1>18. ASSUME NEW h \in Hosts, Exit(h) PROVE RootInv'
  BY <1>18 DEF Exit, Goto, Gone
<1>19. ASSUME NEW h \in Hosts, Accept(h) PROVE RootInv'
  BY <1>19 DEF Accept, Mine
<1>20. ASSUME NEW h \in Hosts, AcceptStops(h) PROVE RootInv'
  BY <1>20 DEF AcceptStops
<1>21. ASSUME NEW h \in Hosts, JoinConnections(h) PROVE RootInv'
  BY <1>21 DEF JoinConnections, Closed
<1>22. ASSUME NEW h \in Hosts, AcceptFails(h) PROVE RootInv'
  BY <1>22 DEF AcceptFails, Closed
<1>23. ASSUME NEW h \in Hosts \cup {Daemon}, Crash(h) PROVE RootInv'
  BY <1>23 DEF Crash, Gone
<1>24. ASSUME NEW h \in Hosts, Portal(h) PROVE RootInv'
  BY <1>24 DEF Portal, Others
<1>25. ASSUME NEW h \in Hosts, Desktop(h) PROVE RootInv'
  BY <1>25 DEF Desktop, Others
<1>26. CASE DaemonStart
  BY <1>26 DEF DaemonStart
<1>27. CASE DaemonListen
  BY <1>27 DEF DaemonListen, Goto
<1>28. CASE OldEnds
  BY <1>28 DEF OldEnds
<1>29. ASSUME NEW c \in Clients, Connect(c) PROVE RootInv'
  BY <1>29 DEF Connect, Client
<1>30. ASSUME NEW c \in Clients, Send(c) PROVE RootInv'
  BY <1>30 DEF Send, Client
<1>31. ASSUME NEW c \in Clients, Ends(c) PROVE RootInv'
  BY <1>31 DEF Ends, Client
<1>32. ASSUME NEW c \in Clients, ReadFrame(c) PROVE RootInv'
  BY <1>32 DEF ReadFrame, Thread
<1>33. ASSUME NEW c \in Clients, Call(c) PROVE RootInv'
  BY <1>33 DEF Call, Thread
<1>34. ASSUME NEW c \in Clients, Reply(c) PROVE RootInv'
  BY <1>34 DEF Reply, Thread
<1>35. CASE UNCHANGED vars
  BY <1>35
<1> QED
  BY <1>1, <1>2, <1>3, <1>4, <1>5, <1>6, <1>7, <1>8, <1>9, <1>10, <1>11, <1>12,
      <1>13, <1>14, <1>15, <1>16, <1>17, <1>18, <1>19, <1>20, <1>21, <1>22, <1>23,
      <1>24, <1>25, <1>26, <1>27, <1>28, <1>29, <1>30, <1>31, <1>32, <1>33, <1>34,
      <1>35 DEF Next, HostStep, AcceptLoop, Exchange, Environment

-----------------------------------------------------------------------------
(* Requests *)

\* Only the call of the one connection of a client does its request.
LEMMA ToggleStep ==
  ASSUME EndpointTypes, ToggleInv, [Next]_vars
  PROVE  ToggleInv'
<1> USE DEF EndpointTypes, ToggleInv
<1>1. ASSUME NEW h \in Hosts, Start(h) PROVE ToggleInv'
  BY <1>1 DEF Start
<1>2. ASSUME NEW h \in Hosts, Flock(h) PROVE ToggleInv'
  BY <1>2 DEF Flock
<1>3. ASSUME NEW h \in Hosts, Stat(h) PROVE ToggleInv'
  BY <1>3 DEF Stat
<1>4. ASSUME NEW h \in Hosts, Probe(h) PROVE ToggleInv'
  BY <1>4 DEF Probe, AcquireFails
<1>5. ASSUME NEW h \in Hosts, Recheck(h) PROVE ToggleInv'
  BY <1>5 DEF Recheck, AcquireFails
<1>6. ASSUME NEW h \in Hosts, Remove(h) PROVE ToggleInv'
  BY <1>6 DEF Remove, AcquireFails
<1>7. ASSUME NEW h \in Hosts, SessionRoot(h) PROVE ToggleInv'
  BY <1>7 DEF SessionRoot
<1>8. ASSUME NEW h \in Hosts, Spawn(h) PROVE ToggleInv'
  BY <1>8 DEF Spawn
<1>9. ASSUME NEW h \in Hosts, Bind(h) PROVE ToggleInv'
  BY <1>9 DEF Bind
<1>10. ASSUME NEW h \in Hosts, Abort(h) PROVE ToggleInv'
  BY <1>10 DEF Abort
<1>11. ASSUME NEW h \in Hosts, Undo(h) PROVE ToggleInv'
  BY <1>11 DEF Undo
<1>12. ASSUME NEW h \in Hosts, Quit(h) PROVE ToggleInv'
  BY <1>12 DEF Quit
<1>13. ASSUME NEW h \in Hosts, JoinController(h) PROVE ToggleInv'
  BY <1>13 DEF JoinController
<1>14. ASSUME NEW h \in Hosts, StopShortcut(h) PROVE ToggleInv'
  BY <1>14 DEF StopShortcut
<1>15. ASSUME NEW h \in Hosts, JoinShortcut(h) PROVE ToggleInv'
  BY <1>15 DEF JoinShortcut
<1>16. ASSUME NEW h \in Hosts, JoinServer(h) PROVE ToggleInv'
  BY <1>16 DEF JoinServer
<1>17. ASSUME NEW h \in Hosts, DropSocket(h) PROVE ToggleInv'
  BY <1>17 DEF DropSocket
<1>18. ASSUME NEW h \in Hosts, Exit(h) PROVE ToggleInv'
  BY <1>18 DEF Exit, Gone, Reset
<1>19. ASSUME NEW h \in Hosts, Accept(h) PROVE ToggleInv'
  BY <1>19 DEF Accept, Mine
<1>20. ASSUME NEW h \in Hosts, AcceptStops(h) PROVE ToggleInv'
  BY <1>20 DEF AcceptStops
<1>21. ASSUME NEW h \in Hosts, JoinConnections(h) PROVE ToggleInv'
  BY <1>21 DEF JoinConnections, Closed, Reset
<1>22. ASSUME NEW h \in Hosts, AcceptFails(h) PROVE ToggleInv'
  BY <1>22 DEF AcceptFails, Closed, Reset
<1>23. ASSUME NEW h \in Hosts \cup {Daemon}, Crash(h) PROVE ToggleInv'
  BY <1>23 DEF Crash, Gone, Reset
<1>24. ASSUME NEW h \in Hosts, Portal(h) PROVE ToggleInv'
  BY <1>24 DEF Portal, Others
<1>25. ASSUME NEW h \in Hosts, Desktop(h) PROVE ToggleInv'
  BY <1>25 DEF Desktop, Others
<1>26. CASE DaemonStart
  BY <1>26 DEF DaemonStart
<1>27. CASE DaemonListen
  BY <1>27 DEF DaemonListen
<1>28. CASE OldEnds
  BY <1>28 DEF OldEnds
<1>29. ASSUME NEW c \in Clients, Connect(c) PROVE ToggleInv'
  BY <1>29 DEF Connect, Client
<1>30. ASSUME NEW c \in Clients, Send(c) PROVE ToggleInv'
  BY <1>30 DEF Send, Client
<1>31. ASSUME NEW c \in Clients, Ends(c) PROVE ToggleInv'
  BY <1>31 DEF Ends, Client
<1>32. ASSUME NEW c \in Clients, ReadFrame(c) PROVE ToggleInv'
  BY <1>32 DEF ReadFrame, Thread
<1>33. ASSUME NEW c \in Clients, Call(c) PROVE ToggleInv'
  BY <1>33 DEF Call, Thread
<1>34. ASSUME NEW c \in Clients, Reply(c) PROVE ToggleInv'
  BY <1>34 DEF Reply, Thread
<1>35. CASE UNCHANGED vars
  BY <1>35
<1> QED
  BY <1>1, <1>2, <1>3, <1>4, <1>5, <1>6, <1>7, <1>8, <1>9, <1>10, <1>11, <1>12,
      <1>13, <1>14, <1>15, <1>16, <1>17, <1>18, <1>19, <1>20, <1>21, <1>22, <1>23,
      <1>24, <1>25, <1>26, <1>27, <1>28, <1>29, <1>30, <1>31, <1>32, <1>33, <1>34,
      <1>35 DEF Next, HostStep, AcceptLoop, Exchange, Environment

-----------------------------------------------------------------------------
(* The portal thread's words and its channel *)

\* What the portal thread and its channel hold, the length of the channel apart.
PortalTypes ==
  /\ status \in [Hosts -> Statuses]
  /\ rx \in [Hosts -> Seq(Commands)]
  /\ tpc \in [Hosts -> ThreadPcs] /\ after \in [Hosts -> {"ok", "fail", "stop"}]
  /\ inputs \in 0..MaxInputs /\ consent \in BOOLEAN

\* Sending a command makes the channel longer by one, receiving one shorter.
LEMMA ChannelTypes ==
  ASSUME NEW s \in Seq(Commands)
  PROVE  /\ Len(s) \in Nat
         /\ \A m \in Commands : Append(s, m) \in Seq(Commands) /\ Len(Append(s, m)) = Len(s) + 1
         /\ s # <<>> => Tail(s) \in Seq(Commands) /\ Len(Tail(s)) <= Len(s)
         /\ <<>> \in Seq(Commands) /\ Len(<<>>) = 0
  OBVIOUS

\* A step of the portal thread takes nothing off its channel, or one command.
LEMMA ChannelPopped ==
  ASSUME PortalTypes, NEW h \in Hosts,
         \/ rx' = rx
         \/ rx[h] # <<>> /\ rx' = [rx EXCEPT ![h] = Tail(@)]
         \/ rx' = [rx EXCEPT ![h] = <<>>]
  PROVE  /\ rx' \in [Hosts -> Seq(Commands)]
         /\ \A g \in Hosts : Len(rx'[g]) <= Len(rx[g]) /\ Len(rx'[g]) \in Nat
<1>1. /\ rx[h] \in Seq(Commands) /\ Len(rx[h]) \in Nat
      /\ <<>> \in Seq(Commands) /\ Len(<<>>) = 0
      /\ \A g \in Hosts : Len(rx[g]) \in Nat
  BY ChannelTypes DEF PortalTypes
<1>2. CASE rx' = rx
  BY <1>1, <1>2 DEF PortalTypes
<1>3. CASE rx[h] # <<>> /\ rx' = [rx EXCEPT ![h] = Tail(@)]
  <2>1. Tail(rx[h]) \in Seq(Commands) /\ Len(Tail(rx[h])) <= Len(rx[h])
        /\ Len(Tail(rx[h])) \in Nat
    BY <1>1, <1>3, ChannelTypes
  <2> QED
    BY <1>1, <1>3, <2>1 DEF PortalTypes
<1>4. CASE rx' = [rx EXCEPT ![h] = <<>>]
  BY <1>1, <1>4 DEF PortalTypes
<1> QED
  BY <1>2, <1>3, <1>4

\* What a step of the portal thread may do to each of its words.
ThreadFrame(h) ==
  /\ inputs' = inputs /\ consent' \in BOOLEAN
  /\ tpc' = tpc \/ \E p \in ThreadPcs : tpc' = [tpc EXCEPT ![h] = p]
  /\ after' = after \/ \E w \in {"ok", "fail", "stop"} : after' = [after EXCEPT ![h] = w]
  /\ status' = status \/ \E s \in Statuses : status' = [status EXCEPT ![h] = s]
  /\ rx' = rx \/ (rx[h] # <<>> /\ rx' = [rx EXCEPT ![h] = Tail(@)])

LEMMA ThreadFrames ==
  ASSUME PortalTypes, NEW h \in Hosts, PortalThread(h)
  PROVE  ThreadFrame(h)
<1>0. consent \in BOOLEAN /\ status[h] \in Statuses /\ Shown(h) \in Statuses
  BY DEF PortalTypes, Statuses, Shown
<1>1. CASE Recv(h)
  <2>1. CASE Pop(h, "Shutdown") /\ Step(h, "recv", "done") /\ UNCHANGED <<status, after, consent>>
    BY <1>0, <2>1 DEF Step, Pop, ThreadFrame, ThreadPcs
  <2>2. CASE /\ Pop(h, "Enable") /\ Step(h, "recv", "setup")
             /\ status' = [status EXCEPT ![h] = "Initializing"]
             /\ UNCHANGED <<after, consent>>
    BY <1>0, <2>2 DEF Step, Pop, ThreadFrame, ThreadPcs, Bounded, Statuses
  <2> QED
    BY <1>1, <2>1, <2>2 DEF Recv
<1>2. CASE Setup(h)
  <2>1. CASE Answered(h, "setup", "subscribe")
    BY <1>0, <2>1 DEF Answered, Step, ThreadFrame, ThreadPcs, Bounded
  <2>2. CASE SetupFails(h)
    <3>1. UNCHANGED <<rx, after, consent, inputs>> /\ tpc' = [tpc EXCEPT ![h] = "recv"]
      BY <2>2 DEF SetupFails, Step
    <3>2. \E s \in Statuses : status' = [status EXCEPT ![h] = s]
      BY <1>0, <2>2 DEF SetupFails, Statuses
    <3> QED
      BY <1>0, <3>1, <3>2 DEF ThreadFrame, ThreadPcs
  <2>3. CASE Pop(h, "Shutdown") /\ Step(h, "setup", "done") /\ UNCHANGED <<status, after, consent>>
    BY <1>0, <2>3 DEF Step, Pop, ThreadFrame, ThreadPcs
  <2> QED
    BY <1>2, <2>1, <2>2, <2>3 DEF Setup
<1>3. ASSUME NEW from, NEW to \in ThreadPcs, Request(h, from, to) PROVE ThreadFrame(h)
  <2>1. CASE Answered(h, from, to)
    BY <1>0, <2>1 DEF Answered, Step, ThreadFrame
  <2>2. CASE Close(h, from, "fail") /\ UNCHANGED <<status, rx>>
    BY <1>0, <2>2 DEF Close, Step, ThreadFrame, ThreadPcs
  <2>3. CASE Pop(h, "Shutdown") /\ Close(h, from, "stop") /\ UNCHANGED status
    BY <1>0, <2>3 DEF Close, Step, Pop, ThreadFrame, ThreadPcs
  <2> QED
    BY <1>3, <2>1, <2>2, <2>3 DEF Request
<1>4. CASE Persist(h)
  <2>1. CASE /\ Step(h, "persist", "active")
             /\ consent' = TRUE /\ status' = [status EXCEPT ![h] = "Active"]
             /\ UNCHANGED <<rx, after>>
    BY <2>1 DEF Step, ThreadFrame, ThreadPcs, Statuses
  <2>2. CASE /\ Step(h, "persist", "close") /\ after' = [after EXCEPT ![h] = "fail"]
             /\ consent' \in {consent, TRUE}
             /\ UNCHANGED <<status, rx>>
    <3>1. consent' \in BOOLEAN
      BY <1>0, <2>2
    <3> QED
      BY <3>1, <2>2 DEF Step, ThreadFrame, ThreadPcs
  <2> QED
    BY <1>4, <2>1, <2>2 DEF Persist
<1>5. CASE DropEnable(h)
  BY <1>0, <1>5 DEF DropEnable, Pop, ThreadFrame
<1>6. CASE Stopped(h)
  BY <1>0, <1>6 DEF Stopped, Close, Step, Pop, ThreadFrame, ThreadPcs
<1>7. CASE CloseBounded(h)
  <2>1. \E s \in Statuses : status' = [status EXCEPT ![h] = s]
    BY <1>0, <1>7 DEF CloseBounded
  <2>2. \E p \in ThreadPcs : tpc' = [tpc EXCEPT ![h] = p]
    BY <1>7 DEF CloseBounded, Step, ThreadPcs
  <2>3. UNCHANGED <<rx, consent, inputs>> /\ after' = [after EXCEPT ![h] = "ok"]
    BY <1>7 DEF CloseBounded, Step
  <2> QED
    BY <1>0, <2>1, <2>2, <2>3 DEF ThreadFrame
<1>8. "bind" \in ThreadPcs /\ "persist" \in ThreadPcs
  BY DEF ThreadPcs, Bounded
<1> QED
  BY <1>1, <1>2, <1>3, <1>4, <1>5, <1>6, <1>7, <1>8 DEF PortalThread

\* The portal thread keeps its words, and no channel grows.
LEMMA ThreadStep ==
  ASSUME PortalTypes, NEW h \in Hosts, PortalThread(h)
  PROVE  /\ PortalTypes' /\ inputs' = inputs
         /\ \A g \in Hosts : Len(rx'[g]) <= Len(rx[g]) /\ Len(rx'[g]) \in Nat
<1>1. ThreadFrame(h)
  BY ThreadFrames
<1>2. /\ rx' \in [Hosts -> Seq(Commands)]
      /\ \A g \in Hosts : Len(rx'[g]) <= Len(rx[g]) /\ Len(rx'[g]) \in Nat
  BY <1>1, ChannelPopped DEF ThreadFrame
<1>3. /\ inputs' = inputs /\ inputs' \in 0..MaxInputs
      /\ consent' \in BOOLEAN
  BY <1>1 DEF ThreadFrame, PortalTypes
<1>4. tpc' \in [Hosts -> ThreadPcs]
  BY <1>1 DEF ThreadFrame, PortalTypes
<1>5. after' \in [Hosts -> {"ok", "fail", "stop"}]
  BY <1>1 DEF ThreadFrame, PortalTypes
<1>6. status' \in [Hosts -> Statuses]
  BY <1>1 DEF ThreadFrame, PortalTypes
<1> QED
  BY <1>2, <1>3, <1>4, <1>5, <1>6 DEF PortalTypes

\* One host moves, to a position with no fewer commands sent, and no channel grows.
LEMMA ChannelMove ==
  ASSUME EndpointTypes, PortalTypes, ChannelInv,
         NEW h \in Hosts, NEW p, pc' = [pc EXCEPT ![h] = p],
         Sent(pc[h]) <= Sent(p),
         \A g \in Hosts : Len(rx'[g]) <= Len(rx[g]) /\ Len(rx'[g]) \in Nat,
         inputs' = inputs
  PROVE  ChannelInv'
<1>1. \A g \in Hosts : pc'[g] = IF g = h THEN p ELSE pc[g]
  BY DEF EndpointTypes
<1>2. inputs \in Nat /\ \A g \in Hosts : Len(rx[g]) \in Nat
  BY ChannelTypes DEF PortalTypes
<1>3. Sent(p) \in Nat /\ \A g \in Hosts : Sent(pc[g]) \in Nat
  BY DEF Sent
<1>4. ASSUME NEW g \in Hosts PROVE Len(rx'[g]) <= inputs' + Sent(pc'[g])
  <2>1. Len(rx[g]) <= inputs + Sent(pc[g]) /\ Len(rx'[g]) <= Len(rx[g])
    BY DEF ChannelInv
  <2>2. Sent(pc[g]) <= Sent(pc'[g]) /\ Sent(pc'[g]) \in Nat
    <3>1. CASE g = h
      BY <1>1, <1>3, <3>1
    <3>2. CASE g # h
      BY <1>1, <1>3, <3>2
    <3> QED
      BY <3>1, <3>2
  <2> QED
    BY <1>2, <1>3, <2>1, <2>2
<1> QED
  BY <1>4 DEF ChannelInv

\* One host moves, without its portal thread.
LEMMA ChannelGo ==
  ASSUME EndpointTypes, PortalTypes, ChannelInv,
         NEW h \in Hosts, NEW p, pc' = [pc EXCEPT ![h] = p], Sent(pc[h]) <= Sent(p),
         UNCHANGED portalVars
  PROVE  PortalTypes' /\ ChannelInv'
<1>1. PortalTypes'
  BY DEF PortalTypes
<1>2. \A g \in Hosts : Len(rx'[g]) <= Len(rx[g]) /\ Len(rx'[g]) \in Nat
  BY ChannelTypes DEF PortalTypes
<1>3. inputs' = inputs
  OBVIOUS
<1> QED
  BY <1>1, <1>2, <1>3, ChannelMove

\* No host moves, no channel grows, and there may have been a click elsewhere.
LEMMA ChannelStay ==
  ASSUME PortalTypes, ChannelInv, \A g \in Hosts : pc'[g] = pc[g],
         inputs' \in Nat, inputs' >= inputs,
         \A g \in Hosts : Len(rx'[g]) <= Len(rx[g]) /\ Len(rx'[g]) \in Nat
  PROVE  ChannelInv'
<1>1. inputs \in Nat /\ \A g \in Hosts : Len(rx[g]) \in Nat
  BY ChannelTypes DEF PortalTypes
<1>2. \A g \in Hosts : Sent(pc[g]) \in Nat /\ Sent(pc'[g]) = Sent(pc[g])
  BY DEF Sent
<1> QED
  BY <1>1, <1>2 DEF ChannelInv

\* No host moves, and the portal threads neither.
LEMMA ChannelFrame ==
  ASSUME PortalTypes, ChannelInv, UNCHANGED portalVars, \A g \in Hosts : pc'[g] = pc[g]
  PROVE  PortalTypes' /\ ChannelInv'
<1>1. PortalTypes'
  BY DEF PortalTypes
<1>2. \A g \in Hosts : Sent(pc'[g]) = Sent(pc[g])
  BY DEF Sent
<1>3. rx' = rx /\ inputs' = inputs
  OBVIOUS
<1> QED
  BY <1>1, <1>2, <1>3 DEF ChannelInv

\* A host asks its portal thread to stop, on its way out.
LEMMA ChannelStop ==
  ASSUME EndpointTypes, PortalTypes, ChannelInv, NEW h \in Hosts, NEW p,
         pc' = [pc EXCEPT ![h] = p], RequestStop(h), Sent(p) = Sent(pc[h]) + 1
  PROVE  PortalTypes' /\ ChannelInv'
<1>1. \A g \in Hosts : pc'[g] = IF g = h THEN p ELSE pc[g]
  BY DEF EndpointTypes
<1>2. inputs' = inputs /\ inputs \in Nat /\ \A g \in Hosts : Len(rx[g]) \in Nat
  BY ChannelTypes DEF PortalTypes, RequestStop
<1>3. "Shutdown" \in Commands
  BY DEF Commands
<1>4. PortalTypes'
  BY <1>3, ChannelTypes DEF PortalTypes, RequestStop
<1>5. /\ \A g \in Hosts : g # h => rx'[g] = rx[g]
      /\ Len(rx'[h]) <= Len(rx[h]) + 1 /\ Len(rx'[h]) \in Nat
  BY <1>3, ChannelTypes DEF PortalTypes, RequestStop
<1>6. \A g \in Hosts : Sent(pc[g]) \in Nat
  BY DEF Sent
<1>7. ASSUME NEW g \in Hosts PROVE Len(rx'[g]) <= inputs' + Sent(pc'[g])
  <2>1. Len(rx[g]) <= inputs + Sent(pc[g])
    BY DEF ChannelInv
  <2>2. CASE g = h
    BY <1>1, <1>2, <1>5, <1>6, <2>1, <2>2
  <2>3. CASE g # h
    <3>1. pc'[g] = pc[g] /\ rx'[g] = rx[g]
      BY <1>1, <1>5, <2>3
    <3> QED
      BY <1>2, <2>1, <3>1
  <2> QED
    BY <2>2, <2>3
<1> QED
  BY <1>4, <1>7 DEF ChannelInv

\* Every step keeps the portal's words and the bound on its channel.
LEMMA ChannelStep ==
  ASSUME EndpointTypes, PortalTypes, ChannelInv, [Next]_vars
  PROVE  PortalTypes' /\ ChannelInv'
<1>0. \A g \in Hosts : Len(rx[g]) \in Nat
  BY ChannelTypes DEF PortalTypes
<1>1. ASSUME NEW h \in Hosts, Start(h) PROVE PortalTypes' /\ ChannelInv'
  <2>1. PICK p \in {"lock", "gone"} : pc[h] = "off" /\ pc' = [pc EXCEPT ![h] = p]
    BY <1>1 DEF Start, Goto
  <2>2. UNCHANGED portalVars
    BY <1>1 DEF Start
  <2>3. Sent(pc[h]) <= Sent(p)
    BY <2>1 DEF Sent, Early
  <2> QED
    BY <2>1, <2>2, <2>3, ChannelGo
<1>2. ASSUME NEW h \in Hosts, Flock(h) PROVE PortalTypes' /\ ChannelInv'
  <2>1. PICK p \in {"stat", "gone"} : pc[h] = "lock" /\ pc' = [pc EXCEPT ![h] = p]
    BY <1>2 DEF Flock, Goto
  <2>2. UNCHANGED portalVars
    BY <1>2 DEF Flock
  <2>3. Sent(pc[h]) <= Sent(p)
    BY <2>1 DEF Sent, Early
  <2> QED
    BY <2>1, <2>2, <2>3, ChannelGo
<1>3. ASSUME NEW h \in Hosts, Stat(h) PROVE PortalTypes' /\ ChannelInv'
  <2>1. PICK p \in {"root", "probe"} : pc[h] = "stat" /\ pc' = [pc EXCEPT ![h] = p]
    BY <1>3 DEF Stat, Goto
  <2>2. UNCHANGED portalVars
    BY <1>3 DEF Stat
  <2>3. Sent(pc[h]) <= Sent(p)
    BY <2>1 DEF Sent, Early
  <2> QED
    BY <2>1, <2>2, <2>3, ChannelGo
<1>4. ASSUME NEW h \in Hosts, Probe(h) PROVE PortalTypes' /\ ChannelInv'
  <2>1. PICK p \in {"recheck", "gone"} : pc[h] = "probe" /\ pc' = [pc EXCEPT ![h] = p]
    BY <1>4 DEF Probe, Goto, AcquireFails
  <2>2. UNCHANGED portalVars
    BY <1>4 DEF Probe, AcquireFails
  <2>3. Sent(pc[h]) <= Sent(p)
    BY <2>1 DEF Sent, Early
  <2> QED
    BY <2>1, <2>2, <2>3, ChannelGo
<1>5. ASSUME NEW h \in Hosts, Recheck(h) PROVE PortalTypes' /\ ChannelInv'
  <2>1. PICK p \in {"remove", "gone"} : pc[h] = "recheck" /\ pc' = [pc EXCEPT ![h] = p]
    BY <1>5 DEF Recheck, Goto, AcquireFails
  <2>2. UNCHANGED portalVars
    BY <1>5 DEF Recheck, AcquireFails
  <2>3. Sent(pc[h]) <= Sent(p)
    BY <2>1 DEF Sent, Early
  <2> QED
    BY <2>1, <2>2, <2>3, ChannelGo
<1>6. ASSUME NEW h \in Hosts, Remove(h) PROVE PortalTypes' /\ ChannelInv'
  <2>1. PICK p \in {"root", "gone"} : pc[h] = "remove" /\ pc' = [pc EXCEPT ![h] = p]
    BY <1>6 DEF Remove, Goto, AcquireFails
  <2>2. UNCHANGED portalVars
    BY <1>6 DEF Remove, AcquireFails
  <2>3. Sent(pc[h]) <= Sent(p)
    BY <2>1 DEF Sent, Early
  <2> QED
    BY <2>1, <2>2, <2>3, ChannelGo
<1>7. ASSUME NEW h \in Hosts, SessionRoot(h) PROVE PortalTypes' /\ ChannelInv'
  <2>1. PICK p \in {"spawn", "drop"} : pc[h] = "root" /\ pc' = [pc EXCEPT ![h] = p]
    BY <1>7 DEF SessionRoot, Goto
  <2>2. UNCHANGED portalVars
    BY <1>7 DEF SessionRoot
  <2>3. Sent(pc[h]) <= Sent(p)
    BY <2>1 DEF Sent, Early
  <2> QED
    BY <2>1, <2>2, <2>3, ChannelGo
<1>8. ASSUME NEW h \in Hosts, Spawn(h) PROVE PortalTypes' /\ ChannelInv'
  <2>1. pc[h] = "spawn" /\ pc' = [pc EXCEPT ![h] = "bind"] /\ SpawnPortal(h)
    BY <1>8 DEF Spawn, Goto
  <2>2. UNCHANGED <<rx, inputs>>
    BY <2>1 DEF SpawnPortal
  <2>3. PortalTypes'
    BY <2>1 DEF PortalTypes, SpawnPortal, Statuses, ThreadPcs
  <2>4. Sent(pc[h]) <= Sent("bind")
    BY <2>1 DEF Sent, Early
  <2>5. \A g \in Hosts : Len(rx'[g]) <= Len(rx[g]) /\ Len(rx'[g]) \in Nat
    BY <1>0, <2>2
  <2>6. ChannelInv'
    BY <2>1, <2>2, <2>4, <2>5, ChannelMove
  <2> QED
    BY <2>3, <2>6
<1>9. ASSUME NEW h \in Hosts, Bind(h) PROVE PortalTypes' /\ ChannelInv'
  <2>1. PICK p \in {"serving", "abort"} : pc[h] = "bind" /\ pc' = [pc EXCEPT ![h] = p]
    BY <1>9 DEF Bind, Goto
  <2>2. UNCHANGED portalVars
    BY <1>9 DEF Bind
  <2>3. Sent(pc[h]) <= Sent(p)
    BY <2>1 DEF Sent, Early
  <2> QED
    BY <2>1, <2>2, <2>3, ChannelGo
<1>10. ASSUME NEW h \in Hosts, Abort(h) PROVE PortalTypes' /\ ChannelInv'
  <2>1. pc[h] = "abort" /\ pc' = [pc EXCEPT ![h] = "undo"] /\ RequestStop(h)
    BY <1>10 DEF Abort, Goto
  <2>2. Sent("undo") = Sent(pc[h]) + 1
    BY <2>1 DEF Sent, Early
  <2> QED
    BY <2>1, <2>2, ChannelStop
<1>11. ASSUME NEW h \in Hosts, Undo(h) PROVE PortalTypes' /\ ChannelInv'
  <2>1. PICK p \in {"drop"} : pc[h] = "undo" /\ pc' = [pc EXCEPT ![h] = p]
    BY <1>11 DEF Undo, Goto
  <2>2. UNCHANGED portalVars
    BY <1>11 DEF Undo
  <2>3. Sent(pc[h]) <= Sent(p)
    BY <2>1 DEF Sent, Early
  <2> QED
    BY <2>1, <2>2, <2>3, ChannelGo
<1>12. ASSUME NEW h \in Hosts, Quit(h) PROVE PortalTypes' /\ ChannelInv'
  <2>1. pc[h] = "serving" /\ pc' = [pc EXCEPT ![h] = "controller"] /\ RequestStop(h)
    BY <1>12 DEF Quit, Goto
  <2>2. Sent("controller") = Sent(pc[h]) + 1
    BY <2>1 DEF Sent, Early
  <2> QED
    BY <2>1, <2>2, ChannelStop
<1>13. ASSUME NEW h \in Hosts, JoinController(h) PROVE PortalTypes' /\ ChannelInv'
  <2>1. PICK p \in {"shortcut"} : pc[h] = "controller" /\ pc' = [pc EXCEPT ![h] = p]
    BY <1>13 DEF JoinController, Goto
  <2>2. UNCHANGED portalVars
    BY <1>13 DEF JoinController
  <2>3. Sent(pc[h]) <= Sent(p)
    BY <2>1 DEF Sent, Early
  <2> QED
    BY <2>1, <2>2, <2>3, ChannelGo
<1>14. ASSUME NEW h \in Hosts, StopShortcut(h) PROVE PortalTypes' /\ ChannelInv'
  <2>1. pc[h] = "shortcut" /\ pc' = [pc EXCEPT ![h] = "wait"] /\ RequestStop(h)
    BY <1>14 DEF StopShortcut, Goto
  <2>2. Sent("wait") = Sent(pc[h]) + 1
    BY <2>1 DEF Sent, Early
  <2> QED
    BY <2>1, <2>2, ChannelStop
<1>15. ASSUME NEW h \in Hosts, JoinShortcut(h) PROVE PortalTypes' /\ ChannelInv'
  <2>1. PICK p \in {"server"} : pc[h] = "wait" /\ pc' = [pc EXCEPT ![h] = p]
    BY <1>15 DEF JoinShortcut, Goto
  <2>2. UNCHANGED portalVars
    BY <1>15 DEF JoinShortcut
  <2>3. Sent(pc[h]) <= Sent(p)
    BY <2>1 DEF Sent, Early
  <2> QED
    BY <2>1, <2>2, <2>3, ChannelGo
<1>16. ASSUME NEW h \in Hosts, JoinServer(h) PROVE PortalTypes' /\ ChannelInv'
  <2>1. PICK p \in {"drop"} : pc[h] = "server" /\ pc' = [pc EXCEPT ![h] = p]
    BY <1>16 DEF JoinServer, Goto
  <2>2. UNCHANGED portalVars
    BY <1>16 DEF JoinServer
  <2>3. Sent(pc[h]) <= Sent(p)
    BY <2>1 DEF Sent, Early
  <2> QED
    BY <2>1, <2>2, <2>3, ChannelGo
<1>17. ASSUME NEW h \in Hosts, DropSocket(h) PROVE PortalTypes' /\ ChannelInv'
  <2>1. PICK p \in {"exit"} : pc[h] = "drop" /\ pc' = [pc EXCEPT ![h] = p]
    BY <1>17 DEF DropSocket, Goto
  <2>2. UNCHANGED portalVars
    BY <1>17 DEF DropSocket
  <2>3. Sent(pc[h]) <= Sent(p)
    BY <2>1 DEF Sent, Early
  <2> QED
    BY <2>1, <2>2, <2>3, ChannelGo
<1>18. ASSUME NEW h \in Hosts, Exit(h) PROVE PortalTypes' /\ ChannelInv'
  <2>1. pc' = [pc EXCEPT ![h] = "gone"]
    BY <1>18 DEF Exit, Goto
  <2>2. CASE h \in Hosts
    <3>1. PortalDies(h)
      BY <1>18, <2>2 DEF Exit, Gone
    <3>2. \A g \in Hosts : Len(rx'[g]) <= Len(rx[g]) /\ Len(rx'[g]) \in Nat
      BY <2>2, <3>1, ChannelPopped DEF PortalDies
    <3>3. rx' \in [Hosts -> Seq(Commands)]
      BY <2>2, <3>1, ChannelPopped DEF PortalDies
    <3>4. PortalTypes' /\ inputs' = inputs
      BY <3>1, <3>3 DEF PortalTypes, PortalDies, Statuses, ThreadPcs
    <3>5. Sent(pc[h]) <= Sent("gone")
      BY DEF Sent, Early
    <3>6. ChannelInv'
      BY <2>1, <2>2, <3>2, <3>4, <3>5, ChannelMove
    <3> QED
      BY <3>4, <3>6
  <2> QED
    BY <2>2
<1>19. ASSUME NEW h \in Hosts, Accept(h) PROVE PortalTypes' /\ ChannelInv'
  <2>1. UNCHANGED <<portalVars, pc>>
    BY <1>19 DEF Accept
  <2> QED
    BY <2>1, ChannelFrame
<1>20. ASSUME NEW h \in Hosts, AcceptStops(h) PROVE PortalTypes' /\ ChannelInv'
  <2>1. UNCHANGED <<portalVars, pc>>
    BY <1>20 DEF AcceptStops
  <2> QED
    BY <2>1, ChannelFrame
<1>21. ASSUME NEW h \in Hosts, JoinConnections(h) PROVE PortalTypes' /\ ChannelInv'
  <2>1. UNCHANGED <<portalVars, pc>>
    BY <1>21 DEF JoinConnections
  <2> QED
    BY <2>1, ChannelFrame
<1>22. ASSUME NEW h \in Hosts, AcceptFails(h) PROVE PortalTypes' /\ ChannelInv'
  <2>1. UNCHANGED <<portalVars, pc>>
    BY <1>22 DEF AcceptFails
  <2> QED
    BY <2>1, ChannelFrame
<1>23. ASSUME NEW h \in Hosts \cup {Daemon}, Crash(h) PROVE PortalTypes' /\ ChannelInv'
  <2>1. pc' = [pc EXCEPT ![h] = "gone"]
    BY <1>23 DEF Crash
  <2>2. CASE h \in Hosts
    <3>1. PortalDies(h)
      BY <1>23, <2>2 DEF Crash, Gone
    <3>2. \A g \in Hosts : Len(rx'[g]) <= Len(rx[g]) /\ Len(rx'[g]) \in Nat
      BY <2>2, <3>1, ChannelPopped DEF PortalDies
    <3>3. rx' \in [Hosts -> Seq(Commands)]
      BY <2>2, <3>1, ChannelPopped DEF PortalDies
    <3>4. PortalTypes' /\ inputs' = inputs
      BY <3>1, <3>3 DEF PortalTypes, PortalDies, Statuses, ThreadPcs
    <3>5. Sent(pc[h]) <= Sent("gone")
      BY DEF Sent, Early
    <3>6. ChannelInv'
      BY <2>1, <2>2, <3>2, <3>4, <3>5, ChannelMove
    <3> QED
      BY <3>4, <3>6
  <2>3. CASE h \notin Hosts
    <3>1. UNCHANGED portalVars
      BY <1>23, <2>3 DEF Crash, Gone
    <3>2. \A g \in Hosts : pc'[g] = pc[g]
      BY <2>1, <2>3 DEF EndpointTypes
    <3> QED
      BY <3>1, <3>2, ChannelFrame
  <2> QED
    BY <2>2, <2>3
<1>24. ASSUME NEW h \in Hosts, Portal(h) PROVE PortalTypes' /\ ChannelInv'
  <2>1. PortalThread(h) /\ pc' = pc
    BY <1>24 DEF Portal, Others
  <2>2. /\ PortalTypes' /\ inputs' = inputs
        /\ \A g \in Hosts : Len(rx'[g]) <= Len(rx[g]) /\ Len(rx'[g]) \in Nat
    BY <2>1, ThreadStep
  <2>3. inputs' \in Nat /\ inputs' >= inputs /\ \A g \in Hosts : pc'[g] = pc[g]
    BY <2>1, <2>2 DEF PortalTypes
  <2>4. ChannelInv'
    BY <2>2, <2>3, ChannelStay
  <2> QED
    BY <2>2, <2>4
<1>25. ASSUME NEW h \in Hosts, Desktop(h) PROVE PortalTypes' /\ ChannelInv'
  <2>1. CASE Lost(h) /\ UNCHANGED Others
    <3>1. UNCHANGED <<rx, inputs, pc, consent>>
      BY <2>1 DEF Lost, Close, Step, Others
    <3>2. PortalTypes'
      BY <2>1, <3>1 DEF PortalTypes, Lost, Close, Step, Statuses, ThreadPcs
    <3>3. inputs' \in Nat /\ inputs' >= inputs /\ \A g \in Hosts : pc'[g] = pc[g]
      BY <3>1 DEF PortalTypes
    <3>4. \A g \in Hosts : Len(rx'[g]) <= Len(rx[g]) /\ Len(rx'[g]) \in Nat
      BY <1>0, <3>1
    <3>5. ChannelInv'
      BY <3>3, <3>4, ChannelStay
    <3> QED
      BY <3>2, <3>5
  <2>2. CASE pc[h] = "serving" /\ Enable(h) /\ UNCHANGED Others
    <3>1. "Enable" \in Commands
      BY DEF Commands
    <3>2. /\ inputs' = inputs + 1 /\ inputs < MaxInputs
          /\ UNCHANGED <<status, tpc, after, consent, pc>>
          /\ rx' = [rx EXCEPT ![h] = Append(rx[h], "Enable")]
      BY <2>2 DEF Enable, Others
    <3>3. rx[h] \in Seq(Commands) /\ inputs \in Nat
      BY DEF PortalTypes
    <3>4. /\ Append(rx[h], "Enable") \in Seq(Commands)
          /\ Len(Append(rx[h], "Enable")) = Len(rx[h]) + 1
      BY <3>1, <3>3, ChannelTypes
    <3>5. /\ rx' \in [Hosts -> Seq(Commands)]
          /\ \A g \in Hosts : Len(rx'[g]) <= Len(rx[g]) + 1
      BY <1>0, <3>2, <3>4 DEF PortalTypes
    <3>6. PortalTypes'
      BY <3>2, <3>3, <3>5 DEF PortalTypes
    <3>7. ASSUME NEW g \in Hosts PROVE Len(rx'[g]) <= inputs' + Sent(pc'[g])
      <4>1. Len(rx[g]) <= inputs + Sent(pc[g]) /\ Len(rx'[g]) <= Len(rx[g]) + 1
        BY <3>5 DEF ChannelInv
      <4>2. Sent(pc'[g]) = Sent(pc[g]) /\ Sent(pc[g]) \in Nat
        BY <3>2 DEF Sent
      <4>3. rx'[g] \in Seq(Commands)
        BY <3>5
      <4>4. Len(rx'[g]) \in Nat
        BY <4>3, ChannelTypes
      <4> QED
        BY <1>0, <3>2, <3>3, <4>1, <4>2, <4>4
    <3> QED
      BY <3>6, <3>7 DEF ChannelInv
  <2> QED
    BY <1>25, <2>1, <2>2 DEF Desktop
<1>26. CASE DaemonStart
  <2>1. UNCHANGED portalVars
    BY <1>26 DEF DaemonStart
  <2>2. \A g \in Hosts : pc'[g] = pc[g]
    BY <1>26 DEF DaemonStart, Goto, EndpointTypes
  <2> QED
    BY <2>1, <2>2, ChannelFrame
<1>27. CASE DaemonListen
  <2>1. UNCHANGED portalVars
    BY <1>27 DEF DaemonListen
  <2>2. \A g \in Hosts : pc'[g] = pc[g]
    BY <1>27 DEF DaemonListen, Goto, EndpointTypes
  <2> QED
    BY <2>1, <2>2, ChannelFrame
<1>28. CASE OldEnds
  <2>1. UNCHANGED <<portalVars, pc>>
    BY <1>28 DEF OldEnds
  <2> QED
    BY <2>1, ChannelFrame
<1>29. ASSUME NEW c \in Clients, Connect(c) PROVE PortalTypes' /\ ChannelInv'
  <2>1. UNCHANGED <<status, rx, tpc, after, consent, pc>> /\ inputs' = inputs + 1
        /\ inputs < MaxInputs
    BY <1>29 DEF Connect, Client
  <2>2. PortalTypes'
    BY <2>1 DEF PortalTypes
  <2>3. inputs' \in Nat /\ inputs' >= inputs /\ \A g \in Hosts : pc'[g] = pc[g]
    BY <2>1 DEF PortalTypes
  <2>4. \A g \in Hosts : Len(rx'[g]) <= Len(rx[g]) /\ Len(rx'[g]) \in Nat
    BY <1>0, <2>1
  <2>5. ChannelInv'
    BY <2>3, <2>4, ChannelStay
  <2> QED
    BY <2>2, <2>5
<1>30. ASSUME NEW c \in Clients, Send(c) PROVE PortalTypes' /\ ChannelInv'
  <2>1. UNCHANGED <<portalVars, pc>>
    BY <1>30 DEF Send, Client
  <2> QED
    BY <2>1, ChannelFrame
<1>31. ASSUME NEW c \in Clients, Ends(c) PROVE PortalTypes' /\ ChannelInv'
  <2>1. UNCHANGED <<portalVars, pc>>
    BY <1>31 DEF Ends, Client
  <2> QED
    BY <2>1, ChannelFrame
<1>32. ASSUME NEW c \in Clients, ReadFrame(c) PROVE PortalTypes' /\ ChannelInv'
  <2>1. UNCHANGED <<portalVars, pc>>
    BY <1>32 DEF ReadFrame, Thread
  <2> QED
    BY <2>1, ChannelFrame
<1>33. ASSUME NEW c \in Clients, Call(c) PROVE PortalTypes' /\ ChannelInv'
  <2>1. UNCHANGED <<portalVars, pc>>
    BY <1>33 DEF Call, Thread
  <2> QED
    BY <2>1, ChannelFrame
<1>34. ASSUME NEW c \in Clients, Reply(c) PROVE PortalTypes' /\ ChannelInv'
  <2>1. UNCHANGED <<portalVars, pc>>
    BY <1>34 DEF Reply, Thread
  <2> QED
    BY <2>1, ChannelFrame
<1>35. CASE UNCHANGED vars
  BY <1>35, ChannelFrame
<1> QED
  BY <1>1, <1>2, <1>3, <1>4, <1>5, <1>6, <1>7, <1>8, <1>9, <1>10, <1>11, <1>12,
      <1>13, <1>14, <1>15, <1>16, <1>17, <1>18, <1>19, <1>20, <1>21, <1>22, <1>23,
      <1>24, <1>25, <1>26, <1>27, <1>28, <1>29, <1>30, <1>31, <1>32, <1>33, <1>34,
      <1>35 DEF Next, HostStep, AcceptLoop, Exchange, Environment

\* The bound on a channel follows from the bound on the clicks.
LEMMA TypesTogether ==
  PortalTypes /\ ChannelInv /\ EndpointTypes => TypeOK
<1> SUFFICES ASSUME PortalTypes, ChannelInv, EndpointTypes
             PROVE  TypeOK
  OBVIOUS
<1>1. inputs \in Nat /\ inputs <= MaxInputs /\ MaxInputs \in Nat
  BY DEF PortalTypes
<1>2. \A h \in Hosts : Sent(pc[h]) <= 2 /\ Sent(pc[h]) \in Nat /\ Len(rx[h]) \in Nat
  BY ChannelTypes DEF PortalTypes, Sent
<1>3. ASSUME NEW h \in Hosts PROVE Len(rx[h]) <= MaxInputs + 2
  <2>1. Len(rx[h]) <= inputs + Sent(pc[h])
    BY DEF ChannelInv
  <2> QED
    BY <1>1, <1>2, <2>1
<1> QED
  BY <1>3 DEF PortalTypes, EndpointTypes, TypeOK, PortalTypeOK

-----------------------------------------------------------------------------
(* The theorems *)

\* The inductive invariant, with the types in the parts the steps are proved from.
EndpointInv ==
  EndpointTypes /\ PortalTypes /\ ChannelInv /\ LockInv /\ LiveInv /\ PathInv /\ RootInv
  /\ ToggleInv

\* At first nobody owns anything but an older owner its socket.
LEMMA EndpointInit == Init => EndpointInv
<1> SUFFICES ASSUME Init PROVE EndpointInv
  OBVIOUS
<1>1. EndpointTypes
  <2>1. /\ pc \in [Hosts \cup {Daemon} -> HostPcs]
        /\ seen \in [Hosts -> Owners \cup {NoOne}]
        /\ controller \in [Hosts -> {"none", "up", "down"}]
        /\ acc \in [Hosts -> {"none", "run", "join", "done", "failed"}]
    BY DEF Init, HostPcs
  <2>2. stop \in [Hosts -> BOOLEAN]
    BY DEF Init
  <2>3. /\ cli \in [Clients -> {"idle", "open", "sent", "done"}]
        /\ at \in [Clients -> Hosts \cup {NoOne}]
        /\ thread \in [Clients -> {"none", "queued", "reading", "calling", "reply", "closed"}]
        /\ applied \in [Clients -> Nat]
    BY DEF Init
  <2>4. /\ lock \in Owners \cup {NoOne} /\ path \in Owners \cup {NoOne}
        /\ root \in Hosts \cup {NoOne} /\ live \subseteq Owners /\ crashes \in 0..MaxCrashes
    BY DEF Init
  <2> QED
    BY <2>1, <2>2, <2>3, <2>4 DEF EndpointTypes
<1>2. PortalTypes /\ ChannelInv
  <2>1. PortalInit /\ pc = [h \in Hosts \cup {Daemon} |-> "off"]
    BY DEF Init
  <2>2. consent \in BOOLEAN
    BY <2>1 DEF PortalInit
  <2>3. rx \in [Hosts -> Seq(Commands)] /\ \A h \in Hosts : Len(rx[h]) = 0
    BY <2>1 DEF PortalInit
  <2>4. inputs \in 0..MaxInputs /\ inputs = 0
    BY <2>1 DEF PortalInit
  <2>5. \A h \in Hosts : Sent(pc[h]) = 0
    BY <2>1 DEF Sent, Early
  <2>6. PortalTypes
    BY <2>1, <2>2, <2>3, <2>4 DEF PortalInit, PortalTypes, Statuses, ThreadPcs
  <2> QED
    BY <2>3, <2>4, <2>5, <2>6 DEF ChannelInv
<1>3. LockInv /\ RootInv
  BY DEF Init, LockInv, RootInv, Locked, Removed
<1>4. LiveInv /\ PathInv
  BY DEF Init, LiveInv, PathInv, Removed
<1>5. ToggleInv
  BY DEF Init, ToggleInv
<1> QED
  BY <1>1, <1>2, <1>3, <1>4, <1>5 DEF EndpointInv

\* The endpoint invariant holds throughout.
LEMMA EndpointInvariant == Spec => []EndpointInv
<1>1. EndpointInv /\ [Next]_vars => EndpointInv'
  BY EndpointTypeStep, ChannelStep, LockStep, LiveStep, PathStep, RootStep, ToggleStep
     DEF EndpointInv
<1> QED
  BY EndpointInit, <1>1, PTL DEF Spec

\* Type correctness of the processes, the files, the portal threads and the clients,
\* with the bound on the channels.
THEOREM EndpointTypesKept == Spec => []TypeOK
<1>1. EndpointInv => TypeOK
  BY TypesTogether DEF EndpointInv
<1> QED
  BY EndpointInvariant, <1>1, PTL

\* A host that listens is reachable and its scratch directory is its own, however
\* many hosts start, fail, quit and are killed.
THEOREM OwnershipKept == Spec => []OwnsWhatItUses
<1>1. EndpointInv => OwnsWhatItUses
  BY DEF EndpointInv, LiveInv, PathInv, RootInv, OwnsWhatItUses
<1> QED
  BY EndpointInvariant, <1>1, PTL

\* No run of the command line tool toggles twice.
THEOREM NeverToggledTwice == Spec => []ToggledOnce
<1>1. EndpointInv => ToggledOnce
  BY DEF EndpointInv, ToggleInv, ToggledOnce
<1> QED
  BY EndpointInvariant, <1>1, PTL
=============================================================================
