------------------------------ MODULE DaemonProofs ------------------------------
(***************************************************************************)
(* The safety properties of Daemon, for any sets of connections and of     *)
(* signal threads and any limit on the connections.                        *)
(***************************************************************************)
EXTENDS Daemon, FiniteSetTheorems, TLAPS

\* The manager has a connection in hand from the accept to the list alone.
NewcomerInv ==
    /\ pc[Main] \in {"spawn", "push"} => newcomer \in Handlers \ listed
    /\ pc[Main] = "spawn" => thread[newcomer] = "none"
    /\ newcomer # NoHandler => pc[Main] \in {"spawn", "push"}

\* A client that is not connected yet is not the manager's and has no thread.
WaitingInv ==
    \A h \in Handlers :
        client[h] = "waiting" => h \notin listed \cup {newcomer} /\ thread[h] = "none"

LifeInv == NewcomerInv /\ WaitingInv /\ HandlersOutliveThreads

\* Where a thread may be between a read and the next look at what ends its loop.
InRequest == RequestKinds \cup {"answer", "loop"}

\* A request that was read late is the last of its connection, which is still to stop.
LateInv ==
    \A h \in Handlers :
        late[h] # 0 => late[h] = 1 /\ ToStop(h) /\ thread[h] \in InRequest

Serving == {h \in listed : IsActive(h)}

\* Where a place has been found, and where the reaped list is as it was left.
HasPlace == {"accept", "connect", "spawn", "push"}
Reaped == {"setup", "register", "start", "started", "run", "loop", "count"} \cup HasPlace

\* One connection more than the limit is listed only until the next cleanup.
BoundInv ==
    /\ IsFiniteSet(listed)
    /\ Cardinality(Serving) <= MaxConnections
    /\ Cardinality(listed) <= MaxConnections + 1
    /\ pc[Main] \in HasPlace => Cardinality(Serving) < MaxConnections
    /\ pc[Main] \in Reaped => Cardinality(listed) <= MaxConnections

\* Of a list that is too long the cleanup has somebody yet to remove.
CleanupInv ==
    /\ unvisited \subseteq listed
    /\ joining # NoHandler => pc[Main] = "cleaning" /\ joining \in listed \ unvisited
    /\ pc[Main] = "cleaning" =>
        \/ Cardinality(listed) <= MaxConnections
        \/ \E h \in listed : ~IsActive(h) /\ (h \in unvisited \/ h = joining)

DaemonInv == TypeOK /\ LifeInv /\ LateInv /\ BoundInv /\ CleanupInv

-----------------------------------------------------------------------------
(* Types. Each part of TypeOK has a lemma for the steps that touch it.      *)

HandlerSide ==
    /\ client \in [Handlers -> {"absent", "waiting", "open", "awaiting", "exiting", "left"}]
    /\ pipe \in [Handlers -> RequestKinds \cup {"empty", "reply"}]
    /\ thread \in [Handlers -> RequestKinds \cup {"none", "loop", "read", "answer",
                                                 "deactivate", "disconnect", "ended"}]
    /\ active \in [Handlers -> BOOLEAN]
    /\ connected \in [Handlers -> BOOLEAN]

Flags ==
    /\ shutdownRequested \in BOOLEAN
    /\ process \in {"running", "exited", "killed", "crashed"}
    /\ initialized \in BOOLEAN /\ serverInstance \in BOOLEAN /\ running \in BOOLEAN
    /\ managerRunning \in BOOLEAN /\ listening \in BOOLEAN

Lists ==
    /\ listed \subseteq Handlers /\ unvisited \subseteq Handlers
    /\ newcomer \in Handlers \cup {NoHandler} /\ joining \in Handlers \cup {NoHandler}
    /\ late \in [Handlers -> 0 .. 2]

Places == pc \in [Signals \cup {Main} -> Labels]

LEMMA TypeParts == TypeOK <=> HandlerSide /\ Flags /\ Lists /\ Places
BY DEF TypeOK, HandlerSide, Flags, Lists, Places

LEMMA InitType == Init => TypeOK
<1> SUFFICES ASSUME Init PROVE HandlerSide /\ Flags /\ Lists /\ Places
    BY TypeParts
<1>1. HandlerSide
    BY DEF Init, HandlersInit, HandlerSide
<1>2. Flags
    BY DEF Init, Flags
<1>3. Lists
    <2>1. late \in [Handlers -> 0 .. 2]
        BY DEF Init
    <2> QED
        BY <2>1 DEF Init, Lists
<1>4. Places
    BY DEF Init, Places, Labels
<1> QED
    BY <1>1, <1>2, <1>3, <1>4

\* The steps of stop, whoever takes them.
LEMMA StopType ==
    ASSUME TypeOK, NEW a \in Signals \cup {Main}, Stop(a)
    PROVE  TypeOK'
<1> USE DEF serverVars, listVars, handlerVars, others
<1>1. HandlerSide'
    <2>1. CASE UNCHANGED handlerVars
        BY <2>1, TypeParts DEF HandlerSide
    <2>2. CASE StopAllClients(a)
        BY <2>2, TypeParts DEF HandlerSide, StopAllClients
    <2> QED
        BY <2>1, <2>2 DEF Stop, CheckRunning, HaltServer, CheckManager, HaltManager, StopListening, Exit
<1>2. Flags'
    BY TypeParts DEF Flags, Stop, CheckRunning, HaltServer, CheckManager, HaltManager,
                     StopAllClients, StopListening, Exit
<1>3. Lists'
    BY TypeParts DEF Lists, Stop, CheckRunning, HaltServer, CheckManager, HaltManager,
                     StopAllClients, StopListening, Exit
<1>4. Places'
    BY TypeParts DEF Places, Labels, Back, Goto, Stop, CheckRunning, HaltServer, CheckManager,
                     HaltManager, StopAllClients, StopListening, Exit
<1> QED
    BY <1>1, <1>2, <1>3, <1>4 DEF TypeOK, HandlerSide, Flags, Lists, Places

LEMMA MainType == TypeOK /\ NewcomerInv /\ MainStep => TypeOK'
<1> SUFFICES ASSUME TypeOK, NewcomerInv, MainStep PROVE TypeOK'
    OBVIOUS
<1> USE DEF serverVars, listVars, handlerVars, others, MainBranches
<1>1. CASE Stop(Main)
    BY <1>1, StopType
<1>2. CASE Start \/ ManagerLoop \/ CountActive \/ BeginAccept
    <2> USE DEF Start, SetupSignalHandlers, RegisterServer, StartManager, StartServer, EnterRun,
                ManagerLoop, CountActive, BeginAccept
    <2>1. HandlerSide' /\ Lists'
        BY <1>2, TypeParts DEF HandlerSide, Lists
    <2>2. Flags'
        BY <1>2, TypeParts DEF Flags
    <2>3. Places'
        BY <1>2, TypeParts DEF Places, Labels, Goto
    <2> QED
        BY <2>1, <2>2, <2>3 DEF TypeOK, HandlerSide, Flags, Lists, Places
<1>3. ASSUME NEW h \in Handlers, Connect(h) \/ ConnectFails(h) PROVE TypeOK'
    <2>1. HandlerSide'
        BY <1>3, TypeParts DEF HandlerSide, Connect, ConnectFails, ClientTo
    <2>2. Flags' /\ Lists'
        BY <1>3, TypeParts DEF Flags, Lists, Connect, ConnectFails
    <2>3. Places'
        BY <1>3, TypeParts DEF Places, Labels, Goto, Connect, ConnectFails
    <2> QED
        BY <2>1, <2>2, <2>3 DEF TypeOK, HandlerSide, Flags, Lists, Places
<1>4. CASE SpawnHandler \/ PushHandler
    <2>1. HandlerSide'
        BY <1>4, TypeParts DEF HandlerSide, SpawnHandler, PushHandler, StartHandler, ThreadTo,
                               NewcomerInv
    <2>2. Flags' /\ Lists'
        BY <1>4, TypeParts DEF Flags, Lists, SpawnHandler, PushHandler, NewcomerInv
    <2>3. Places'
        BY <1>4, TypeParts DEF Places, Labels, Goto, SpawnHandler, PushHandler
    <2> QED
        BY <2>1, <2>2, <2>3 DEF TypeOK, HandlerSide, Flags, Lists, Places
<1>5. CASE Cleanup
    <2> USE DEF Cleanup, BeginCleanup, VisitHandler, JoinHandler, EndCleanup
    <2>1. HandlerSide' /\ Flags'
        BY <1>5, TypeParts DEF HandlerSide, Flags
    <2>2. Lists'
        BY <1>5, TypeParts DEF Lists
    <2>3. Places'
        BY <1>5, TypeParts DEF Places, Labels, Goto
    <2> QED
        BY <2>1, <2>2, <2>3 DEF TypeOK, HandlerSide, Flags, Lists, Places
<1>6. CASE Finish
    <2> USE DEF Finish, AfterRun, RemoveSignalHandlers, ForgetServer, ResetShutdown
    <2>1. HandlerSide' /\ Flags'
        BY <1>6, TypeParts DEF HandlerSide, Flags
    <2>2. late' \in [Handlers -> 0 .. 2]
        <3>1. [h \in Handlers |-> IF active[h] THEN 0 ELSE late[h]] \in [Handlers -> 0 .. 2]
            BY TypeParts DEF Lists
        <3> QED
            BY <1>6, <3>1, TypeParts DEF Lists
    <2>3. Lists'
        BY <1>6, <2>2, TypeParts DEF Lists
    <2>4. Places'
        BY <1>6, TypeParts DEF Places, Labels, Goto
    <2> QED
        BY <2>1, <2>3, <2>4 DEF TypeOK, HandlerSide, Flags, Lists, Places
<1> QED
    BY <1>1, <1>2, <1>3, <1>4, <1>5, <1>6 DEF MainStep, Accept

LEMMA SignalType ==
    ASSUME TypeOK, NEW s \in Signals, Deliver(s) \/ HandleSignal(s)
    PROVE  TypeOK'
<1>1. CASE Stop(s)
    BY <1>1, StopType
<1>2. CASE Deliver(s) \/ RequestShutdown(s) \/ CallStop(s)
    <2> USE DEF serverVars, listVars, handlerVars, Deliver, RequestShutdown, CallStop
    <2>1. HandlerSide' /\ Lists'
        BY <1>2, TypeParts DEF HandlerSide, Lists
    <2>2. Flags'
        BY <1>2, TypeParts DEF Flags
    <2>3. Places'
        BY <1>2, TypeParts DEF Places, Labels, Goto
    <2> QED
        BY <2>1, <2>2, <2>3 DEF TypeOK, HandlerSide, Flags, Lists, Places
<1> QED
    BY <1>1, <1>2 DEF HandleSignal

LEMMA HandlerType ==
    ASSUME TypeOK, NEW h \in Handlers,
           HandlerRuns(h) \/ HandlerReads(h) \/ HandlerFails(h) \/ ClientArrives(h) \/ ClientActs(h)
    PROVE  TypeOK'
<1> USE DEF daemonVars, serverVars, listVars
<1>1. HandlerSide'
    <2> USE DEF HandlerSide, ThreadTo, ClientTo, Put, RequestKinds
    <2>1. CASE HandlerRuns(h)
        BY <2>1, TypeParts DEF HandlerRuns, RunHandler, RunLoop, ProcessRequest, WriteReply,
                               Deactivate, Disconnect
    <2>2. CASE HandlerReads(h)
        BY <2>2, TypeParts DEF HandlerReads, ReadRequest
    <2>5. CASE HandlerFails(h)
        BY <2>5, TypeParts DEF HandlerFails, ReadFails
    <2>3. CASE ClientArrives(h)
        BY <2>3, TypeParts DEF ClientArrives, Arrive
    <2>4. CASE ClientActs(h)
        BY <2>4, TypeParts, RequestsAssumption DEF ClientActs, SendRequest, ReceiveReply, Leave
    <2> QED
        BY <2>1, <2>2, <2>3, <2>4, <2>5
<1>2. Flags' /\ Places'
    BY TypeParts DEF Flags, Places, HandlerRuns, HandlerReads, HandlerFails, ClientArrives, ClientActs
<1>3. late' \in [Handlers -> 0 .. 2]
    BY TypeParts DEF Lists, HandlerRuns, HandlerReads, HandlerFails, ClientArrives, ClientActs
<1>4. Lists'
    BY <1>3, TypeParts DEF Lists, HandlerRuns, HandlerReads, HandlerFails, ClientArrives, ClientActs
<1> QED
    BY <1>1, <1>2, <1>4 DEF TypeOK, HandlerSide, Flags, Lists, Places

LEMMA NextType == TypeOK /\ NewcomerInv /\ [Next]_vars => TypeOK'
<1> SUFFICES ASSUME TypeOK, NewcomerInv, [Next]_vars PROVE TypeOK'
    OBVIOUS
<1>1. CASE UNCHANGED vars
    BY <1>1 DEF vars, TypeOK, handlerVars, serverVars, listVars
<1> QED
    BY <1>1, MainType, SignalType, HandlerType DEF Next, Gone

-----------------------------------------------------------------------------
(* The life of a handler *)

\* What LifeInv does not speak of does not disturb it.
LEMMA LifeFrame ==
    ASSUME LifeInv, UNCHANGED <<client, thread, listed, newcomer>>,
           pc'[Main] \in {"spawn", "push"} <=> pc[Main] \in {"spawn", "push"},
           pc'[Main] = "spawn" => pc[Main] = "spawn"
    PROVE  LifeInv'
BY DEF LifeInv, NewcomerInv, WaitingInv, HandlersOutliveThreads

LEMMA MainLife == TypeOK /\ LifeInv /\ MainStep => LifeInv'
<1> SUFFICES ASSUME TypeOK, LifeInv, MainStep PROVE LifeInv'
    OBVIOUS
<1> USE DEF MainBranches, serverVars, listVars, handlerVars, others
<1>p. Places
    BY TypeParts
<1>1. CASE Start \/ ManagerLoop \/ CountActive \/ BeginAccept \/ Finish
    <2>1. UNCHANGED <<client, thread, listed, newcomer>>
        BY <1>1 DEF Start, SetupSignalHandlers, RegisterServer, StartManager, StartServer, EnterRun,
                    ManagerLoop, CountActive, BeginAccept,
                    Finish, AfterRun, RemoveSignalHandlers, ForgetServer, ResetShutdown
    <2>2. pc[Main] \notin {"spawn", "push"} /\ pc'[Main] \notin {"spawn", "push"}
        BY <1>1, <1>p
           DEF Places, Goto, Start, SetupSignalHandlers, RegisterServer, StartManager, StartServer,
               EnterRun, ManagerLoop, CountActive, BeginAccept,
               Finish, AfterRun, RemoveSignalHandlers, ForgetServer, ResetShutdown
    <2> QED
        BY <2>1, <2>2, LifeFrame
<1>2. CASE Stop(Main)
    <2>1. UNCHANGED <<client, thread, listed, newcomer>>
        BY <1>2 DEF Stop, CheckRunning, HaltServer, CheckManager, HaltManager, StopAllClients,
                    StopListening, Exit
    <2>2. pc[Main] \notin {"spawn", "push"} /\ pc'[Main] \notin {"spawn", "push"}
        BY <1>2, <1>p DEF Places, Goto, Back, Stop, CheckRunning, HaltServer, CheckManager,
                          HaltManager, StopAllClients, StopListening, Exit
    <2> QED
        BY <2>1, <2>2, LifeFrame
<1>3. ASSUME NEW h \in Handlers, Connect(h) PROVE LifeInv'
    <2>1. /\ newcomer = NoHandler /\ h \notin listed /\ newcomer' = h /\ pc'[Main] = "spawn"
          /\ thread[h] = "none"
        BY <1>3, <1>p DEF Connect, LifeInv, NewcomerInv, WaitingInv, Places, Goto
    <2>2. \A g \in Handlers : client'[g] = IF g = h THEN "open" ELSE client[g]
        BY <1>3, TypeParts DEF Connect, ClientTo, HandlerSide
    <2>3. UNCHANGED <<thread, listed>>
        BY <1>3 DEF Connect
    <2> QED
        BY <2>1, <2>2, <2>3, DaemonAssumption
           DEF LifeInv, NewcomerInv, WaitingInv, HandlersOutliveThreads
<1>4. ASSUME NEW h \in Handlers, ConnectFails(h) PROVE LifeInv'
    <2>1. \A g \in Handlers : client'[g] = IF g = h THEN "left" ELSE client[g]
        BY <1>4, TypeParts DEF ConnectFails, ClientTo, HandlerSide
    <2>2. UNCHANGED <<thread, listed, newcomer>>
        BY <1>4 DEF ConnectFails
    <2>3. pc[Main] = "connect" /\ pc'[Main] = "clean"
        BY <1>4, <1>p DEF ConnectFails, Places, Goto
    <2> QED
        BY <2>1, <2>2, <2>3 DEF LifeInv, NewcomerInv, WaitingInv, HandlersOutliveThreads
<1>5. CASE SpawnHandler
    <2>1. newcomer \in Handlers /\ pc'[Main] = "push" /\ UNCHANGED <<client, listed, newcomer>>
        BY <1>5, <1>p DEF SpawnHandler, StartHandler, LifeInv, NewcomerInv, Places, Goto
    <2>2. \A g \in Handlers : g # newcomer => thread'[g] = thread[g]
        BY <1>5, <2>1, TypeParts DEF SpawnHandler, StartHandler, ThreadTo, HandlerSide
    <2>3. pc[Main] = "spawn"
        BY <1>5 DEF SpawnHandler
    <2> QED
        BY <2>1, <2>2, <2>3 DEF LifeInv, NewcomerInv, WaitingInv, HandlersOutliveThreads
<1>6. CASE PushHandler
    <2>1. /\ pc[Main] = "push" /\ pc'[Main] = "clean"
          /\ listed' = listed \cup {newcomer} /\ newcomer' = NoHandler
          /\ UNCHANGED <<client, thread>>
        BY <1>6, <1>p DEF PushHandler, Places, Goto
    <2> QED
        BY <2>1, DaemonAssumption DEF LifeInv, NewcomerInv, WaitingInv, HandlersOutliveThreads
<1>7. CASE BeginCleanup \/ EndCleanup \/ \E h \in Handlers : VisitHandler(h)
    <2>1. UNCHANGED <<client, thread, listed, newcomer>>
        BY <1>7 DEF BeginCleanup, EndCleanup, VisitHandler
    <2>2. pc[Main] \notin {"spawn", "push"} /\ pc'[Main] \notin {"spawn", "push"}
        BY <1>7, <1>p DEF Places, Goto, BeginCleanup, EndCleanup, VisitHandler
    <2> QED
        BY <2>1, <2>2, LifeFrame
<1>8. CASE JoinHandler
    BY <1>8 DEF JoinHandler, LifeInv, NewcomerInv, WaitingInv, HandlersOutliveThreads
<1> QED
    BY <1>1, <1>2, <1>3, <1>4, <1>5, <1>6, <1>7, <1>8 DEF MainStep, Accept, Cleanup

\* A signal's thread does not move the main thread.
LEMMA SignalFrame ==
    ASSUME TypeOK, NEW s \in Signals, Deliver(s) \/ HandleSignal(s)
    PROVE  /\ pc'[Main] = pc[Main]
           /\ UNCHANGED <<client, thread, connected, listVars, late>>
           /\ \A h \in Handlers : active'[h] => active[h]
<1> USE DEF serverVars, listVars, handlerVars, others
<1>1. Places /\ HandlerSide
    BY TypeParts
<1>2. \A label : Goto(s, label) => pc'[Main] = pc[Main]
    BY <1>1, DaemonAssumption DEF Places, Goto
<1>3. CASE Deliver(s) \/ RequestShutdown(s) \/ CallStop(s)
    BY <1>2, <1>3 DEF Deliver, RequestShutdown, CallStop
<1>4. CASE StopAllClients(s)
    BY <1>1, <1>2, <1>4 DEF StopAllClients, HandlerSide
<1>5. CASE Stop(s) /\ ~StopAllClients(s)
    BY <1>2, <1>5 DEF Stop, CheckRunning, HaltServer, CheckManager, HaltManager, StopListening, Exit
<1> QED
    BY <1>3, <1>4, <1>5 DEF HandleSignal

\* What the steps of handlers and clients leave to the manager.
LEMMA HandlerFrame ==
    ASSUME NEW h \in Handlers,
           HandlerRuns(h) \/ HandlerReads(h) \/ HandlerFails(h) \/ ClientArrives(h) \/ ClientActs(h)
    PROVE  UNCHANGED <<pc, listVars, shutdownRequested>>
BY DEF HandlerRuns, HandlerReads, HandlerFails, ClientArrives, ClientActs, daemonVars, listVars

LEMMA HandlerLife ==
    ASSUME TypeOK, LifeInv, NEW h \in Handlers,
           HandlerRuns(h) \/ HandlerReads(h) \/ HandlerFails(h) \/ ClientArrives(h) \/ ClientActs(h)
    PROVE  LifeInv'
<1>1. HandlerSide /\ UNCHANGED <<pc, listed, newcomer>>
    BY HandlerFrame, TypeParts DEF listVars
<1>3. \A g \in Handlers : g # h => client'[g] = client[g] /\ thread'[g] = thread[g]
    BY <1>1 DEF HandlerSide, HandlerRuns, RunHandler, RunLoop, ProcessRequest, WriteReply, Deactivate,
                Disconnect, HandlerReads, ReadRequest, HandlerFails, ReadFails, ClientArrives, Arrive, ClientActs, SendRequest,
                ReceiveReply, Leave, ClientTo, ThreadTo
<1>2. ASSUME thread'[h] = thread[h] \/ thread[h] # "none" \/ h # newcomer PROVE NewcomerInv'
    BY <1>1, <1>2, <1>3 DEF LifeInv, NewcomerInv
<1>4. CASE HandlerRuns(h) \/ HandlerReads(h) \/ HandlerFails(h)
    <2>1. thread[h] \notin {"none", "ended"} /\ client' = client
        BY <1>4 DEF HandlerRuns, RunHandler, RunLoop, ProcessRequest, WriteReply, Deactivate,
                    Disconnect, HandlerReads, ReadRequest, HandlerFails, ReadFails, RequestKinds
    <2> QED
        BY <1>1, <1>2, <1>3, <2>1 DEF LifeInv, WaitingInv, HandlersOutliveThreads
<1>5. CASE ClientArrives(h)
    <2>1. h \notin listed \cup {newcomer} /\ thread'[h] = "none"
        BY <1>1, <1>5 DEF HandlerSide, ClientArrives, Arrive, ThreadTo
    <2> QED
        BY <1>1, <1>2, <1>3, <2>1 DEF LifeInv, WaitingInv, HandlersOutliveThreads
<1>6. CASE ClientActs(h)
    <2>1. thread' = thread /\ client'[h] # "waiting"
        BY <1>1, <1>6 DEF HandlerSide, ClientActs, SendRequest, ReceiveReply, Leave, ClientTo
    <2> QED
        BY <1>1, <1>2, <1>3, <2>1 DEF LifeInv, WaitingInv, HandlersOutliveThreads
<1> QED
    BY <1>4, <1>5, <1>6

LEMMA NextLife == TypeOK /\ LifeInv /\ [Next]_vars => LifeInv'
<1> SUFFICES ASSUME TypeOK, LifeInv, [Next]_vars PROVE LifeInv'
    OBVIOUS
<1>1. CASE UNCHANGED vars
    BY <1>1, LifeFrame DEF vars, handlerVars, listVars
<1>2. ASSUME NEW s \in Signals, Deliver(s) \/ HandleSignal(s) PROVE LifeInv'
    BY <1>2, SignalFrame, LifeFrame DEF listVars
<1> QED
    BY <1>1, <1>2, MainLife, HandlerLife DEF Next, Gone

-----------------------------------------------------------------------------
(* Service of connections that are to stop *)

LEMMA NextLate == TypeOK /\ LifeInv /\ LateInv /\ [Next]_vars => LateInv'
<1> SUFFICES ASSUME TypeOK, LifeInv, LateInv, [Next]_vars PROVE LateInv'
    OBVIOUS
<1> USE DEF LateInv, ToStop
<1>h. HandlerSide /\ Lists
    BY TypeParts
<1>1. CASE /\ UNCHANGED <<late, thread>>
           /\ \A h \in Handlers : ToStop(h) => ToStop(h)'
    BY <1>1
<1>2. CASE MainStep
    <2> USE DEF MainBranches, serverVars, listVars, handlerVars, others
    <2>1. CASE SpawnHandler
        <3>1. newcomer \in Handlers /\ thread[newcomer] = "none"
            BY <2>1 DEF SpawnHandler, LifeInv, NewcomerInv
        <3>2. late[newcomer] = 0
            BY <3>1, <1>h DEF Lists, InRequest, RequestKinds
        <3>3. \A h \in Handlers :
                h # newcomer => thread'[h] = thread[h] /\ active'[h] = active[h]
            BY <1>h, <2>1 DEF SpawnHandler, StartHandler, ThreadTo, HandlerSide
        <3> QED
            BY <2>1, <3>2, <3>3 DEF SpawnHandler
    <2>2. CASE ResetShutdown
        <3>1. UNCHANGED <<thread, active>>
            BY <2>2 DEF ResetShutdown
        <3>2. \A h \in Handlers : late'[h] = IF active[h] THEN 0 ELSE late[h]
            BY <2>2 DEF ResetShutdown
        <3> QED
            BY <3>1, <3>2
    <2>3. CASE StopAllClients(Main)
        <3>1. UNCHANGED <<late, thread, shutdownRequested>>
            BY <2>3 DEF StopAllClients
        <3>2. \A h \in Handlers : ~active[h] => ~active'[h]
            BY <2>3 DEF StopAllClients
        <3> QED
            BY <1>1, <3>1, <3>2
    <2>4. CASE ~SpawnHandler /\ ~ResetShutdown /\ ~StopAllClients(Main)
        <3>1. UNCHANGED <<late, thread, active, shutdownRequested>>
            BY <1>2, <2>4
               DEF MainStep, Start, SetupSignalHandlers, RegisterServer, StartManager, StartServer,
                   EnterRun, Accept, ManagerLoop, CountActive, BeginAccept, Connect, ConnectFails,
                   PushHandler, Cleanup, BeginCleanup, VisitHandler, JoinHandler, EndCleanup,
                   Stop, CheckRunning, HaltServer, CheckManager, HaltManager,
                   StopListening, Exit, Finish, AfterRun, RemoveSignalHandlers, ForgetServer
        <3> QED
            BY <1>1, <3>1
    <2> QED
        BY <2>1, <2>2, <2>3, <2>4
<1>3. ASSUME NEW s \in Signals, Deliver(s) \/ HandleSignal(s) PROVE LateInv'
    <2>1. UNCHANGED <<late, thread>> /\ \A h \in Handlers : active'[h] => active[h]
        BY <1>3, SignalFrame
    <2>2. shutdownRequested => shutdownRequested'
        BY <1>3 DEF Deliver, HandleSignal, RequestShutdown, CallStop, Stop, CheckRunning, HaltServer,
                    CheckManager, HaltManager, StopAllClients, StopListening, Exit, others
    <2> QED
        BY <1>1, <2>1, <2>2
<1>4. ASSUME NEW h \in Handlers, HandlerRuns(h) PROVE LateInv'
    <2>1. UNCHANGED shutdownRequested /\ \A g \in Handlers : active'[g] => active[g]
        BY <1>4, <1>h DEF HandlerSide, HandlerRuns, RunHandler, RunLoop, ProcessRequest, WriteReply,
                          Deactivate, Disconnect, daemonVars
    <2>2. \A g \in Handlers : g # h => thread'[g] = thread[g] /\ late'[g] = late[g]
        BY <1>4, <1>h DEF HandlerSide, Lists, HandlerRuns, RunHandler, RunLoop, ProcessRequest,
                          WriteReply, Deactivate, Disconnect, ThreadTo
    <2>3. late'[h] = IF thread'[h] = "deactivate" THEN 0 ELSE late[h]
        BY <1>4, <1>h DEF Lists, HandlerRuns
    <2>4. ToStop(h) /\ thread[h] \in InRequest => thread'[h] \in InRequest \cup {"deactivate"}
        BY <1>4, <1>h DEF HandlerSide, HandlerRuns, RunHandler, RunLoop, ProcessRequest, WriteReply,
                          Deactivate, Disconnect, ThreadTo, IsActive, InRequest, RequestKinds
    <2> QED
        BY <2>1, <2>2, <2>3, <2>4
<1>5. ASSUME NEW h \in Handlers, HandlerReads(h) PROVE LateInv'
    <2>1. thread[h] = "read" /\ UNCHANGED <<shutdownRequested, active>>
        BY <1>5 DEF HandlerReads, ReadRequest, daemonVars
    <2>2. late[h] = 0
        BY <2>1, <1>h DEF Lists, InRequest, RequestKinds
    <2>3. \A g \in Handlers : g # h => thread'[g] = thread[g] /\ late'[g] = late[g]
        BY <1>5, <1>h DEF HandlerSide, Lists, HandlerReads, ReadRequest, ThreadTo
    <2>4. late'[h] # 0 => late'[h] = 1 /\ ToStop(h) /\ pipe[h] \in RequestKinds
        BY <1>5, <1>h, <2>2 DEF Lists, HandlerReads
    <2>5. pipe[h] \in RequestKinds => thread'[h] \in InRequest
        BY <1>5, <1>h DEF HandlerSide, HandlerReads, ReadRequest, ThreadTo, InRequest
    <2> QED
        BY <2>1, <2>3, <2>4, <2>5
<1>6. ASSUME NEW h \in Handlers, HandlerFails(h) \/ ClientArrives(h) PROVE LateInv'
    <2>1. late[h] = 0
        BY <1>6, <1>h DEF Lists, HandlerFails, ReadFails, ClientArrives, Arrive, InRequest, RequestKinds
    <2>2. UNCHANGED <<late, active, shutdownRequested>>
        BY <1>6 DEF HandlerFails, ReadFails, ClientArrives, Arrive, daemonVars
    <2>3. \A g \in Handlers : g # h => thread'[g] = thread[g]
        BY <1>6, <1>h DEF HandlerSide, HandlerFails, ReadFails, ClientArrives, Arrive, ThreadTo
    <2> QED
        BY <2>1, <2>2, <2>3
<1>7. ASSUME NEW h \in Handlers, ClientActs(h) PROVE LateInv'
    BY <1>1, <1>7 DEF ClientActs, SendRequest, ReceiveReply, Leave, daemonVars
<1> QED
    BY <1>1, <1>2, <1>3, <1>4, <1>5, <1>6, <1>7 DEF Next, Gone, vars, handlerVars

-----------------------------------------------------------------------------
(* The limit on connections *)

\* No connection that is listed becomes active again.
LEMMA ListedFade ==
    TypeOK /\ LifeInv /\ [Next]_vars => \A h \in listed : IsActive(h)' => IsActive(h)
<1> SUFFICES ASSUME TypeOK, LifeInv, [Next]_vars, NEW h \in listed
             PROVE  (active'[h] => active[h]) /\ (connected'[h] => connected[h])
    BY DEF IsActive
<1>h. HandlerSide /\ h \in Handlers
    BY TypeParts DEF Lists
<1>1. CASE UNCHANGED <<active, connected>>
    BY <1>1
<1>2. CASE MainStep
    <2> USE DEF MainBranches, serverVars, listVars, handlerVars, others
    <2>1. ASSUME NEW g \in Handlers, Connect(g) PROVE h # g /\ UNCHANGED active
        BY <2>1 DEF Connect, LifeInv, WaitingInv
    <2>2. ASSUME NEW g \in Handlers, Connect(g) PROVE connected'[h] = connected[h]
        BY <1>h, <2>1, <2>2 DEF Connect, HandlerSide
    <2>3. CASE SpawnHandler
        BY <1>h, <2>3 DEF SpawnHandler, StartHandler, LifeInv, NewcomerInv, HandlerSide
    <2>4. CASE StopAllClients(Main)
        BY <1>h, <2>4 DEF StopAllClients, HandlerSide
    <2>5. CASE ~SpawnHandler /\ ~StopAllClients(Main) /\ ~(\E g \in Handlers : Connect(g))
        BY <1>1, <1>2, <2>5
           DEF MainStep, Start, SetupSignalHandlers, RegisterServer, StartManager, StartServer,
               EnterRun, Accept, ManagerLoop, CountActive, BeginAccept, ConnectFails, PushHandler,
               Cleanup, BeginCleanup, VisitHandler, JoinHandler, EndCleanup,
               Stop, CheckRunning, HaltServer, CheckManager, HaltManager, StopListening, Exit,
               Finish, AfterRun, RemoveSignalHandlers, ForgetServer, ResetShutdown
    <2> QED
        BY <2>1, <2>2, <2>3, <2>4, <2>5
<1>3. ASSUME NEW s \in Signals, Deliver(s) \/ HandleSignal(s)
      PROVE  (active'[h] => active[h]) /\ (connected'[h] => connected[h])
    BY <1>h, <1>3, SignalFrame
<1>4. ASSUME NEW g \in Handlers,
             HandlerRuns(g) \/ HandlerReads(g) \/ HandlerFails(g) \/ ClientArrives(g) \/ ClientActs(g)
      PROVE  (active'[h] => active[h]) /\ (connected'[h] => connected[h])
    BY <1>h, <1>4 DEF HandlerSide, HandlerRuns, RunHandler, RunLoop, ProcessRequest, WriteReply,
                      Deactivate, Disconnect, HandlerReads, ReadRequest, HandlerFails, ReadFails, ClientArrives, Arrive,
                      ClientActs, SendRequest, ReceiveReply, Leave
<1> QED
    BY <1>1, <1>2, <1>3, <1>4 DEF Next, Gone, vars, handlerVars

LEMMA ServingSize ==
    ASSUME BoundInv
    PROVE  /\ IsFiniteSet(Serving)
           /\ Cardinality(Serving) \in Nat /\ Cardinality(listed) \in Nat
           /\ Cardinality(listed) > MaxConnections => \E h \in listed : ~IsActive(h)
<1>1. Serving \subseteq listed
    BY DEF Serving
<1>2. IsFiniteSet(Serving) /\ Cardinality(Serving) \in Nat /\ Cardinality(listed) \in Nat
    BY <1>1, FS_Subset, FS_CardinalityType DEF BoundInv
<1>3. Serving = listed => Cardinality(listed) <= MaxConnections
    BY DEF BoundInv
<1>4. (\A h \in listed : IsActive(h)) => Serving = listed
    BY DEF Serving
<1> QED
    BY <1>2, <1>3, <1>4, DaemonAssumption

\* With the list as it was, no more connections are active than were.
LEMMA ServingShrinks ==
    ASSUME BoundInv, listed' \subseteq listed, \A h \in listed : IsActive(h)' => IsActive(h)
    PROVE  /\ IsFiniteSet(listed')
           /\ Cardinality(listed') \in Nat /\ Cardinality(listed') <= Cardinality(listed)
           /\ Cardinality(Serving') \in Nat /\ Cardinality(Serving') <= Cardinality(Serving)
<1>1. Serving' \subseteq Serving
    BY DEF Serving
<1>2. IsFiniteSet(Serving)
    BY ServingSize
<1>3. IsFiniteSet(listed') /\ Cardinality(listed') <= Cardinality(listed)
    BY FS_Subset DEF BoundInv
<1>4. IsFiniteSet(Serving') /\ Cardinality(Serving') <= Cardinality(Serving)
    BY <1>1, <1>2, FS_Subset
<1> QED
    BY <1>3, <1>4, FS_CardinalityType

\* Steps with the list as it was, and main where the bounds are no tighter.
LEMMA BoundFrame ==
    ASSUME BoundInv, UNCHANGED listed, \A h \in listed : IsActive(h)' => IsActive(h),
           pc'[Main] \in HasPlace => pc[Main] \in HasPlace \/ ~Full,
           pc'[Main] \in Reaped => pc[Main] \in Reaped
    PROVE  BoundInv'
<1>1. /\ IsFiniteSet(listed') /\ Cardinality(listed') = Cardinality(listed)
      /\ Cardinality(Serving') \in Nat /\ Cardinality(Serving') <= Cardinality(Serving)
    BY ServingShrinks DEF BoundInv
<1>2. Cardinality(Serving) \in Nat
    BY ServingSize
<1>3. pc'[Main] \in HasPlace => Cardinality(Serving) < MaxConnections
    BY <1>2, DaemonAssumption DEF BoundInv, Full, Serving
<1> QED
    BY <1>1, <1>2, <1>3, DaemonAssumption DEF BoundInv

LEMMA CleanupFrame ==
    ASSUME CleanupInv, UNCHANGED <<listed, unvisited, joining>>,
           \A h \in listed : IsActive(h)' => IsActive(h),
           pc'[Main] = "cleaning" <=> pc[Main] = "cleaning"
    PROVE  CleanupInv'
<1>1. ASSUME NEW h \in listed, ~IsActive(h) PROVE ~IsActive(h)'
    BY <1>1
<1> QED
    BY <1>1 DEF CleanupInv

(* The steps of main outside cleanupFinishedClients, but for the listing   *)
(* of a connection, leave the list and what the cleanup uses alone.        *)
LEMMA MainFrame ==
    ASSUME TypeOK, MainStep, ~PushHandler, ~Cleanup
    PROVE  /\ UNCHANGED <<listed, unvisited, joining>>
           /\ pc'[Main] \in HasPlace => pc[Main] \in HasPlace \/ ~Full
           /\ pc'[Main] \in Reaped => pc[Main] \in Reaped
           /\ pc'[Main] = "cleaning" <=> pc[Main] = "cleaning"
<1> USE DEF MainBranches, serverVars, listVars, others, Goto, HasPlace, Reaped
<1>p. Places
    BY TypeParts
<1>1. CASE Start \/ ManagerLoop \/ BeginAccept \/ Finish
    BY <1>p, <1>1 DEF Places, Start, SetupSignalHandlers, RegisterServer, StartManager, StartServer,
                      EnterRun, ManagerLoop, BeginAccept, Finish, AfterRun,
                      RemoveSignalHandlers, ForgetServer, ResetShutdown
<1>2. CASE CountActive
    BY <1>p, <1>2 DEF Places, CountActive
<1>3. CASE SpawnHandler \/ \E h \in Handlers : Connect(h) \/ ConnectFails(h)
    BY <1>p, <1>3 DEF Places, SpawnHandler, Connect, ConnectFails
<1>4. CASE Stop(Main)
    BY <1>p, <1>4 DEF Places, Stop, CheckRunning, HaltServer, CheckManager, HaltManager,
                      StopAllClients, StopListening, Exit, Back
<1> QED
    BY <1>1, <1>2, <1>3, <1>4 DEF MainStep, Accept

LEMMA PushBound ==
    ASSUME TypeOK, LifeInv, BoundInv, CleanupInv, PushHandler
    PROVE  BoundInv' /\ CleanupInv'
<1>1. /\ newcomer \notin listed /\ listed' = listed \cup {newcomer}
      /\ UNCHANGED <<active, connected, unvisited, joining>>
      /\ pc[Main] = "push" /\ pc'[Main] = "clean"
    BY TypeParts DEF PushHandler, LifeInv, NewcomerInv, Places, Goto, handlerVars
<1>2. Serving' \subseteq Serving \cup {newcomer}
    BY <1>1 DEF Serving, IsActive
<1>3. /\ IsFiniteSet(listed') /\ Cardinality(listed') = Cardinality(listed) + 1
    BY <1>1, FS_AddElement DEF BoundInv
<1>4. /\ IsFiniteSet(Serving \cup {newcomer})
      /\ Cardinality(Serving \cup {newcomer}) <= Cardinality(Serving) + 1
    <2>1. IsFiniteSet(Serving) /\ Cardinality(Serving) \in Nat
        BY ServingSize
    <2>2. /\ IsFiniteSet(Serving \cup {newcomer})
          /\ Cardinality(Serving \cup {newcomer})
                = IF newcomer \in Serving THEN Cardinality(Serving) ELSE Cardinality(Serving) + 1
        BY <2>1, FS_AddElement
    <2> QED
        BY <2>1, <2>2
<1>5. Cardinality(Serving') <= Cardinality(Serving) + 1 /\ Cardinality(Serving') \in Nat
    <2>1. IsFiniteSet(Serving') /\ Cardinality(Serving') <= Cardinality(Serving \cup {newcomer})
        BY <1>2, <1>4, FS_Subset
    <2>2. /\ Cardinality(Serving') \in Nat /\ Cardinality(Serving \cup {newcomer}) \in Nat
          /\ Cardinality(Serving) \in Nat
        BY <2>1, <1>4, ServingSize, FS_CardinalityType
    <2> QED
        BY <2>1, <2>2, <1>4
<1>6. Cardinality(Serving) < MaxConnections /\ Cardinality(listed) <= MaxConnections
    BY <1>1 DEF BoundInv, HasPlace, Reaped
<1>7. BoundInv'
    BY <1>1, <1>3, <1>5, <1>6, ServingSize, DaemonAssumption DEF BoundInv, HasPlace, Reaped
<1>8. CleanupInv'
    BY <1>1 DEF CleanupInv
<1> QED
    BY <1>7, <1>8

LEMMA CleanupBound ==
    ASSUME TypeOK, LifeInv, BoundInv, CleanupInv, Cleanup,
           \A h \in listed : IsActive(h)' => IsActive(h)
    PROVE  BoundInv' /\ CleanupInv'
<1> USE DEF MainBranches, serverVars, listVars, others, Goto
<1>p. Places
    BY TypeParts
<1>1. CASE BeginCleanup
    <2>1. /\ UNCHANGED <<listed, joining, active, connected>> /\ unvisited' = listed
          /\ pc[Main] = "clean" /\ pc'[Main] = "cleaning"
        BY <1>1, <1>p DEF BeginCleanup, Places, handlerVars
    <2>2. BoundInv'
        BY <2>1, BoundFrame DEF HasPlace, Reaped
    <2>3. CleanupInv'
        BY <2>1, ServingSize, DaemonAssumption DEF CleanupInv, IsActive
    <2> QED
        BY <2>2, <2>3
<1>2. ASSUME NEW h \in Handlers, VisitHandler(h) PROVE BoundInv' /\ CleanupInv'
    <2>1. /\ UNCHANGED <<listed, pc, active, connected>> /\ unvisited' = unvisited \ {h}
          /\ joining = NoHandler /\ joining' = IF IsActive(h) THEN NoHandler ELSE h
          /\ h \in unvisited /\ pc[Main] = "cleaning"
        BY <1>2 DEF VisitHandler, handlerVars
    <2>2. BoundInv'
        BY <2>1, BoundFrame
    <2>3. NoHandler \notin listed
        BY TypeParts, DaemonAssumption DEF Lists
    <2>4. /\ unvisited' \subseteq listed'
          /\ joining' # NoHandler => pc'[Main] = "cleaning" /\ joining' \in listed' \ unvisited'
        BY <2>1 DEF CleanupInv
    <2>5. ASSUME pc[Main] = "cleaning", Cardinality(listed) > MaxConnections
          PROVE  \E g \in listed : ~IsActive(g) /\ (g \in unvisited' \/ g = joining')
        <3>1. PICK g \in listed : ~IsActive(g) /\ g \in unvisited
            BY <2>1, <2>3, <2>5, ServingSize, DaemonAssumption DEF CleanupInv
        <3>2. g = h \/ g \in unvisited'
            BY <2>1, <3>1
        <3> QED
            BY <2>1, <3>1, <3>2
    <2>6. \A g \in listed : IsActive(g)' = IsActive(g)
        BY <2>1 DEF IsActive
    <2>7. CleanupInv'
        BY <2>1, <2>4, <2>5, <2>6, ServingSize, DaemonAssumption DEF CleanupInv
    <2> QED
        BY <2>2, <2>7
<1>3. CASE JoinHandler
    <2>1. /\ listed' = listed \ {joining} /\ joining' = NoHandler /\ joining \in listed
          /\ UNCHANGED <<pc, unvisited>> /\ pc[Main] = "cleaning"
        BY <1>3 DEF JoinHandler, CleanupInv
    <2>2. Cardinality(listed') = Cardinality(listed) - 1
        BY <2>1, FS_RemoveElement DEF BoundInv
    <2>3. /\ IsFiniteSet(listed') /\ Cardinality(listed') <= MaxConnections
          /\ Cardinality(Serving') <= MaxConnections
        BY <2>1, <2>2, ServingSize, ServingShrinks, DaemonAssumption DEF BoundInv
    <2>4. BoundInv'
        BY <2>1, <2>2, <2>3, ServingSize, DaemonAssumption DEF BoundInv, HasPlace, Reaped
    <2>5. CleanupInv'
        BY <1>3, <2>1, <2>3 DEF JoinHandler, CleanupInv
    <2> QED
        BY <2>4, <2>5
<1>4. CASE EndCleanup
    <2>1. /\ UNCHANGED <<listed, unvisited, joining, active, connected>>
          /\ joining = NoHandler /\ unvisited = {}
          /\ pc[Main] = "cleaning" /\ pc'[Main] = "loop"
        BY <1>4, <1>p DEF EndCleanup, Places, handlerVars
    <2>2. Cardinality(listed) <= MaxConnections
        BY <2>1, TypeParts, DaemonAssumption DEF CleanupInv, Lists
    <2>3. BoundInv'
        BY <2>1, <2>2, ServingShrinks, ServingSize, DaemonAssumption DEF BoundInv, HasPlace, Reaped
    <2>4. CleanupInv'
        BY <2>1 DEF CleanupInv
    <2> QED
        BY <2>3, <2>4
<1> QED
    BY <1>1, <1>2, <1>3, <1>4 DEF Cleanup

LEMMA NextBound ==
    TypeOK /\ LifeInv /\ BoundInv /\ CleanupInv /\ [Next]_vars => BoundInv' /\ CleanupInv'
<1> SUFFICES ASSUME TypeOK, LifeInv, BoundInv, CleanupInv, [Next]_vars
             PROVE  BoundInv' /\ CleanupInv'
    OBVIOUS
<1>1. \A h \in listed : IsActive(h)' => IsActive(h)
    BY ListedFade
<1>2. CASE UNCHANGED <<pc, listed, unvisited, joining>>
    BY <1>1, <1>2, BoundFrame, CleanupFrame
<1>3. CASE MainStep /\ ~PushHandler /\ ~Cleanup
    BY <1>1, <1>3, MainFrame, BoundFrame, CleanupFrame
<1>4. ASSUME NEW s \in Signals, Deliver(s) \/ HandleSignal(s) PROVE BoundInv' /\ CleanupInv'
    BY <1>1, <1>4, SignalFrame, BoundFrame, CleanupFrame DEF listVars
<1>5. ASSUME NEW h \in Handlers,
             HandlerRuns(h) \/ HandlerReads(h) \/ HandlerFails(h) \/ ClientArrives(h) \/ ClientActs(h)
      PROVE  BoundInv' /\ CleanupInv'
    BY <1>2, <1>5, HandlerFrame DEF listVars
<1> QED
    BY <1>1, <1>2, <1>3, <1>4, <1>5, PushBound, CleanupBound DEF Next, Gone, vars, listVars

-----------------------------------------------------------------------------
(* Theorems *)

LEMMA InitInv == Init => DaemonInv
<1> SUFFICES ASSUME Init PROVE DaemonInv
    OBVIOUS
<1>1. LifeInv /\ LateInv /\ CleanupInv
    BY DEF Init, HandlersInit, LifeInv, NewcomerInv, WaitingInv, HandlersOutliveThreads, LateInv,
           CleanupInv
<1>2. Serving = {} /\ listed = {}
    BY DEF Init, Serving
<1>3. BoundInv
    BY <1>2, FS_EmptySet, DaemonAssumption DEF BoundInv
<1> QED
    BY <1>1, <1>3, InitType DEF DaemonInv

(* The inductive invariant of the daemon: types, whom the manager has in   *)
(* hand, what a shutdown request leaves to be served, and how the limit    *)
(* survives the way from the count to the list (ConnectionManager.cxx).    *)
THEOREM DaemonInvariant == Spec => []DaemonInv
<1>1. DaemonInv /\ [Next]_vars => DaemonInv'
    BY NextType, NextLife, NextLate, NextBound DEF DaemonInv, LifeInv
<1> QED
    BY InitInv, <1>1, PTL DEF Spec

(* The variables of the daemon keep their types.                           *)
THEOREM TypeCorrectness == Spec => []TypeOK
BY DaemonInvariant, PTL DEF DaemonInv

(* No thread runs on a handler that the manager has let go of, for any     *)
(* number of connections and signals (ConnectionManager.cxx:107-116).      *)
THEOREM HandlersLive == Spec => []HandlersOutliveThreads
BY DaemonInvariant, PTL DEF DaemonInv, LifeInv

(* The limit holds for the active connections, and the list exceeds it by  *)
(* one at most, for any limit (ConnectionManager.cxx:74-122).              *)
THEOREM LimitHolds == Spec => []ConnectionsAreBounded
<1>1. DaemonInv => ConnectionsAreBounded
    BY DEF DaemonInv, BoundInv, Serving, ConnectionsAreBounded
<1> QED
    BY DaemonInvariant, <1>1, PTL

(* A connection that is to stop serves one request more at most, also once *)
(* the request to shut down has been taken back (ClientHandler.cxx:21,     *)
(* SignalHandler.cxx:48-68).                                               *)
THEOREM ServiceStops == Spec => []ShutdownStopsService
<1>1. DaemonInv => ShutdownStopsService
    <2> SUFFICES ASSUME DaemonInv, NEW h \in Handlers PROVE late[h] <= 1
        BY DEF ShutdownStopsService
    <2>1. late[h] \in 0 .. 2 /\ (late[h] # 0 => late[h] = 1)
        BY DEF DaemonInv, TypeOK, LateInv
    <2> QED
        BY <2>1
<1> QED
    BY DaemonInvariant, <1>1, PTL
=============================================================================
