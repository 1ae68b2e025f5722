-------------------------------- MODULE Daemon --------------------------------
(***************************************************************************)
(* The life of the daemon process: daemon/DaemonMain, DaemonServer,        *)
(* ConnectionManager and SignalHandler over the client handlers. The main  *)
(* thread accepts and reaps connections; a shutdown signal is handled by a *)
(* thread of its own, which stops the server and exits while the main      *)
(* thread may be anywhere, also in DaemonServer::stop itself.              *)
(***************************************************************************)
EXTENDS ClientHandlers, FiniteSets

CONSTANTS
    Main,           \* the main thread
    Signals,        \* the threads on which the system delivers a signal
    MaxConnections, \* Config::getMaxConnections
    NoHandler       \* no connection

ASSUME DaemonAssumption ==
    /\ Main \notin Signals
    /\ NoHandler \notin Handlers
    /\ MaxConnections \in Nat \ {0}

VARIABLES
    pc,              \* where Main and the signal threads are
    initialized,     \* the signal handlers are installed
    serverInstance,  \* SignalHandler's pointer to the server is not null
    running,         \* DaemonServer's flag
    managerRunning,  \* ConnectionManager's flag
    listening,       \* NamedPipeServer's flag
    listed,          \* the connections in clientHandlers and clientThreads
    newcomer,        \* the connection acceptConnections has in hand
    unvisited,       \* what cleanupFinishedClients has yet to look at
    joining,         \* the connection whose thread it joins
    late             \* history: requests a connection read when it was to stop

serverVars == <<initialized, serverInstance, running, managerRunning, listening>>
listVars == <<listed, newcomer, unvisited, joining>>
vars == <<handlerVars, shutdownRequested, process, pc, serverVars, listVars, late>>

Init ==
    /\ HandlersInit
    /\ shutdownRequested = FALSE
    /\ process = "running"
    /\ pc = [a \in Signals \cup {Main} |-> IF a = Main THEN "setup" ELSE "idle"]
    /\ initialized = FALSE /\ serverInstance = FALSE
    /\ running = FALSE /\ managerRunning = FALSE /\ listening = FALSE
    /\ listed = {} /\ newcomer = NoHandler
    /\ unvisited = {} /\ joining = NoHandler
    /\ late = [h \in Handlers |-> 0]

\* All but pc and the flags of the server.
others == <<handlerVars, shutdownRequested, process, listVars, late>>

Goto(a, label) == pc' = [pc EXCEPT ![a] = label]

\* connectionsMutex is held across steps by cleanupFinishedClients alone.
ConnectionsMutexFree == pc[Main] # "cleaning"

-----------------------------------------------------------------------------
(* DaemonMain, up to the main loop. NamedPipeServer::start cannot fail.    *)

SetupSignalHandlers ==
    /\ pc[Main] = "setup"
    /\ initialized' = TRUE
    /\ Goto(Main, "register")
    /\ UNCHANGED <<others, serverInstance, running, managerRunning, listening>>

RegisterServer ==
    /\ pc[Main] = "register"
    /\ serverInstance' = TRUE
    /\ Goto(Main, "start")
    /\ UNCHANGED <<others, initialized, running, managerRunning, listening>>

StartManager ==
    /\ pc[Main] = "start"
    /\ listening' = TRUE
    /\ managerRunning' = TRUE
    /\ Goto(Main, "started")
    /\ UNCHANGED <<others, initialized, serverInstance, running>>

StartServer ==
    /\ pc[Main] = "started"
    /\ running' = TRUE
    /\ Goto(Main, "run")
    /\ UNCHANGED <<others, initialized, serverInstance, managerRunning, listening>>

\* A step of Main that only looks at something and moves on.
MainBranches(from, condition, yes, no) ==
    /\ pc[Main] = from
    /\ Goto(Main, IF condition THEN yes ELSE no)
    /\ UNCHANGED <<others, serverVars>>

EnterRun == MainBranches("run", running, "loop", "after")

-----------------------------------------------------------------------------
(* ConnectionManager::run *)

ManagerLoop == MainBranches("loop", managerRunning /\ ~shutdownRequested, "count", "after")

\* getActiveConnectionCount has reached the limit.
Full == Cardinality({h \in listed : IsActive(h)}) >= MaxConnections

\* Mutant of CountActive: one more than the limit.
CountPastLimit ==
    MainBranches("count", Cardinality({h \in listed : IsActive(h)}) > MaxConnections,
                 "clean", "accept")

CountActive == MainBranches("count", Full, "clean", "accept")

\* A listening server creates a pipe instance, if the system lets it, and waits
\* for a client on it.
BeginAccept == \E created \in BOOLEAN : MainBranches("accept", listening /\ created, "connect", "clean")

Connect(h) ==
    /\ pc[Main] = "connect"
    /\ client[h] = "waiting"
    /\ ClientTo(h, "open")
    /\ connected' = [connected EXCEPT ![h] = TRUE]
    /\ newcomer' = h
    /\ Goto(Main, "spawn")
    /\ UNCHANGED <<pipe, thread, active, shutdownRequested, process, serverVars,
                   listed, unvisited, joining, late>>

\* The client closed its end before ConnectNamedPipe got to it: ERROR_NO_DATA.
ConnectFails(h) ==
    /\ pc[Main] = "connect"
    /\ client[h] = "waiting"
    /\ ClientTo(h, "left")
    /\ Goto(Main, "clean")
    /\ UNCHANGED <<pipe, thread, active, connected, shutdownRequested, process, serverVars,
                   listVars, late>>

\* The thread runs before the handler is in the list.
SpawnHandler ==
    /\ pc[Main] = "spawn"
    /\ StartHandler(newcomer)
    /\ Goto(Main, "push")
    /\ UNCHANGED <<shutdownRequested, process, serverVars, listVars, late>>

\* Mutant of PushHandler: the list gets the empty pointer the move has left.
PushMoved ==
    /\ pc[Main] = "push"
    /\ listed' = listed \cup {NoHandler}
    /\ newcomer' = NoHandler
    /\ Goto(Main, "clean")
    /\ UNCHANGED <<handlerVars, shutdownRequested, process, serverVars, unvisited, joining, late>>

PushHandler ==
    /\ pc[Main] = "push"
    /\ listed' = listed \cup {newcomer}
    /\ newcomer' = NoHandler
    /\ Goto(Main, "clean")
    /\ UNCHANGED <<handlerVars, shutdownRequested, process, serverVars, unvisited, joining, late>>

(* cleanupFinishedClients holds connectionsMutex from here to EndCleanup,  *)
(* also while it joins a thread.                                           *)
BeginCleanup ==
    /\ pc[Main] = "clean"
    /\ unvisited' = listed
    /\ Goto(Main, "cleaning")
    /\ UNCHANGED <<handlerVars, shutdownRequested, process, serverVars, listed, newcomer,
                   joining, late>>

VisitHandler(h) ==
    /\ pc[Main] = "cleaning" /\ joining = NoHandler
    /\ h \in unvisited
    /\ unvisited' = unvisited \ {h}
    /\ joining' = IF IsActive(h) THEN NoHandler ELSE h
    /\ UNCHANGED <<handlerVars, shutdownRequested, process, pc, serverVars, listed, newcomer, late>>

\* Mutant of JoinHandler: the handler is erased without a join.
EraseHandler ==
    /\ pc[Main] = "cleaning" /\ joining # NoHandler
    /\ listed' = listed \ {joining}
    /\ joining' = NoHandler
    /\ UNCHANGED <<handlerVars, shutdownRequested, process, pc, serverVars, newcomer, unvisited, late>>

\* Mutant of JoinHandler: the loop does not move on from a joined thread.
JoinAgain ==
    /\ pc[Main] = "cleaning" /\ joining # NoHandler
    /\ thread[joining] = "ended"
    /\ UNCHANGED vars

JoinHandler ==
    /\ pc[Main] = "cleaning" /\ joining # NoHandler
    /\ thread[joining] = "ended"
    /\ listed' = listed \ {joining}
    /\ joining' = NoHandler
    /\ UNCHANGED <<handlerVars, shutdownRequested, process, pc, serverVars, newcomer, unvisited, late>>

EndCleanup ==
    /\ joining = NoHandler /\ unvisited = {}
    /\ MainBranches("cleaning", TRUE, "loop", "loop")

-----------------------------------------------------------------------------
(* DaemonServer::stop with ConnectionManager::stop, by Main or a signal.   *)

\* Where stop() returns to.
Back(a) == IF a = Main THEN "cleanup" ELSE "done"

CheckRunning(a) ==
    /\ pc[a] = "stop"
    /\ Goto(a, IF running THEN "halt" ELSE Back(a))
    /\ UNCHANGED <<others, serverVars>>

HaltServer(a) ==
    /\ pc[a] = "halt"
    /\ running' = FALSE
    /\ Goto(a, "stopManager")
    /\ UNCHANGED <<others, initialized, serverInstance, managerRunning, listening>>

CheckManager(a) ==
    /\ pc[a] = "stopManager"
    /\ Goto(a, IF managerRunning THEN "haltManager" ELSE "exit")
    /\ UNCHANGED <<others, serverVars>>

HaltManager(a) ==
    /\ pc[a] = "haltManager"
    /\ managerRunning' = FALSE
    /\ Goto(a, "stopClients")
    /\ UNCHANGED <<others, initialized, serverInstance, running, listening>>

StopAllClients(a) ==
    /\ pc[a] = "stopClients"
    /\ ConnectionsMutexFree
    /\ active' = [h \in Handlers |-> active[h] /\ h \notin listed]
    /\ Goto(a, "stopListening")
    /\ UNCHANGED <<client, pipe, thread, connected, shutdownRequested, process, serverVars,
                   listVars, late>>

StopListening(a) ==
    /\ pc[a] = "stopListening"
    /\ listening' = FALSE
    /\ Goto(a, "exit")
    /\ UNCHANGED <<others, initialized, serverInstance, running, managerRunning>>

\* std::exit ends the process, whatever its other threads are doing.
Exit(a) ==
    /\ pc[a] = "exit"
    /\ process' = "exited"
    /\ UNCHANGED <<handlerVars, shutdownRequested, pc, serverVars, listVars, late>>

Stop(a) ==
    \/ CheckRunning(a)
    \/ HaltServer(a)
    \/ CheckManager(a)
    \/ HaltManager(a)
    \/ StopAllClients(a)
    \/ StopListening(a)
    \/ Exit(a)

-----------------------------------------------------------------------------
(* DaemonMain, after the main loop *)

AfterRun == MainBranches("after", running, "stop", "cleanup")

\* SignalHandler::cleanup, one step for each thing a signal thread looks at.
RemoveSignalHandlers ==
    /\ pc[Main] = "cleanup"
    /\ initialized' = FALSE
    /\ Goto(Main, "forget")
    /\ UNCHANGED <<others, serverInstance, running, managerRunning, listening>>

ForgetServer ==
    /\ pc[Main] = "forget"
    /\ serverInstance' = FALSE
    /\ Goto(Main, "reset")
    /\ UNCHANGED <<others, initialized, running, managerRunning, listening>>

\* A connection that is not stopped yet is free to go on.
ResetShutdown ==
    /\ pc[Main] = "reset"
    /\ shutdownRequested' = FALSE
    /\ late' = [h \in Handlers |-> IF active[h] THEN 0 ELSE late[h]]
    /\ Goto(Main, "exit")
    /\ UNCHANGED <<handlerVars, process, serverVars, listVars>>

-----------------------------------------------------------------------------
(* SignalHandler *)

\* Without handlers the system's default applies: the process is ended.
Deliver(s) ==
    /\ pc[s] = "idle"
    /\ \/ initialized /\ Goto(s, "request") /\ UNCHANGED process
       \/ ~initialized /\ process' = "killed" /\ UNCHANGED pc
    /\ UNCHANGED <<handlerVars, shutdownRequested, serverVars, listVars, late>>

\* Mutant of RequestShutdown: the flag is set and nobody is stopped.
OnlySetFlag(s) ==
    /\ pc[s] = "request"
    /\ shutdownRequested' = TRUE
    /\ Goto(s, "done")
    /\ UNCHANGED <<handlerVars, process, serverVars, listVars, late>>

RequestShutdown(s) ==
    /\ pc[s] = "request"
    /\ shutdownRequested' = TRUE
    /\ Goto(s, IF shutdownRequested THEN "done" ELSE "call")
    /\ UNCHANGED <<handlerVars, process, serverVars, listVars, late>>

\* serverInstance->stop(), whether or not there is a server.
CallStop(s) ==
    /\ pc[s] = "call"
    /\ \/ serverInstance /\ Goto(s, "stop") /\ UNCHANGED process
       \/ ~serverInstance /\ process' = "crashed" /\ UNCHANGED pc
    /\ UNCHANGED <<handlerVars, shutdownRequested, serverVars, listVars, late>>

-----------------------------------------------------------------------------
Start == SetupSignalHandlers \/ RegisterServer \/ StartManager \/ StartServer \/ EnterRun

Accept ==
    \/ ManagerLoop
    \/ CountActive
    \/ BeginAccept
    \/ \E h \in Handlers : Connect(h) \/ ConnectFails(h)
    \/ SpawnHandler
    \/ PushHandler

Cleanup ==
    \/ BeginCleanup
    \/ \E h \in Handlers : VisitHandler(h)
    \/ JoinHandler
    \/ EndCleanup

Finish == AfterRun \/ RemoveSignalHandlers \/ ForgetServer \/ ResetShutdown

MainStep == Start \/ Accept \/ Cleanup \/ Stop(Main) \/ Finish

HandleSignal(s) == RequestShutdown(s) \/ CallStop(s) \/ Stop(s)

daemonVars == <<shutdownRequested, process, pc, serverVars, listVars>>

\* The connection is to stop: the manager has told it to, or a shutdown is requested.
ToStop(h) == shutdownRequested \/ ~active[h]

HandlerReads(h) ==
    /\ ReadRequest(h)
    /\ late' = [late EXCEPT ![h] =
                    IF ToStop(h) /\ pipe[h] \in RequestKinds /\ @ < 2 THEN @ + 1 ELSE @]
    /\ UNCHANGED daemonVars

HandlerFails(h) == ReadFails(h) /\ UNCHANGED <<daemonVars, late>>

\* The count is of one session.
HandlerRuns(h) ==
    /\ RunHandler(h)
    /\ late' = [late EXCEPT ![h] = IF thread'[h] = "deactivate" THEN 0 ELSE @]
    /\ UNCHANGED daemonVars

\* A connection is made anew once the manager has let go of the old one.
ClientArrives(h) ==
    /\ h \notin listed \cup {newcomer}
    /\ Arrive(h)
    /\ UNCHANGED <<daemonVars, late>>

ClientActs(h) ==
    /\ SendRequest(h) \/ ReceiveReply(h) \/ Leave(h)
    /\ UNCHANGED <<daemonVars, late>>

\* Once the process is gone nothing of it moves.
Gone == ~Alive /\ UNCHANGED vars

Next ==
    \/ /\ Alive
       /\ \/ MainStep
          \/ \E s \in Signals : Deliver(s) \/ HandleSignal(s)
          \/ \E h \in Handlers :
                \/ HandlerRuns(h) \/ HandlerReads(h) \/ HandlerFails(h)
                \/ ClientArrives(h) \/ ClientActs(h)
    \/ Gone

Spec == Init /\ [][Next]_vars

(* The threads of the process run when they can; clients and signals may   *)
(* do nothing, and a read need not fail.                                   *)
Fairness ==
    /\ WF_vars(Alive /\ MainStep)
    /\ \A s \in Signals : WF_vars(Alive /\ HandleSignal(s))
    /\ \A h \in Handlers : WF_vars(Alive /\ (HandlerRuns(h) \/ HandlerReads(h)))

FairSpec == Spec /\ Fairness
-----------------------------------------------------------------------------
(* Properties *)

Labels == {"setup", "register", "start", "started", "run", "loop", "count", "accept",
           "connect", "spawn", "push", "clean", "cleaning", "after", "cleanup", "forget",
           "reset", "stop", "halt", "stopManager", "haltManager", "stopClients",
           "stopListening", "exit", "idle", "request", "call", "done"}

TypeOK ==
    /\ client \in [Handlers -> {"absent", "waiting", "open", "awaiting", "exiting", "left"}]
    /\ pipe \in [Handlers -> RequestKinds \cup {"empty", "reply"}]
    /\ thread \in [Handlers -> RequestKinds \cup {"none", "loop", "read", "answer",
                                                 "deactivate", "disconnect", "ended"}]
    /\ active \in [Handlers -> BOOLEAN]
    /\ connected \in [Handlers -> BOOLEAN]
    /\ shutdownRequested \in BOOLEAN
    /\ process \in {"running", "exited", "killed", "crashed"}
    /\ pc \in [Signals \cup {Main} -> Labels]
    /\ initialized \in BOOLEAN /\ serverInstance \in BOOLEAN /\ running \in BOOLEAN
    /\ managerRunning \in BOOLEAN /\ listening \in BOOLEAN
    /\ listed \subseteq Handlers /\ unvisited \subseteq Handlers
    /\ newcomer \in Handlers \cup {NoHandler} /\ joining \in Handlers \cup {NoHandler}
    /\ late \in [Handlers -> 0 .. 2]

(* The limit on connections holds although it is tested long before the    *)
(* connection is made and listed, and the list of handlers, with those     *)
(* that have ended but are not reaped yet, exceeds it by one at most       *)
(* (ConnectionManager.cxx:74-93, :99-122).                                 *)
ConnectionsAreBounded ==
    /\ Cardinality({h \in listed : IsActive(h)}) <= MaxConnections
    /\ Cardinality(listed) <= MaxConnections + 1

(* A handler is destroyed only when its thread has ended: no thread runs   *)
(* on a handler that the manager has let go of (ConnectionManager.cxx:107- *)
(* 116, where isActive is false before the thread is through cleanup).     *)
HandlersOutliveThreads ==
    \A h \in Handlers :
        thread[h] \notin {"none", "ended"} => h \in listed \cup {newcomer}

(* A connection that is to stop, because a shutdown is requested or the    *)
(* manager has stopped it, serves one more request at most, the one it was *)
(* already waiting for. The flag alone does not show it: DaemonMain's      *)
(* cleanup takes the request to shut down back while connections are       *)
(* served (SignalHandler.cxx:67), and one that was stopped must not go on, *)
(* nor one that is accepted or listed after stopAllClients has passed,     *)
(* while the request stands (ClientHandler.cxx:21).                        *)
ShutdownStopsService == \A h \in Handlers : late[h] <= 1

(* "Graceful Shutdown: Proper cleanup on exit signals" (README.md:16): a   *)
(* signal never brings the process down by a fault. In the code a signal   *)
(* between setupSignalHandlers and registerServer finds no server          *)
(* (SignalHandler.cxx:51, DaemonMain.cxx:39-43).                           *)
SignalsDoNotCrash == process # "crashed"

(* A shutdown that was requested ends the process, though the main thread  *)
(* may wait for a client forever, or join a handler with connectionsMutex  *)
(* held (SignalHandler.cxx:48-53, DaemonServer.cxx:37-55).                 *)
ShutdownCompletes == \A s \in Signals : pc[s] = "request" ~> ~Alive

(* The main thread comes back to acceptConnection unless the connections   *)
(* in use fill the places: ended connections do not keep theirs, and the   *)
(* join of a handler that is not active cannot hold the loop up for good   *)
(* (ConnectionManager.cxx:46-122).                                         *)
AcceptingResumes == pc[Main] = "clean" ~> (pc[Main] = "accept" \/ Full \/ ~Alive)

(* A client that has sent a command, an exit or a malformed request gets   *)
(* its reply, leaves, or sees its pipe closed, unless the process is gone: *)
(* neither a failed read nor a shutdown, which stops the handler between   *)
(* any two of its steps, leaves it hanging (ClientHandler.cxx:17-33,       *)
(* :48-100).                                                               *)
ClientsAreNotLeftWaiting ==
    \A h \in Handlers :
        client[h] \in {"awaiting", "exiting"} ~>
            (client[h] \in {"open", "left"} \/ pipe[h] = "reply" \/ ~connected[h] \/ ~Alive)
=============================================================================
