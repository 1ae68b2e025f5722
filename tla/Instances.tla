------------------------------- MODULE Instances -------------------------------
(***************************************************************************)
(* Who serves the pipe, and how a client gets to it: SingleInstanceManager *)
(* in DaemonMain, NamedPipeServer::acceptConnection and the client's       *)
(* NamedPipeConnection::connect. Several daemons may be started, stopped   *)
(* and killed; all use one name for the mutex and one for the pipe.        *)
(*                                                                         *)
(* The kernel keeps a named mutex while some process has a handle of it,   *)
(* and closes the handles of a process that ends, one by one.              *)
(***************************************************************************)
EXTENDS FiniteSets, Naturals

CONSTANTS
    Daemons,  \* the daemon processes
    Clients,  \* the clients
    NoClient  \* no client

ASSUME InstancesAssumption == NoClient \notin Clients

VARIABLES
    main,      \* where the main thread of each daemon is
    handles,   \* the daemons with a handle of the mutex
    isOwner,   \* SingleInstanceManager::isOwner
    instance,  \* the pipe instance a daemon has made and not yet handed over
    caller,    \* the client at the other end of it
    client,    \* where each client is
    serves     \* the clients that handlers of a daemon serve

vars == <<main, handles, isOwner, instance, caller, client, serves>>
mutexVars == <<handles, isOwner>>
pipeVars == <<instance, caller>>

Init ==
    /\ main = [d \in Daemons |-> "off"]
    /\ handles = {}
    /\ isOwner = [d \in Daemons |-> FALSE]
    /\ instance = [d \in Daemons |-> "none"]
    /\ caller = [d \in Daemons |-> NoClient]
    /\ client = [c \in Clients |-> "off"]
    /\ serves = [d \in Daemons |-> {}]

MainTo(d, label) == main' = [main EXCEPT ![d] = label]
ClientTo(c, state) == client' = [client EXCEPT ![c] = state]
InstanceIs(d, state) == instance' = [instance EXCEPT ![d] = state]
CallerIs(d, c) == caller' = [caller EXCEPT ![d] = c]

-----------------------------------------------------------------------------
(* SingleInstanceManager *)

\* Mutant of TryLock: the handle that CreateMutex returns is taken for the lock.
TryLockUnchecked(d) ==
    /\ main[d] = "off"
    /\ handles' = handles \cup {d}
    /\ isOwner' = [isOwner EXCEPT ![d] = TRUE]
    /\ MainTo(d, "loop")
    /\ UNCHANGED <<pipeVars, client, serves>>

\* CreateMutex makes the mutex or opens it; ERROR_ALREADY_EXISTS tells which.
TryLock(d) ==
    /\ main[d] = "off"
    /\ handles' = handles \cup {d}
    /\ isOwner' = [isOwner EXCEPT ![d] = (handles = {})]
    /\ MainTo(d, IF handles = {} THEN "loop" ELSE "refused")
    /\ UNCHANGED <<pipeVars, client, serves>>

\* The second handle is closed, and main returns.
GiveUp(d) ==
    /\ main[d] = "refused"
    /\ handles' = handles \ {d}
    /\ MainTo(d, "off")
    /\ UNCHANGED <<isOwner, pipeVars, client, serves>>

\* At the end of main, when the loop is left; the handlers still run.
Unlock(d) ==
    /\ main[d] = "loop"
    /\ handles' = handles \ {d}
    /\ isOwner' = [isOwner EXCEPT ![d] = FALSE]
    /\ MainTo(d, "unlocked")
    /\ UNCHANGED <<pipeVars, client, serves>>

\* The process ends: std::exit, by main or by a signal, or a kill.
End(d) ==
    /\ main[d] \notin {"off", "ending"}
    /\ MainTo(d, "ending")
    /\ isOwner' = [isOwner EXCEPT ![d] = FALSE]
    /\ UNCHANGED <<handles, pipeVars, client, serves>>

(* What the kernel closes of it, in any order: the handle of the mutex,    *)
(* the pipe instance at hand, and the connections of the handlers.         *)
CloseMutex(d) ==
    /\ main[d] = "ending" /\ d \in handles
    /\ handles' = handles \ {d}
    /\ UNCHANGED <<main, isOwner, pipeVars, client, serves>>

CloseInstance(d) ==
    /\ main[d] = "ending" /\ instance[d] # "none"
    /\ InstanceIs(d, "none") /\ CallerIs(d, NoClient)
    /\ client' = [c \in Clients |-> IF c = caller[d] THEN "cutOff" ELSE client[c]]
    /\ UNCHANGED <<main, mutexVars, serves>>

CloseConnection(d) ==
    /\ main[d] = "ending"
    /\ \E c \in serves[d] :
        /\ ClientTo(c, "cutOff")
        /\ serves' = [serves EXCEPT ![d] = @ \ {c}]
    /\ UNCHANGED <<main, mutexVars, pipeVars>>

\* Nothing of the process is left; it can be started anew.
Reap(d) ==
    /\ main[d] = "ending"
    /\ d \notin handles /\ instance[d] = "none" /\ serves[d] = {}
    /\ MainTo(d, "off")
    /\ UNCHANGED <<mutexVars, pipeVars, client, serves>>

Vanish(d) == CloseMutex(d) \/ CloseInstance(d) \/ CloseConnection(d) \/ Reap(d)

-----------------------------------------------------------------------------
(* NamedPipeServer::acceptConnection *)

CreateInstance(d) ==
    /\ main[d] = "loop"
    /\ InstanceIs(d, "free")
    /\ MainTo(d, "created")
    /\ UNCHANGED <<mutexVars, caller, client, serves>>

\* ConnectNamedPipe waits, unless a client is there or has been.
Wait(d) ==
    /\ main[d] = "created"
    /\ instance[d] = "free"
    /\ MainTo(d, "waiting")
    /\ UNCHANGED <<mutexVars, pipeVars, client, serves>>

\* Mutant of Accept: ERROR_PIPE_CONNECTED is an error like any other.
AcceptOnlyIfWaiting(d) ==
    /\ main[d] \in {"created", "waiting"}
    /\ instance[d] = "taken"
    /\ serves' = [serves EXCEPT ![d] = IF main[d] = "waiting" THEN @ \cup {caller[d]} ELSE @]
    /\ InstanceIs(d, "none") /\ CallerIs(d, NoClient)
    /\ MainTo(d, "loop")
    /\ UNCHANGED <<mutexVars, client>>

\* The wait ends, or ERROR_PIPE_CONNECTED.
Accept(d) ==
    /\ main[d] \in {"created", "waiting"}
    /\ instance[d] = "taken"
    /\ serves' = [serves EXCEPT ![d] = @ \cup {caller[d]}]
    /\ InstanceIs(d, "none") /\ CallerIs(d, NoClient)
    /\ MainTo(d, "loop")
    /\ UNCHANGED <<mutexVars, client>>

\* The client that ended the wait has gone already: its handler will find out.
AcceptGone(d) ==
    /\ main[d] = "waiting"
    /\ instance[d] = "abandoned"
    /\ InstanceIs(d, "none")
    /\ MainTo(d, "loop")
    /\ UNCHANGED <<mutexVars, caller, client, serves>>

\* Mutant of AcceptFails: the instance is not closed.
LeakInstance(d) ==
    /\ main[d] = "created"
    /\ instance[d] = "abandoned"
    /\ MainTo(d, "loop")
    /\ UNCHANGED <<mutexVars, pipeVars, client, serves>>

\* ERROR_NO_DATA, the client came and went: the instance is closed, the loop goes on.
AcceptFails(d) ==
    /\ main[d] = "created"
    /\ instance[d] = "abandoned"
    /\ InstanceIs(d, "none")
    /\ MainTo(d, "loop")
    /\ UNCHANGED <<mutexVars, caller, client, serves>>

-----------------------------------------------------------------------------
(* NamedPipeConnection::connect. *)

Free == {d \in Daemons : instance[d] = "free"}

StartClient(c) ==
    /\ client[c] \in {"off", "failed", "cutOff"}
    /\ ClientTo(c, "wait")
    /\ UNCHANGED <<main, mutexVars, pipeVars, serves>>

\* WaitNamedPipe fails at once without a pipe, and otherwise after the timeout.
WaitNamedPipe(c) ==
    /\ client[c] = "wait"
    /\ \/ Free # {} /\ ClientTo(c, "open")
       \/ Free = {} /\ ClientTo(c, "failed")
    /\ UNCHANGED <<main, mutexVars, pipeVars, serves>>

\* CreateFile takes an instance that is free, if there still is one.
OpenPipe(c) ==
    /\ client[c] = "open"
    /\ \/ \E d \in Free :
            /\ InstanceIs(d, "taken") /\ CallerIs(d, c)
            /\ ClientTo(c, "connected")
       \/ Free = {} /\ ClientTo(c, "failed") /\ UNCHANGED pipeVars
    /\ UNCHANGED <<main, mutexVars, serves>>

\* The client closes its end; its handler, if any, ends.
LeavePipe(c) ==
    /\ client[c] = "connected"
    /\ ClientTo(c, "off")
    /\ instance' = [d \in Daemons |-> IF caller[d] = c THEN "abandoned" ELSE instance[d]]
    /\ caller' = [d \in Daemons |-> IF caller[d] = c THEN NoClient ELSE caller[d]]
    /\ serves' = [d \in Daemons |-> serves[d] \ {c}]
    /\ UNCHANGED <<main, mutexVars>>

-----------------------------------------------------------------------------
Answer(d) == Wait(d) \/ Accept(d) \/ AcceptGone(d) \/ AcceptFails(d)

Next ==
    \/ \E d \in Daemons :
        \/ TryLock(d) \/ GiveUp(d) \/ Unlock(d) \/ End(d) \/ Vanish(d)
        \/ CreateInstance(d) \/ Answer(d)
    \/ \E c \in Clients : StartClient(c) \/ WaitNamedPipe(c) \/ OpenPipe(c) \/ LeavePipe(c)

Spec == Init /\ [][Next]_vars

(* A daemon in acceptConnection goes on, and the kernel clears away what   *)
(* has ended; nobody has to start, connect or end.                         *)
FairSpec == Spec /\ \A d \in Daemons : WF_vars(Answer(d)) /\ WF_vars(Vanish(d))

-----------------------------------------------------------------------------
(* Properties *)

(* Types; a daemon has a pipe instance only inside acceptConnection, which *)
(* hands it to a handler or closes it, and until the kernel closes it when *)
(* the process ends there (NamedPipeServer.cxx:35-61).                     *)
TypeOK ==
    /\ main \in [Daemons -> {"off", "refused", "loop", "created", "waiting", "unlocked",
                            "ending"}]
    /\ handles \subseteq Daemons
    /\ isOwner \in [Daemons -> BOOLEAN]
    /\ instance \in [Daemons -> {"none", "free", "taken", "abandoned"}]
    /\ \A d \in Daemons : instance[d] # "none" => main[d] \in {"created", "waiting", "ending"}
    /\ caller \in [Daemons -> Clients \cup {NoClient}]
    /\ client \in [Clients -> {"off", "wait", "open", "connected", "failed", "cutOff"}]
    /\ serves \in [Daemons -> SUBSET Clients]

\* A daemon with a pipe instance that it will answer on.
Listens(d) == instance[d] # "none" /\ main[d] # "ending"

(* One daemon at a time listens on the pipe, and it holds the lock, though *)
(* daemons are stopped, refused and killed, and the mutex outlives its     *)
(* owner while another process has a handle of it or the kernel has not    *)
(* closed the last one (SingleInstanceManager.cxx:14-55, DaemonMain.cxx:   *)
(* 20-78). An old daemon may still serve the clients it has.               *)
OneDaemonListens ==
    \A d, e \in Daemons : Listens(d) => isOwner[d] /\ (Listens(e) => d = e)

(* A client that has opened the pipe gets a handler, also when it was      *)
(* quicker than ConnectNamedPipe, unless it leaves or the daemon ends: on  *)
(* an instance left by a daemon that has ended it is cut off, not kept     *)
(* waiting (NamedPipeServer.cxx:35-61).                                    *)
ConnectedClientsAreServed ==
    \A c \in Clients :
        client[c] = "connected" ~> (client[c] # "connected" \/ \E d \in Daemons : c \in serves[d])

(* "Multiple CLI instances can connect to the same daemon simultaneously." *)
(* (README.md:152): a client that has seen a free instance is not refused  *)
(* because another one is being connected. In the code the other may take  *)
(* the instance in between, and the open is not tried again                *)
(* (NamedPipeConnection.cxx:47, :54-68).                                   *)
SimultaneousConnects ==
    [][\A c \in Clients : client[c] = "open" /\ client'[c] = "failed"
          => \A d \in Daemons : instance[d] # "taken"]_vars
=============================================================================
