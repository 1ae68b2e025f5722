---------------------------- MODULE ClientHandlers ----------------------------
(***************************************************************************)
(* daemon/ClientHandler: one thread per connection, which reads a request, *)
(* has it processed and writes the reply until the client is gone, the     *)
(* client asks to exit, or the daemon shuts down. At the other end of the  *)
(* pipe is a client (cli/DaemonClient) with at most one request out.       *)
(*                                                                         *)
(* A member of Handlers stands for a connection: the client, the pipe      *)
(* instance, the ClientHandler object and its thread. The daemon process   *)
(* as a whole is in module Daemon.                                         *)
(***************************************************************************)
EXTENDS Naturals

CONSTANTS
    Handlers,  \* the connections there may be at one time
    Requests   \* for each connection, the kinds of request its client sends

RequestKinds == {"command", "exit", "malformed"}

ASSUME RequestsAssumption == Requests \in [Handlers -> SUBSET RequestKinds]

VARIABLES
    client,             \* what the client at the other end is doing
    pipe,               \* the message in the pipe, either way
    thread,             \* where the handler's thread is
    active,             \* ClientHandler's atomic flag
    connected,          \* the server end of the pipe is open
    shutdownRequested,  \* SignalHandler's atomic flag
    process             \* the daemon process

handlerVars == <<client, pipe, thread, active, connected>>

Alive == process = "running"
IsActive(h) == active[h] /\ connected[h]

HandlersInit ==
    /\ client = [h \in Handlers |-> "absent"]
    /\ pipe = [h \in Handlers |-> "empty"]
    /\ thread = [h \in Handlers |-> "none"]
    /\ active = [h \in Handlers |-> FALSE]
    /\ connected = [h \in Handlers |-> FALSE]

ClientTo(h, state) == client' = [client EXCEPT ![h] = state]
ThreadTo(h, label) == thread' = [thread EXCEPT ![h] = label]
Put(h, message) == pipe' = [pipe EXCEPT ![h] = message]

-----------------------------------------------------------------------------
(* The client. It may be gone at any time. *)

Arrive(h) ==
    /\ client[h] \in {"absent", "left"}
    /\ thread[h] \in {"none", "ended"}
    /\ ClientTo(h, "waiting")
    /\ ThreadTo(h, "none")
    /\ Put(h, "empty")
    /\ UNCHANGED <<active, connected>>

SendRequest(h) ==
    /\ client[h] = "open" /\ connected[h] /\ pipe[h] = "empty"
    /\ \E request \in Requests[h] :
        /\ Put(h, request)
        /\ ClientTo(h, IF request = "exit" THEN "exiting" ELSE "awaiting")
    /\ UNCHANGED <<thread, active, connected>>

ReceiveReply(h) ==
    /\ client[h] \in {"awaiting", "exiting"} /\ pipe[h] = "reply"
    /\ Put(h, "empty")
    /\ ClientTo(h, IF client[h] = "exiting" THEN "left" ELSE "open")
    /\ UNCHANGED <<thread, active, connected>>

Leave(h) ==
    /\ client[h] \in {"open", "awaiting", "exiting"}
    /\ ClientTo(h, "left")
    /\ UNCHANGED <<pipe, thread, active, connected>>

-----------------------------------------------------------------------------
(* The handler's thread. *)

\* The manager makes the ClientHandler and starts its thread in run().
StartHandler(h) ==
    /\ active' = [active EXCEPT ![h] = TRUE]
    /\ ThreadTo(h, "loop")
    /\ UNCHANGED <<client, pipe, connected>>

\* Mutant of RunLoop: the loop looks at the request to shut down alone.
RunUnlessShutdown(h) ==
    /\ thread[h] = "loop"
    /\ ThreadTo(h, IF connected[h] /\ ~shutdownRequested THEN "read" ELSE "deactivate")
    /\ UNCHANGED <<client, pipe, active, connected>>

RunLoop(h) ==
    /\ thread[h] = "loop"
    /\ ThreadTo(h, IF IsActive(h) /\ ~shutdownRequested THEN "read" ELSE "deactivate")
    /\ UNCHANGED <<client, pipe, active, connected>>

\* Blocks until there is a request or the client's end is closed.
ReadRequest(h) ==
    /\ thread[h] = "read"
    /\ \/ /\ pipe[h] \in RequestKinds
          /\ ThreadTo(h, pipe[h])
          /\ Put(h, "empty")
          /\ UNCHANGED connected
       \/ /\ pipe[h] \notin RequestKinds /\ client[h] = "left"
          /\ ThreadTo(h, "deactivate")
          /\ connected' = [connected EXCEPT ![h] = FALSE]
          /\ UNCHANGED pipe
    /\ UNCHANGED <<client, active>>

\* ReadFile fails for another reason: the session ends, the pipe not yet marked closed.
ReadFails(h) ==
    /\ thread[h] = "read"
    /\ ThreadTo(h, "deactivate")
    /\ UNCHANGED <<client, pipe, active, connected>>

\* processCommand has taken effect in the store; the reply is yet to be written.
ProcessRequest(h) ==
    /\ thread[h] = "command"
    /\ ThreadTo(h, "answer")
    /\ UNCHANGED <<client, pipe, active, connected>>

\* Mutant of WriteReply: a malformed request gets no reply.
IgnoreMalformed(h) ==
    /\ thread[h] \in {"answer", "exit", "malformed"}
    /\ IF client[h] = "left" \/ thread[h] = "malformed" THEN UNCHANGED pipe ELSE Put(h, "reply")
    /\ ThreadTo(h, IF thread[h] = "exit" \/ (thread[h] = "answer" /\ client[h] = "left")
                   THEN "deactivate" ELSE "loop")
    /\ UNCHANGED <<client, active, connected>>

\* After an exit, or a command whose reply cannot be written, the session ends.
WriteReply(h) ==
    /\ thread[h] \in {"answer", "exit", "malformed"}
    /\ IF client[h] = "left" THEN UNCHANGED pipe ELSE Put(h, "reply")
    /\ ThreadTo(h, IF thread[h] = "exit" \/ (thread[h] = "answer" /\ client[h] = "left")
                   THEN "deactivate" ELSE "loop")
    /\ UNCHANGED <<client, active, connected>>

\* cleanup() at the end of run, first the flag, then the pipe.
Deactivate(h) ==
    /\ thread[h] = "deactivate"
    /\ active' = [active EXCEPT ![h] = FALSE]
    /\ ThreadTo(h, "disconnect")
    /\ UNCHANGED <<client, pipe, connected>>

Disconnect(h) ==
    /\ thread[h] = "disconnect"
    /\ connected' = [connected EXCEPT ![h] = FALSE]
    /\ ThreadTo(h, "ended")
    /\ UNCHANGED <<client, pipe, active>>

RunHandler(h) ==
    \/ RunLoop(h)
    \/ ProcessRequest(h)
    \/ WriteReply(h)
    \/ Deactivate(h)
    \/ Disconnect(h)
=============================================================================
