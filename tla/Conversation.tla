----------------------------- MODULE Conversation -----------------------------
(***************************************************************************)
(* A session of the command-line client with its handler in the daemon:    *)
(* cli/CLIApplication over cli/DaemonClient over ipc/NamedPipeConnection,  *)
(* with the replies as protocol/Response and MessageSerializer frame them. *)
(*                                                                         *)
(* A reply is a text of lines. The client reads it in chunks of a fixed    *)
(* buffer and takes it to be complete when a chunk ends with a newline. A  *)
(* text is a sequence of cells: the header RESP:type of a reply, a line of *)
(* text, or a newline. The size of the buffer is counted in cells.         *)
(***************************************************************************)
EXTENDS Naturals, SequencesExt

CONSTANTS
    BufferSize,  \* what one ReadFile takes, 4095 bytes in the code
    MaxEntries,  \* bound of the model: entries in the store
    MaxRequests  \* bound of the model: requests in a session, before the exit

ASSUME ConversationAssumption ==
    /\ BufferSize \in Nat \ {0}
    /\ MaxEntries \in Nat /\ MaxRequests \in Nat

CommandTypes == {"INSERT", "DELETE_NUM", "PRINT_ALL", "DELETE_ALL", "EXIT"}

VARIABLES
    readMode,   \* how the client reads: what SetNamedPipeHandleState has left
    at,         \* where the client is
    connected,  \* the client's NamedPipeConnection::connected
    command,    \* the command in progress, and which request of the session it is
    toServer,   \* the requests in the pipe
    toClient,   \* the messages in the pipe that the client has not read
    data,       \* what the client's read has put together
    shown,      \* what the client shows for the last request
    handler,    \* where the handler in the daemon is
    serving,    \* the request it is processing
    reply,      \* the text of its reply to that
    executed    \* history: which request of the session was executed last

vars == <<readMode, at, connected, command, toServer, toClient, data, shown, handler, serving,
          reply, executed>>
clientVars == <<readMode, at, connected, command, data, shown>>
handlerVars == <<handler, serving, reply, executed>>

NoCommand == [type |-> "none", id |-> 0]
Nothing == [result |-> "nothing", of |-> 0, lines |-> 0]

\* The client is connected; setting the mode may have failed, and is let pass.
Init ==
    /\ readMode \in {"message", "byte"}
    /\ at = "menu"
    /\ connected = TRUE
    /\ command = NoCommand
    /\ toServer = <<>> /\ toClient = <<>>
    /\ data = <<>>
    /\ shown = Nothing
    /\ handler = "reading"
    /\ serving = NoCommand
    /\ reply = <<>>
    /\ executed = 0

-----------------------------------------------------------------------------
(* The text of a reply. *)

Cell(id, kind) == [of |-> id, kind |-> kind]
Newline(id) == <<Cell(id, "newline")>>
Text(id, n) == [i \in 1 .. 2 * n |-> Cell(id, IF i % 2 = 1 THEN "text" ELSE "newline")]

\* A print of the empty store is one line too, with no newline of its own.
Content(c, entries) ==
    IF c.type # "PRINT_ALL" THEN <<>>
    ELSE IF entries = 0 THEN Newline(c.id) \o <<Cell(c.id, "text")>>
    ELSE Newline(c.id) \o Text(c.id, entries)

\* Mutant of SerializeResponse: no terminator.
Unterminated(c, entries) == <<Cell(c.id, "header")>> \o Content(c, entries)

SerializeResponse(c, entries) ==
    <<Cell(c.id, "header")>> \o Content(c, entries) \o Newline(c.id)

LinesOf(text) == Cardinality({i \in DOMAIN text : text[i].kind = "text"})

\* What is not headed by RESP: is not a reply; the rest is the data of the first.
DeserializeResponse(text) ==
    IF text[1].kind = "header"
    THEN [result |-> "reply", of |-> text[1].of, lines |-> LinesOf(text)]
    ELSE [result |-> "SERIALIZATION_ERROR", of |-> 0, lines |-> 0]

-----------------------------------------------------------------------------
(* The client. *)

\* CLIApplication::run and its handlers; a delete-all may be called off.
Choose(type) ==
    /\ at = "menu"
    /\ command.id < MaxRequests \/ type = "EXIT"
    /\ command' = [type |-> type, id |-> command.id + 1]
    /\ data' = <<>>
    /\ at' = "send"
    /\ UNCHANGED <<readMode, connected, shown, toServer, toClient, handlerVars>>

\* Mutant of ConnectionErrors: a failed read is shown and the session goes on.
BrokenPipes == {"CONNECTION_FAILED", "PIPE_CONNECT_FAILED", "WRITE_FAILED"}

ConnectionErrors == {"CONNECTION_FAILED", "PIPE_CONNECT_FAILED", "READ_FAILED", "WRITE_FAILED"}

\* The handlers show the result; an exit or a connection error ends the run.
Show(outcome) ==
    /\ shown' = outcome
    /\ at' = IF command.type = "EXIT" \/ outcome.result \in ConnectionErrors \/ ~connected'
             THEN "done" ELSE "menu"

Fail(code) == Show([result |-> code, of |-> 0, lines |-> 0])

\* Mutant of SendRequest: the client does not wait for the reply.
SendAndForget ==
    /\ at = "send"
    /\ toServer' = Append(toServer, command)
    /\ at' = "menu"
    /\ UNCHANGED <<readMode, connected, command, data, shown, toClient, handlerVars>>

SendRequest ==
    /\ at = "send"
    /\ UNCHANGED connected
    /\ \/ /\ handler # "closed"
          /\ toServer' = Append(toServer, command)
          /\ at' = "receive"
          /\ UNCHANGED shown
       \/ /\ handler = "closed"
          /\ Fail("WRITE_FAILED")
          /\ UNCHANGED toServer
    /\ UNCHANGED <<readMode, command, data, toClient, handlerVars>>

\* NamedPipeConnection::read goes on until the chunk it got ends with a newline.
Complete(text) == Last(text).kind = "newline"

Got(chunk) ==
    /\ data' = data \o chunk
    /\ UNCHANGED connected
    /\ \/ Complete(chunk) /\ Show(DeserializeResponse(data \o chunk))
       \/ ~Complete(chunk) /\ UNCHANGED <<at, shown>>

\* One message, or an error if it does not fit: the rest of it stays in the pipe.
ReadMessage ==
    /\ at = "receive" /\ readMode = "message"
    /\ toClient # <<>>
    /\ \/ /\ Len(Head(toClient)) <= BufferSize
          /\ Got(Head(toClient))
          /\ toClient' = Tail(toClient)
       \/ /\ Len(Head(toClient)) > BufferSize
          /\ toClient' = [toClient EXCEPT ![1] = SubSeq(@, BufferSize + 1, Len(@))]
          /\ UNCHANGED <<connected, data>>
          /\ Fail("READ_FAILED")
    /\ UNCHANGED <<readMode, command, toServer, handlerVars>>

\* As much as there is and fits, across messages.
ReadBytes ==
    /\ at = "receive" /\ readMode = "byte"
    /\ toClient # <<>>
    /\ LET bytes == Head(toClient)
           size == IF Len(bytes) < BufferSize THEN Len(bytes) ELSE BufferSize
       IN  /\ Got(SubSeq(bytes, 1, size))
           /\ toClient' = IF size = Len(bytes) THEN <<>>
                          ELSE <<SubSeq(bytes, size + 1, Len(bytes))>>
    /\ UNCHANGED <<readMode, command, toServer, handlerVars>>

ReadBrokenPipe ==
    /\ at = "receive"
    /\ toClient = <<>> /\ handler = "closed"
    /\ connected' = FALSE
    /\ Fail("CONNECTION_FAILED")
    /\ UNCHANGED <<readMode, command, data, toServer, toClient, handlerVars>>

\* The user closes the client.
Interrupt ==
    /\ at # "done"
    /\ at' = "done"
    /\ UNCHANGED <<readMode, connected, command, data, shown, toServer, toClient, handlerVars>>

-----------------------------------------------------------------------------
(* The handler, as in ClientHandlers. *)

ReadRequest ==
    /\ handler = "reading"
    /\ \/ /\ toServer # <<>>
          /\ serving' = Head(toServer)
          /\ toServer' = Tail(toServer)
          /\ handler' = "processing"
       \/ /\ toServer = <<>> /\ at = "done"
          /\ handler' = "closed"
          /\ UNCHANGED <<serving, toServer>>
    /\ UNCHANGED <<clientVars, toClient, reply, executed>>

\* processCommand has its effect on the store; the reply is made from it.
ExecuteCommand ==
    /\ handler = "processing"
    /\ \E entries \in 0 .. MaxEntries : reply' = SerializeResponse(serving, entries)
    /\ executed' = serving.id
    /\ handler' = "answering"
    /\ UNCHANGED <<clientVars, toServer, toClient, serving>>

\* A reader of bytes does not see where one message ends and the next begins.
Written(message) ==
    IF readMode = "byte" /\ toClient # <<>> THEN <<Head(toClient) \o message>>
    ELSE Append(toClient, message)

\* Mutant of WriteReply: after a failed write the command is processed again.
WriteOrRetry ==
    /\ handler = "answering"
    /\ toClient' = IF at = "done" THEN toClient ELSE Written(reply)
    /\ handler' = IF at = "done" THEN "processing"
                  ELSE IF serving.type = "EXIT" THEN "closed" ELSE "reading"
    /\ UNCHANGED <<clientVars, toServer, serving, reply, executed>>

\* The handler ends after an exit, or when the reply cannot be written.
WriteReply ==
    /\ handler = "answering"
    /\ toClient' = IF at = "done" THEN toClient ELSE Written(reply)
    /\ handler' = IF serving.type = "EXIT" \/ at = "done" THEN "closed" ELSE "reading"
    /\ UNCHANGED <<clientVars, toServer, serving, reply, executed>>

\* The daemon exits, at any point, also between the effect and the reply.
Vanish ==
    /\ handler # "closed"
    /\ handler' = "closed"
    /\ UNCHANGED <<clientVars, toServer, toClient, serving, reply, executed>>

-----------------------------------------------------------------------------
Receive == ReadMessage \/ ReadBytes \/ ReadBrokenPipe

\* Both ends are closed.
Over == at = "done" /\ handler = "closed" /\ UNCHANGED vars

Next ==
    \/ \E type \in CommandTypes : Choose(type)
    \/ SendRequest
    \/ Receive
    \/ Interrupt
    \/ ReadRequest
    \/ ExecuteCommand
    \/ WriteReply
    \/ Vanish
    \/ Over

Spec == Init /\ [][Next]_vars

\* Programs run; users and signals may do nothing.
FairSpec == Spec /\ WF_vars(SendRequest \/ Receive) /\ WF_vars(ReadRequest \/ ExecuteCommand \/ WriteReply)

-----------------------------------------------------------------------------
(* Properties *)

Cells == [of : Nat, kind : {"header", "text", "newline"}]
Commands == [type : CommandTypes, id : Nat]

(* Types; requests and replies alternate, so that a pipe read by messages  *)
(* never holds more than one of either (DaemonClient.cxx:132-158).         *)
TypeOK ==
    /\ readMode \in {"message", "byte"}
    /\ at \in {"menu", "send", "receive", "done"}
    /\ connected \in BOOLEAN
    /\ command \in Commands \cup {NoCommand} /\ serving \in Commands \cup {NoCommand}
    /\ toServer \in Seq(Commands) /\ toClient \in Seq(Seq(Cells))
    /\ readMode = "message" => Len(toServer) <= 1 /\ Len(toClient) <= 1
    /\ data \in Seq(Cells)
    /\ shown.result \in ConnectionErrors \cup {"nothing", "reply", "SERIALIZATION_ERROR"}
    /\ shown.of \in Nat /\ shown.lines \in Nat
    /\ handler \in {"reading", "processing", "answering", "closed"}
    /\ reply \in Seq(Cells)
    /\ executed \in 0 .. command.id

\* What the client shows is the reply to its last request, and all of it.
ShowsTheReply ==
    at = "menu" /\ shown.result = "reply" => shown.of = command.id /\ shown.lines = LinesOf(reply)

(* What a client that reads by messages shows as the reply to a request is *)
(* the whole reply to that request, and a session that goes on leaves no   *)
(* part of a reply in the pipe: a failed read is never followed by another *)
(* (NamedPipeConnection.cxx:108-146, CLIApplication.cxx:239-250).          *)
RepliesMatchRequests ==
    readMode = "message" =>
        /\ ShowsTheReply
        /\ at = "menu" => toClient = <<>> /\ toServer = <<>>

(* "Read until we find the message terminator (\n)"                        *)
(* (NamedPipeConnection.cxx:116): a reply of any length is read. In the    *)
(* code a message that is longer than the buffer is a failed read          *)
(* (NamedPipeConnection.cxx:120-127) and ends the session.                 *)
LongRepliesAreRead == shown.result # "READ_FAILED"

(* Every request comes to an end: a reply, an error, or the news that the  *)
(* daemon is gone, whichever of the two closes the pipe, and when          *)
(* (DaemonClient.cxx:132-158, ClientHandler.cxx:48-108).                   *)
RequestsEnd == at = "send" ~> at \in {"menu", "done"}

-----------------------------------------------------------------------------
(* The inductive invariant behind TypeOK and RepliesMatchRequests.         *)

\* In either mode: what is in the pipes is about requests that were made.
PipesInv ==
    /\ at \in {"send", "receive"} => command.id # 0
    /\ \A i \in DOMAIN toServer : toServer[i].id <= command.id
    /\ serving.id <= command.id
    /\ \A i \in DOMAIN toClient : toClient[i] # <<>>
    /\ Len(toClient) <= 1
    /\ handler = "answering" => reply # <<>>

\* The request in progress is in one place, and its reply comes after its effect.
TurnInv ==
    /\ at \in {"menu", "send"} => toServer = <<>> /\ toClient = <<>>
                                /\ handler \notin {"processing", "answering"}
    /\ at = "menu" => executed = command.id
    /\ at = "send" => executed + 1 = command.id
    /\ executed = command.id \/ executed + 1 = command.id
    /\ toServer # <<>> => /\ toServer = <<command>> /\ executed + 1 = command.id
                          /\ handler \notin {"processing", "answering"}
    /\ handler = "processing" => serving = command /\ executed + 1 = command.id
    /\ handler = "answering" => serving = command /\ executed = command.id /\ toClient = <<>>
    /\ toClient # <<>> => /\ toServer = <<>> /\ executed = command.id
                          /\ handler # "processing"

\* The reply is whole where it is read, and headed by the request it answers.
ReplyInv ==
    /\ executed # 0 => /\ reply # <<>> /\ reply[1] = Cell(executed, "header")
                       /\ Complete(reply)
    /\ at # "done" /\ toClient # <<>> => toClient = <<reply>>
    /\ at \in {"send", "receive"} => data = <<>>
    /\ shown.result # "SERIALIZATION_ERROR"

(* A client that reads by messages finds in the pipe the one reply to the  *)
(* request it waits for, or nothing: with the types and the pipes' own     *)
(* contents this is inductive (ClientHandler.cxx:48-100,                   *)
(* NamedPipeConnection.cxx:93-146, DaemonClient.cxx:132-158).              *)
SessionInv ==
    /\ TypeOK
    /\ PipesInv
    /\ readMode = "message" => TurnInv /\ ReplyInv /\ ShowsTheReply

-----------------------------------------------------------------------------
(* The session implements RequestReply. *)

Phase ==
    CASE at = "menu" -> "idle"
      [] at = "done" -> "over"
      [] OTHER -> IF executed = command.id THEN "executed" ELSE "asked"

Outcome == [shown EXCEPT !.result = IF @ \in ConnectionErrors THEN "failure" ELSE @]

Service == INSTANCE RequestReply WITH
    framed <- readMode = "message", phase <- Phase, request <- command.id,
    result <- LinesOf(reply), outcome <- Outcome

(* A request is executed at most once and in turn, its answer is shown     *)
(* only after that and is the whole of it; when a read, a write or the     *)
(* daemon fails, even between the effect and the reply, the session ends   *)
(* (ClientHandler.cxx:48-100, DaemonServer.cxx:54, DaemonClient.cxx:45-158,*)
(* NamedPipeConnection.cxx:93-146).                                        *)
ServesRequests == Service!Spec
=============================================================================
