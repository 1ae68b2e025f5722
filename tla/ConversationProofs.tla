-------------------------- MODULE ConversationProofs --------------------------
(***************************************************************************)
(* The safety properties of Conversation, for any size of the buffer, any  *)
(* number of entries and any number of requests in a session: the types,   *)
(* the match of replies to requests, and the refinement of RequestReply.   *)
(***************************************************************************)
EXTENDS Conversation, SequenceTheorems, FiniteSetTheorems, TLAPS

-----------------------------------------------------------------------------
(* Texts *)

LEMMA CellType ==
    ASSUME NEW id \in Nat, NEW kind \in {"header", "text", "newline"}
    PROVE  Cell(id, kind) \in Cells /\ <<Cell(id, kind)>> \in Seq(Cells)
BY DEF Cell, Cells

LEMMA TextType == ASSUME NEW id \in Nat, NEW n \in Nat PROVE Text(id, n) \in Seq(Cells)
<1>1. ASSUME NEW i \in 1 .. 2 * n
      PROVE  Cell(id, IF i % 2 = 1 THEN "text" ELSE "newline") \in Cells
  BY CellType
<1>2. Text(id, n) \in [1 .. 2 * n -> Cells]
  BY <1>1 DEF Text
<1>3. 2 * n \in Nat
  OBVIOUS
<1> QED
  BY <1>2, <1>3, SeqDef

LEMMA ContentType ==
    ASSUME NEW c \in Commands \cup {NoCommand}, NEW entries \in Nat
    PROVE  c.id \in Nat /\ Newline(c.id) \in Seq(Cells) /\ Content(c, entries) \in Seq(Cells)
<1>1. c.id \in Nat
  BY DEF Commands, NoCommand
<1>2. Newline(c.id) \in Seq(Cells)
  BY <1>1, CellType DEF Newline
<1>3. CASE c.type # "PRINT_ALL"
  BY <1>1, <1>2, <1>3 DEF Content
<1>4. CASE c.type = "PRINT_ALL" /\ entries = 0
  <2>1. <<Cell(c.id, "text")>> \in Seq(Cells)
    BY <1>1, CellType
  <2>2. Newline(c.id) \o <<Cell(c.id, "text")>> \in Seq(Cells)
    BY <1>2, <2>1, ConcatProperties
  <2> QED
    BY <1>1, <1>2, <1>4, <2>2 DEF Content
<1>5. CASE c.type = "PRINT_ALL" /\ entries # 0
  <2>1. Newline(c.id) \o Text(c.id, entries) \in Seq(Cells)
    BY <1>1, <1>2, TextType, ConcatProperties
  <2> QED
    BY <1>1, <1>2, <1>5, <2>1 DEF Content
<1> QED
  BY <1>3, <1>4, <1>5

\* A reply is headed by the request it answers and ends with the terminator.
LEMMA ReplyText ==
    ASSUME NEW c \in Commands \cup {NoCommand}, NEW entries \in Nat
    PROVE  LET text == SerializeResponse(c, entries)
           IN  /\ text \in Seq(Cells) /\ text # <<>>
               /\ text[1] = Cell(c.id, "header")
               /\ Complete(text)
<1> DEFINE header == <<Cell(c.id, "header")>>
           body == header \o Content(c, entries)
           text == body \o Newline(c.id)
<1>1. header \in Seq(Cells) /\ Len(header) = 1 /\ header[1] = Cell(c.id, "header")
  BY ContentType, CellType
<1>2. /\ Newline(c.id) \in Seq(Cells) /\ Len(Newline(c.id)) = 1
      /\ Newline(c.id)[1].kind = "newline"
  BY ContentType DEF Newline, Cell
<1>3. /\ body \in Seq(Cells) /\ Len(body) \in Nat /\ Len(body) >= 1
      /\ body[1] = Cell(c.id, "header")
  <2>1. Content(c, entries) \in Seq(Cells) /\ Len(Content(c, entries)) \in Nat
    BY ContentType
  <2> HIDE DEF header
  <2> QED
    BY <1>1, <2>1, ConcatProperties
<1>4. /\ text \in Seq(Cells) /\ Len(text) = Len(body) + 1
      /\ text[1] = body[1] /\ text[Len(text)] = Newline(c.id)[1]
  <2> HIDE DEF body
  <2> QED
    BY <1>2, <1>3, ConcatProperties
<1>5. text # <<>>
  BY <1>3, <1>4
<1> QED
  BY <1>2, <1>3, <1>4, <1>5 DEF SerializeResponse, Complete, Last

LEMMA LinesType == ASSUME NEW text \in Seq(Cells) PROVE LinesOf(text) \in Nat
<1>1. IsFiniteSet(1 .. Len(text))
  BY FS_Interval
<1>2. {i \in DOMAIN text : text[i].kind = "text"} \subseteq 1 .. Len(text)
  OBVIOUS
<1> QED
  BY <1>1, <1>2, FS_Subset, FS_CardinalityType DEF LinesOf

\* What a text that is not empty is taken for.
LEMMA ResponseType ==
    ASSUME NEW text \in Seq(Cells), text # <<>>
    PROVE  /\ DeserializeResponse(text).result \in {"reply", "SERIALIZATION_ERROR"}
           /\ DeserializeResponse(text).of \in Nat
           /\ DeserializeResponse(text).lines \in Nat
<1>1. text[1] \in Cells
  <2>1. 1 \in 1 .. Len(text)
    BY EmptySeq
  <2> QED
    BY <2>1, ElementOfSeq
<1> QED
  BY <1>1, LinesType DEF DeserializeResponse, Cells

-----------------------------------------------------------------------------
(* Types and pipes *)

LEMMA SessionInitInv == Init => SessionInv
<1> SUFFICES ASSUME Init PROVE SessionInv
  OBVIOUS
<1>1. TypeOK
  BY EmptySeq DEF Init, TypeOK, Nothing, NoCommand
<1>2. PipesInv
  BY DEF Init, PipesInv, NoCommand
<1>3. TurnInv /\ ReplyInv /\ ShowsTheReply
  BY DEF Init, TurnInv, ReplyInv, ShowsTheReply, Nothing, NoCommand
<1> QED
  BY <1>1, <1>2, <1>3 DEF SessionInv

\* What a failure leaves the client with.
LEMMA FailShows ==
    ASSUME NEW code \in ConnectionErrors, Fail(code)
    PROVE  /\ at' = "done"
           /\ shown' = [result |-> code, of |-> 0, lines |-> 0]
BY DEF Fail, Show

\* What a chunk leaves the client with: more text, or the end of the request.
LEMMA GotType ==
    ASSUME TypeOK, NEW chunk \in Seq(Cells), chunk # <<>>, Got(chunk)
    PROVE  /\ data' \in Seq(Cells) /\ connected' = connected
           /\ at' \in {at, "menu", "done"}
           /\ shown'.result \in ConnectionErrors \cup {"nothing", "reply", "SERIALIZATION_ERROR"}
           /\ shown'.of \in Nat /\ shown'.lines \in Nat
<1>1. data \in Seq(Cells)
  BY DEF TypeOK
<1>2. data \o chunk \in Seq(Cells) /\ data \o chunk # <<>>
  BY <1>1, ConcatProperties, EmptySeq
<1>3. CASE Complete(chunk) /\ Show(DeserializeResponse(data \o chunk))
  BY <1>2, <1>3, ResponseType DEF Got, Show
<1>4. CASE UNCHANGED <<at, shown>>
  BY <1>2, <1>4 DEF Got, TypeOK
<1> QED
  BY <1>3, <1>4 DEF Got

\* The pipe from the handler after the client has read some of it.
LEMMA SplitMessage ==
    ASSUME NEW message \in Seq(Cells), NEW n \in Nat, n <= Len(message)
    PROVE  /\ SubSeq(message, 1, n) \in Seq(Cells)
           /\ SubSeq(message, n + 1, Len(message)) \in Seq(Cells)
           /\ n > 0 => SubSeq(message, 1, n) # <<>>
           /\ n < Len(message) => SubSeq(message, n + 1, Len(message)) # <<>>
<1>1. \A i \in 1 .. Len(message) : message[i] \in Cells
  BY ElementOfSeq
<1>2. /\ SubSeq(message, 1, n) \in Seq(Cells)
      /\ Len(SubSeq(message, 1, n)) = IF 1 <= n THEN n ELSE 0
  BY <1>1, SubSeqProperties
<1>3. /\ SubSeq(message, n + 1, Len(message)) \in Seq(Cells)
      /\ Len(SubSeq(message, n + 1, Len(message)))
           = IF n + 1 <= Len(message) THEN Len(message) - n ELSE 0
  BY <1>1, SubSeqProperties
<1>4. Len(<<>>) = 0
  OBVIOUS
<1>5. n > 0 => SubSeq(message, 1, n) # <<>>
  BY <1>2, <1>4
<1>6. n < Len(message) => SubSeq(message, n + 1, Len(message)) # <<>>
  <2>1. Len(message) \in Nat
    OBVIOUS
  <2>2. n < Len(message) => Len(SubSeq(message, n + 1, Len(message))) = Len(message) - n
    BY <1>3, <2>1
  <2>3. n < Len(message) => Len(message) - n # 0
    BY <2>1
  <2> QED
    BY <1>4, <2>2, <2>3
<1> QED
  BY <1>2, <1>3, <1>5, <1>6

\* There is one message at most in the pipe to the client, and it is not empty.
LEMMA MessageInPipe ==
    ASSUME TypeOK, PipesInv, toClient # <<>>
    PROVE  /\ Len(toClient) = 1 /\ Head(toClient) = toClient[1]
           /\ Head(toClient) \in Seq(Cells) /\ Head(toClient) # <<>>
           /\ Len(Head(toClient)) \in Nat \ {0}
           /\ Tail(toClient) = <<>>
<1>t. toClient \in Seq(Seq(Cells))
  BY DEF TypeOK
<1>1. toClient \in Seq(Seq(Cells)) /\ Len(toClient) \in Nat \ {0}
  BY <1>t, EmptySeq
<1>2. Len(toClient) = 1
  <2> DEFINE n == Len(toClient)
  <2>1. n \in Nat \ {0} /\ n <= 1
    BY <1>1 DEF PipesInv
  <2> HIDE DEF n
  <2>2. n = 1
    BY <2>1
  <2> QED
    BY <2>2 DEF n
<1>3. Head(toClient) = toClient[1] /\ 1 \in DOMAIN toClient
  BY <1>1, <1>2
<1>4. Head(toClient) \in Seq(Cells) /\ Head(toClient) # <<>>
  BY <1>1, <1>3, HeadTailProperties DEF PipesInv
<1>5. Tail(toClient) = <<>>
  <2>1. Tail(toClient) \in Seq(Seq(Cells)) /\ Len(Tail(toClient)) = 0
    BY <1>1, <1>2, HeadTailProperties
  <2> QED
    BY <2>1, EmptySeq
<1> QED
  BY <1>2, <1>3, <1>4, <1>5, EmptySeq

\* A read of bytes takes a part that is not empty, and leaves the rest.
LEMMA BytesRead ==
    ASSUME TypeOK, PipesInv, ReadBytes
    PROVE  \E chunk \in Seq(Cells), rest \in Seq(Cells) :
              /\ chunk # <<>> /\ Got(chunk)
              /\ toClient' = <<>> \/ (toClient' = <<rest>> /\ rest # <<>>)
<1> DEFINE bytes == Head(toClient)
           size == IF Len(bytes) < BufferSize THEN Len(bytes) ELSE BufferSize
<1>1. bytes \in Seq(Cells) /\ Len(bytes) \in Nat \ {0}
  BY MessageInPipe DEF ReadBytes
<1>2. size \in Nat \ {0} /\ size <= Len(bytes)
  BY <1>1, ConversationAssumption
<1>3. /\ Got(SubSeq(bytes, 1, size))
      /\ toClient' = IF size = Len(bytes) THEN <<>> ELSE <<SubSeq(bytes, size + 1, Len(bytes))>>
  BY DEF ReadBytes
<1>4. /\ SubSeq(bytes, 1, size) \in Seq(Cells) /\ SubSeq(bytes, 1, size) # <<>>
      /\ SubSeq(bytes, size + 1, Len(bytes)) \in Seq(Cells)
      /\ size # Len(bytes) => SubSeq(bytes, size + 1, Len(bytes)) # <<>>
  <2> HIDE DEF size, bytes
  <2>1. bytes \in Seq(Cells) /\ size \in Nat /\ size <= Len(bytes) /\ size > 0
    BY <1>2, <1>1
  <2>2. size # Len(bytes) => size < Len(bytes)
    BY <1>1, <2>1
  <2> QED
    BY <2>1, <2>2, SplitMessage
<1> HIDE DEF size, bytes
<1> QED
  BY <1>3, <1>4

LEMMA TypeStep == SessionInv /\ [Next]_vars => TypeOK' /\ PipesInv'
<1> SUFFICES ASSUME SessionInv, [Next]_vars
             PROVE  TypeOK' /\ PipesInv'
  OBVIOUS
<1>t. TypeOK /\ PipesInv
  BY DEF SessionInv
<1> USE DEF clientVars, handlerVars
<1>1. ASSUME NEW type \in CommandTypes, Choose(type)
      PROVE  TypeOK' /\ PipesInv'
  <2>1. command'.id = command.id + 1 /\ command' \in Commands /\ command' # NoCommand
    BY <1>t, <1>1 DEF Choose, TypeOK, Commands, NoCommand
  <2>2. TypeOK'
    BY <1>t, <1>1, <2>1, EmptySeq DEF Choose, TypeOK, Commands, NoCommand
  <2>3. PipesInv'
    <3>1. command.id \in Nat /\ serving.id \in Nat /\ \A i \in DOMAIN toServer : toServer[i].id \in Nat
      <4>1. \A c \in Commands \cup {NoCommand} : c.id \in Nat
        BY DEF Commands, NoCommand
      <4>2. /\ command \in Commands \cup {NoCommand} /\ serving \in Commands \cup {NoCommand}
            /\ toServer \in Seq(Commands)
        BY <1>t DEF TypeOK
      <4>3. \A i \in DOMAIN toServer : toServer[i] \in Commands
        BY <4>2
      <4> QED
        BY <4>1, <4>2, <4>3
    <3>2. command'.id = command.id + 1 /\ command'.id # 0
      BY <2>1, <3>1
    <3> QED
      BY <1>t, <1>1, <3>1, <3>2 DEF Choose, PipesInv
  <2> QED
    BY <2>2, <2>3
<1>2. CASE SendRequest
  <2>1. command \in Commands
    BY <1>t, <1>2 DEF SendRequest, TypeOK, PipesInv, NoCommand
  <2>2. CASE handler # "closed" /\ toServer' = Append(toServer, command) /\ at' = "receive" /\ UNCHANGED shown
    <3>1. /\ toServer' \in Seq(Commands) /\ Len(toServer') = Len(toServer) + 1
          /\ \A i \in DOMAIN toServer' : toServer'[i].id <= command.id
      BY <1>t, <2>1, <2>2, AppendProperties DEF TypeOK, PipesInv, Commands
    <3>2. readMode = "message" => Len(toServer') <= 1
      BY <1>2, <3>1 DEF SendRequest, SessionInv, TurnInv
    <3>3. TypeOK'
      BY <1>t, <1>2, <2>2, <3>1, <3>2 DEF SendRequest, TypeOK
    <3>4. PipesInv'
      BY <1>t, <1>2, <2>2, <3>1 DEF SendRequest, PipesInv
    <3> QED
      BY <3>3, <3>4
  <2>3. CASE Fail("WRITE_FAILED") /\ UNCHANGED toServer
    <3>1. at' = "done" /\ shown' = [result |-> "WRITE_FAILED", of |-> 0, lines |-> 0]
      BY <2>3, FailShows DEF ConnectionErrors
    <3> QED
      BY <1>t, <1>2, <2>3, <3>1 DEF SendRequest, TypeOK, PipesInv, ConnectionErrors
  <2> QED
    BY <1>2, <2>2, <2>3 DEF SendRequest
<1>3. CASE ReadMessage
  <2>1. /\ UNCHANGED <<readMode, command, toServer, handler, serving, reply, executed>>
        /\ toClient # <<>> /\ at = "receive"
    BY <1>3 DEF ReadMessage
  <2>2. CASE Got(Head(toClient)) /\ toClient' = Tail(toClient)
    <3>1. toClient' = <<>>
      BY <1>t, <2>1, <2>2, MessageInPipe
    <3> QED
      BY <1>t, <2>1, <2>2, <3>1, MessageInPipe, GotType DEF TypeOK, PipesInv
  <2>3. CASE /\ Len(Head(toClient)) > BufferSize
             /\ toClient' = [toClient EXCEPT ![1] = SubSeq(@, BufferSize + 1, Len(@))]
             /\ UNCHANGED <<connected, data>>
             /\ Fail("READ_FAILED")
    <3>1. at' = "done" /\ shown' = [result |-> "READ_FAILED", of |-> 0, lines |-> 0]
      BY <2>3, FailShows DEF ConnectionErrors
    <3> DEFINE rest == SubSeq(toClient[1], BufferSize + 1, Len(toClient[1]))
    <3>2. rest \in Seq(Cells) /\ rest # <<>>
      BY <1>t, <2>1, <2>3, MessageInPipe, SplitMessage, ConversationAssumption
    <3> HIDE DEF rest
    <3>3. toClient' \in Seq(Seq(Cells)) /\ Len(toClient') = 1 /\ toClient'[1] = rest
      <4>1. toClient' = [toClient EXCEPT ![1] = rest] /\ toClient \in Seq(Seq(Cells))
        BY <1>t, <2>3 DEF rest, TypeOK
      <4> QED
        BY <1>t, <2>1, <3>2, <4>1, MessageInPipe, ExceptSeq
    <3> QED
      BY <1>t, <2>1, <2>3, <3>1, <3>2, <3>3 DEF TypeOK, PipesInv, ConnectionErrors
  <2> QED
    BY <1>3, <2>2, <2>3 DEF ReadMessage
<1>4. CASE ReadBytes
  <2>1. /\ UNCHANGED <<readMode, command, toServer, handler, serving, reply, executed>>
        /\ at = "receive" /\ readMode = "byte"
    BY <1>4 DEF ReadBytes
  <2>2. PICK chunk \in Seq(Cells), rest \in Seq(Cells) :
            /\ chunk # <<>> /\ Got(chunk)
            /\ toClient' = <<>> \/ (toClient' = <<rest>> /\ rest # <<>>)
    BY <1>t, <1>4, BytesRead
  <2>3. /\ toClient' \in Seq(Seq(Cells)) /\ Len(toClient') <= 1
        /\ \A i \in DOMAIN toClient' : toClient'[i] # <<>>
    <3>1. CASE toClient' = <<>>
      BY <3>1
    <3>2. CASE toClient' = <<rest>> /\ rest # <<>>
      BY <3>2
    <3> QED
      BY <2>2, <3>1, <3>2
  <2>4. /\ data' \in Seq(Cells) /\ connected' = connected /\ at' \in {at, "menu", "done"}
        /\ shown'.result \in ConnectionErrors \cup {"nothing", "reply", "SERIALIZATION_ERROR"}
        /\ shown'.of \in Nat /\ shown'.lines \in Nat
    BY <1>t, <2>2, GotType
  <2> QED
    BY <1>t, <2>1, <2>3, <2>4 DEF TypeOK, PipesInv
<1>5. CASE ReadBrokenPipe
  <2>1. at' = "done" /\ shown' = [result |-> "CONNECTION_FAILED", of |-> 0, lines |-> 0]
    BY <1>5, FailShows DEF ReadBrokenPipe, ConnectionErrors
  <2> QED
    BY <1>t, <1>5, <2>1 DEF ReadBrokenPipe, TypeOK, PipesInv, ConnectionErrors
<1>6. CASE Interrupt
  BY <1>t, <1>6 DEF Interrupt, TypeOK, PipesInv
<1>7. CASE ReadRequest
  <2>1. CASE /\ toServer # <<>> /\ serving' = Head(toServer) /\ toServer' = Tail(toServer)
             /\ handler' = "processing"
    <3>1. toServer \in Seq(Commands) /\ Len(toServer) \in Nat \ {0}
      BY <1>t, <2>1, EmptySeq DEF TypeOK
    <3>2. /\ Head(toServer) \in Commands /\ Head(toServer).id <= command.id
          /\ Tail(toServer) \in Seq(Commands) /\ Len(Tail(toServer)) = Len(toServer) - 1
          /\ \A i \in DOMAIN Tail(toServer) : Tail(toServer)[i].id <= command.id
      <4>1. Head(toServer) = toServer[1] /\ 1 \in DOMAIN toServer
        BY <3>1
      <4>2. /\ Head(toServer) \in Commands
            /\ Tail(toServer) \in Seq(Commands) /\ Len(Tail(toServer)) = Len(toServer) - 1
            /\ \A i \in 1 .. Len(Tail(toServer)) : Tail(toServer)[i] = toServer[i + 1]
        BY <2>1, <3>1, HeadTailProperties
      <4>3. \A i \in DOMAIN toServer : toServer[i].id <= command.id
        BY <1>t DEF PipesInv
      <4> QED
        BY <3>1, <4>1, <4>2, <4>3
    <3> QED
      BY <1>t, <1>7, <2>1, <3>1, <3>2 DEF ReadRequest, TypeOK, PipesInv
  <2>2. CASE toServer = <<>> /\ handler' = "closed" /\ UNCHANGED <<serving, toServer>>
    BY <1>t, <1>7, <2>2 DEF ReadRequest, TypeOK, PipesInv
  <2> QED
    BY <1>7, <2>1, <2>2 DEF ReadRequest
<1>8. CASE ExecuteCommand
  <2>1. reply' \in Seq(Cells) /\ reply' # <<>>
    <3>1. PICK entries \in 0 .. MaxEntries : reply' = SerializeResponse(serving, entries)
      BY <1>8 DEF ExecuteCommand
    <3>2. serving \in Commands \cup {NoCommand} /\ entries \in Nat
      BY <1>t, ConversationAssumption DEF TypeOK
    <3> QED
      BY <3>1, <3>2, ReplyText
  <2>2. executed' \in 0 .. command.id
    BY <1>t, <1>8 DEF ExecuteCommand, TypeOK, PipesInv, Commands, NoCommand
  <2> QED
    BY <1>t, <1>8, <2>1, <2>2 DEF ExecuteCommand, TypeOK, PipesInv
<1>9. CASE WriteReply
  <2>1. /\ toClient' \in Seq(Seq(Cells)) /\ Len(toClient') <= 1
        /\ \A i \in DOMAIN toClient' : toClient'[i] # <<>>
    <3>1. reply \in Seq(Cells) /\ reply # <<>>
      BY <1>t, <1>9 DEF WriteReply, TypeOK, PipesInv
    <3>2. CASE at = "done"
      BY <1>t, <1>9, <3>2 DEF WriteReply, TypeOK, PipesInv
    <3>3. CASE at # "done" /\ toClient = <<>>
      BY <1>9, <3>1, <3>3 DEF WriteReply, Written
    <3>4. CASE at # "done" /\ readMode = "byte" /\ toClient # <<>>
      <4> DEFINE joined == Head(toClient) \o reply
      <4>1. joined \in Seq(Cells) /\ joined # <<>>
        BY <1>t, <3>1, <3>4, MessageInPipe, ConcatProperties, ConcatEqualIffEmpty
      <4>2. toClient' = <<joined>>
        BY <1>9, <3>4 DEF WriteReply, Written
      <4> HIDE DEF joined
      <4> QED
        BY <4>1, <4>2
    <3> QED
      BY <1>t, <1>9, <3>2, <3>3, <3>4 DEF WriteReply, SessionInv, TurnInv, TypeOK
  <2> QED
    BY <1>t, <1>9, <2>1 DEF WriteReply, TypeOK, PipesInv
<1>10. CASE Vanish
  BY <1>t, <1>10 DEF Vanish, TypeOK, PipesInv
<1>11. CASE UNCHANGED vars
  BY <1>t, <1>11 DEF vars, TypeOK, PipesInv
<1> QED
  BY <1>1, <1>2, <1>3, <1>4, <1>5, <1>6, <1>7, <1>8, <1>9, <1>10, <1>11
     DEF Next, Receive, Over

-----------------------------------------------------------------------------
(* A client that reads by messages *)

Framed == SessionInv /\ readMode = "message"

LEMMA FramedParts ==
    ASSUME Framed
    PROVE  TypeOK /\ PipesInv /\ TurnInv /\ ReplyInv /\ ShowsTheReply /\ executed \in Nat
           /\ command.id \in Nat
<1>1. TypeOK /\ PipesInv /\ TurnInv /\ ReplyInv /\ ShowsTheReply
  BY DEF Framed, SessionInv
<1>2. executed \in Nat /\ command.id \in Nat
  BY <1>1 DEF TypeOK, Commands, NoCommand
<1> QED
  BY <1>1, <1>2

\* It gets the whole reply to the request it waits for, or fails and ends.
LEMMA MessageRead ==
    ASSUME Framed, ReadMessage
    PROVE  /\ executed = command.id /\ executed # 0
           /\ UNCHANGED <<readMode, connected, command, toServer, handler, serving, reply, executed>>
           /\ \/ /\ shown' = [result |-> "reply", of |-> executed, lines |-> LinesOf(reply)]
                 /\ at' \in {"menu", "done"} /\ toClient' = <<>>
              \/ /\ shown' = [result |-> "READ_FAILED", of |-> 0, lines |-> 0]
                 /\ at' = "done" /\ toClient' # <<>>
<1>f. TypeOK /\ PipesInv /\ TurnInv /\ ReplyInv
  BY FramedParts
<1>1. /\ at = "receive" /\ toClient # <<>> /\ executed = command.id
      /\ UNCHANGED <<readMode, connected, command, toServer, handler, serving, reply, executed>>
  BY <1>f DEF ReadMessage, Got, TurnInv, handlerVars
<1>2. executed # 0
  BY <1>1, <1>f DEF PipesInv
<1>3. Head(toClient) = reply /\ data = <<>> /\ Tail(toClient) = <<>>
  BY <1>1, <1>f, MessageInPipe DEF ReplyInv
<1>4. CASE Got(Head(toClient)) /\ toClient' = Tail(toClient)
  <2>1. Got(reply) /\ <<>> \o reply = reply
    BY <1>3, <1>4, <1>f, ConcatEmptySeq DEF TypeOK
  <2>2. DeserializeResponse(reply) = [result |-> "reply", of |-> executed, lines |-> LinesOf(reply)]
    BY <1>2, <1>f DEF ReplyInv, DeserializeResponse, Cell
  <2>3. Show(DeserializeResponse(reply))
    BY <1>2, <1>3, <1>f, <2>1 DEF ReplyInv, Got
  <2> QED
    BY <1>1, <1>2, <1>3, <1>4, <2>2, <2>3 DEF Show
<1>5. CASE /\ Len(Head(toClient)) > BufferSize
           /\ toClient' = [toClient EXCEPT ![1] = SubSeq(@, BufferSize + 1, Len(@))]
           /\ Fail("READ_FAILED")
  <2>1. DOMAIN toClient' = DOMAIN toClient /\ 1 \in DOMAIN toClient
    BY <1>1, <1>f, <1>5, MessageInPipe
  <2>2. toClient' # <<>>
    BY <2>1
  <2> QED
    BY <1>1, <1>2, <1>5, <2>2, FailShows DEF ConnectionErrors
<1> QED
  BY <1>4, <1>5 DEF ReadMessage

LEMMA TurnStep == Framed /\ [Next]_vars => TurnInv'
<1> SUFFICES ASSUME Framed, [Next]_vars
             PROVE  TurnInv'
  OBVIOUS
<1>t. /\ TypeOK /\ PipesInv /\ TurnInv /\ readMode = "message"
      /\ executed \in Nat /\ command.id \in Nat
  BY FramedParts DEF Framed
<1> USE DEF clientVars, handlerVars
<1>1. ASSUME NEW type \in CommandTypes, Choose(type)
      PROVE  TurnInv'
  BY <1>t, <1>1 DEF Choose, TurnInv
<1>2. CASE SendRequest
  <2>1. CASE toServer' = Append(toServer, command) /\ at' = "receive"
    <3>1. toServer' = <<command>>
      BY <1>t, <1>2, <2>1 DEF SendRequest, TurnInv
    <3> QED
      BY <1>t, <1>2, <2>1, <3>1 DEF SendRequest, TurnInv
  <2>2. CASE Fail("WRITE_FAILED") /\ UNCHANGED toServer
    BY <1>t, <1>2, <2>2, FailShows DEF SendRequest, TurnInv, ConnectionErrors
  <2> QED
    BY <1>2, <2>1, <2>2 DEF SendRequest
<1>3. CASE ReadMessage
  <2>1. toClient # <<>>
    BY <1>3 DEF ReadMessage
  <2> QED
    BY <1>t, <1>3, <2>1, MessageRead DEF TurnInv
<1>4. CASE ReadBrokenPipe
  BY <1>t, <1>4, FailShows DEF ReadBrokenPipe, TurnInv, ConnectionErrors
<1>5. CASE Interrupt
  BY <1>t, <1>5 DEF Interrupt, TurnInv
<1>6. CASE ReadRequest
  <2>1. CASE /\ toServer # <<>> /\ serving' = Head(toServer) /\ toServer' = Tail(toServer)
             /\ handler' = "processing"
    <3>1. serving' = command /\ toServer' = <<>>
      BY <1>t, <2>1 DEF TurnInv
    <3> QED
      BY <1>t, <1>6, <2>1, <3>1 DEF ReadRequest, TurnInv
  <2>2. CASE toServer = <<>> /\ handler' = "closed" /\ UNCHANGED <<serving, toServer>>
    BY <1>t, <1>6, <2>2 DEF ReadRequest, TurnInv
  <2> QED
    BY <1>6, <2>1, <2>2 DEF ReadRequest
<1>7. CASE ExecuteCommand
  BY <1>t, <1>7 DEF ExecuteCommand, TurnInv
<1>8. CASE WriteReply
  BY <1>t, <1>8 DEF WriteReply, TurnInv
<1>9. CASE Vanish
  BY <1>t, <1>9 DEF Vanish, TurnInv
<1>10. CASE UNCHANGED vars
  BY <1>t, <1>10 DEF vars, TurnInv
<1>11. ~ReadBytes
  BY <1>t DEF ReadBytes
<1> QED
  BY <1>1, <1>2, <1>3, <1>4, <1>5, <1>6, <1>7, <1>8, <1>9, <1>10, <1>11
     DEF Next, Receive, Over

LEMMA ReplyStep == Framed /\ [Next]_vars => ReplyInv' /\ ShowsTheReply'
<1> SUFFICES ASSUME Framed, [Next]_vars
             PROVE  ReplyInv' /\ ShowsTheReply'
  OBVIOUS
<1>t. /\ TypeOK /\ PipesInv /\ TurnInv /\ ReplyInv /\ ShowsTheReply
      /\ readMode = "message" /\ executed \in Nat /\ command.id \in Nat
  BY FramedParts DEF Framed
<1> USE DEF clientVars, handlerVars
<1>1. ASSUME NEW type \in CommandTypes, Choose(type)
      PROVE  ReplyInv' /\ ShowsTheReply'
  BY <1>t, <1>1 DEF Choose, ReplyInv, ShowsTheReply
<1>2. CASE SendRequest
  <2>1. CASE at' = "receive" /\ UNCHANGED shown
    BY <1>t, <1>2, <2>1 DEF SendRequest, ReplyInv, ShowsTheReply
  <2>2. CASE Fail("WRITE_FAILED")
    <3>1. at' = "done" /\ shown' = [result |-> "WRITE_FAILED", of |-> 0, lines |-> 0]
      BY <2>2, FailShows DEF ConnectionErrors
    <3> QED
      BY <1>t, <1>2, <3>1 DEF SendRequest, ReplyInv, ShowsTheReply
  <2> QED
    BY <1>2, <2>1, <2>2 DEF SendRequest
<1>3. CASE ReadMessage
  BY <1>t, <1>3, MessageRead DEF ReplyInv, ShowsTheReply
<1>4. CASE ReadBrokenPipe
  <2>1. at' = "done" /\ shown' = [result |-> "CONNECTION_FAILED", of |-> 0, lines |-> 0]
    BY <1>4, FailShows DEF ReadBrokenPipe, ConnectionErrors
  <2> QED
    BY <1>t, <1>4, <2>1 DEF ReadBrokenPipe, ReplyInv, ShowsTheReply
<1>5. CASE Interrupt
  BY <1>t, <1>5 DEF Interrupt, ReplyInv, ShowsTheReply
<1>6. CASE ReadRequest
  BY <1>t, <1>6 DEF ReadRequest, ReplyInv, ShowsTheReply
<1>7. CASE ExecuteCommand
  <2>1. /\ executed' = serving.id /\ toClient = <<>> /\ at \notin {"menu", "send"}
        /\ UNCHANGED <<at, command, data, shown, toClient>>
    BY <1>t, <1>7 DEF ExecuteCommand, TurnInv
  <2>2. reply' # <<>> /\ reply'[1] = Cell(executed', "header") /\ Complete(reply')
    <3>1. PICK entries \in 0 .. MaxEntries : reply' = SerializeResponse(serving, entries)
      BY <1>7 DEF ExecuteCommand
    <3>2. serving \in Commands \cup {NoCommand} /\ entries \in Nat
      BY <1>t, ConversationAssumption DEF TypeOK
    <3> QED
      BY <2>1, <3>1, <3>2, ReplyText
  <2> QED
    BY <1>t, <2>1, <2>2 DEF ReplyInv, ShowsTheReply
<1>8. CASE WriteReply
  <2>1. at # "done" => toClient' = <<reply>>
    BY <1>t, <1>8 DEF WriteReply, Written, TurnInv
  <2> QED
    BY <1>t, <1>8, <2>1 DEF WriteReply, ReplyInv, ShowsTheReply
<1>9. CASE Vanish
  BY <1>t, <1>9 DEF Vanish, ReplyInv, ShowsTheReply
<1>10. CASE UNCHANGED vars
  BY <1>t, <1>10 DEF vars, ReplyInv, ShowsTheReply
<1>11. ~ReadBytes
  BY <1>t DEF ReadBytes
<1> QED
  BY <1>1, <1>2, <1>3, <1>4, <1>5, <1>6, <1>7, <1>8, <1>9, <1>10, <1>11
     DEF Next, Receive, Over

LEMMA ModeStays == [Next]_vars => UNCHANGED readMode
BY DEF Next, Receive, Over, vars, clientVars, Choose, SendRequest, ReadMessage, ReadBytes,
       ReadBrokenPipe, Interrupt, ReadRequest, ExecuteCommand, WriteReply, Vanish

LEMMA SessionInvStep == SessionInv /\ [Next]_vars => SessionInv'
<1> SUFFICES ASSUME SessionInv, [Next]_vars
             PROVE  SessionInv'
  OBVIOUS
<1>1. TypeOK' /\ PipesInv'
  BY TypeStep
<1>2. readMode' = readMode
  BY ModeStays
<1>3. readMode = "message" => TurnInv' /\ ReplyInv' /\ ShowsTheReply'
  BY TurnStep, ReplyStep DEF Framed
<1> QED
  BY <1>1, <1>2, <1>3 DEF SessionInv

-----------------------------------------------------------------------------
(* The session implements RequestReply. *)

\* The user sees of a failure only that it is one.
LEMMA OutcomeOfFailure ==
    ASSUME NEW code \in ConnectionErrors, shown' = [result |-> code, of |-> 0, lines |-> 0]
    PROVE  Outcome' = Service!Failure
BY DEF Outcome, Service!Failure

LEMMA OutcomeOfReply ==
    ASSUME NEW id, NEW n, shown' = [result |-> "reply", of |-> id, lines |-> n]
    PROVE  Outcome' = [result |-> "reply", of |-> id, lines |-> n]
BY DEF Outcome, ConnectionErrors

LEMMA NothingToCount == LinesOf(<<>>) = 0
<1>1. {i \in DOMAIN <<>> : <<>>[i].kind = "text"} = {}
  OBVIOUS
<1> QED
  BY <1>1, FS_EmptySet DEF LinesOf

LEMMA InitServes == Init => Service!Init
<1> SUFFICES ASSUME Init PROVE Service!Init
  OBVIOUS
<1>1. Outcome = Service!Nothing
  BY DEF Init, Outcome, Nothing, Service!Nothing, ConnectionErrors
<1>2. Phase = "idle" /\ command.id = 0 /\ executed = 0
  BY DEF Init, Phase, NoCommand
<1>3. LinesOf(reply) = 0
  BY NothingToCount DEF Init
<1> QED
  BY <1>1, <1>2, <1>3 DEF Service!Init

\* A step that changes neither what is asked, executed or shown is none of the service's.
LEMMA Stutters ==
    ASSUME Framed, Framed',
           UNCHANGED <<command, executed, reply, shown>>,
           at' = at \/ (at = "send" /\ at' = "receive")
    PROVE  UNCHANGED Service!vars
<1>1. Phase' = Phase
  BY DEF Phase
<1>2. Outcome' = Outcome
  BY DEF Outcome
<1>3. UNCHANGED <<command.id, executed, LinesOf(reply), readMode = "message">>
  BY DEF Framed, LinesOf
<1> QED
  BY <1>1, <1>2, <1>3 DEF Service!vars

\* The failure of a request in progress is the service's.
LEMMA Fails ==
    ASSUME Framed, Framed', at \in {"send", "receive"},
           NEW code \in ConnectionErrors,
           at' = "done", shown' = [result |-> code, of |-> 0, lines |-> 0],
           UNCHANGED <<command, executed, reply>>
    PROVE  Service!Next
<1>1. Outcome' = Service!Failure
  BY OutcomeOfFailure
<1>2. Phase \in {"asked", "executed"} /\ Phase' = "over"
  BY <1>1 DEF Phase
<1>3. UNCHANGED <<command.id, executed, LinesOf(reply), readMode = "message">>
  BY DEF Framed, LinesOf
<1> QED
  BY <1>1, <1>2, <1>3 DEF Service!Next, Service!Fail

LEMMA FramedStepServes ==
    ASSUME Framed, Framed', [Next]_vars
    PROVE  [Service!Next]_(Service!vars)
<1>t. /\ TypeOK /\ PipesInv /\ TurnInv /\ ReplyInv /\ ShowsTheReply
      /\ readMode = "message" /\ readMode' = "message"
      /\ executed \in Nat /\ command.id \in Nat
  BY FramedParts DEF Framed
<1>m. UNCHANGED (readMode = "message")
  BY <1>t
<1> USE DEF clientVars, handlerVars
<1>1. ASSUME NEW type \in CommandTypes, Choose(type)
      PROVE  Service!Next
  <2>1. command'.id = command.id + 1 /\ at = "menu" /\ at' = "send" /\ executed = command.id
        /\ UNCHANGED <<executed, reply, shown>>
    BY <1>t, <1>1 DEF Choose, TurnInv
  <2>2. Phase = "idle" /\ Phase' = "asked"
    BY <1>t, <2>1 DEF Phase
  <2>3. UNCHANGED <<executed, LinesOf(reply), Outcome>>
    BY <2>1 DEF LinesOf, Outcome
  <2> QED
    BY <1>m, <2>1, <2>2, <2>3 DEF Service!Next, Service!Ask
<1>2. CASE SendRequest
  <2>1. CASE at' = "receive" /\ UNCHANGED shown
    <3>1. UNCHANGED Service!vars
      BY <1>2, <2>1, Stutters DEF SendRequest
    <3> QED
      BY <3>1
  <2>2. CASE Fail("WRITE_FAILED")
    <3>1. at = "send" /\ UNCHANGED <<command, executed, reply>>
      BY <1>2 DEF SendRequest
    <3> QED
      BY <2>2, <3>1, FailShows, Fails DEF ConnectionErrors
  <2> QED
    BY <1>2, <2>1, <2>2 DEF SendRequest
<1>3. CASE ReadMessage
  <2>1. at = "receive" /\ executed = command.id /\ UNCHANGED <<command, executed, reply>>
    BY <1>3, MessageRead DEF ReadMessage
  <2>2. CASE shown' = [result |-> "reply", of |-> executed, lines |-> LinesOf(reply)]
             /\ at' \in {"menu", "done"}
    <3>1. Outcome' = Service!Answered
      BY <2>1, <2>2, OutcomeOfReply DEF Service!Answered
    <3>2. Phase = "executed" /\ Phase' \in {"idle", "over"}
      BY <2>1, <2>2 DEF Phase
    <3>3. UNCHANGED <<command.id, executed, LinesOf(reply)>>
      BY <2>1 DEF LinesOf
    <3> QED
      BY <1>m, <3>1, <3>2, <3>3 DEF Service!Next, Service!Answer
  <2>3. CASE shown' = [result |-> "READ_FAILED", of |-> 0, lines |-> 0] /\ at' = "done"
    BY <2>1, <2>3, Fails DEF ConnectionErrors
  <2> QED
    BY <1>3, <2>2, <2>3, MessageRead
<1>4. CASE ReadBrokenPipe
  <2>1. at = "receive" /\ Fail("CONNECTION_FAILED") /\ UNCHANGED <<command, executed, reply>>
    BY <1>4 DEF ReadBrokenPipe
  <2> QED
    BY <2>1, FailShows, Fails DEF ConnectionErrors
<1>5. CASE Interrupt
  <2>1. at # "done" /\ at' = "done" /\ UNCHANGED <<command, executed, reply, shown>>
    BY <1>5 DEF Interrupt
  <2>2. Phase # "over" /\ Phase' = "over"
    BY <1>t, <2>1 DEF Phase, TypeOK
  <2>3. UNCHANGED <<command.id, executed, LinesOf(reply), Outcome>>
    BY <2>1 DEF LinesOf, Outcome
  <2> QED
    BY <1>m, <2>2, <2>3 DEF Service!Next, Service!Leave
<1>6. CASE ExecuteCommand
  <2>1. /\ at \in {"receive", "done"} /\ executed + 1 = command.id /\ executed' = command.id
        /\ UNCHANGED <<at, command, shown>>
    BY <1>t, <1>6 DEF ExecuteCommand, TurnInv, TypeOK
  <2>2. Phase = (IF at = "done" THEN "over" ELSE "asked")
        /\ Phase' = (IF at = "done" THEN "over" ELSE "executed")
    BY <1>t, <2>1 DEF Phase
  <2>3. LinesOf(reply') \in Nat
    BY LinesType DEF Framed, SessionInv, TypeOK
  <2>4. LinesOf(reply)' \in Nat
    BY <2>3 DEF LinesOf
  <2>5. UNCHANGED <<command.id, Outcome>>
    BY <2>1 DEF Outcome
  <2>6. Phase \in {"asked", "over"} /\ Phase' = (IF Phase = "over" THEN "over" ELSE "executed")
    BY <2>2
  <2>7. executed < command.id
    BY <1>t, <2>1
  <2> QED
    BY <1>m, <2>1, <2>4, <2>5, <2>6, <2>7 DEF Service!Next, Service!Execute
<1>7. CASE ReadRequest \/ WriteReply \/ Vanish
  <2>1. UNCHANGED <<at, command, executed, reply, shown>>
    BY <1>7 DEF ReadRequest, WriteReply, Vanish
  <2> QED
    BY <2>1, Stutters
<1>8. CASE UNCHANGED vars
  <2>1. UNCHANGED <<at, command, executed, reply, shown>>
    BY <1>8 DEF vars
  <2> QED
    BY <2>1, Stutters
<1>9. ~ReadBytes
  BY <1>t DEF ReadBytes
<1> QED
  BY <1>1, <1>2, <1>3, <1>4, <1>5, <1>6, <1>7, <1>8, <1>9 DEF Next, Receive, Over

LEMMA StepServes ==
    SessionInv /\ SessionInv' /\ [Next]_vars => [Service!Next]_(Service!vars)
<1> SUFFICES ASSUME SessionInv, SessionInv', [Next]_vars
             PROVE  [Service!Next]_(Service!vars)
  OBVIOUS
<1>1. readMode' = readMode
  BY ModeStays
<1>2. CASE readMode = "message"
  BY <1>1, <1>2, FramedStepServes DEF Framed
<1>3. CASE readMode # "message"
  BY <1>1, <1>3 DEF Service!Next
<1> QED
  BY <1>2, <1>3

-----------------------------------------------------------------------------
(* The theorems *)

(* Whatever the size of the buffer and of the replies: the request in      *)
(* progress, its effect and its reply are each in the one place where the  *)
(* next step looks for them.                                               *)
THEOREM SessionInvariant == Spec => []SessionInv
<1>1. Init => SessionInv
  BY SessionInitInv
<1>2. SessionInv /\ [Next]_vars => SessionInv'
  BY SessionInvStep
<1> QED
  BY <1>1, <1>2, PTL DEF Spec

(* The session keeps its types; read by messages, neither pipe ever holds  *)
(* a second request or a second reply (DaemonClient.cxx:132-158).          *)
THEOREM SessionTypeCorrectness == Spec => []TypeOK
<1>1. SessionInv => TypeOK
  BY DEF SessionInv
<1> QED
  BY <1>1, SessionInvariant, PTL

(* What is shown for a request is the whole reply to that request, and a   *)
(* session that goes on has left nothing of a reply in the pipe, for any   *)
(* size of the buffer (NamedPipeConnection.cxx:108-146).                   *)
THEOREM RepliesMatch == Spec => []RepliesMatchRequests
<1>1. SessionInv => RepliesMatchRequests
  BY DEF SessionInv, TurnInv, RepliesMatchRequests
<1> QED
  BY <1>1, SessionInvariant, PTL

(* Read by messages, the session is the service that RequestReply states:  *)
(* a request is executed at most once and answered in full after that, or  *)
(* the session is over (DaemonClient.cxx:45-158, ClientHandler.cxx:48-100).*)
THEOREM SessionServes == Spec => ServesRequests
<1>1. Init => Service!Init
  BY InitServes
<1>2. SessionInv /\ SessionInv' /\ [Next]_vars => [Service!Next]_(Service!vars)
  BY StepServes
<1> QED
  BY <1>1, <1>2, SessionInvariant, PTL DEF Spec, Service!Spec, ServesRequests
=============================================================================
