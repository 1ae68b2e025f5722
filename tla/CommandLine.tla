------------------------------ MODULE CommandLine -----------------------------
(***************************************************************************)
(* The client at its terminal: cli/CLIApplication reading std::cin, and    *)
(* cli/DaemonClient exchanging the texts of module Protocol with the       *)
(* handler in the daemon. The user types lines, also ahead of the program, *)
(* and may end the input, in the middle of a line too.                     *)
(***************************************************************************)
EXTENDS Protocol

CONSTANTS
    TypedLines,  \* bound of the model: the lines the user may type
    MaxAhead,    \* bound of the model: lines typed and not yet read
    Stores       \* bound of the model: the stores a print may show, as
                 \* sequences of <<number, timestamp>>

\* The words of the daemon's messages.
MessageWords == {"Number", "inserted", "deleted", "exists", "found", "No", "stored.", "Deleted",
                 "numbers", "(", "cleared)", "Goodbye!", "Failed", "deserialize"}

ASSUME CommandLineAssumption ==
    /\ TypedLines \subseteq Text
    /\ MaxAhead \in Nat
    /\ Stores \subseteq Seq(Nat \X Nat)
    /\ MessageWords \subseteq Others

VARIABLES
    cin,        \* std::cin: lines not read, where in the first, eofbit, failbit
    ended,      \* the input goes on, has ended, or has ended in its last line
    at,         \* where the program is
    command,    \* the command in the making
    pipe,       \* the text in the pipe
    shown,      \* what was displayed last
    asked,      \* history: the line the choice was read from
    told,       \* history: the line the last answer to a prompt was read from
    served,     \* history: the command as the daemon has it
    answered    \* history: the daemon's response to it

vars == <<cin, ended, at, command, pipe, shown, asked, told, served, answered>>
histories == <<asked, told, served, answered>>

Nothing == [code |-> -1, text |-> <<>>]

Init ==
    /\ cin = [lines |-> <<>>, pos |-> 1, eof |-> FALSE, fail |-> FALSE]
    /\ ended = "no"
    /\ at = "menu"
    /\ command = Null /\ pipe = <<>> /\ shown = Nothing
    /\ asked = <<>> /\ told = <<>> /\ served = Null /\ answered = Null

-----------------------------------------------------------------------------
(* std::cin, its lines not empty or its input ended. *)

Good(s) == ~s.eof /\ ~s.fail
Line(s) == IF s.lines = <<>> THEN <<>> ELSE Head(s.lines)
Rest(s) == SubSeq(Line(s), s.pos, Len(Line(s)))

\* No newline is left to be read.
OnLastLine(s) == s.lines = <<>> \/ (ended = "cut" /\ Len(s.lines) = 1)

Drop(s) == IF s.lines = <<>> THEN s ELSE [s EXCEPT !.lines = Tail(@), !.pos = 1]

Clear(s) == [s EXCEPT !.eof = FALSE, !.fail = FALSE]

\* ignore(max, '\n'); on a stream that is not good every call fails.
Ignore(s) ==
    IF Good(s) THEN [Drop(s) EXCEPT !.eof = OnLastLine(s)] ELSE [s EXCEPT !.fail = TRUE]

\* Up to what is left of the line; the end of the input may be met.
Consume(s, left) ==
    IF OnLastLine(s) /\ left = <<>> THEN [Drop(s) EXCEPT !.eof = TRUE]
    ELSE [s EXCEPT !.pos = Len(Line(s)) - Len(left) + 1]

\* cin >> choice, blank lines skipped
ReadInt(s) ==
    LET n == ReadNumber(Rest(s), MaxInt)
    IN  IF Good(s)
        THEN [value |-> n.value, cin |-> [Consume(s, n.left) EXCEPT !.fail = ~n.ok]]
        ELSE [value |-> 0, cin |-> [s EXCEPT !.fail = TRUE]]

GetLine(s) ==
    IF Good(s)
    THEN [text |-> Rest(s),
          cin |-> [Drop(s) EXCEPT !.eof = OnLastLine(s), !.fail = s.lines = <<>>]]
    ELSE [text |-> <<>>, cin |-> [s EXCEPT !.fail = TRUE]]

\* There is something to read, or a read fails at once.
CanRead == ~Good(cin) \/ cin.lines # <<>> \/ ended # "no"

-----------------------------------------------------------------------------
(* The user. *)

TypeLine ==
    /\ ended = "no" /\ Len(cin.lines) < MaxAhead
    /\ \E line \in TypedLines :
          /\ cin' = [cin EXCEPT !.lines = Append(@, line)]
          /\ ended' \in IF line = <<>> THEN {"no"} ELSE {"no", "cut"}
    /\ UNCHANGED <<at, command, pipe, shown, histories>>

EndInput ==
    /\ ended = "no"
    /\ ended' = "clean"
    /\ UNCHANGED <<cin, at, command, pipe, shown, histories>>

-----------------------------------------------------------------------------
(* CLIApplication *)

MenuOf == [choice \in 1 .. 5 |-> <<"INSERT", "DELETE_NUM", "PRINT_ALL", "DELETE_ALL", "EXIT">>[choice]]

\* Mutants of NextLine: the failure is not cleared; the rest is not ignored.
StayFailed(s) == Ignore(s)
KeepRest(s) == IF s.fail THEN Ignore(Clear(s)) ELSE s

NextLine(s) == Ignore(IF s.fail THEN Clear(s) ELSE s)

SkipBlankLine ==
    /\ at = "menu" /\ Good(cin)
    /\ cin.lines # <<>> /\ SkipSpace(Rest(cin)) = <<>> /\ ~OnLastLine(cin)
    /\ cin' = Drop(cin)
    /\ UNCHANGED <<ended, at, command, pipe, shown, histories>>

\* What the chosen command asks for next.
Prompt(type) ==
    CASE TakesNumber(type) -> "number"
      [] type = "DELETE_ALL" -> "confirm"
      [] OTHER -> "send"

GetUserChoice ==
    /\ at = "menu" /\ CanRead
    /\ Good(cin) => SkipSpace(Rest(cin)) # <<>> \/ OnLastLine(cin)
    /\ \E choice \in {ReadInt(cin)} :
          /\ cin' = NextLine(choice.cin)
          /\ \/ /\ ~choice.cin.fail /\ choice.value \in 1 .. 5
                /\ command' = [type |-> MenuOf[choice.value], number |-> 0]
                /\ at' = Prompt(command'.type)
                /\ asked' = Line(cin)
             \/ /\ choice.cin.fail \/ choice.value \notin 1 .. 5
                /\ at' = "menu" /\ command' = Null /\ asked' = <<>>
    /\ shown' = Nothing /\ told' = <<>> /\ served' = Null /\ answered' = Null
    /\ UNCHANGED <<ended, pipe>>

\* Asks again until the number is valid, at the end of the input too.
GetNumberInput ==
    /\ at = "number" /\ CanRead
    /\ \E input \in {GetLine(cin)} :
          /\ cin' = input.cin
          /\ \/ /\ Accepts(input.text)
                /\ command' = [command EXCEPT !.number = Value[input.text]]
                /\ at' = "send"
                /\ UNCHANGED shown
             \/ /\ ~Accepts(input.text)
                /\ shown' = [code |-> ErrorCodes.INVALID_NUMBER, text |-> <<>>]
                /\ UNCHANGED <<command, at>>
    /\ told' = Line(cin)
    /\ UNCHANGED <<ended, pipe, asked, served, answered>>

ConfirmAction ==
    /\ at = "confirm" /\ CanRead
    /\ \E input \in {GetLine(cin)} :
          /\ cin' = input.cin
          /\ at' = IF input.text # <<>> /\ input.text[1] \in {"y", "Y"} THEN "send" ELSE "menu"
    /\ told' = Line(cin)
    /\ UNCHANGED <<ended, command, pipe, shown, asked, served, answered>>

ConnectionErrors ==
    {ErrorCodes[code] : code \in {"CONNECTION_FAILED", "PIPE_CONNECT_FAILED",
                                  "READ_FAILED", "WRITE_FAILED"}}

\* An exit ends the session whatever comes of it.
Show(code, text) ==
    /\ shown' = [code |-> code, text |-> text]
    /\ at' = IF command.type = "EXIT" \/ code \in ConnectionErrors THEN "done" ELSE "menu"

-----------------------------------------------------------------------------
(* DaemonClient::sendCommandInternal, and what the daemon does with it. *)

SendCommand ==
    /\ at = "send"
    /\ pipe' = SerializeCommand(command)
    /\ at' = "sent"
    /\ UNCHANGED <<cin, ended, command, shown, histories>>

\* The timestamp at the end of the message is left out.
Words(word, n) == <<"Number", "blank">> \o Decimal[n] \o <<"blank", word>>

PrintAll(entries) ==
    IF entries = <<>> THEN <<"No", "blank", "stored.">>
    ELSE FlattenSeq([i \in DOMAIN entries |->
            Decimal[entries[i][1]] \o <<":">> \o Decimal[entries[i][2]] \o <<"\n">>])

\* The responses of CommandProcessor and ClientHandler.
Responses(c) ==
    CASE c = Null ->
            {Response("ERROR", "SERIALIZATION_ERROR", <<"Failed", "blank", "deserialize">>)}
      [] c.type = "INSERT" ->
            {Response("SUCCESS", "SUCCESS", Words("inserted", c.number)),
             Response("ERROR", "DUPLICATE_NUMBER", <<"Number", "blank", "exists">>)}
      [] c.type = "DELETE_NUM" ->
            {Response("SUCCESS", "SUCCESS", Words("deleted", c.number)),
             Response("ERROR", "NUMBER_NOT_FOUND", <<"Number", "blank", "found">>)}
      [] c.type = "PRINT_ALL" ->
            {Response("DATA", "SUCCESS", PrintAll(entries)) : entries \in Stores}
      [] c.type = "DELETE_ALL" ->
            {Response("SUCCESS", "SUCCESS", <<"Deleted", "blank", "numbers", "blank", "(">>
                \o Decimal[Len(entries)] \o <<"blank", "cleared)">>) : entries \in Stores}
      [] c.type = "EXIT" -> {Response("SUCCESS", "SUCCESS", <<"Goodbye!">>)}

HandleCommand ==
    /\ at = "sent"
    /\ served' = DeserializeCommand(pipe)
    /\ answered' \in Responses(served')
    /\ pipe' = SerializeResponse(answered')
    /\ at' = "answered"
    /\ UNCHANGED <<cin, ended, command, shown, asked, told>>

ReceiveResponse ==
    /\ at = "answered"
    /\ \E response \in {DeserializeResponse(pipe)} :
           IF response = Null THEN Show(ErrorCodes.SERIALIZATION_ERROR, <<>>)
           ELSE Show(response.code, response.data)
    /\ pipe' = <<>>
    /\ UNCHANGED <<cin, ended, command, histories>>

\* The daemon is gone, or its reply is too long for the buffer.
LoseDaemon ==
    /\ \/ at = "send" /\ Show(ErrorCodes.WRITE_FAILED, <<>>)
       \/ /\ at \in {"sent", "answered"}
          /\ \E code \in {"CONNECTION_FAILED", "READ_FAILED"} : Show(ErrorCodes[code], <<>>)
    /\ pipe' = <<>>
    /\ UNCHANGED <<cin, ended, command, histories>>

-----------------------------------------------------------------------------
Read == SkipBlankLine \/ GetUserChoice \/ GetNumberInput \/ ConfirmAction
Exchange == SendCommand \/ HandleCommand \/ ReceiveResponse

Over == at = "done" /\ UNCHANGED vars

Next == TypeLine \/ EndInput \/ Read \/ Exchange \/ LoseDaemon \/ Over

Spec == Init /\ [][Next]_vars

\* The program and the daemon run; the user may type nothing.
FairSpec == Spec /\ WF_vars(Read) /\ WF_vars(Exchange)

-----------------------------------------------------------------------------
(* Properties *)

(* Types; the position is on the line, and numbers fit their type          *)
(* (Validator.cxx:28-52, DaemonClient.cxx:132-158).                        *)
TypeOK ==
    /\ cin \in [lines : Seq(TypedLines), pos : Nat, eof : BOOLEAN, fail : BOOLEAN]
    /\ Len(cin.lines) <= MaxAhead /\ cin.pos \in 1 .. Len(Line(cin)) + 1
    /\ ended \in {"no", "clean", "cut"}
    /\ at \in {"menu", "number", "confirm", "send", "sent", "answered", "done"}
    /\ {command, served} \subseteq Commands \cup {Null}
    /\ shown = Nothing \/ shown.code \in {ErrorCodes[code] : code \in DOMAIN ErrorCodes}
    /\ asked \in TypedLines \cup {<<>>} /\ told \in TypedLines \cup {<<>>}

\* The first digit that counts: leading spaces, a sign and zeros aside.
FirstDigit(line) == line[SelectInSeq(line, LAMBDA c : c \in Digit \ {"0"})]

\* The choice and the answer the command was made of.
Typed(c) ==
    /\ MenuOf[DigitValue(FirstDigit(asked))] = c.type
    /\ TakesNumber(c.type) => told = Decimal[c.number]
    /\ c.type = "DELETE_ALL" => told # <<>> /\ told[1] \in {"y", "Y"}

(* What the daemon executes is what the user typed, on lines of their own: *)
(* the command is the one whose number the choice was, a number is the     *)
(* very numeral of the answer, and a delete-all was confirmed on the line  *)
(* after the choice (CLIApplication.cxx:68-88, 204-237, Command.cxx:19-47).*)
RequestsAreTyped == served # Null => Typed(served)

(* A refused number is no numeral of 1 .. 2^64 - 1: the limits of the type *)
(* are themselves accepted (Validator.cxx:28-73).                          *)
NumbersAreExact ==
    at = "number" /\ shown.code = ErrorCodes.INVALID_NUMBER =>
        \A n \in 1 .. MaxUint : told # Decimal[n]

(* What is displayed is what the daemon answered, code and text, but for   *)
(* the newline at the end of a print (Response.cxx:27-88,                  *)
(* DaemonClient.cxx:53-126).                                               *)
AnswersAreShown ==
    at \in {"menu", "done"} /\ answered # Null /\ shown.code \notin ConnectionErrors =>
        /\ shown.code = answered.code
        /\ answered.data \in {shown.text, shown.text \o <<"\n">>}

(* The program reads whole lines, and nothing more once a read has failed  *)
(* (CLIApplication.cxx:73-84, 204-209).                                    *)
InputInv ==
    /\ cin.pos = 1
    /\ ~Good(cin) => cin.lines = <<>> /\ ended # "no"

(* The command in the making has the type that was chosen, and all that    *)
(* was asked for once it is sent (CLIApplication.cxx:90-202).              *)
RequestInv ==
    /\ at \in {"number", "confirm", "send", "sent", "answered"} =>
          command \in Commands /\ MenuOf[DigitValue(FirstDigit(asked))] = command.type
    /\ at = "number" => TakesNumber(command.type)
    /\ at = "confirm" => command.type = "DELETE_ALL"
    /\ at \in {"send", "sent", "answered"} => Typed(command)

(* What is in the pipe is the command, then the answer to that command     *)
(* (DaemonClient.cxx:132-158).                                             *)
PipeInv ==
    /\ at \in {"number", "confirm", "send", "sent"} => served = Null /\ answered = Null
    /\ at = "sent" => pipe = SerializeCommand(command)
    /\ at = "answered" =>
          /\ served = command /\ answered \in Responses(served)
          /\ pipe = SerializeResponse(answered)

(* The three together hold the properties above up, step by step: between  *)
(* the choice and the answer the line, the command and the text in the     *)
(* pipe say the same (CLIApplication.cxx:68-237, DaemonClient.cxx:132-158). *)
CommandLineInv == InputInv /\ RequestInv /\ PipeInv

(* A failed or ended read is gone by the next line: every line that was    *)
(* typed is read, or the session ends (CLIApplication.cxx:80-85, 211-224). *)
TypedLinesAreRead == cin.lines # <<>> ~> cin.lines = <<>> \/ at = "done"
=============================================================================
