------------------------------- MODULE Protocol -------------------------------
(***************************************************************************)
(* The texts that cross the pipe: protocol/Command and protocol/Response   *)
(* under protocol/MessageSerializer, and the number check of               *)
(* utils/Validator. A text is a sequence of characters; a word whose       *)
(* letters nobody looks at (CMD, INSERT, "exists") is one of them, and so  *)
(* is "blank", the space. What std::istringstream does is modelled on the  *)
(* text that is left to read.                                              *)
(***************************************************************************)
EXTENDS Integers, SequencesExt

CONSTANTS
    MaxUint,  \* the largest uint64_t
    MaxInt,   \* the largest int
    Others    \* the characters and words that have no meaning to the program

\* The error codes of a response fit an int.
ASSUME ProtocolAssumption ==
    /\ MaxUint \in Nat
    /\ MaxInt \in Nat /\ MaxInt >= 10

Digits == <<"0", "1", "2", "3", "4", "5", "6", "7", "8", "9">>
Digit == ToSet(Digits)
DigitValue(c) == SelectInSeq(Digits, LAMBDA d : d = c) - 1
Space == {"blank", "\n"}
Keywords == {"CMD", "INSERT", "DELETE", "PRINT_ALL", "DELETE_ALL", "EXIT",
          "RESP", "SUCCESS", "DATA", "ERROR"}

Character == Digit \cup Space \cup {"+", "-", ":"} \cup Keywords \cup Others
Text == Seq(Character)

\* How a number is written: operator<< and std::to_string.
Decimal[n \in Nat] ==
    IF n < 10 THEN <<Digits[n + 1]>> ELSE Append(Decimal[n \div 10], Digits[(n % 10) + 1])

Value[digits \in Seq(Digit)] ==
    IF digits = <<>> THEN 0 ELSE 10 * Value[Front(digits)] + DigitValue(Last(digits))

-----------------------------------------------------------------------------
(* Reading: each operator splits the text into what is read and is left. *)

Split(text, n) == [read |-> SubSeq(text, 1, n), left |-> SubSeq(text, n + 1, Len(text))]

\* Up to the first character in the class; up to the first that is not.
Until(class) == [text \in Text |->
    LET i == SelectInSeq(text, LAMBDA c : c \in class)
    IN  Split(text, IF i = 0 THEN Len(text) ELSE i - 1)]

While(class) == [text \in Text |->
    LET i == SelectInSeq(text, LAMBDA c : c \notin class)
    IN  Split(text, IF i = 0 THEN Len(text) ELSE i - 1)]

SkipSpace(text) == While(Space)[text].left

ReadWord(text) == Until(Space)[SkipSpace(text)]

\* A sign is read too; a number past the limit is read, and fails.
ReadNumber(text, limit) ==
    LET sign == While({"+", "-"})[SkipSpace(text)]
        span == While(Digit)[sign.left]
        n == Value[span.read]
    IN  [ok |-> Len(sign.read) <= 1 /\ span.read # <<>> /\ n <= limit,
         value |-> IF sign.read = <<"-">> THEN -n ELSE n,
         left |-> span.left]

\* std::getline, for the rest of the current line.
ReadLine(text) == Until({"\n"})[text].read

-----------------------------------------------------------------------------
(* utils/Validator *)

\* Digits only, and no leading zero but in "0".
IsValidNumber(input) ==
    /\ input # <<>>
    /\ Len(input) > 1 => input[1] # "0"
    /\ ToSet(input) \subseteq Digit

\* Mutants of FitsUint64: the limit itself does not fit; everything does.
FitsBelow(n) == n < MaxUint
FitsAlways(n) == n \in Nat

\* std::stoull throws past the largest uint64_t.
FitsUint64(n) == n <= MaxUint

IsPositiveInteger(n) == n > 0

Accepts(input) ==
    IsValidNumber(input) /\ FitsUint64(Value[input]) /\ IsPositiveInteger(Value[input])

-----------------------------------------------------------------------------
(* protocol/Command *)

Null == [type |-> "null"]

CommandTypes == {"INSERT", "DELETE_NUM", "PRINT_ALL", "DELETE_ALL", "EXIT"}
TakesNumber(type) == type \in {"INSERT", "DELETE_NUM"}

\* A command without a number has the number 0.
Commands == {c \in [type : CommandTypes, number : 0 .. MaxUint] : TakesNumber(c.type) \/ c.number = 0}

CommandTypeToString(type) == IF type = "DELETE_NUM" THEN "DELETE" ELSE type

\* An unknown word is an exit.
StringToCommandType(word) ==
    LET known == {type \in CommandTypes : word = <<CommandTypeToString(type)>>}
    IN  IF known = {} THEN "EXIT" ELSE CHOOSE type \in known : TRUE

SerializeCommand(c) ==
    <<"CMD", ":", CommandTypeToString(c.type)>>
        \o (IF TakesNumber(c.type) THEN <<"blank">> \o Decimal[c.number] ELSE <<>>)
        \o <<"\n">>

CommandOf[content \in Text] ==
    LET word == ReadWord(content)
        type == StringToCommandType(word.read)
        number == ReadNumber(word.left, MaxUint)
    IN  IF ~TakesNumber(type) THEN [type |-> type, number |-> 0]
        ELSE IF number.ok THEN [type |-> type, number |-> number.value]
        ELSE Null

-----------------------------------------------------------------------------
(* protocol/Response *)

ErrorCodes == [SUCCESS |-> 0, INVALID_NUMBER |-> 1, DUPLICATE_NUMBER |-> 2,
               NUMBER_NOT_FOUND |-> 3, CONNECTION_FAILED |-> 4, SERIALIZATION_ERROR |-> 5,
               PIPE_CONNECT_FAILED |-> 8, READ_FAILED |-> 9, WRITE_FAILED |-> 10]

Response(type, code, data) == [type |-> type, code |-> ErrorCodes[code], data |-> data]

SerializeResponse(r) ==
    LET code == IF r.type = "ERROR" THEN <<"blank">> \o Decimal[r.code] ELSE <<>>
        separator == IF r.type = "DATA" THEN <<"\n">> ELSE <<"blank">>
        data == IF r.data = <<>> THEN <<>> ELSE separator \o r.data
    IN  <<"RESP", ":", r.type>> \o code \o data \o <<"\n">>

\* Mutant of Lines: data are read like a message.
FirstLine(text) == IF text = <<>> THEN text ELSE ReadLine(Tail(text))

\* The lines that follow, put together again: leading empty lines add nothing,
\* and the last line loses its newline.
Lines(text) ==
    LET rest == While({"\n"})[text].left
    IN  IF rest # <<>> /\ Last(rest) = "\n" THEN Front(rest) ELSE rest

\* A message is the rest of the line but for the space before it.
MessageOf(text) ==
    LET line == ReadLine(text)
    IN  IF line # <<>> /\ line[1] = "blank" THEN Tail(line) ELSE line

\* An unknown word is an error response.
ResponseOf[content \in Text] ==
    LET word == ReadWord(content)
        type == IF word.read \in {<<"SUCCESS">>, <<"DATA">>} THEN word.read[1] ELSE "ERROR"
        code == ReadNumber(word.left, MaxInt)
    IN  CASE type = "DATA" -> [type |-> type, code |-> 0, data |-> Lines(word.left)]
          [] type = "SUCCESS" -> [type |-> type, code |-> 0, data |-> MessageOf(word.left)]
          [] type = "ERROR" /\ code.ok ->
                [type |-> type, code |-> code.value, data |-> MessageOf(code.left)]
          [] OTHER -> Null

-----------------------------------------------------------------------------
(* protocol/MessageSerializer and protocol/Message: TYPE:CONTENT and a newline. *)

IsValidMessageFormat(data) ==
    data # <<>> /\ ":" \in ToSet(data) /\ Last(data) = "\n"

\* The content of a message of this type, without its terminator.
Deserialize(data, type, contentOf) ==
    LET head == Until({":"})[Front(data)]
    IN  IF IsValidMessageFormat(data) /\ head.read = <<type>>
        THEN contentOf[Tail(head.left)]
        ELSE Null

DeserializeCommand(data) == Deserialize(data, "CMD", CommandOf)
DeserializeResponse(data) == Deserialize(data, "RESP", ResponseOf)
=============================================================================
