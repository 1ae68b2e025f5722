--------------------------- MODULE CommandLineProofs --------------------------
(***************************************************************************)
(* The client at its terminal, for all lines, stores and limits: what the  *)
(* daemon executes was typed, what is displayed was answered.              *)
(***************************************************************************)
EXTENDS CommandLine, ProtocolProofs

-----------------------------------------------------------------------------
(* What is read from a line that may be anything *)

LEMMA WhileSplits ==
    ASSUME NEW class, NEW text \in Text
    PROVE  \E a, b \in Text :
              /\ a \in Seq(Character \cap class)
              /\ text = a \o b /\ (b = <<>> \/ b[1] \notin class)
              /\ While(class)[text] = [read |-> a, left |-> b]
<1> DEFINE length == Len(text)
           I == {i \in 1 .. length : text[i] \notin class}
<1>1. text \in Seq(Character) /\ length \in Nat
  BY DEF Text
<1> HIDE DEF length
<1>2. PICK n \in 0 .. length : /\ \A i \in 1 .. n : text[i] \in class
                               /\ n < length => text[n + 1] \notin class
  <2>1. CASE I = {}
    BY <1>1, <2>1
  <2>2. CASE I # {}
    <3>1. PICK m \in I : \A k \in I : m <= k
      <4>1. I \in SUBSET Nat
        BY <1>1
      <4> HIDE DEF I
      <4> QED
        BY <2>2, <4>1, LeastNumber
    <3>2. m - 1 \in 0 .. length /\ (m - 1) + 1 = m /\ text[m] \notin class
      BY <1>1, <3>1
    <3>3. ASSUME NEW i \in 1 .. m - 1 PROVE text[i] \in class
      <4>1. i \in 1 .. length /\ ~(m <= i)
        BY <1>1, <3>1
      <4> QED
        BY <3>1, <4>1
    <3> QED
      BY <3>2, <3>3
  <2> QED
    BY <2>1, <2>2
<1> DEFINE a == SubSeq(text, 1, n)
           b == SubSeq(text, n + 1, length)
<1>3. \A i \in 1 .. length : text[i] \in Character
  BY <1>1, ElementOfSeq DEF length
<1>4. a \in Seq(Character \cap class) /\ Len(a) = n /\ a \in Seq(Character)
  <2>1. \A i \in 1 .. n : text[i] \in Character \cap class
    BY <1>1, <1>2, <1>3
  <2>2. /\ SubSeq(text, 1, n) \in Seq(Character \cap class)
        /\ Len(SubSeq(text, 1, n)) = IF 1 <= n THEN n - 1 + 1 ELSE 0
    BY <1>1, <2>1, SubSeqProperties
  <2> QED
    BY <1>1, <2>2, SeqMonotonic
<1>5. /\ b \in Seq(Character) /\ Len(b) = length - n
      /\ n < length => b[1] = text[n + 1]
  <2>1. \A i \in n + 1 .. length : text[i] \in Character
    BY <1>1, <1>3
  <2>2. /\ SubSeq(text, n + 1, length) \in Seq(Character)
        /\ Len(SubSeq(text, n + 1, length)) = IF n + 1 <= length THEN length - (n + 1) + 1 ELSE 0
        /\ \A i \in 1 .. length - (n + 1) + 1 : SubSeq(text, n + 1, length)[i] = text[n + 1 + i - 1]
    BY <1>1, <2>1, SubSeqProperties
  <2>3. n < length => 1 \in 1 .. length - (n + 1) + 1 /\ n + 1 + 1 - 1 = n + 1
    BY <1>1
  <2>4. n < length => b[1] = text[n + 1]
    BY <2>2, <2>3
  <2> QED
    BY <1>1, <2>2, <2>4
<1>6. text = a \o b
  <2>1. 1 \in 1 .. length + 1 /\ n \in 1 - 1 .. length /\ length \in n .. length
    BY <1>1
  <2>2. SubSeq(text, 1, n) \o SubSeq(text, n + 1, length) = SubSeq(text, 1, length)
    BY <1>1, <2>1, ConcatAdjacentSubSeq DEF length
  <2>3. SubSeq(text, 1, length) = text
    BY <1>1, SubSeqFull DEF length
  <2> QED
    BY <2>2, <2>3
<1>7. b = <<>> \/ b[1] \notin class
  BY <1>1, <1>2, <1>5, EmptySeq
<1>8. While(class)[text] = [read |-> a, left |-> b]
  <2> HIDE DEF a, b
  <2>1. While(class)[a \o b] = [read |-> a, left |-> b]
    BY <1>4, <1>5, <1>7, WhileConcat DEF Text
  <2> QED
    BY <1>6, <2>1
<1> HIDE DEF a, b
<1> QED
  BY <1>4, <1>5, <1>6, <1>7, <1>8 DEF Text

\* A value below ten is the last digit, after zeros.
LEMMA SmallValue ==
    ASSUME NEW text \in Seq(Digit), text # <<>>, Value[text] < 10
    PROVE  /\ Front(text) \in Seq({"0"}) /\ Last(text) \in Digit
           /\ DigitValue(Last(text)) = Value[text]
<1> DEFINE B == {t \in Seq(Digit) : Value[t] = 0 /\ t \notin Seq({"0"})}
           size == [t \in Seq(Digit) |-> Len(t)]
<1>1. B = {}
  <2> SUFFICES ASSUME B # {} PROVE FALSE
    OBVIOUS
  <2>1. PICK t \in B : \A u \in B : size[t] <= size[u]
    <3>1. B \in SUBSET Seq(Digit) /\ size \in [Seq(Digit) -> Nat]
      OBVIOUS
    <3> HIDE DEF B, size
    <3> QED
      BY <3>1, LeastElement
  <2>2. t \in Seq(Digit) /\ Value[t] = 0 /\ t \notin Seq({"0"}) /\ t # <<>>
    BY <2>1, EmptySeq
  <2> DEFINE u == Front(t)
             c == Last(t)
  <2>3. u \in Seq(Digit) /\ c \in Digit /\ t = Append(u, c) /\ Len(u) = Len(t) - 1 /\ Len(t) \in Nat
    BY <2>2, FrontLast
  <2> HIDE DEF u, c
  <2>4. Value[u] \in Nat /\ DigitValue(c) \in 0 .. 9 /\ Value[t] = 10 * Value[u] + DigitValue(c)
    BY <2>3, ValueBounds
  <2>5. Value[u] = 0 /\ DigitValue(c) = 0
    <3>1. 10 * Value[u] + DigitValue(c) = 0
      BY <2>2, <2>4
    <3> DEFINE v == Value[u]
               d == DigitValue(c)
    <3>2. v \in Nat /\ d \in 0 .. 9 /\ 10 * v + d = 0
      BY <2>4, <3>1
    <3> HIDE DEF v, d
    <3>3. v = 0 /\ d = 0
      BY <3>2
    <3> QED
      BY <3>3 DEF v, d
  <2>6. c = "0"
    BY <2>3, <2>5, ValueOfDigit, ZeroDigit
  <2>7. u \in Seq({"0"})
    <3>1. ~(size[t] <= size[u])
      BY <2>2, <2>3
    <3> QED
      BY <2>1, <2>3, <2>5, <3>1
  <2> QED
    BY <2>2, <2>3, <2>6, <2>7, AppendProperties
<1> DEFINE u == Front(text)
           c == Last(text)
<1>2. u \in Seq(Digit) /\ c \in Digit /\ text = Append(u, c)
  BY FrontLast
<1> HIDE DEF u, c
<1>3. Value[u] \in Nat /\ DigitValue(c) \in 0 .. 9 /\ Value[text] = 10 * Value[u] + DigitValue(c)
  BY <1>2, ValueBounds
<1>4. Value[u] = 0 /\ DigitValue(c) = Value[text]
  BY <1>3
<1>5. u \in Seq({"0"})
  BY <1>1, <1>2, <1>4
<1> QED
  BY <1>2, <1>4, <1>5 DEF u, c

LEMMA FirstDigitOfConcat ==
    ASSUME NEW a \in Text, \A i \in 1 .. Len(a) : a[i] \notin Digit \ {"0"},
           NEW c \in Digit \ {"0"}, NEW b \in Text
    PROVE  FirstDigit(a \o (<<c>> \o b)) = c
<1> DEFINE rest == <<c>> \o b
           text == a \o rest
           I == {i \in 1 .. Len(text) : text[i] \in Digit \ {"0"}}
<1>1. rest \in Seq(Character) /\ rest[1] = c /\ Len(rest) \in Nat /\ Len(rest) >= 1
  <2>1. <<c>> \in Seq(Character) /\ Len(<<c>>) = 1 /\ <<c>>[1] = c
    BY CharactersAre
  <2> QED
    BY <2>1, ConcatProperties DEF Text
<1> HIDE DEF rest
<1>2. /\ Len(text) = Len(a) + Len(rest) /\ Len(a) \in Nat
      /\ \A i \in 1 .. Len(a) + Len(rest) : text[i] = IF i <= Len(a) THEN a[i] ELSE rest[i - Len(a)]
  BY <1>1, ConcatProperties DEF Text
<1> HIDE DEF text
<1>3. Len(a) + 1 \in 1 .. Len(text) /\ text[Len(a) + 1] = c
  <2>1. /\ Len(a) + 1 \in 1 .. Len(a) + Len(rest) /\ ~(Len(a) + 1 <= Len(a))
        /\ Len(a) + 1 - Len(a) = 1
    BY <1>1, <1>2
  <2> QED
    BY <1>1, <1>2, <2>1
<1>4. ASSUME NEW i \in I PROVE Len(a) + 1 <= i
  <2> SUFFICES ASSUME ~(Len(a) + 1 <= i) PROVE FALSE
    OBVIOUS
  <2>1. i \in 1 .. Len(a) /\ i \in 1 .. Len(a) + Len(rest) /\ i <= Len(a)
    BY <1>1, <1>2
  <2>2. text[i] = a[i]
    BY <1>2, <2>1
  <2> QED
    BY <2>1, <2>2
<1>5. Min(I) = Len(a) + 1 /\ I # {}
  <2>1. I \in SUBSET Int /\ Len(a) + 1 \in I
    BY <1>2, <1>3
  <2> HIDE DEF I
  <2> QED
    BY <1>4, <2>1, MinIs
<1>6. SelectInSeq(text, LAMBDA x : x \in Digit \ {"0"}) = IF I # {} THEN Min(I) ELSE 0
  BY DEF SelectInSeq
<1>7. FirstDigit(text) = text[Len(a) + 1]
  BY <1>5, <1>6 DEF FirstDigit
<1> QED
  BY <1>3, <1>7 DEF text, rest

Regrouped(a, b, z, w) == a \o (b \o (z \o w)) = (a \o (b \o z)) \o w

LEMMA Regroup ==
    ASSUME NEW a \in Text, NEW b \in Text, NEW z \in Text, NEW w \in Text
    PROVE  Regrouped(a, b, z, w)
<1>0. a \in Seq(Character) /\ b \in Seq(Character) /\ z \in Seq(Character) /\ w \in Seq(Character)
  BY DEF Text
<1> DEFINE q == b \o z
<1>1. q \in Seq(Character)
  BY <1>0, ConcatProperties
<1>2. q \o w = b \o (z \o w)
  BY <1>0, ConcatAssociative
<1> HIDE DEF q
<1>3. (a \o q) \o w = a \o (q \o w)
  BY <1>0, <1>1, ConcatAssociative
<1> QED
  BY <1>2, <1>3 DEF q, Regrouped

\* A number in 1 .. 9 that is read is the first digit that counts.
LEMMA ChoiceIs ==
    ASSUME NEW text \in Text, NEW limit,
           ReadNumber(text, limit).ok, ReadNumber(text, limit).value \in 1 .. 9
    PROVE  DigitValue(FirstDigit(text)) = ReadNumber(text, limit).value
<1>1. PICK a, t \in Text :
        /\ a \in Seq(Character \cap Space)
        /\ text = a \o t /\ (t = <<>> \/ t[1] \notin Space)
        /\ While(Space)[text] = [read |-> a, left |-> t]
  BY WhileSplits
<1>2. PICK b, u \in Text :
        /\ b \in Seq(Character \cap {"+", "-"})
        /\ t = b \o u /\ (u = <<>> \/ u[1] \notin {"+", "-"})
        /\ While({"+", "-"})[t] = [read |-> b, left |-> u]
  BY WhileSplits
<1>3. PICK d, r \in Text :
        /\ d \in Seq(Character \cap Digit)
        /\ u = d \o r /\ (r = <<>> \/ r[1] \notin Digit)
        /\ While(Digit)[u] = [read |-> d, left |-> r]
  BY WhileSplits
<1>4. ReadNumber(text, limit) =
        [ok |-> Len(b) <= 1 /\ d # <<>> /\ Value[d] <= limit,
         value |-> IF b = <<"-">> THEN -Value[d] ELSE Value[d], left |-> r]
  <2>1. SkipSpace(text) = t
    BY <1>1 DEF SkipSpace
  <2>2. While({"+", "-"})[SkipSpace(text)].read = b /\ While({"+", "-"})[SkipSpace(text)].left = u
    BY <1>2, <2>1
  <2>3. While(Digit)[u].read = d /\ While(Digit)[u].left = r
    BY <1>3
  <2> QED
    BY <2>2, <2>3 DEF ReadNumber
<1> DEFINE v == ReadNumber(text, limit).value
<1>5. d \in Seq(Digit) /\ d # <<>> /\ Value[d] \in Nat
  <2>1. d \in Seq(Digit)
    BY <1>3, SeqMonotonic
  <2>2. d # <<>>
    <3> DEFINE ok == Len(b) <= 1 /\ d # <<>> /\ Value[d] <= limit
    <3>1. ReadNumber(text, limit).ok = ok
      <4>1. ReadNumber(text, limit) =
              [ok |-> ok, value |-> IF b = <<"-">> THEN -Value[d] ELSE Value[d], left |-> r]
        BY <1>4, Zenon
      <4> HIDE DEF ok
      <4> QED
        BY <4>1
    <3>2. ok
      BY <3>1
    <3> QED
      BY <3>2
  <2> QED
    BY <2>1, <2>2, ValueDef, ZeroDigit
<1>6. Value[d] = v /\ v \in 1 .. 9
  <2>1. v = IF b = <<"-">> THEN -Value[d] ELSE Value[d]
    BY <1>4
  <2> DEFINE n == Value[d]
  <2>2. v \in 1 .. 9 /\ n \in Nat /\ (v = -n \/ v = n)
    BY <1>5, <2>1
  <2> HIDE DEF v, n
  <2>3. v = n
    BY <2>2
  <2> QED
    BY <2>2, <2>3 DEF n
<1> HIDE DEF v
<1>7. PICK zeros \in Seq(Digit), c \in Digit :
        d = Append(zeros, c) /\ zeros \in Seq({"0"}) /\ DigitValue(c) = v
  <2>1. Value[d] < 10
    BY <1>6
  <2>2. /\ Front(d) \in Seq({"0"}) /\ Last(d) \in Digit /\ DigitValue(Last(d)) = Value[d]
        /\ d = Append(Front(d), Last(d)) /\ Front(d) \in Seq(Digit)
    BY <1>5, <2>1, SmallValue, FrontLast
  <2> QED
    BY <1>6, <2>2
<1>8. c \in Digit \ {"0"} /\ c \in Character
  BY <1>6, <1>7, ZeroDigit, CharactersAre
<1> DEFINE before == a \o (b \o zeros)
<1>9. /\ a \in Seq(Character) /\ b \in Seq(Character) /\ zeros \in Seq(Character)
      /\ <<c>> \in Seq(Character) /\ r \in Seq(Character)
  <2>1. zeros \in Seq(Character)
    BY <1>7, ZeroDigit, CharactersAre, SeqMonotonic
  <2> QED
    BY <1>8, <2>1, SeqMonotonic DEF Text
<1>10. text = before \o (<<c>> \o r)
  <2>r. PICK rest : rest = <<c>> \o r
    OBVIOUS
  <2>1. d = zeros \o <<c>> /\ rest \in Seq(Character)
    BY <1>7, <1>9, <2>r, AppendIsConcat, ConcatProperties
  <2>2. u = zeros \o rest
    <3>1. (zeros \o <<c>>) \o r = zeros \o (<<c>> \o r)
      BY <1>9, ConcatAssociative
    <3> QED
      BY <1>3, <2>1, <2>r, <3>1
  <2>3. text = a \o (b \o (zeros \o rest))
    BY <1>1, <1>2, <2>2
  <2>4. a \in Text /\ b \in Text /\ zeros \in Text /\ rest \in Text
    BY <1>9, <2>1 DEF Text
  <2>5. Regrouped(a, b, zeros, rest)
    BY <2>4, Regroup
  <2> QED
    BY <2>3, <2>5, <2>r DEF Regrouped
<1>11. before \in Text /\ \A i \in 1 .. Len(before) : before[i] \notin Digit \ {"0"}
  <2> DEFINE other == Character \ (Digit \ {"0"})
  <2>1. /\ Character \cap Space \subseteq other /\ Character \cap {"+", "-"} \subseteq other
        /\ {"0"} \subseteq other
    BY DigitIs, ZeroDigit, CharactersAre DEF Space
  <2> HIDE DEF other
  <2>2. a \in Seq(other) /\ b \in Seq(other) /\ zeros \in Seq(other)
    BY <1>1, <1>2, <1>7, <2>1, SeqMonotonic
  <2>3. b \o zeros \in Seq(other)
    BY <2>2, ConcatProperties
  <2>4. before \in Seq(other)
    BY <2>2, <2>3, ConcatProperties
  <2> HIDE DEF before
  <2>5. before \in Seq(Character)
    BY <2>4, SeqMonotonic DEF other
  <2> QED
    BY <2>4, <2>5, ElementOfSeq DEF Text, other
<1> HIDE DEF before
<1>12. FirstDigit(text) = c
  BY <1>8, <1>9, <1>10, <1>11, FirstDigitOfConcat DEF Text
<1> QED
  BY <1>7, <1>12 DEF v

-----------------------------------------------------------------------------
(* Reading std::cin *)

Streams == [lines : Seq(TypedLines), pos : Int, eof : BOOLEAN, fail : BOOLEAN]

\* What TypeOK and InputInv say of std::cin, for a stream.
StreamInv(s) ==
    /\ s \in Streams /\ s.pos = 1 /\ Len(s.lines) <= MaxAhead
    /\ ~Good(s) => s.lines = <<>> /\ ended # "no"

LEMMA LineIs ==
    ASSUME NEW s \in Streams
    PROVE  /\ Line(s) \in TypedLines \cup {<<>>} /\ Line(s) \in Text /\ Len(Line(s)) \in Nat
           /\ s.pos = 1 => Rest(s) = Line(s)
<1>1. s.lines \in Seq(TypedLines) /\ TypedLines \subseteq Text
  BY CommandLineAssumption DEF Streams
<1>2. Line(s) \in TypedLines \cup {<<>>}
  BY <1>1, HeadTailProperties DEF Line
<1>3. Line(s) \in Text
  BY <1>1, <1>2, EmptySeq DEF Text
<1>4. s.pos = 1 => Rest(s) = Line(s)
  BY <1>3, SubSeqFull DEF Rest, Text
<1> QED
  BY <1>2, <1>3, <1>4 DEF Text

LEMMA DropIs ==
    ASSUME NEW s \in Streams, Len(s.lines) <= MaxAhead
    PROVE  /\ Drop(s) \in Streams /\ Len(Drop(s).lines) <= MaxAhead
           /\ s.lines # <<>> \/ s.pos = 1 => Drop(s).pos = 1
           /\ OnLastLine(s) => Drop(s).lines = <<>>
           /\ Drop(s).eof = s.eof /\ Drop(s).fail = s.fail
<1>1. s.lines \in Seq(TypedLines) /\ Len(s.lines) \in Nat
  BY DEF Streams
<1>2. CASE s.lines = <<>>
  BY <1>1, <1>2 DEF Drop, OnLastLine
<1>3. CASE s.lines # <<>>
  <2>1. Tail(s.lines) \in Seq(TypedLines) /\ Len(Tail(s.lines)) = Len(s.lines) - 1
    BY <1>1, <1>3, HeadTailProperties
  <2>2. Drop(s) = [s EXCEPT !.lines = Tail(s.lines), !.pos = 1]
    BY <1>3 DEF Drop, Streams
  <2>3. /\ Drop(s) \in Streams /\ Drop(s).lines = Tail(s.lines) /\ Drop(s).pos = 1
        /\ Drop(s).eof = s.eof /\ Drop(s).fail = s.fail
    <3> DEFINE rest == Tail(s.lines)
               t == Drop(s)
    <3>1. rest \in Seq(TypedLines) /\ t = [s EXCEPT !.lines = rest, !.pos = 1]
      BY <2>1, <2>2
    <3> DEFINE first == 1
    <3>0. first \in Int /\ t = [s EXCEPT !.lines = rest, !.pos = first]
      BY <3>1
    <3> HIDE DEF rest, t, first
    <3>2. /\ t \in Streams /\ t.lines = rest /\ t.pos = first
          /\ t.eof = s.eof /\ t.fail = s.fail
      BY <3>0, <3>1 DEF Streams
    <3> QED
      BY <3>2 DEF rest, t, first
  <2>4. OnLastLine(s) => Tail(s.lines) = <<>>
    <3>1. OnLastLine(s) => Len(s.lines) = 1
      BY <1>3 DEF OnLastLine
    <3> DEFINE rest == Tail(s.lines)
    <3>2. rest \in Seq(TypedLines) /\ Len(rest) = Len(s.lines) - 1
      BY <2>1
    <3> HIDE DEF rest
    <3>3. ASSUME OnLastLine(s) PROVE rest = <<>>
      <4>1. Len(rest) = 0
        BY <3>1, <3>2, <3>3
      <4> QED
        BY <3>2, <4>1, EmptySeq
    <3> QED
      BY <3>3 DEF rest
  <2>5. MaxAhead \in Nat
    BY CommandLineAssumption
  <2>6. Len(Tail(s.lines)) <= MaxAhead
    BY <1>1, <2>1, <2>5
  <2> QED
    BY <2>3, <2>4, <2>6
<1> QED
  BY <1>2, <1>3

LEMMA IgnoreIs ==
    ASSUME NEW s \in Streams, Len(s.lines) <= MaxAhead, Good(s),
           s.lines # <<>> \/ (s.pos = 1 /\ ended # "no")
    PROVE  StreamInv(Ignore(s))
<1>1. /\ Drop(s) \in Streams /\ Len(Drop(s).lines) <= MaxAhead /\ Drop(s).pos = 1
      /\ OnLastLine(s) => Drop(s).lines = <<>>
      /\ Drop(s).eof = s.eof /\ Drop(s).fail = s.fail
  BY DropIs
<1>2. OnLastLine(s) \in BOOLEAN /\ (OnLastLine(s) => ended # "no")
  BY DEF OnLastLine
<1>3. Ignore(s) = [Drop(s) EXCEPT !.eof = OnLastLine(s)]
  BY DEF Ignore
<1> DEFINE t == Drop(s)
           last == OnLastLine(s)
<1>4. /\ t \in Streams /\ Len(t.lines) <= MaxAhead /\ t.pos = 1 /\ ~t.fail
      /\ last \in BOOLEAN /\ (last => t.lines = <<>> /\ ended # "no")
      /\ Ignore(s) = [t EXCEPT !.eof = last]
  BY <1>1, <1>2, <1>3 DEF Good
<1> HIDE DEF t, last
<1>5. /\ Ignore(s) \in Streams /\ Ignore(s).lines = t.lines /\ Ignore(s).pos = t.pos
      /\ Ignore(s).fail = t.fail /\ Ignore(s).eof = last
  BY <1>4 DEF Streams
<1> QED
  BY <1>4, <1>5 DEF StreamInv, Good

\* A line is read whole, or there is none.
LEMMA GetLineIs ==
    ASSUME NEW s, StreamInv(s), ~Good(s) \/ s.lines # <<>> \/ ended # "no"
    PROVE  StreamInv(GetLine(s).cin) /\ GetLine(s).text = Line(s)
<1>1. s \in Streams /\ s.pos = 1 /\ Len(s.lines) <= MaxAhead
  BY DEF StreamInv
<1>2. Rest(s) = Line(s)
  BY <1>1, LineIs
<1>3. CASE Good(s)
  <2> DEFINE t == Drop(s)
             last == OnLastLine(s)
             none == s.lines = <<>>
  <2>1. /\ t \in Streams /\ Len(t.lines) <= MaxAhead /\ t.pos = 1
        /\ last => t.lines = <<>>
    BY <1>1, DropIs
  <2>2. /\ last \in BOOLEAN /\ none \in BOOLEAN /\ (none => last) /\ (last => ended # "no")
    BY <1>3 DEF OnLastLine
  <2>3. GetLine(s) = [text |-> Line(s), cin |-> [t EXCEPT !.eof = last, !.fail = none]]
    BY <1>2, <1>3 DEF GetLine
  <2> HIDE DEF t, last, none
  <2>4. GetLine(s).text = Line(s) /\ GetLine(s).cin = [t EXCEPT !.eof = last, !.fail = none]
    BY <2>3
  <2> DEFINE u == GetLine(s).cin
  <2>5. /\ u \in Streams /\ u.lines = t.lines /\ u.pos = t.pos
        /\ u.fail = none /\ u.eof = last
    BY <2>1, <2>2, <2>4 DEF Streams
  <2> HIDE DEF u
  <2>6. StreamInv(u)
    BY <2>1, <2>2, <2>5 DEF StreamInv, Good
  <2> QED
    BY <2>4, <2>6 DEF u
<1>4. CASE ~Good(s)
  <2>1. GetLine(s) = [text |-> <<>>, cin |-> [s EXCEPT !.fail = TRUE]]
    BY <1>4 DEF GetLine
  <2> DEFINE u == GetLine(s).cin
  <2>2. GetLine(s).text = <<>> /\ u = [s EXCEPT !.fail = TRUE]
    BY <2>1
  <2> HIDE DEF u
  <2>3. u \in Streams /\ u.lines = s.lines /\ u.pos = s.pos /\ u.fail = TRUE /\ u.eof = s.eof
    BY <1>1, <2>2 DEF Streams
  <2>4. s.lines = <<>> /\ ended # "no"
    BY <1>4 DEF StreamInv
  <2>5. StreamInv(u)
    BY <1>1, <2>3, <2>4 DEF StreamInv, Good
  <2>6. Line(s) = <<>>
    BY <2>4 DEF Line
  <2> QED
    BY <2>2, <2>5, <2>6 DEF u
<1> QED
  BY <1>3, <1>4

LEMMA NextLineIs ==
    ASSUME NEW d \in Streams, Len(d.lines) <= MaxAhead,
           d.lines # <<>> \/ (d.pos = 1 /\ ended # "no"), d.eof => d.lines = <<>>
    PROVE  StreamInv(NextLine(d))
<1>1. CASE d.fail
  <2>1. /\ Clear(d) \in Streams /\ Clear(d).lines = d.lines /\ Clear(d).pos = d.pos
        /\ ~Clear(d).eof /\ ~Clear(d).fail
    BY DEF Clear, Streams
  <2>2. StreamInv(Ignore(Clear(d)))
    <3> DEFINE t == Clear(d)
    <3>1. t \in Streams /\ Len(t.lines) <= MaxAhead /\ Good(t)
          /\ (t.lines # <<>> \/ (t.pos = 1 /\ ended # "no"))
      BY <2>1 DEF Good
    <3> HIDE DEF t
    <3>2. StreamInv(Ignore(t))
      BY <3>1, IgnoreIs
    <3> QED
      BY <3>2 DEF t
  <2> QED
    BY <1>1, <2>2 DEF NextLine
<1>2. CASE ~d.fail /\ ~d.eof
  BY <1>2, IgnoreIs DEF NextLine, Good
<1>3. CASE ~d.fail /\ d.eof
  <2> DEFINE t == [d EXCEPT !.fail = TRUE]
  <2>1. NextLine(d) = t
    BY <1>3 DEF NextLine, Ignore, Good
  <2>2. t \in Streams /\ t.lines = d.lines /\ t.pos = d.pos
    BY DEF Streams
  <2> HIDE DEF t
  <2>3. StreamInv(t)
    BY <1>3, <2>2 DEF StreamInv
  <2> QED
    BY <2>1, <2>3
<1> QED
  BY <1>1, <1>2, <1>3

LEMMA ReadNumberIs ==
    ASSUME NEW text \in Text, NEW limit
    PROVE  /\ ReadNumber(text, limit).left \in Text
           /\ ReadNumber(text, limit).ok \in BOOLEAN
           /\ text = <<>> => ReadNumber(text, limit).left = <<>>
<1>1. PICK a, t \in Text :
        /\ a \in Seq(Character \cap Space)
        /\ text = a \o t /\ (t = <<>> \/ t[1] \notin Space)
        /\ While(Space)[text] = [read |-> a, left |-> t]
  BY WhileSplits
<1>2. PICK b, u \in Text :
        /\ b \in Seq(Character \cap {"+", "-"})
        /\ t = b \o u /\ (u = <<>> \/ u[1] \notin {"+", "-"})
        /\ While({"+", "-"})[t] = [read |-> b, left |-> u]
  BY WhileSplits
<1>3. PICK d, r \in Text :
        /\ d \in Seq(Character \cap Digit)
        /\ u = d \o r /\ (r = <<>> \/ r[1] \notin Digit)
        /\ While(Digit)[u] = [read |-> d, left |-> r]
  BY WhileSplits
<1> DEFINE ok == Len(b) <= 1 /\ d # <<>> /\ Value[d] <= limit
<1>4. ReadNumber(text, limit) =
        [ok |-> ok, value |-> IF b = <<"-">> THEN -Value[d] ELSE Value[d], left |-> r]
  <2>1. SkipSpace(text) = t
    BY <1>1 DEF SkipSpace
  <2>2. While({"+", "-"})[SkipSpace(text)].read = b /\ While({"+", "-"})[SkipSpace(text)].left = u
    BY <1>2, <2>1
  <2>3. While(Digit)[u].read = d /\ While(Digit)[u].left = r
    BY <1>3
  <2> QED
    BY <2>2, <2>3 DEF ReadNumber
<1>5. ok \in BOOLEAN
  OBVIOUS
<1> HIDE DEF ok
<1>6. ReadNumber(text, limit).left = r /\ ReadNumber(text, limit).ok = ok
  BY <1>4
<1>7. text = <<>> => r = <<>>
  <2>1. \A x, y \in Text : x \o y = <<>> => y = <<>>
    BY ConcatEqualIffEmpty, ConcatSimplifications DEF Text
  <2> QED
    BY <1>1, <1>2, <1>3, <2>1
<1> QED
  BY <1>5, <1>6, <1>7

LEMMA ReadIntIs ==
    ASSUME NEW s, StreamInv(s), ~Good(s) \/ s.lines # <<>> \/ ended # "no"
    PROVE  /\ StreamInv(NextLine(ReadInt(s).cin))
           /\ ~ReadInt(s).cin.fail =>
                /\ ReadNumber(Line(s), MaxInt).ok
                /\ ReadInt(s).value = ReadNumber(Line(s), MaxInt).value
<1> DEFINE n == ReadNumber(Line(s), MaxInt)
           c == Consume(s, n.left)
           d == ReadInt(s).cin
<1>1. s \in Streams /\ s.pos = 1 /\ Len(s.lines) <= MaxAhead
  BY DEF StreamInv
<1>2. Line(s) \in Text /\ Rest(s) = Line(s) /\ Len(Line(s)) \in Nat
  BY <1>1, LineIs
<1>3. n.left \in Text /\ n.ok \in BOOLEAN /\ (Line(s) = <<>> => n.left = <<>>)
  BY <1>2, ReadNumberIs
<1>4. CASE ~Good(s)
  <2>1. ReadInt(s).cin = [s EXCEPT !.fail = TRUE]
    BY <1>4 DEF ReadInt
  <2> HIDE DEF d
  <2>2. d \in Streams /\ d.lines = s.lines /\ d.pos = s.pos /\ d.fail = TRUE
    BY <1>1, <2>1 DEF Streams, d
  <2>3. s.lines = <<>> /\ ended # "no"
    BY <1>4 DEF StreamInv
  <2>4. StreamInv(NextLine(d))
    BY <1>1, <2>2, <2>3, NextLineIs
  <2> QED
    BY <2>2, <2>4 DEF d
<1>5. CASE Good(s)
  <2>1. ReadInt(s) = [value |-> n.value, cin |-> [c EXCEPT !.fail = ~n.ok]]
    BY <1>2, <1>5 DEF ReadInt
  <2> DEFINE bad == ~n.ok
  <2>2. ReadInt(s).value = n.value /\ d = [c EXCEPT !.fail = bad] /\ bad \in BOOLEAN
    BY <1>3, <2>1
  <2> HIDE DEF n, c, d
  <2>3. /\ c \in Streams /\ Len(c.lines) <= MaxAhead
        /\ c.lines # <<>> \/ (c.pos = 1 /\ ended # "no")
        /\ c.eof => c.lines = <<>>
    <3>1. CASE OnLastLine(s) /\ n.left = <<>>
      <4> DEFINE t == Drop(s)
      <4>1. t \in Streams /\ Len(t.lines) <= MaxAhead /\ t.pos = 1 /\ t.lines = <<>>
        BY <1>1, <3>1, DropIs
      <4>2. ended # "no"
        BY <1>5, <3>1 DEF OnLastLine
      <4>3. c = [t EXCEPT !.eof = TRUE]
        BY <3>1 DEF c, Consume
      <4> HIDE DEF t
      <4>4. c \in Streams /\ c.lines = t.lines /\ c.pos = t.pos
        BY <4>1, <4>3 DEF Streams
      <4> QED
        BY <4>1, <4>2, <4>4
    <3>2. CASE ~(OnLastLine(s) /\ n.left = <<>>)
      <4>1. s.lines # <<>>
        BY <1>3, <3>2 DEF OnLastLine, Line
      <4> DEFINE p == Len(Line(s)) - Len(n.left) + 1
      <4>2. c = [s EXCEPT !.pos = p] /\ p \in Int
        BY <1>2, <1>3, <3>2 DEF c, Consume, Text
      <4> HIDE DEF p
      <4>3. c \in Streams /\ c.lines = s.lines /\ c.eof = s.eof
        BY <1>1, <4>2 DEF Streams
      <4> QED
        BY <1>1, <1>5, <4>1, <4>3 DEF Good
    <3> QED
      BY <3>1, <3>2
  <2>4. d \in Streams /\ d.lines = c.lines /\ d.pos = c.pos /\ d.eof = c.eof /\ d.fail = bad
    <3> HIDE DEF bad
    <3> QED
      BY <2>2, <2>3 DEF Streams
  <2>5. StreamInv(NextLine(d))
    BY <2>3, <2>4, NextLineIs
  <2> QED
    BY <1>3, <2>2, <2>4, <2>5 DEF d, n
<1> QED
  BY <1>4, <1>5

-----------------------------------------------------------------------------
(* The daemon's responses *)

Numbered == {text \in Text : text # <<>> /\ text[1] \in Digit}

LEMMA NumberedConcat ==
    ASSUME NEW n \in Nat, NEW b \in Text
    PROVE  Decimal[n] \o b \in Numbered
BY NumeralConcat DEF Numbered

LEMMA NumberedLines ==
    ASSUME NEW s \in Numbered, NEW t \in Numbered
    PROVE  s \o t \in Numbered
<1>1. s \in Seq(Character) /\ t \in Seq(Character) /\ s # <<>> /\ s[1] \in Digit
  BY DEF Numbered, Text
<1>2. Len(s) \in Nat /\ Len(s) >= 1 /\ Len(t) \in Nat
  BY <1>1, EmptySeq
<1>3. 1 \in 1 .. Len(s) + Len(t) /\ 1 <= Len(s)
  BY <1>2
<1>4. s \o t \in Seq(Character) /\ (s \o t)[1] = s[1]
  BY <1>1, <1>3, ConcatProperties
<1>5. s \o t # <<>>
  BY <1>1, ConcatSimplifications
<1> QED
  BY <1>1, <1>4, <1>5 DEF Numbered, Text

LEMMA FlattenIs ==
    ASSUME NEW parts \in Seq(Numbered), parts # <<>>
    PROVE  FlattenSeq(parts) \in Numbered
<1> DEFINE D == 1 .. Len(parts)
           S == Numbered
           size == [i \in D |-> i]
           down == [i \in D |-> IF i = 1 THEN 1 ELSE i - 1]
           next(i, text) == IF i = 1 THEN parts[i] ELSE text \o parts[i]
           step == [p \in D \X S |-> next(p[1], p[2])]
           flatten[i \in 1 .. Len(parts)] ==
               IF i = 1 THEN parts[i] ELSE flatten[i - 1] \o parts[i]
<1>0. Len(parts) \in Nat /\ Len(parts) >= 1 /\ \A i \in D : parts[i] \in S /\ i \in Nat
  BY EmptySeq, ElementOfSeq
<1>1. /\ size \in [D -> Nat] /\ down \in [D -> D]
      /\ \A i \in D : down[i] = IF i = 1 THEN 1 ELSE i - 1
  BY <1>0
<1>2. ASSUME NEW i \in D, NEW text \in S PROVE next(i, text) \in S
  <2> HIDE DEF S
  <2> QED
    BY <1>0, NumberedLines DEF S
<1>3. step \in [D \X S -> S]
  <2> HIDE DEF next, S, D
  <2> QED
    BY <1>2
<1>4. ASSUME NEW i \in D, NEW text \in S PROVE step[<<i, text>>] = next(i, text)
  <2> HIDE DEF next, S, D
  <2> QED
    OBVIOUS
<1>5. PICK f \in [D -> S] : \A i \in D : f[i] = step[<<i, f[down[i]]>>]
  <2>1. \A i \in D : \/ size[down[i]] < size[i]
                     \/ \A v, w \in S : step[<<i, v>>] = step[<<i, w>>]
    <3> SUFFICES ASSUME NEW i \in D
                 PROVE  \/ size[down[i]] < size[i]
                        \/ \A v, w \in S : step[<<i, v>>] = step[<<i, w>>]
      OBVIOUS
    <3>1. CASE i = 1
      <4>1. \A v, w \in S : next(i, v) = next(i, w)
        BY <3>1
      <4> HIDE DEF next, S, step
      <4> QED
        BY <1>4, <4>1
    <3>2. CASE i # 1
      <4>1. down[i] = i - 1 /\ down[i] \in D /\ i \in Nat
        BY <1>0, <1>1, <3>2
      <4>2. size[down[i]] = down[i] /\ size[i] = i
        BY <4>1
      <4> HIDE DEF size, down, step
      <4> QED
        BY <4>1, <4>2
    <3> QED
      BY <3>1, <3>2
  <2>2. parts[1] \in S
    BY <1>0
  <2> HIDE DEF D, S, size, down, step
  <2>3. Descends(D, S, size, down, step)
    BY <1>1, <1>3, <2>1, <2>2 DEF Descends
  <2> QED
    BY <2>3, Recursion
<1>6. f = [i \in D |-> IF i = 1 THEN parts[i] ELSE f[i - 1] \o parts[i]]
  <2>1. ASSUME NEW i \in D PROVE f[i] = next(i, f[i - 1])
    <3>1. f[i] = next(i, f[down[i]])
      <4>1. down[i] \in D /\ f[down[i]] \in S
        BY <1>1
      <4> HIDE DEF next, S, D, step, down
      <4> QED
        BY <1>4, <1>5, <4>1
    <3>2. i # 1 => down[i] = i - 1
      BY <1>1
    <3> HIDE DEF down, S, D
    <3> QED
      BY <3>1, <3>2
  <2> HIDE DEF S, D
  <2> QED
    BY <2>1
<1>7. flatten = [i \in 1 .. Len(parts) |-> IF i = 1 THEN parts[i] ELSE flatten[i - 1] \o parts[i]]
  BY <1>6
<1>8. \A i \in D : flatten[i] = next(i, flatten[i - 1])
  <2> HIDE DEF flatten
  <2> QED
    BY <1>7
<1>9. ASSUME NEW i \in D PROVE flatten[i] \in S
  <2> DEFINE B == {k \in D : flatten[k] \notin S}
  <2> SUFFICES ASSUME B # {} PROVE FALSE
    BY <1>9
  <2> HIDE DEF flatten, S
  <2>1. PICK m \in B : \A k \in B : m <= k
    <3>1. B \in SUBSET Nat
      BY <1>0
    <3> HIDE DEF B
    <3> QED
      BY <3>1, LeastNumber
  <2>2. CASE m = 1
    BY <1>0, <1>8, <2>1, <2>2
  <2>3. CASE m # 1
    <3>1. m \in D /\ m - 1 \in D /\ ~(m <= m - 1)
      BY <1>0, <2>1, <2>3
    <3>2. flatten[m - 1] \in S
      BY <2>1, <3>1
    <3>3. next(m, flatten[m - 1]) \in S
      BY <1>2, <3>1, <3>2
    <3> HIDE DEF next, D
    <3> QED
      BY <1>8, <2>1, <3>1, <3>3 DEF B
  <2> QED
    BY <2>2, <2>3
<1>10. FlattenSeq(parts) = flatten[Len(parts)]
  BY <1>0 DEF FlattenSeq
<1> QED
  <2> HIDE DEF flatten
  <2> QED
    BY <1>0, <1>9, <1>10

Codes == {ErrorCodes[code] : code \in DOMAIN ErrorCodes}

LEMMA CodesAre ==
    /\ Codes \subseteq 0 .. MaxInt
    /\ \A code \in DOMAIN ErrorCodes : ErrorCodes[code] \in Codes
    /\ ErrorCodes["SUCCESS"] = 0 /\ ErrorCodes.INVALID_NUMBER = 1
    /\ ConnectionErrors \subseteq Codes /\ 0 \notin ConnectionErrors
BY ProtocolAssumption DEF Codes, ErrorCodes, ConnectionErrors

\* A character of a message: no newline, and not a digit needed.
OneLine == Character \ {"\n"}

LEMMA WordsAreCharacters ==
    /\ MessageWords \subseteq OneLine /\ "blank" \in OneLine /\ ":" \in OneLine
    /\ \A n \in Nat : Decimal[n] \in Seq(OneLine)
<1>1. MessageWords \subseteq Character
  BY CommandLineAssumption, CharactersAre
<1>2. "\n" \notin MessageWords
  BY DEF MessageWords
<1>3. ASSUME NEW n \in Nat PROVE Decimal[n] \in Seq(OneLine)
  <2>1. Decimal[n] \in Seq(Digit) /\ Digit \subseteq OneLine
    BY ValueOfNumeral, DigitIs DEF OneLine
  <2> QED
    BY <2>1, SeqMonotonic
<1> QED
  BY <1>1, <1>2, <1>3, CharactersAre DEF OneLine

\* Concatenation by a name of its own, for steps that only regroup texts.
Joined(a, b) == a \o b

LEMMA JoinedIs ==
    ASSUME NEW S
    PROVE  /\ \A a, b \in Seq(S) : Joined(a, b) \in Seq(S)
           /\ \A a, b, c \in Seq(S) : Joined(Joined(a, b), c) = Joined(a, Joined(b, c))
<1>1. ASSUME NEW a \in Seq(S), NEW b \in Seq(S) PROVE Joined(a, b) \in Seq(S)
  BY ConcatProperties DEF Joined
<1>2. ASSUME NEW a \in Seq(S), NEW b \in Seq(S), NEW c \in Seq(S)
      PROVE  Joined(Joined(a, b), c) = Joined(a, Joined(b, c))
  BY ConcatAssociative DEF Joined
<1> QED
  BY <1>1, <1>2

\* A numeral among words.
LEMMA SentenceIs ==
    ASSUME NEW before \in Seq(OneLine), NEW n \in Nat, NEW after \in Seq(OneLine)
    PROVE  before \o Decimal[n] \o after \in Seq(OneLine)
<1>1. Decimal[n] \in Seq(OneLine)
  BY WordsAreCharacters
<1>2. before \o Decimal[n] \in Seq(OneLine)
  BY <1>1, ConcatProperties
<1> QED
  BY <1>2, ConcatProperties

LEMMA PrintAllIs ==
    ASSUME NEW entries \in Stores
    PROVE  PrintAll(entries) \in Text /\ PrintAll(entries) # <<>> /\ PrintAll(entries)[1] # "\n"
<1>1. entries \in Seq(Nat \X Nat)
  BY CommandLineAssumption
<1>2. CASE entries = <<>>
  <2>1. PrintAll(entries) = <<"No", "blank", "stored.">>
    BY <1>2 DEF PrintAll
  <2>2. "No" \in Character /\ "blank" \in Character /\ "stored." \in Character
    BY WordsAreCharacters DEF OneLine, MessageWords
  <2> QED
    BY <2>1, <2>2 DEF Text
<1>3. CASE entries # <<>>
  <2> DEFINE part(i) == Decimal[entries[i][1]] \o <<":">> \o Decimal[entries[i][2]] \o <<"\n">>
             parts == [i \in DOMAIN entries |-> part(i)]
  <2>1. ASSUME NEW i \in 1 .. Len(entries) PROVE part(i) \in Numbered
    <3>1. entries[i] \in Nat \X Nat
      BY <1>1, ElementOfSeq
    <3> DEFINE x == entries[i][1]
               y == entries[i][2]
    <3>2. x \in Nat /\ y \in Nat
      BY <3>1
    <3> HIDE DEF x, y
    <3>3. /\ Decimal[x] \in Seq(Character) /\ Decimal[y] \in Seq(Character)
          /\ <<":">> \in Seq(Character) /\ <<"\n">> \in Seq(Character)
      BY <3>2, ValueOfNumeral, DigitIs, SeqMonotonic, CharactersAre
    <3> DEFINE rest == <<":">> \o (Decimal[y] \o <<"\n">>)
    <3>4. rest \in Text
      BY <3>3, ConcatProperties DEF Text
    <3>5. Decimal[x] \o <<":">> \o Decimal[y] \o <<"\n">> = Decimal[x] \o rest
      <4> DEFINE d == Decimal[x]
                 c == <<":">>
                 e == Decimal[y]
                 n == <<"\n">>
      <4>1. d \in Seq(Character) /\ c \in Seq(Character) /\ e \in Seq(Character) /\ n \in Seq(Character)
        BY <3>3
      <4>2. rest = Joined(c, Joined(e, n))
        BY Zenon DEF Joined
      <4> HIDE DEF d, c, e, n, rest
      <4>3. Joined(Joined(Joined(d, c), e), n) = Joined(d, Joined(c, Joined(e, n)))
        BY <4>1, JoinedIs
      <4>4. ((d \o c) \o e) \o n = d \o rest
        BY <4>2, <4>3, Zenon DEF Joined
      <4> QED
        BY <4>4 DEF d, c, e, n
    <3> HIDE DEF rest
    <3>6. Decimal[x] \o rest \in Numbered
      BY <3>2, <3>4, NumberedConcat
    <3> QED
      BY <3>5, <3>6 DEF x, y
  <2>2. DOMAIN entries = 1 .. Len(entries) /\ Len(entries) \in Nat /\ Len(entries) # 0
    BY <1>1, <1>3, EmptySeq
  <2>3. parts \in Seq(Numbered) /\ Len(parts) = Len(entries)
    <3> HIDE DEF part
    <3> QED
      BY <2>1, <2>2
  <2>4. parts # <<>>
    BY <2>2, <2>3
  <2>5. PrintAll(entries) = FlattenSeq(parts)
    BY <1>3 DEF PrintAll
  <2> HIDE DEF parts
  <2>6. PrintAll(entries) \in Numbered
    BY <2>3, <2>4, <2>5, FlattenIs
  <2> QED
    BY <2>6, DigitIs DEF Numbered
<1> QED
  BY <1>2, <1>3

LEMMA OneLineReplies ==
    ASSUME NEW type \in {"SUCCESS", "ERROR"}, NEW code \in DOMAIN ErrorCodes,
           type # "ERROR" => code = "SUCCESS", NEW data \in Seq(OneLine)
    PROVE  Response(type, code, data) \in Replies /\ Response(type, code, data).code \in Codes
<1> DEFINE n == ErrorCodes[code]
<1>1. n \in Codes /\ n \in 0 .. MaxInt /\ (type # "ERROR" => n = 0)
  BY CodesAre
<1>2. data \in Text
  BY SeqMonotonic DEF OneLine, Text
<1>3. Response(type, code, data) = [type |-> type, code |-> n, data |-> data]
  BY DEF Response
<1> HIDE DEF n
<1> QED
  BY <1>1, <1>2, <1>3 DEF Replies, OneLine

LEMMA PrintReplies ==
    ASSUME NEW entries \in Stores
    PROVE  /\ Response("DATA", "SUCCESS", PrintAll(entries)) \in Replies
           /\ Response("DATA", "SUCCESS", PrintAll(entries)).code \in Codes
<1> DEFINE data == PrintAll(entries)
<1>1. data \in Text /\ data[1] # "\n"
  BY PrintAllIs
<1>2. 0 \in 0 .. MaxInt /\ 0 \in Codes /\ ErrorCodes["SUCCESS"] = 0
  BY CodesAre DEF ErrorCodes
<1> HIDE DEF data
<1>3. Response("DATA", "SUCCESS", data) = [type |-> "DATA", code |-> 0, data |-> data]
  BY <1>2 DEF Response
<1>4. /\ Response("DATA", "SUCCESS", data) \in Replies
      /\ Response("DATA", "SUCCESS", data).code \in Codes
  BY <1>1, <1>2, <1>3 DEF Replies
<1> QED
  BY <1>4 DEF data

\* Every response to a command can be read back, and has a code of its own.
LEMMA ResponsesAre ==
    ASSUME NEW c \in Commands, NEW r \in Responses(c)
    PROVE  r \in Replies /\ r.code \in Codes
<1>1. c.type \in CommandTypes /\ c.number \in Nat /\ c # Null
  <2>1. c.type \in CommandTypes /\ c.number \in 0 .. MaxUint
    BY DEF Commands
  <2> QED
    BY <2>1, ProtocolAssumption DEF CommandTypes, Null
<1>2. /\ {"Number", "exists", "found", "inserted", "deleted", "blank", "Goodbye!"} \subseteq OneLine
      /\ {"Deleted", "numbers", "(", "cleared)"} \subseteq OneLine
  BY WordsAreCharacters DEF MessageWords
<1>3. \A word \in {"inserted", "deleted"} : Words(word, c.number) \in Seq(OneLine)
  <2> TAKE word \in {"inserted", "deleted"}
  <2>1. <<"Number", "blank">> \in Seq(OneLine) /\ <<"blank", word>> \in Seq(OneLine)
    BY <1>2
  <2> QED
    BY <1>1, <2>1, SentenceIs DEF Words
<1>4. \A word \in {"exists", "found"} : <<"Number", "blank", word>> \in Seq(OneLine)
  BY <1>2
<1>5. {"SUCCESS", "DUPLICATE_NUMBER", "NUMBER_NOT_FOUND"} \subseteq DOMAIN ErrorCodes
  BY DEF ErrorCodes
<1>6. CASE c.type = "INSERT"
  <2>1. \/ r = Response("SUCCESS", "SUCCESS", Words("inserted", c.number))
        \/ r = Response("ERROR", "DUPLICATE_NUMBER", <<"Number", "blank", "exists">>)
    BY <1>1, <1>6 DEF Responses
  <2> QED
    BY <1>3, <1>4, <1>5, <2>1, OneLineReplies
<1>7. CASE c.type = "DELETE_NUM"
  <2>1. \/ r = Response("SUCCESS", "SUCCESS", Words("deleted", c.number))
        \/ r = Response("ERROR", "NUMBER_NOT_FOUND", <<"Number", "blank", "found">>)
    BY <1>1, <1>7 DEF Responses
  <2> QED
    BY <1>3, <1>4, <1>5, <2>1, OneLineReplies
<1>8. CASE c.type = "PRINT_ALL"
  <2>1. PICK entries \in Stores : r = Response("DATA", "SUCCESS", PrintAll(entries))
    BY <1>1, <1>8 DEF Responses
  <2> QED
    BY <2>1, PrintReplies
<1>9. CASE c.type = "DELETE_ALL"
  <2> DEFINE before == <<"Deleted", "blank", "numbers", "blank", "(">>
             after == <<"blank", "cleared)">>
  <2>1. PICK entries \in Stores :
          r = Response("SUCCESS", "SUCCESS", before \o Decimal[Len(entries)] \o after)
    BY <1>1, <1>9 DEF Responses
  <2>2. before \in Seq(OneLine) /\ after \in Seq(OneLine)
    BY <1>2
  <2>3. Len(entries) \in Nat
    BY CommandLineAssumption
  <2> HIDE DEF before, after
  <2>4. before \o Decimal[Len(entries)] \o after \in Seq(OneLine)
    BY <2>2, <2>3, SentenceIs
  <2> QED
    BY <1>5, <2>1, <2>4, OneLineReplies
<1>10. CASE c.type = "EXIT"
  <2>1. r = Response("SUCCESS", "SUCCESS", <<"Goodbye!">>)
    BY <1>1, <1>10 DEF Responses
  <2>2. <<"Goodbye!">> \in Seq(OneLine)
    BY <1>2
  <2> QED
    BY <1>5, <2>1, <2>2, OneLineReplies
<1> QED
  BY <1>1, <1>6, <1>7, <1>8, <1>9, <1>10 DEF CommandTypes

\* What is shown of a response is its data, but for a last newline.
LEMMA ReceivedIs ==
    ASSUME NEW r \in Replies
    PROVE  /\ Received(r).code = r.code /\ Received(r) # Null
           /\ r.data \in {Received(r).data, Received(r).data \o <<"\n">>}
<1>1. r.type \in {"SUCCESS", "DATA", "ERROR"} /\ r.data \in Seq(Character)
  BY DEF Replies, Text
<1> DEFINE kept == IF r.type = "DATA" THEN WithoutLastNewline(r.data) ELSE r.data
<1>2. Received(r) = [type |-> r.type, code |-> r.code, data |-> kept]
  BY DEF Received
<1>3. r.data \in {kept, kept \o <<"\n">>}
  <2>1. CASE r.type = "DATA" /\ r.data # <<>> /\ Last(r.data) = "\n"
    <3> DEFINE front == Front(r.data)
    <3>1. front \in Seq(Character) /\ r.data = Append(front, "\n")
      BY <1>1, <2>1, FrontLast
    <3>2. kept = front
      BY <2>1 DEF WithoutLastNewline
    <3> HIDE DEF front, kept
    <3>3. "\n" \in Character
      BY CharactersAre
    <3>4. r.data = front \o <<"\n">>
      BY <3>1, <3>3, AppendIsConcat
    <3> QED
      BY <3>2, <3>4
  <2>2. CASE ~(r.type = "DATA" /\ r.data # <<>> /\ Last(r.data) = "\n")
    BY <2>2 DEF WithoutLastNewline
  <2> QED
    BY <2>1, <2>2
<1> HIDE DEF kept
<1>4. Received(r).type # "null"
  BY <1>1, <1>2
<1> QED
  BY <1>2, <1>3, <1>4 DEF Null

-----------------------------------------------------------------------------
(* What the reads do *)

LEMMA StreamOfInv ==
    ASSUME TypeOK, InputInv
    PROVE  StreamInv(cin)
BY DEF TypeOK, InputInv, StreamInv, Streams

LEMMA ChoiceStep ==
    ASSUME StreamInv(cin), GetUserChoice
    PROVE  /\ StreamInv(cin')
           /\ \/ \E type \in CommandTypes :
                    /\ command' = [type |-> type, number |-> 0] /\ at' = Prompt(type)
                    /\ asked' = Line(cin) /\ MenuOf[DigitValue(FirstDigit(Line(cin)))] = type
              \/ at' = "menu" /\ command' = Null /\ asked' = <<>>
<1> DEFINE choice == ReadInt(cin)
           n == ReadNumber(Line(cin), MaxInt)
<1>1. /\ CanRead /\ cin' = NextLine(choice.cin)
      /\ \/ /\ ~choice.cin.fail /\ choice.value \in 1 .. 5
            /\ command' = [type |-> MenuOf[choice.value], number |-> 0]
            /\ at' = Prompt(command'.type) /\ asked' = Line(cin)
         \/ at' = "menu" /\ command' = Null /\ asked' = <<>>
  BY DEF GetUserChoice
<1>2. ~Good(cin) \/ cin.lines # <<>> \/ ended # "no"
  BY <1>1 DEF CanRead
<1>3. /\ StreamInv(NextLine(choice.cin))
      /\ ~choice.cin.fail => n.ok /\ choice.value = n.value
  BY <1>2, ReadIntIs
<1> HIDE DEF choice
<1>4. ASSUME ~choice.cin.fail, choice.value \in 1 .. 5
      PROVE  /\ MenuOf[choice.value] \in CommandTypes
             /\ DigitValue(FirstDigit(Line(cin))) = choice.value
  <2>1. MenuOf[choice.value] \in CommandTypes
    <3>1. choice.value = 1 \/ choice.value = 2 \/ choice.value = 3 \/ choice.value = 4 \/ choice.value = 5
      BY <1>4
    <3>2. /\ MenuOf[1] = "INSERT" /\ MenuOf[2] = "DELETE_NUM" /\ MenuOf[3] = "PRINT_ALL"
          /\ MenuOf[4] = "DELETE_ALL" /\ MenuOf[5] = "EXIT"
      BY DEF MenuOf
    <3> QED
      BY <3>1, <3>2 DEF CommandTypes
  <2>2. n.ok /\ n.value \in 1 .. 9 /\ choice.value = n.value
    BY <1>3, <1>4
  <2>3. Line(cin) \in Text
    BY LineIs DEF StreamInv
  <2>4. DigitValue(FirstDigit(Line(cin))) = n.value
    BY <2>2, <2>3, ChoiceIs
  <2> QED
    BY <2>1, <2>2, <2>4
<1>5. CASE /\ ~choice.cin.fail /\ choice.value \in 1 .. 5
           /\ command' = [type |-> MenuOf[choice.value], number |-> 0]
           /\ at' = Prompt(command'.type) /\ asked' = Line(cin)
  <2> DEFINE type == MenuOf[choice.value]
  <2>1. type \in CommandTypes /\ MenuOf[DigitValue(FirstDigit(Line(cin)))] = type
    BY <1>4, <1>5
  <2>2. command' = [type |-> type, number |-> 0] /\ at' = Prompt(command'.type)
    BY <1>5
  <2> HIDE DEF type
  <2>3. at' = Prompt(type)
    BY <2>2
  <2> QED
    BY <1>1, <1>3, <1>5, <2>1, <2>2, <2>3
<1>6. CASE at' = "menu" /\ command' = Null /\ asked' = <<>>
  BY <1>1, <1>3, <1>6
<1> QED
  BY <1>1, <1>5, <1>6

LEMMA NumberStep ==
    ASSUME StreamInv(cin), GetNumberInput
    PROVE  /\ StreamInv(cin') /\ told' = Line(cin)
           /\ \/ /\ Value[Line(cin)] \in 1 .. MaxUint /\ Line(cin) = Decimal[Value[Line(cin)]]
                 /\ command' = [command EXCEPT !.number = Value[Line(cin)]]
                 /\ at' = "send" /\ shown' = shown
              \/ /\ \A n \in 1 .. MaxUint : Line(cin) # Decimal[n]
                 /\ command' = command /\ at' = at
                 /\ shown' = [code |-> ErrorCodes.INVALID_NUMBER, text |-> <<>>]
<1> DEFINE input == GetLine(cin)
           line == Line(cin)
<1>1. /\ CanRead /\ cin' = input.cin /\ told' = line
      /\ \/ /\ Accepts(input.text) /\ command' = [command EXCEPT !.number = Value[input.text]]
            /\ at' = "send" /\ shown' = shown
         \/ /\ ~Accepts(input.text) /\ command' = command /\ at' = at
            /\ shown' = [code |-> ErrorCodes.INVALID_NUMBER, text |-> <<>>]
  BY DEF GetNumberInput
<1>2. StreamInv(input.cin) /\ input.text = line
  BY <1>1, GetLineIs DEF CanRead
<1>3. line \in Text
  BY LineIs DEF StreamInv
<1> HIDE DEF input, line
<1>4. Accepts(line) <=> \E n \in 1 .. MaxUint : line = Decimal[n]
  BY <1>3, NumeralsAreAccepted
<1>5. Accepts(line) => Value[line] \in 1 .. MaxUint /\ line = Decimal[Value[line]]
  <2> SUFFICES ASSUME NEW n \in 1 .. MaxUint, line = Decimal[n]
               PROVE  Value[line] \in 1 .. MaxUint /\ line = Decimal[Value[line]]
    BY <1>4
  <2>1. n \in Nat
    BY ProtocolAssumption
  <2>2. Value[Decimal[n]] = n
    BY <2>1, ValueOfNumeral
  <2> QED
    BY <2>2
<1>6. /\ StreamInv(cin') /\ told' = line
      /\ \/ /\ Value[line] \in 1 .. MaxUint /\ line = Decimal[Value[line]]
            /\ command' = [command EXCEPT !.number = Value[line]]
            /\ at' = "send" /\ shown' = shown
         \/ /\ \A n \in 1 .. MaxUint : line # Decimal[n]
            /\ command' = command /\ at' = at
            /\ shown' = [code |-> ErrorCodes.INVALID_NUMBER, text |-> <<>>]
  BY <1>1, <1>2, <1>4, <1>5
<1> QED
  BY <1>6 DEF line

LEMMA ConfirmStep ==
    ASSUME StreamInv(cin), ConfirmAction
    PROVE  /\ StreamInv(cin') /\ told' = Line(cin)
           /\ \/ at' = "send" /\ Line(cin) # <<>> /\ Line(cin)[1] \in {"y", "Y"}
              \/ at' = "menu"
<1>1. /\ CanRead /\ cin' = GetLine(cin).cin /\ told' = Line(cin)
      /\ at' = IF GetLine(cin).text # <<>> /\ GetLine(cin).text[1] \in {"y", "Y"}
               THEN "send" ELSE "menu"
  BY DEF ConfirmAction
<1>2. StreamInv(GetLine(cin).cin) /\ GetLine(cin).text = Line(cin)
  BY <1>1, GetLineIs DEF CanRead
<1> QED
  BY <1>1, <1>2

\* Every step leaves std::cin as the program expects it.
LEMMA StreamStep ==
    ASSUME StreamInv(cin), ended \in {"no", "clean", "cut"}, [Next]_vars
    PROVE  StreamInv(cin)' /\ ended' \in {"no", "clean", "cut"}
<1>1. /\ cin \in Streams /\ cin.pos = 1 /\ Len(cin.lines) <= MaxAhead
      /\ ~Good(cin) => cin.lines = <<>> /\ ended # "no"
      /\ cin.lines \in Seq(TypedLines)
  BY DEF StreamInv, Streams
<1>2. ASSUME StreamInv(cin'), ended' = ended PROVE StreamInv(cin)' /\ ended' \in {"no", "clean", "cut"}
  BY <1>2 DEF StreamInv, Good
<1>3. CASE TypeLine
  <2>1. PICK line \in TypedLines :
          /\ ended = "no" /\ Len(cin.lines) < MaxAhead
          /\ cin' = [cin EXCEPT !.lines = Append(@, line)]
          /\ ended' \in {"no", "cut"}
    BY <1>3 DEF TypeLine
  <2> DEFINE lines == Append(cin.lines, line)
  <2>2. lines \in Seq(TypedLines) /\ Len(lines) = Len(cin.lines) + 1 /\ Len(cin.lines) \in Nat
    BY <1>1, AppendProperties
  <2>3. cin' = [cin EXCEPT !.lines = lines]
    BY <2>1
  <2>4. Len(lines) <= MaxAhead
    BY <2>1, <2>2, CommandLineAssumption
  <2> HIDE DEF lines
  <2>5. /\ cin' \in Streams /\ cin'.lines = lines /\ cin'.pos = cin.pos
        /\ cin'.eof = cin.eof /\ cin'.fail = cin.fail
    BY <1>1, <2>2, <2>3 DEF Streams
  <2>6. ~cin.eof /\ ~cin.fail
    BY <1>1, <2>1 DEF Good
  <2> QED
    BY <1>1, <2>1, <2>4, <2>5, <2>6 DEF StreamInv, Good
<1>4. CASE EndInput
  BY <1>1, <1>4 DEF EndInput, StreamInv, Good
<1>5. CASE SkipBlankLine
  <2>1. Good(cin) /\ cin.lines # <<>> /\ cin' = Drop(cin) /\ ended' = ended
    BY <1>5 DEF SkipBlankLine
  <2>2. /\ Drop(cin) \in Streams /\ Len(Drop(cin).lines) <= MaxAhead /\ Drop(cin).pos = 1
        /\ Drop(cin).eof = cin.eof /\ Drop(cin).fail = cin.fail
    BY <1>1, <2>1, DropIs
  <2>3. StreamInv(Drop(cin))
    BY <2>1, <2>2 DEF StreamInv, Good
  <2> QED
    BY <1>2, <2>1, <2>3
<1>6. CASE GetUserChoice
  BY <1>2, <1>6, ChoiceStep DEF GetUserChoice
<1>7. CASE GetNumberInput
  BY <1>2, <1>7, NumberStep DEF GetNumberInput
<1>8. CASE ConfirmAction
  BY <1>2, <1>8, ConfirmStep DEF ConfirmAction
<1>9. CASE UNCHANGED <<cin, ended>>
  BY <1>1, <1>9 DEF StreamInv, Good
<1> QED
  <2>1. Exchange \/ LoseDaemon \/ Over \/ UNCHANGED vars => UNCHANGED <<cin, ended>>
    BY DEF Exchange, SendCommand, HandleCommand, ReceiveResponse, LoseDaemon, Over, vars
  <2> QED
    BY <1>3, <1>4, <1>5, <1>6, <1>7, <1>8, <1>9, <2>1 DEF Next, Read

-----------------------------------------------------------------------------
(* The inductive invariant *)

IInv == TypeOK /\ CommandLineInv /\ RequestsAreTyped /\ NumbersAreExact /\ AnswersAreShown

\* The daemon has the command that was sent, and the client its answer.
LEMMA HandleStep ==
    ASSUME RequestInv, PipeInv, HandleCommand
    PROVE  /\ at = "sent" /\ command \in Commands
           /\ served' = command /\ answered' \in Responses(command)
           /\ pipe' = SerializeResponse(answered') /\ at' = "answered"
<1>1. at = "sent" /\ served' = DeserializeCommand(pipe) /\ answered' \in Responses(served')
      /\ pipe' = SerializeResponse(answered') /\ at' = "answered"
  BY DEF HandleCommand
<1>2. command \in Commands /\ pipe = SerializeCommand(command)
  BY <1>1 DEF RequestInv, PipeInv
<1>3. DeserializeCommand(pipe) = command
  BY <1>2, CommandsAreReadBack
<1> QED
  BY <1>1, <1>2, <1>3

LEMMA ReceiveStep ==
    ASSUME RequestInv, PipeInv, ReceiveResponse
    PROVE  /\ shown' = [code |-> answered.code, text |-> Received(answered).data]
           /\ at' \in {"menu", "done"} /\ answered.code \in Codes
           /\ answered.data \in {Received(answered).data, Received(answered).data \o <<"\n">>}
<1> DEFINE response == DeserializeResponse(pipe)
<1>1. at = "answered"
  BY DEF ReceiveResponse
<1>2. command \in Commands /\ answered \in Responses(command) /\ pipe = SerializeResponse(answered)
  BY <1>1 DEF RequestInv, PipeInv
<1>3. answered \in Replies /\ answered.code \in Codes
  BY <1>2, ResponsesAre
<1>4. response = Received(answered)
  BY <1>2, <1>3, ResponsesAreReadBack
<1>5. /\ response # Null /\ response.code = answered.code
      /\ response.data = Received(answered).data
      /\ answered.data \in {Received(answered).data, Received(answered).data \o <<"\n">>}
  BY <1>3, <1>4, ReceivedIs
<1> HIDE DEF response
<1>6. Show(response.code, response.data)
  BY <1>5 DEF ReceiveResponse, response
<1>7. shown' = [code |-> response.code, text |-> response.data] /\ at' \in {"menu", "done"}
  BY <1>6 DEF Show
<1> QED
  BY <1>3, <1>5, <1>7

LEMMA LoseStep ==
    ASSUME LoseDaemon
    PROVE  \E code \in ConnectionErrors : shown' = [code |-> code, text |-> <<>>] /\ at' = "done"
<1>1. PICK code \in ConnectionErrors : Show(code, <<>>)
  BY DEF LoseDaemon, ConnectionErrors
<1> QED
  BY <1>1 DEF Show

LEMMA TypeStep ==
    ASSUME IInv, [Next]_vars
    PROVE  TypeOK' /\ InputInv'
<1>1. /\ TypeOK /\ InputInv /\ RequestInv /\ PipeInv /\ StreamInv(cin)
  BY StreamOfInv DEF IInv, CommandLineInv
<1>2. StreamInv(cin)' /\ ended' \in {"no", "clean", "cut"}
  BY <1>1, StreamStep DEF TypeOK
<1> DEFINE Rest_(c, a, s, sh, as, t) ==
              /\ a \in {"menu", "number", "confirm", "send", "sent", "answered", "done"}
              /\ c \in Commands \cup {Null} /\ s \in Commands \cup {Null}
              /\ sh = Nothing \/ sh.code \in Codes
              /\ as \in TypedLines \cup {<<>>} /\ t \in TypedLines \cup {<<>>}
           Types == Rest_(command, at, served, shown, asked, told)
<1>3. Types
  BY <1>1 DEF TypeOK, Codes
<1>4. Line(cin) \in TypedLines \cup {<<>>}
  BY <1>1, LineIs DEF StreamInv
<1>5. Types'
  <2>5. CASE UNCHANGED <<command, at, served, shown, asked, told>>
    BY <1>3, <2>5
  <2>6. CASE GetUserChoice
    <3>1. at' \in {"menu", "number", "confirm", "send"} /\ command' \in Commands \cup {Null}
          /\ asked' \in TypedLines \cup {<<>>}
      <4>1. CASE at' = "menu" /\ command' = Null /\ asked' = <<>>
        BY <4>1
      <4>2. ASSUME NEW type \in CommandTypes, command' = [type |-> type, number |-> 0],
                   at' = Prompt(type), asked' = Line(cin)
            PROVE  at' \in {"number", "confirm", "send"} /\ command' \in Commands
        BY <4>2, ProtocolAssumption DEF Prompt, Commands
      <4> QED
        BY <1>1, <1>4, <2>6, <4>1, <4>2, ChoiceStep
    <3>2. shown' = Nothing /\ told' = <<>> /\ served' = Null
      BY <2>6 DEF GetUserChoice
    <3> QED
      BY <3>1, <3>2
  <2>7. CASE GetNumberInput
    <3>1. told' = Line(cin) /\ at = "number" /\ served' = served /\ asked' = asked
      BY <2>7 DEF GetNumberInput
    <3>2. command \in Commands /\ TakesNumber(command.type)
      BY <1>1, <3>1 DEF RequestInv
    <3>3. \A n \in 1 .. MaxUint : [command EXCEPT !.number = n] \in Commands
      BY <3>2 DEF Commands
    <3>4. ErrorCodes.INVALID_NUMBER \in Codes
      BY CodesAre DEF ErrorCodes
    <3>5. at' \in {"number", "send"} /\ command' \in Commands /\ (shown' = shown \/ shown'.code \in Codes)
      BY <1>1, <2>7, <3>1, <3>2, <3>3, <3>4, NumberStep
    <3> QED
      BY <1>3, <1>4, <3>1, <3>5
  <2>8. CASE ConfirmAction
    <3>1. UNCHANGED <<command, served, shown, asked>> /\ at' \in {"menu", "send"} /\ told' = Line(cin)
      BY <1>1, <2>8, ConfirmStep DEF ConfirmAction
    <3> QED
      BY <1>3, <1>4, <3>1
  <2>9. CASE SendCommand
    BY <1>3, <2>9 DEF SendCommand, histories
  <2>10. CASE HandleCommand
    BY <1>1, <1>3, <2>10, HandleStep DEF HandleCommand
  <2>11. CASE ReceiveResponse
    <3>1. shown'.code \in Codes /\ at' \in {"menu", "done"}
      BY <1>1, <2>11, ReceiveStep
    <3> QED
      BY <1>3, <2>11, <3>1 DEF ReceiveResponse, histories
  <2>12. CASE LoseDaemon
    <3>1. shown'.code \in Codes /\ at' = "done"
      BY <2>12, LoseStep, CodesAre
    <3> QED
      BY <1>3, <2>12, <3>1 DEF LoseDaemon, histories
  <2>13. TypeLine \/ EndInput \/ SkipBlankLine \/ Over \/ UNCHANGED vars
           => UNCHANGED <<command, at, served, shown, asked, told>>
    BY DEF TypeLine, EndInput, SkipBlankLine, Over, vars, histories
  <2> HIDE DEF Types
  <2> QED
    BY <2>5, <2>6, <2>7, <2>8, <2>9, <2>10, <2>11, <2>12, <2>13 DEF Next, Read, Exchange
<1>6. InputInv'
  BY <1>2 DEF InputInv, StreamInv
<1>7. /\ cin' \in [lines : Seq(TypedLines), pos : Nat, eof : BOOLEAN, fail : BOOLEAN]
       /\ Len(cin'.lines) <= MaxAhead /\ cin'.pos \in 1 .. Len(Line(cin')) + 1
  <2>1. cin' \in Streams /\ cin'.pos = 1 /\ Len(cin'.lines) <= MaxAhead
    BY <1>2 DEF StreamInv
  <2>2. Len(Line(cin')) \in Nat
    BY <2>1, LineIs
  <2> QED
    BY <2>1, <2>2 DEF Streams
<1> QED
  BY <1>2, <1>5, <1>6, <1>7 DEF TypeOK, Codes

LEMMA RequestStep ==
    ASSUME IInv, [Next]_vars
    PROVE  RequestInv'
<1>1. TypeOK /\ RequestInv /\ PipeInv /\ StreamInv(cin)
  BY StreamOfInv DEF IInv, CommandLineInv
<1>2. CASE UNCHANGED <<at, command, asked, told>>
  BY <1>1, <1>2 DEF RequestInv, Typed
<1>3. CASE GetUserChoice
  <2>1. CASE at' = "menu"
    BY <2>1 DEF RequestInv
  <2>2. ASSUME NEW type \in CommandTypes, command' = [type |-> type, number |-> 0],
               at' = Prompt(type), asked' = Line(cin),
               MenuOf[DigitValue(FirstDigit(Line(cin)))] = type
        PROVE  RequestInv'
    <3>1. command' \in Commands /\ command'.type = type
      BY <2>2, ProtocolAssumption DEF Commands
    <3>2. MenuOf[DigitValue(FirstDigit(asked'))] = type
      BY <2>2
    <3>3. /\ at' \in {"number", "confirm", "send"} /\ (at' = "number" => TakesNumber(type))
          /\ (at' = "confirm" => type = "DELETE_ALL")
          /\ (at' = "send" => ~TakesNumber(type) /\ type # "DELETE_ALL")
      BY <2>2 DEF Prompt, TakesNumber
    <3> QED
      BY <3>1, <3>2, <3>3 DEF RequestInv, Typed
  <2> QED
    BY <1>1, <1>3, <2>1, <2>2, ChoiceStep
<1>4. CASE GetNumberInput
  <2>1. at = "number" /\ asked' = asked /\ told' = Line(cin)
    BY <1>4 DEF GetNumberInput
  <2>2. /\ command \in Commands /\ TakesNumber(command.type)
        /\ MenuOf[DigitValue(FirstDigit(asked))] = command.type
    BY <1>1, <2>1 DEF RequestInv
  <2>3. CASE command' = command /\ at' = at
    BY <2>1, <2>2, <2>3 DEF RequestInv
  <2>4. CASE /\ Value[Line(cin)] \in 1 .. MaxUint /\ Line(cin) = Decimal[Value[Line(cin)]]
             /\ command' = [command EXCEPT !.number = Value[Line(cin)]]
             /\ at' = "send"
    <3> DEFINE n == Value[Line(cin)]
    <3>1. n \in 1 .. MaxUint /\ told' = Decimal[n] /\ command' = [command EXCEPT !.number = n]
      BY <2>1, <2>4
    <3> HIDE DEF n
    <3>2. command' \in Commands /\ command'.type = command.type /\ command'.number = n
      BY <2>2, <3>1 DEF Commands
    <3>3. command.type # "DELETE_ALL"
      BY <2>2 DEF TakesNumber
    <3> QED
      BY <2>1, <2>2, <2>4, <3>1, <3>2, <3>3 DEF RequestInv, Typed
  <2> QED
    BY <1>1, <1>4, <2>3, <2>4, NumberStep
<1>5. CASE ConfirmAction
  <2>1. at = "confirm" /\ asked' = asked /\ command' = command /\ told' = Line(cin)
    BY <1>5 DEF ConfirmAction
  <2>2. /\ command \in Commands /\ command.type = "DELETE_ALL"
        /\ MenuOf[DigitValue(FirstDigit(asked))] = command.type
    BY <1>1, <2>1 DEF RequestInv
  <2>3. at' = "menu" \/ (at' = "send" /\ Line(cin) # <<>> /\ Line(cin)[1] \in {"y", "Y"})
    BY <1>1, <1>5, ConfirmStep
  <2>4. ~TakesNumber("DELETE_ALL")
    BY DEF TakesNumber
  <2> QED
    BY <2>1, <2>2, <2>3, <2>4 DEF RequestInv, Typed
<1>6. CASE SendCommand
  BY <1>1, <1>6 DEF SendCommand, histories, RequestInv, Typed
<1>7. CASE HandleCommand
  BY <1>1, <1>7 DEF HandleCommand, RequestInv, Typed
<1>8. CASE at' \in {"menu", "done"}
  BY <1>8 DEF RequestInv
<1> QED
  <2>1. TypeLine \/ EndInput \/ SkipBlankLine \/ Over \/ UNCHANGED vars
          => UNCHANGED <<at, command, asked, told>>
    BY DEF TypeLine, EndInput, SkipBlankLine, Over, vars, histories
  <2>2. ReceiveResponse \/ LoseDaemon => at' \in {"menu", "done"}
    BY <1>1, ReceiveStep, LoseStep
  <2> QED
    BY <1>2, <1>3, <1>4, <1>5, <1>6, <1>7, <1>8, <2>1, <2>2 DEF Next, Read, Exchange

LEMMA PipeStep ==
    ASSUME IInv, [Next]_vars
    PROVE  PipeInv'
<1>1. TypeOK /\ RequestInv /\ PipeInv
  BY DEF IInv, CommandLineInv
<1>2. CASE UNCHANGED <<at, command, pipe, served, answered>>
  BY <1>1, <1>2 DEF PipeInv
<1>3. CASE GetUserChoice
  <2>1. served' = Null /\ answered' = Null
    BY <1>3 DEF GetUserChoice
  <2>2. at' \in {"menu", "number", "confirm", "send"}
    BY <1>3 DEF GetUserChoice, Prompt
  <2> QED
    BY <2>1, <2>2 DEF PipeInv
<1>4. CASE GetNumberInput \/ ConfirmAction
  <2>1. at \in {"number", "confirm"} /\ UNCHANGED <<served, answered>>
        /\ at' \in {"number", "send", "menu"}
    BY <1>4 DEF GetNumberInput, ConfirmAction
  <2> QED
    BY <1>1, <2>1 DEF PipeInv
<1>5. CASE SendCommand
  BY <1>1, <1>5 DEF SendCommand, histories, PipeInv
<1>6. CASE HandleCommand
  <2>1. command' = command
    BY <1>6 DEF HandleCommand
  <2> QED
    BY <1>1, <1>6, <2>1, HandleStep DEF PipeInv
<1>7. CASE at' \in {"menu", "done"}
  BY <1>7 DEF PipeInv
<1> QED
  <2>1. TypeLine \/ EndInput \/ SkipBlankLine \/ Over \/ UNCHANGED vars
          => UNCHANGED <<at, command, pipe, served, answered>>
    BY DEF TypeLine, EndInput, SkipBlankLine, Over, vars, histories
  <2>2. ReceiveResponse \/ LoseDaemon => at' \in {"menu", "done"}
    BY <1>1, ReceiveStep, LoseStep
  <2> QED
    BY <1>2, <1>3, <1>4, <1>5, <1>6, <1>7, <2>1, <2>2 DEF Next, Read, Exchange

LEMMA TypedStep ==
    ASSUME IInv, [Next]_vars
    PROVE  RequestsAreTyped'
<1>1. TypeOK /\ RequestInv /\ PipeInv /\ RequestsAreTyped
  BY DEF IInv, CommandLineInv
<1>2. CASE UNCHANGED <<served, asked, told>>
  BY <1>1, <1>2 DEF RequestsAreTyped, Typed
<1>3. CASE served' = Null
  BY <1>3 DEF RequestsAreTyped
<1>4. CASE HandleCommand
  <2>1. Typed(command)
    BY <1>1, <1>4, HandleStep DEF RequestInv
  <2>2. served' = command /\ asked' = asked /\ told' = told
    BY <1>1, <1>4, HandleStep DEF HandleCommand
  <2> QED
    BY <2>1, <2>2 DEF RequestsAreTyped, Typed
<1> QED
  <2>1. GetUserChoice => served' = Null
    BY DEF GetUserChoice
  <2>2. GetNumberInput \/ ConfirmAction => served' = Null
    BY <1>1 DEF GetNumberInput, ConfirmAction, PipeInv
  <2>3. TypeLine \/ EndInput \/ SkipBlankLine \/ SendCommand \/ ReceiveResponse \/ LoseDaemon
          \/ Over \/ UNCHANGED vars => UNCHANGED <<served, asked, told>>
    BY DEF TypeLine, EndInput, SkipBlankLine, SendCommand, ReceiveResponse, LoseDaemon, Over,
           vars, histories
  <2> QED
    BY <1>2, <1>3, <1>4, <2>1, <2>2, <2>3 DEF Next, Read, Exchange

LEMMA ExactStep ==
    ASSUME IInv, [Next]_vars
    PROVE  NumbersAreExact'
<1>1. TypeOK /\ StreamInv(cin) /\ NumbersAreExact
  BY StreamOfInv DEF IInv, CommandLineInv
<1>2. CASE UNCHANGED <<at, shown, told>>
  BY <1>1, <1>2 DEF NumbersAreExact
<1>3. CASE GetUserChoice
  BY <1>3, CodesAre DEF GetUserChoice, Nothing, NumbersAreExact
<1>4. CASE GetNumberInput
  <2>1. told' = Line(cin) /\ (at' = "send" \/ \A n \in 1 .. MaxUint : Line(cin) # Decimal[n])
    BY <1>1, <1>4, NumberStep
  <2>2. CASE at' = "send"
    BY <2>2 DEF NumbersAreExact
  <2>3. CASE \A n \in 1 .. MaxUint : Line(cin) # Decimal[n]
    BY <2>1, <2>3 DEF NumbersAreExact
  <2> QED
    BY <2>1, <2>2, <2>3
<1>5. CASE at' # "number"
  BY <1>5 DEF NumbersAreExact
<1> QED
  <2>1. TypeLine \/ EndInput \/ SkipBlankLine \/ Over \/ UNCHANGED vars
          => UNCHANGED <<at, shown, told>>
    BY DEF TypeLine, EndInput, SkipBlankLine, Over, vars, histories
  <2>2. ConfirmAction \/ SendCommand \/ HandleCommand \/ ReceiveResponse \/ LoseDaemon
          => at' # "number"
    BY DEF ConfirmAction, SendCommand, HandleCommand, ReceiveResponse, LoseDaemon, Show
  <2> QED
    BY <1>2, <1>3, <1>4, <1>5, <2>1, <2>2 DEF Next, Read, Exchange

LEMMA ShownStep ==
    ASSUME IInv, [Next]_vars
    PROVE  AnswersAreShown'
<1>1. TypeOK /\ RequestInv /\ PipeInv /\ AnswersAreShown
  BY DEF IInv, CommandLineInv
<1>2. CASE UNCHANGED <<at, shown, answered>>
  BY <1>1, <1>2 DEF AnswersAreShown
<1>3. CASE answered' = Null
  BY <1>3 DEF AnswersAreShown
<1>4. CASE at' \in {"sent", "answered"}
  BY <1>4 DEF AnswersAreShown
<1>5. CASE ReceiveResponse
  <2>1. answered' = answered
    BY <1>5 DEF ReceiveResponse, histories
  <2>2. /\ shown'.code = answered.code /\ shown'.text = Received(answered).data
        /\ answered.data \in {Received(answered).data, Received(answered).data \o <<"\n">>}
    BY <1>1, <1>5, ReceiveStep
  <2> QED
    BY <2>1, <2>2 DEF AnswersAreShown
<1>6. CASE LoseDaemon
  <2>1. shown'.code \in ConnectionErrors
    BY <1>6, LoseStep
  <2> QED
    BY <2>1 DEF AnswersAreShown, ConnectionErrors
<1> QED
  <2>1. GetUserChoice => answered' = Null
    BY DEF GetUserChoice
  <2>2. GetNumberInput \/ ConfirmAction => answered' = Null
    BY <1>1 DEF GetNumberInput, ConfirmAction, PipeInv
  <2>3. SendCommand \/ HandleCommand => at' \in {"sent", "answered"}
    BY DEF SendCommand, HandleCommand
  <2>4. TypeLine \/ EndInput \/ SkipBlankLine \/ Over \/ UNCHANGED vars
          => UNCHANGED <<at, shown, answered>>
    BY DEF TypeLine, EndInput, SkipBlankLine, Over, vars, histories
  <2> QED
    BY <1>2, <1>3, <1>4, <1>5, <1>6, <2>1, <2>2, <2>3, <2>4 DEF Next, Read, Exchange

LEMMA InvInit == Init => IInv
<1> SUFFICES ASSUME Init PROVE IInv
  OBVIOUS
<1>1. /\ cin = [lines |-> <<>>, pos |-> 1, eof |-> FALSE, fail |-> FALSE]
      /\ ended = "no" /\ at = "menu" /\ command = Null /\ shown = Nothing
      /\ asked = <<>> /\ told = <<>> /\ served = Null /\ answered = Null
  BY DEF Init
<1>2. TypeOK
  <2>1. <<>> \in Seq(TypedLines) /\ Len(<<>>) = 0 /\ MaxAhead \in Nat
    BY CommandLineAssumption
  <2>2. Line(cin) = <<>>
    BY <1>1 DEF Line
  <2> QED
    BY <1>1, <2>1, <2>2 DEF TypeOK
<1>3. InputInv
  BY <1>1 DEF InputInv, Good
<1>4. RequestInv /\ PipeInv /\ RequestsAreTyped /\ NumbersAreExact /\ AnswersAreShown
  BY <1>1 DEF RequestInv, PipeInv, RequestsAreTyped, NumbersAreExact, AnswersAreShown
<1> QED
  BY <1>2, <1>3, <1>4 DEF IInv, CommandLineInv

LEMMA InvNext == IInv /\ [Next]_vars => IInv'
<1> SUFFICES ASSUME IInv, [Next]_vars PROVE IInv'
  OBVIOUS
<1>1. TypeOK' /\ InputInv'
  BY TypeStep
<1>2. RequestInv' /\ PipeInv'
  BY RequestStep, PipeStep
<1>3. RequestsAreTyped' /\ NumbersAreExact' /\ AnswersAreShown'
  BY TypedStep, ExactStep, ShownStep
<1> QED
  BY <1>1, <1>2, <1>3 DEF IInv, CommandLineInv

(* The inductive invariant holds: whole lines are read, and between the    *)
(* choice and the answer the line, the command and the text in the pipe    *)
(* say the same (CLIApplication.cxx:68-237, DaemonClient.cxx:132-158).     *)
THEOREM CommandLineInvariant == Spec => []CommandLineInv
<1>1. IInv => CommandLineInv
  BY DEF IInv
<1> QED
  BY <1>1, InvInit, InvNext, PTL DEF Spec

(* The position stays on the line, numbers fit their type and every code   *)
(* that is shown is an error code (Validator.cxx:28-52,                    *)
(* DaemonClient.cxx:132-158).                                              *)
THEOREM CommandLineTypeCorrectness == Spec => []TypeOK
<1>1. IInv => TypeOK
  BY DEF IInv
<1> QED
  BY <1>1, InvInit, InvNext, PTL DEF Spec

(* What the daemon executes was typed: the choice, the numeral of the      *)
(* number and the confirmation, on lines of their own, whatever the lines  *)
(* are and wherever the input ends (CLIApplication.cxx:68-88, 204-237,     *)
(* Command.cxx:19-47).                                                     *)
THEOREM DaemonServesWhatWasTyped == Spec => []RequestsAreTyped
<1>1. IInv => RequestsAreTyped
  BY DEF IInv
<1> QED
  BY <1>1, InvInit, InvNext, PTL DEF Spec

(* No numeral of 1 .. MaxUint is refused at the prompt                     *)
(* (Validator.cxx:7-73, CLIApplication.cxx:211-224).                       *)
THEOREM NoNumeralIsRefused == Spec => []NumbersAreExact
<1>1. IInv => NumbersAreExact
  BY DEF IInv
<1> QED
  BY <1>1, InvInit, InvNext, PTL DEF Spec

(* What is displayed is the daemon's answer, its code and its text but for *)
(* a last newline (Response.cxx:27-88, DaemonClient.cxx:53-126).           *)
THEOREM AnswersReachTheUser == Spec => []AnswersAreShown
<1>1. IInv => AnswersAreShown
  BY DEF IInv
<1> QED
  BY <1>1, InvInit, InvNext, PTL DEF Spec
=============================================================================
