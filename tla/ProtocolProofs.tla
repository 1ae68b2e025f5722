----------------------------- MODULE ProtocolProofs ----------------------------
(***************************************************************************)
(* What is written to the pipe is read back: for every number, command and *)
(* response of Protocol, whatever the limits of the two integer types.     *)
(*                                                                         *)
(* The theorems are about all numbers and all texts, so they need          *)
(* induction. It is done from below, by least counterexamples.             *)
(***************************************************************************)
EXTENDS Protocol, SequenceTheorems, WellFoundedInduction, TLAPS

-----------------------------------------------------------------------------
(* Induction *)

LEMMA LeastNumber ==
    ASSUME NEW S \in SUBSET Nat, S # {}
    PROVE  \E m \in S : \A k \in S : m <= k
<1> DEFINE R == {pair \in Nat \X Nat : pair[1] < pair[2]}
<1>1. R = OpToRel(<, Nat)
  BY DEF OpToRel
<1>2. IsWellFoundedOn(R, Nat)
  BY <1>1, NatLessThanWellFounded
<1>3. \E m \in S : \A k \in S : ~(<<k, m>> \in R)
  <2> HIDE DEF R
  <2> QED
    BY <1>2, WFMin
<1>4. PICK m \in S : \A k \in S : <<k, m>> \notin R
  BY <1>3
<1>5. ASSUME NEW k \in S PROVE m <= k
  <2>1. <<k, m>> \in Nat \X Nat /\ <<k, m>> \notin R
    BY <1>4
  <2>2. ~(k < m)
    BY <2>1
  <2> QED
    BY <2>2
<1> QED
  BY <1>5

\* Of the things with a property, one is the smallest.
LEMMA LeastElement ==
    ASSUME NEW D, NEW size \in [D -> Nat], NEW B \in SUBSET D, B # {}
    PROVE  \E x \in B : \A y \in B : size[x] <= size[y]
<1> DEFINE sizes == {size[x] : x \in B}
<1>1. sizes \in SUBSET Nat /\ sizes # {}
  OBVIOUS
<1>2. PICK m \in sizes : \A k \in sizes : m <= k
  <2> HIDE DEF sizes
  <2> QED
    BY <1>1, LeastNumber
<1> QED
  BY <1>2

LEMMA NatInduction1 ==
    ASSUME NEW S \in SUBSET Nat, 0 \in S, \A n \in S : n + 1 \in S
    PROVE  S = Nat
<1> SUFFICES ASSUME NEW k \in Nat \ S PROVE FALSE
  OBVIOUS
<1>1. PICK m \in Nat \ S : \A j \in Nat \ S : m <= j
  BY LeastNumber
<1>2. m # 0 /\ m - 1 \in Nat
  BY <1>1
<1>3. m - 1 \in S
  BY <1>1, <1>2
<1> QED
  BY <1>1, <1>2, <1>3

\* A step makes a value of the one for something smaller, or of nothing in particular.
Descends(D, S, size, down, step) ==
    /\ size \in [D -> Nat] /\ down \in [D -> D] /\ step \in [D \X S -> S]
    /\ \E start \in S : TRUE
    /\ \A x \in D : \/ size[down[x]] < size[x]
                   \/ \A v, w \in S : step[<<x, v>>] = step[<<x, w>>]

LEMMA Recursion ==
    ASSUME NEW D, NEW S, NEW size, NEW down, NEW step, Descends(D, S, size, down, step)
    PROVE  \E f \in [D -> S] : \A x \in D : f[x] = step[<<x, f[down[x]]>>]
<1> DEFINE Solves(f, x) == f[x] = step[<<x, f[down[x]]>>]
           Upto(n) == {f \in [D -> S] : \A x \in D : size[x] < n => Solves(f, x)}
           Ground(x) == \A v, w \in S : step[<<x, v>>] = step[<<x, w>>]
<1> size \in [D -> Nat] /\ down \in [D -> D] /\ step \in [D \X S -> S]
  BY DEF Descends
<1> PICK start \in S : TRUE
  BY DEF Descends
<1>d. \A x \in D : size[down[x]] < size[x] \/ Ground(x)
  BY DEF Descends
<1>g. ASSUME NEW f \in [D -> S], NEW g \in [D -> S], NEW x \in D, Ground(x)
      PROVE  step[<<x, f[down[x]]>>] = step[<<x, g[down[x]]>>]
  <2>1. f[down[x]] \in S /\ g[down[x]] \in S
    OBVIOUS
  <2> QED
    BY <1>g, <2>1
<1>1. \A n \in Nat : Upto(n) # {}
  <2> DEFINE N == {n \in Nat : Upto(n) # {}}
  <2>1. 0 \in N
    <3>1. [x \in D |-> start] \in Upto(0)
      OBVIOUS
    <3> QED
      BY <3>1
  <2>2. ASSUME NEW n \in N PROVE n + 1 \in N
    <3>1. PICK f \in Upto(n) : TRUE
      OBVIOUS
    <3> DEFINE g == [x \in D |-> step[<<x, f[down[x]]>>]]
    <3>2. g \in [D -> S]
      BY <3>1
    <3>3. ASSUME NEW x \in D, size[x] < n + 1 PROVE Solves(g, x)
      <4>1. CASE Ground(x)
        <5>1. g[x] = step[<<x, f[down[x]]>>] /\ f \in [D -> S]
          BY <3>1
        <5> HIDE DEF g
        <5> QED
          BY <1>g, <3>2, <4>1, <5>1
      <4>2. CASE size[down[x]] < size[x]
        <5>1. size[down[x]] < n /\ down[x] \in D
          <6>1. size[down[x]] \in Nat /\ size[x] \in Nat /\ n \in Nat
            OBVIOUS
          <6> QED
            BY <3>3, <4>2, <6>1
        <5>2. f[down[x]] = step[<<down[x], f[down[down[x]]]>>]
          BY <3>1, <5>1
        <5>3. g[down[x]] = step[<<down[x], f[down[down[x]]]>>]
          BY <5>1
        <5>4. g[x] = step[<<x, f[down[x]]>>]
          OBVIOUS
        <5> QED
          BY <5>2, <5>3, <5>4
      <4> QED
        BY <1>d, <4>1, <4>2
    <3>4. g \in Upto(n + 1)
      BY <3>2, <3>3
    <3> HIDE DEF g, Upto
    <3> QED
      BY <3>4
  <2> HIDE DEF N
  <2>3. N = Nat
    <3>1. N \in SUBSET Nat
      BY DEF N
    <3> QED
      BY <2>1, <2>2, <3>1, NatInduction1
  <2> QED
    BY <2>3 DEF N
<1>2. ASSUME NEW n \in Nat, NEW f \in Upto(n), NEW g \in Upto(n), NEW x \in D, size[x] < n
      PROVE  f[x] = g[x]
  <2> DEFINE B == {y \in D : size[y] < n /\ f[y] # g[y]}
  <2> SUFFICES ASSUME B # {} PROVE FALSE
    BY <1>2
  <2>1. PICK y \in B : \A z \in B : size[y] <= size[z]
    <3>1. B \in SUBSET D
      OBVIOUS
    <3> HIDE DEF B
    <3> QED
      BY <3>1, LeastElement
  <2>2. f[y] = step[<<y, f[down[y]]>>] /\ g[y] = step[<<y, g[down[y]]>>] /\ y \in D /\ f[y] # g[y]
    BY <2>1
  <2>3. ~Ground(y)
    BY <1>g, <2>2
  <2>4. down[y] \in D /\ size[down[y]] < size[y] /\ size[down[y]] \in Nat /\ size[y] \in Nat
    BY <1>d, <2>2, <2>3
  <2>5. f[down[y]] = g[down[y]]
    BY <2>1, <2>4
  <2> QED
    BY <2>2, <2>5
<1> DEFINE F(x) == CHOOSE f \in Upto(size[x] + 1) : TRUE
           h == [x \in D |-> F(x)[x]]
<1>3. ASSUME NEW x \in D PROVE F(x) \in Upto(size[x] + 1)
  <2>1. size[x] + 1 \in Nat
    OBVIOUS
  <2> HIDE DEF Upto
  <2> QED
    BY <1>1, <2>1
<1>4. h \in [D -> S]
  <2>1. ASSUME NEW x \in D PROVE F(x)[x] \in S
    <3>1. F(x) \in [D -> S]
      <4> HIDE DEF F
      <4> QED
        BY <1>3
    <3> HIDE DEF F
    <3> QED
      BY <3>1
  <2> HIDE DEF F
  <2> QED
    BY <2>1
<1>5. ASSUME NEW x \in D PROVE h[x] = step[<<x, h[down[x]]>>]
  <2> HIDE DEF F
  <2>1. F(x)[x] = step[<<x, F(x)[down[x]]>>] /\ h[x] = F(x)[x] /\ F(x) \in [D -> S]
    BY <1>3
  <2>2. CASE Ground(x)
    <3> HIDE DEF h, Ground
    <3> QED
      BY <1>4, <1>g, <2>1, <2>2
  <2>3. CASE size[down[x]] < size[x]
    <3> DEFINE y == down[x]
    <3>1. y \in D /\ size[y] < size[x] /\ size[y] \in Nat /\ size[x] \in Nat
      BY <2>3
    <3>2. F(x) \in Upto(size[y] + 1) /\ F(y) \in Upto(size[y] + 1)
      BY <1>3, <3>1
    <3>3. F(x)[y] = F(y)[y]
      <4> HIDE DEF Upto, y
      <4>1. size[y] + 1 \in Nat /\ size[y] < size[y] + 1
        BY <3>1
      <4> QED
        BY <1>2, <3>1, <3>2, <4>1
    <3>4. h[y] = F(y)[y]
      BY <3>1
    <3> QED
      BY <2>1, <3>3, <3>4
  <2> QED
    BY <1>d, <2>2, <2>3
<1> QED
  BY <1>4, <1>5

-----------------------------------------------------------------------------
(* Sequences and choices *)

LEMMA ShortSeq ==
    ASSUME NEW S, NEW a \in S, NEW b \in S
    PROVE  <<a>> \in Seq(S) /\ <<a, b>> \in Seq(S) /\ <<a>> \o <<b>> = <<a, b>>
<1> DEFINE s == <<a>> \o <<b>>
           t == <<a, b>>
<1>1. <<a>> \in Seq(S) /\ <<b>> \in Seq(S) /\ Len(<<a>>) = 1 /\ Len(<<b>>) = 1
  OBVIOUS
<1>2. s \in Seq(S) /\ Len(s) = 2 /\ s[1] = a /\ s[2] = b
  BY <1>1, ConcatProperties
<1>3. t \in Seq(S) /\ Len(t) = 2 /\ t[1] = a /\ t[2] = b
  OBVIOUS
<1> HIDE DEF s, t
<1>4. \A i \in 1 .. Len(s) : s[i] = t[i]
  BY <1>2, <1>3
<1>5. s = t
  BY <1>2, <1>3, <1>4, SeqEqual
<1> QED
  BY <1>1, <1>3, <1>5 DEF s, t

LEMMA FrontLastOfAppend ==
    ASSUME NEW S, NEW s \in Seq(S), NEW e \in S
    PROVE  /\ Front(Append(s, e)) = s /\ Last(Append(s, e)) = e
           /\ Append(s, e) \in Seq(S) /\ Append(s, e) # <<>>
<1>1. /\ Append(s, e) \in Seq(S) /\ Len(Append(s, e)) = Len(s) + 1
      /\ Append(s, e)[Len(s) + 1] = e /\ Append(s, e) # <<>>
  BY AppendProperties
<1>2. Append(s, e) = s \o <<e>> /\ <<e>> \in Seq(S)
  BY AppendIsConcat
<1>3. SubSeq(s \o <<e>>, 1, Len(s)) = s
  <2>1. CASE s = <<>>
    BY <2>1, SubSeqEmpty
  <2>2. CASE s # <<>>
    <3>1. Len(s) \in 1 .. Len(s) /\ 1 \in 1 .. Len(s)
      BY <2>2, EmptySeq
    <3> QED
      BY <1>2, <3>1, SubSeqOfConcat1, SubSeqFull
  <2> QED
    BY <2>1, <2>2
<1>4. Len(Append(s, e)) - 1 = Len(s)
  BY <1>1
<1> QED
  BY <1>1, <1>2, <1>3, <1>4 DEF Front, Last

LEMMA FrontLast ==
    ASSUME NEW S, NEW s \in Seq(S), s # <<>>
    PROVE  /\ Front(s) \in Seq(S) /\ Last(s) \in S
           /\ s = Append(Front(s), Last(s))
           /\ Len(s) \in Nat /\ Len(s) >= 1 /\ Len(Front(s)) = Len(s) - 1
           /\ Last(s) = s[Len(s)]
           /\ \A i \in 1 .. Len(s) - 1 : Front(s)[i] = s[i]
<1>1. PICK t \in Seq(S), e \in S : s = Append(t, e)
  BY SequenceEmptyOrAppend
<1>2. Front(s) = t /\ Last(s) = e
  BY <1>1, FrontLastOfAppend
<1>3. Len(s) = Len(t) + 1 /\ s[Len(t) + 1] = e /\ \A i \in 1 .. Len(t) : s[i] = t[i]
  BY <1>1, AppendProperties
<1> QED
  BY <1>1, <1>2, <1>3

LEMMA MinIs ==
    ASSUME NEW I \in SUBSET Int, NEW m \in I, \A k \in I : m <= k
    PROVE  Min(I) = m
<1>1. \E k \in I : \A j \in I : k <= j
  OBVIOUS
<1>2. Min(I) \in I /\ \A j \in I : Min(I) <= j
  BY <1>1 DEF Min
<1>3. Min(I) \in Int /\ m \in Int /\ Min(I) <= m /\ m <= Min(I)
  BY <1>2
<1> QED
  BY <1>3

-----------------------------------------------------------------------------
(* Numerals *)

LEMMA DigitOf ==
    ASSUME NEW k \in 0 .. 9
    PROVE  DigitValue(Digits[k + 1]) = k /\ Digits[k + 1] \in Digit
<1> DEFINE I == {i \in 1 .. Len(Digits) : Digits[i] = Digits[k + 1]}
<1>1. I = {k + 1}
  BY DEF Digits
<1>2. Min(I) = k + 1 /\ I # {}
  BY <1>1, MinIs
<1>3. SelectInSeq(Digits, LAMBDA d : d = Digits[k + 1]) = IF I # {} THEN Min(I) ELSE 0
  BY DEF SelectInSeq
<1>4. DigitValue(Digits[k + 1]) = k
  <2> HIDE DEF I
  <2> QED
    BY <1>2, <1>3 DEF DigitValue
<1> QED
  BY <1>4 DEF Digit, Digits, ToSet

LEMMA ValueOfDigit ==
    ASSUME NEW c \in Digit
    PROVE  DigitValue(c) \in 0 .. 9 /\ Digits[DigitValue(c) + 1] = c
<1>1. PICK i \in 1 .. 10 : c = Digits[i]
  BY DEF Digit, Digits, ToSet
<1>2. i - 1 \in 0 .. 9 /\ (i - 1) + 1 = i
  OBVIOUS
<1>3. DigitValue(Digits[(i - 1) + 1]) = i - 1
  BY <1>2, DigitOf
<1> QED
  BY <1>1, <1>2, <1>3

LEMMA ZeroDigit == /\ Digits[1] = "0" /\ "0" \in Digit /\ DigitValue("0") = 0
                   /\ \A k \in 1 .. 9 : Digits[k + 1] # "0"
<1>1. Digits[1] = "0" /\ \A k \in 1 .. 9 : Digits[k + 1] # "0"
  BY DEF Digits
<1>2. 0 \in 0 .. 9 /\ 0 + 1 = 1
  OBVIOUS
<1>3. DigitValue("0") = 0 /\ "0" \in Digit
  BY <1>1, <1>2, DigitOf
<1> QED
  BY <1>1, <1>3

LEMMA DecimalDef ==
    \A n \in Nat :
        /\ Decimal[n] \in Seq(Digit)
        /\ Decimal[n] = IF n < 10 THEN <<Digits[n + 1]>>
                        ELSE Append(Decimal[n \div 10], Digits[(n % 10) + 1])
<1> DEFINE S == Seq(Digit)
           size == [n \in Nat |-> n]
           down == [n \in Nat |-> n \div 10]
           next(n, text) == IF n < 10 THEN <<Digits[n + 1]>>
                            ELSE Append(text, Digits[(n % 10) + 1])
           step == [p \in Nat \X S |-> next(p[1], p[2])]
<1>1. size \in [Nat -> Nat] /\ down \in [Nat -> Nat]
  OBVIOUS
<1>2. ASSUME NEW n \in Nat, NEW text \in S PROVE next(n, text) \in S
  <2>1. n % 10 \in 0 .. 9
    OBVIOUS
  <2>2. n < 10 => n \in 0 .. 9
    OBVIOUS
  <2> QED
    BY <2>1, <2>2, DigitOf, AppendProperties
<1>3. step \in [Nat \X S -> S]
  <2> HIDE DEF next, S
  <2> QED
    BY <1>2
<1>4. ASSUME NEW n \in Nat, NEW text \in S PROVE step[<<n, text>>] = next(n, text)
  <2> HIDE DEF next, S
  <2> QED
    OBVIOUS
<1>5. PICK f \in [Nat -> S] : \A n \in Nat : f[n] = step[<<n, f[down[n]]>>]
  <2>1. \A n \in Nat : \/ size[down[n]] < size[n]
                       \/ \A v, w \in S : step[<<n, v>>] = step[<<n, w>>]
    <3> SUFFICES ASSUME NEW n \in Nat
                 PROVE  \/ size[down[n]] < size[n]
                        \/ \A v, w \in S : step[<<n, v>>] = step[<<n, w>>]
      OBVIOUS
    <3>1. CASE n < 10
      <4>1. \A v, w \in S : next(n, v) = next(n, w)
        BY <3>1
      <4> HIDE DEF next, S, step
      <4> QED
        BY <1>4, <4>1
    <3>2. CASE ~(n < 10)
      BY <3>2
    <3> QED
      BY <3>1, <3>2
  <2>2. <<>> \in S
    OBVIOUS
  <2> HIDE DEF S, size, down, step
  <2>3. Descends(Nat, S, size, down, step)
    BY <1>1, <1>3, <2>1, <2>2 DEF Descends
  <2> QED
    BY <2>3, Recursion
<1>6. ASSUME NEW n \in Nat PROVE f[n] = next(n, f[n \div 10])
  <2>1. n \div 10 \in Nat /\ f[n \div 10] \in S /\ down[n] = n \div 10
    OBVIOUS
  <2> HIDE DEF next, S, step
  <2> QED
    BY <1>4, <1>5, <2>1
<1>7. f = [n \in Nat |-> IF n < 10 THEN <<Digits[n + 1]>>
                         ELSE Append(f[n \div 10], Digits[(n % 10) + 1])]
  <2> HIDE DEF S
  <2> QED
    BY <1>6
<1>8. Decimal = [n \in Nat |-> IF n < 10 THEN <<Digits[n + 1]>>
                               ELSE Append(Decimal[n \div 10], Digits[(n % 10) + 1])]
  BY <1>7 DEF Decimal
<1>9. \A n \in Nat : Decimal[n] = next(n, Decimal[n \div 10])
  BY <1>8
<1>10. ASSUME NEW n \in Nat PROVE Decimal[n] \in S
  <2> DEFINE B == {k \in Nat : Decimal[k] \notin S}
  <2> SUFFICES ASSUME B # {} PROVE FALSE
    BY <1>10
  <2>1. PICK m \in B : \A k \in B : m <= k
    <3>1. B \in SUBSET Nat
      OBVIOUS
    <3> HIDE DEF B
    <3> QED
      BY <3>1, LeastNumber
  <2>2. CASE m < 10
    <3>1. <<Digits[m + 1]>> \in S
      <4>1. next(m, <<>>) \in S /\ next(m, <<>>) = <<Digits[m + 1]>>
        BY <1>2, <2>1, <2>2
      <4> QED
        BY <4>1
    <3> QED
      BY <1>9, <2>1, <2>2, <3>1
  <2>3. CASE ~(m < 10)
    <3>1. m \in Nat /\ m \div 10 \in Nat /\ m \div 10 < m
      BY <2>1, <2>3
    <3>2. Decimal[m \div 10] \in S
      BY <2>1, <3>1
    <3>3. next(m, Decimal[m \div 10]) \in S
      BY <1>2, <3>1, <3>2
    <3> HIDE DEF next, S
    <3> QED
      BY <1>9, <2>1, <3>1, <3>3
  <2> QED
    BY <2>2, <2>3
<1> QED
  BY <1>9, <1>10

LEMMA ValueDef ==
    /\ Value[<<>>] = 0
    /\ \A text \in Seq(Digit), c \in Digit :
           Value[text] \in Nat /\ Value[Append(text, c)] = 10 * Value[text] + DigitValue(c)
<1> DEFINE D == Seq(Digit)
           size == [text \in D |-> Len(text)]
           down == [text \in D |-> IF text = <<>> THEN text ELSE Front(text)]
           next(text, n) == IF text = <<>> THEN 0 ELSE 10 * n + DigitValue(Last(text))
           step == [p \in D \X Nat |-> next(p[1], p[2])]
<1>1. size \in [D -> Nat]
  OBVIOUS
<1>2. down \in [D -> D]
  BY FrontLast
<1>3. ASSUME NEW text \in D, NEW n \in Nat PROVE next(text, n) \in Nat
  <2>1. CASE text = <<>>
    BY <2>1
  <2>2. CASE text # <<>>
    <3>1. DigitValue(Last(text)) \in 0 .. 9
      BY <2>2, FrontLast, ValueOfDigit
    <3> QED
      BY <2>2, <3>1
  <2> QED
    BY <2>1, <2>2
<1>4. step \in [D \X Nat -> Nat]
  <2> HIDE DEF next, D
  <2> QED
    BY <1>3
<1>5. ASSUME NEW text \in D, NEW n \in Nat PROVE step[<<text, n>>] = next(text, n)
  <2> HIDE DEF next, D
  <2> QED
    OBVIOUS
<1>6. PICK f \in [D -> Nat] : \A text \in D : f[text] = step[<<text, f[down[text]]>>]
  <2>1. ASSUME NEW text \in D
        PROVE  \/ size[down[text]] < size[text]
               \/ \A v, w \in Nat : step[<<text, v>>] = step[<<text, w>>]
    <3>1. CASE text = <<>>
      <4>1. \A v, w \in Nat : next(text, v) = next(text, w)
        BY <3>1
      <4> HIDE DEF next, D, step
      <4> QED
        BY <1>5, <4>1
    <3>2. CASE text # <<>>
      <4>1. Front(text) \in D /\ Len(Front(text)) = Len(text) - 1 /\ Len(text) \in Nat
        BY <3>2, FrontLast
      <4> QED
        BY <3>2, <4>1
    <3> QED
      BY <3>1, <3>2
  <2>2. 0 \in Nat
    OBVIOUS
  <2> HIDE DEF D, size, down, step
  <2>3. Descends(D, Nat, size, down, step)
    BY <1>1, <1>2, <1>4, <2>1, <2>2 DEF Descends
  <2> QED
    BY <2>3, Recursion
<1>7. ASSUME NEW text \in D PROVE f[text] = next(text, f[Front(text)])
  <2>1. CASE text = <<>>
    <3>1. f[down[text]] \in Nat
      <4> HIDE DEF down, D
      <4> QED
        BY <1>2
    <3>2. f[text] = next(text, f[down[text]])
      <4> HIDE DEF next, D, step, down
      <4> QED
        BY <1>5, <1>6, <3>1
    <3> QED
      BY <2>1, <3>2
  <2>2. CASE text # <<>>
    <3>1. down[text] = Front(text)
      BY <2>2
    <3>2. f[down[text]] \in Nat
      <4> HIDE DEF down, D
      <4> QED
        BY <1>2
    <3> HIDE DEF next, D, step, down
    <3> QED
      BY <1>5, <1>6, <3>1, <3>2
  <2> QED
    BY <2>1, <2>2
<1>8. f = [text \in Seq(Digit) |-> IF text = <<>> THEN 0
                                   ELSE 10 * f[Front(text)] + DigitValue(Last(text))]
  BY <1>7
<1>9. Value = [text \in Seq(Digit) |-> IF text = <<>> THEN 0
                                       ELSE 10 * Value[Front(text)] + DigitValue(Last(text))]
  BY <1>8 DEF Value
<1>10. Value[<<>>] = 0
  BY <1>9
<1>11. ASSUME NEW text \in Seq(Digit) PROVE Value[text] \in Nat
  <2> SUFFICES ASSUME {t \in D : Value[t] \notin Nat} # {} PROVE FALSE
    BY <1>11
  <2>1. PICK t \in D : Value[t] \notin Nat /\ \A u \in D : Value[u] \notin Nat => Len(t) <= Len(u)
    <3> DEFINE B == {t \in D : Value[t] \notin Nat}
    <3>1. PICK t \in B : \A u \in B : size[t] <= size[u]
      <4>1. B \in SUBSET D /\ B # {}
        OBVIOUS
      <4> HIDE DEF B, D, size
      <4> QED
        BY <1>1, <4>1, LeastElement
    <3> QED
      BY <3>1
  <2>2. t # <<>>
    BY <1>10, <2>1
  <2>3. /\ Front(t) \in D /\ Len(Front(t)) = Len(t) - 1 /\ Len(t) \in Nat
        /\ DigitValue(Last(t)) \in 0 .. 9
    BY <2>2, FrontLast, ValueOfDigit
  <2>4. Value[Front(t)] \in Nat
    BY <2>1, <2>3
  <2>5. Value[t] = 10 * Value[Front(t)] + DigitValue(Last(t))
    BY <1>9, <2>2
  <2>6. Value[t] \in Nat
    <3> DEFINE v == Value[Front(t)]
               c == DigitValue(Last(t))
    <3>1. v \in Nat /\ c \in 0 .. 9 /\ Value[t] = 10 * v + c
      BY <2>3, <2>4, <2>5
    <3> HIDE DEF v, c
    <3> QED
      BY <3>1
  <2> QED
    BY <2>1, <2>6
<1>12. ASSUME NEW text \in Seq(Digit), NEW c \in Digit
       PROVE  Value[Append(text, c)] = 10 * Value[text] + DigitValue(c)
  <2>1. /\ Append(text, c) \in Seq(Digit) /\ Append(text, c) # <<>>
        /\ Front(Append(text, c)) = text /\ Last(Append(text, c)) = c
    BY FrontLastOfAppend
  <2> QED
    BY <1>9, <2>1
<1> QED
  BY <1>10, <1>11, <1>12

LEMMA ValueBounds ==
    ASSUME NEW text \in Seq(Digit), NEW c \in Digit
    PROVE  /\ Value[text] \in Nat /\ DigitValue(c) \in 0 .. 9
           /\ Value[Append(text, c)] = 10 * Value[text] + DigitValue(c)
           /\ Value[Append(text, c)] \in Nat
           /\ Value[Append(text, c)] \div 10 = Value[text]
           /\ Value[Append(text, c)] % 10 = DigitValue(c)
<1>1. /\ Value[text] \in Nat /\ DigitValue(c) \in 0 .. 9
      /\ Value[Append(text, c)] = 10 * Value[text] + DigitValue(c)
  BY ValueDef, ValueOfDigit
<1> DEFINE v == Value[text]
           d == DigitValue(c)
<1>2. v \in Nat /\ d \in 0 .. 9 => /\ 10 * v + d \in Nat
                                   /\ (10 * v + d) \div 10 = v /\ (10 * v + d) % 10 = d
  <2> HIDE DEF v, d
  <2> QED
    OBVIOUS
<1> QED
  BY <1>1, <1>2

\* A numeral is the one of its value, if it has no zero to begin with.
LEMMA NumeralOfValue ==
    ASSUME NEW text \in Seq(Digit), text # <<>>, text[1] # "0"
    PROVE  Value[text] >= 1 /\ Decimal[Value[text]] = text
<1> DEFINE Good(t) == Value[t] >= 1 /\ Decimal[Value[t]] = t
           B == {t \in Seq(Digit) : t # <<>> /\ t[1] # "0" /\ ~Good(t)}
           size == [t \in Seq(Digit) |-> Len(t)]
<1> SUFFICES ASSUME B # {} PROVE FALSE
  OBVIOUS
<1>1. PICK t \in B : \A u \in B : size[t] <= size[u]
  <2>1. B \in SUBSET Seq(Digit) /\ size \in [Seq(Digit) -> Nat]
    OBVIOUS
  <2> HIDE DEF B, size
  <2> QED
    BY <2>1, LeastElement
<1>2. t \in Seq(Digit) /\ t # <<>> /\ t[1] # "0" /\ ~Good(t)
  BY <1>1
<1>3. PICK s \in Seq(Digit), c \in Digit : t = Append(s, c)
  BY <1>2, SequenceEmptyOrAppend
<1>4. /\ Value[s] \in Nat /\ DigitValue(c) \in 0 .. 9 /\ Value[t] \in Nat
      /\ Value[t] = 10 * Value[s] + DigitValue(c)
      /\ Value[t] \div 10 = Value[s] /\ Value[t] % 10 = DigitValue(c)
      /\ Digits[DigitValue(c) + 1] = c
  BY <1>3, ValueBounds, ValueOfDigit
<1>5. Decimal[Value[t]] = IF Value[t] < 10 THEN <<Digits[Value[t] + 1]>>
                          ELSE Append(Decimal[Value[t] \div 10], Digits[(Value[t] % 10) + 1])
  BY <1>4, DecimalDef
<1>6. CASE s = <<>>
  <2>1. t = <<c>> /\ c # "0"
    BY <1>2, <1>3, <1>6
  <2>2. Value[t] = DigitValue(c)
    BY <1>4, <1>6, ValueDef
  <2>3. DigitValue(c) # 0
    BY <1>4, <2>1, ZeroDigit
  <2>4. Value[t] >= 1 /\ Value[t] < 10
    <3> DEFINE d == DigitValue(c)
    <3>1. d \in 0 .. 9 /\ d # 0 /\ Value[t] = d
      BY <1>4, <2>2, <2>3
    <3> HIDE DEF d
    <3> QED
      BY <3>1
  <2>5. Decimal[Value[t]] = <<c>>
    BY <1>4, <1>5, <2>2, <2>4
  <2> QED
    BY <1>2, <2>1, <2>4, <2>5
<1>7. CASE s # <<>>
  <2>1. s[1] = t[1] /\ Len(s) < Len(t)
    <3>1. 1 \in 1 .. Len(s)
      BY <1>7, EmptySeq
    <3> QED
      BY <1>3, <3>1, AppendProperties
  <2>2. s \notin B
    BY <1>1, <2>1
  <2>3. Value[s] >= 1 /\ Decimal[Value[s]] = s
    BY <1>2, <1>7, <2>1, <2>2
  <2>4. Value[t] >= 10
    <3> DEFINE v == Value[s]
               d == DigitValue(c)
    <3>1. v \in Nat /\ d \in 0 .. 9 /\ v >= 1 /\ Value[t] = 10 * v + d
      BY <1>4, <2>3
    <3> HIDE DEF v, d
    <3> QED
      BY <3>1
  <2>5. Decimal[Value[t]] = t
    <3>1. ~(Value[t] < 10)
      BY <1>4, <2>4
    <3>2. Decimal[Value[t]] = Append(Decimal[Value[s]], Digits[DigitValue(c) + 1])
      BY <1>4, <1>5, <3>1
    <3> QED
      BY <1>3, <1>4, <2>3, <3>2
  <2>6. Value[t] >= 1
    BY <1>4, <2>4
  <2> QED
    BY <1>2, <2>5, <2>6
<1> QED
  BY <1>6, <1>7

\* The numeral of a number has its value, and no zero to begin with.
LEMMA ValueOfNumeral ==
    ASSUME NEW n \in Nat
    PROVE  /\ Decimal[n] \in Seq(Digit) /\ Decimal[n] # <<>> /\ Value[Decimal[n]] = n
           /\ n > 0 => Decimal[n][1] # "0"
           /\ n = 0 => Len(Decimal[n]) = 1
<1> DEFINE Good(k) == /\ Decimal[k] # <<>> /\ Value[Decimal[k]] = k
                      /\ k > 0 => Decimal[k][1] # "0"
           B == {k \in Nat : ~Good(k)}
<1>1. ASSUME NEW k \in 0 .. 9
      PROVE  Good(k) /\ Decimal[k] = <<Digits[k + 1]>>
  <2>a. k \in Nat /\ k < 10
    OBVIOUS
  <2>b. Decimal[k] = <<Digits[k + 1]>>
    BY <2>a, DecimalDef
  <2>1. Decimal[k] = <<Digits[k + 1]>> /\ DigitValue(Digits[k + 1]) = k /\ Digits[k + 1] \in Digit
    BY <2>b, DigitOf
  <2>2. <<Digits[k + 1]>> = Append(<<>>, Digits[k + 1]) /\ <<>> \in Seq(Digit)
    OBVIOUS
  <2>3. Value[Decimal[k]] = 10 * 0 + k
    BY <2>1, <2>2, ValueDef
  <2>4. k > 0 => Digits[k + 1] # "0"
    BY ZeroDigit
  <2> QED
    BY <2>1, <2>3, <2>4
<1>2. B = {}
  <2> SUFFICES ASSUME B # {} PROVE FALSE
    OBVIOUS
  <2>1. PICK m \in B : \A k \in B : m <= k
    <3>1. B \in SUBSET Nat
      OBVIOUS
    <3> HIDE DEF B
    <3> QED
      BY <3>1, LeastNumber
  <2>2. m \in Nat /\ m >= 10 /\ m \div 10 \in Nat /\ m \div 10 < m /\ m \div 10 > 0 /\ m % 10 \in 0 .. 9
        /\ 10 * (m \div 10) + (m % 10) = m
    <3>1. m \in Nat /\ m \notin 0 .. 9
      BY <1>1, <2>1
    <3> QED
      BY <3>1
  <2>3. Good(m \div 10)
    BY <2>1, <2>2
  <2> DEFINE t == Decimal[m \div 10]
             c == Digits[(m % 10) + 1]
  <2>4. t \in Seq(Digit) /\ c \in Digit /\ DigitValue(c) = m % 10 /\ Decimal[m] = Append(t, c)
    <3>1. Decimal[m \div 10] \in Seq(Digit) /\ Decimal[m] = Append(t, c)
      <4>1. m \in Nat /\ ~(m < 10) /\ m \div 10 \in Nat
        BY <2>2
      <4>2. Decimal[m] = Append(t, c)
        BY <4>1, DecimalDef
      <4> QED
        BY <4>1, <4>2, DecimalDef
    <3>2. c \in Digit /\ DigitValue(c) = m % 10
      BY <2>2, DigitOf
    <3> QED
      BY <3>1, <3>2
  <2>5. Value[Decimal[m]] = 10 * (m \div 10) + (m % 10)
    BY <2>3, <2>4, ValueDef
  <2>6. Append(t, c) # <<>> /\ Append(t, c)[1] = t[1]
    <3>1. 1 \in 1 .. Len(t)
      BY <2>3, <2>4, EmptySeq
    <3> QED
      BY <2>4, <3>1, AppendProperties
  <2> QED
    BY <2>1, <2>2, <2>3, <2>4, <2>5, <2>6
<1>3. n = 0 => Len(Decimal[n]) = 1
  <2>1. 0 \in 0 .. 9
    OBVIOUS
  <2>2. Decimal[0] = <<Digits[0 + 1]>>
    BY <1>1, <2>1
  <2> QED
    BY <2>2
<1> QED
  BY <1>2, <1>3, DecimalDef

-----------------------------------------------------------------------------
(* Reading a text up to where it stops being what is read. *)

LEMMA SplitConcat ==
    ASSUME NEW S, NEW a \in Seq(S), NEW b \in Seq(S)
    PROVE  Split(a \o b, Len(a)) = [read |-> a, left |-> b]
<1>1. Len(a) \in Nat /\ Len(b) \in Nat /\ a \o b \in Seq(S) /\ Len(a \o b) = Len(a) + Len(b)
  BY ConcatProperties
<1>2. SubSeq(a \o b, 1, Len(a)) = a
  <2>1. CASE a = <<>>
    BY <2>1, SubSeqEmpty
  <2>2. CASE a # <<>>
    <3>1. Len(a) \in 1 .. Len(a) /\ 1 \in 1 .. Len(a)
      BY <2>2, EmptySeq
    <3> QED
      BY <3>1, SubSeqOfConcat1, SubSeqFull
  <2> QED
    BY <2>1, <2>2
<1>3. SubSeq(a \o b, Len(a) + 1, Len(a \o b)) = b
  <2> DEFINE m == Len(a) + 1
             n == Len(a) + Len(b)
  <2>1. CASE b = <<>>
    <3>1. m \in Int /\ n \in Int /\ n < m
      BY <1>1, <2>1
    <3> HIDE DEF m, n
    <3>2. SubSeq(a \o b, m, n) = <<>>
      BY <3>1, SubSeqEmpty
    <3> QED
      BY <1>1, <2>1, <3>2 DEF m, n
  <2>2. CASE b # <<>>
    <3>1. Len(b) >= 1
      BY <2>2, EmptySeq
    <3>2. m \in Len(a) + 1 .. Len(a) + Len(b) /\ n \in Len(a) + 1 .. Len(a) + Len(b)
          /\ m - Len(a) = 1 /\ n - Len(a) = Len(b)
      BY <1>1, <3>1
    <3> HIDE DEF m, n
    <3>3. SubSeq(a \o b, m, n) = SubSeq(b, 1, Len(b))
      BY <3>2, SubSeqOfConcat2
    <3> QED
      BY <1>1, <3>3, SubSeqFull DEF m, n
  <2> QED
    BY <2>1, <2>2
<1> QED
  BY <1>2, <1>3 DEF Split

LEMMA WhileConcat ==
    ASSUME NEW class, NEW a \in Seq(Character \cap class), NEW b \in Text,
           b = <<>> \/ b[1] \notin class
    PROVE  While(class)[a \o b] = [read |-> a, left |-> b]
<1> DEFINE text == a \o b
           I == {i \in 1 .. Len(text) : text[i] \notin class}
           i0 == IF I # {} THEN Min(I) ELSE 0
<1>1. a \in Text /\ \A i \in 1 .. Len(a) : a[i] \in class
  BY SeqMonotonic, ElementOfSeq DEF Text
<1>2. /\ text \in Text /\ Len(text) = Len(a) + Len(b) /\ Len(a) \in Nat /\ Len(b) \in Nat
      /\ \A i \in 1 .. Len(a) : text[i] \in class
      /\ b # <<>> => Len(b) >= 1 /\ text[Len(a) + 1] = b[1]
  <2>1. /\ text \in Text /\ Len(text) = Len(a) + Len(b)
        /\ \A i \in 1 .. Len(a) + Len(b) : text[i] = IF i <= Len(a) THEN a[i] ELSE b[i - Len(a)]
    BY <1>1, ConcatProperties DEF Text
  <2>2. Len(a) \in Nat /\ Len(b) \in Nat /\ (b # <<>> => Len(b) >= 1)
    BY <1>1, EmptySeq DEF Text
  <2> HIDE DEF text
  <2>3. \A i \in 1 .. Len(a) : text[i] \in class
    BY <1>1, <2>1, <2>2
  <2>4. b # <<>> => text[Len(a) + 1] = b[1]
    <3>1. Len(b) >= 1 => /\ Len(a) + 1 \in 1 .. Len(a) + Len(b) /\ ~(Len(a) + 1 <= Len(a))
                         /\ Len(a) + 1 - Len(a) = 1
      BY <2>2
    <3> QED
      BY <2>1, <2>2, <3>1
  <2> QED
    BY <2>1, <2>2, <2>3, <2>4
<1>3. While(class)[text] = Split(text, IF i0 = 0 THEN Len(text) ELSE i0 - 1)
  <2> HIDE DEF text
  <2> QED
    BY <1>2 DEF While, SelectInSeq
<1>4. (IF i0 = 0 THEN Len(text) ELSE i0 - 1) = Len(a)
  <2> HIDE DEF text
  <2>1. CASE b = <<>>
    <3>1. I = {}
      BY <1>2, <2>1
    <3> QED
      BY <1>2, <2>1, <3>1
  <2>2. CASE b # <<>>
    <3>1. Len(a) + 1 \in I /\ \A i \in I : Len(a) + 1 <= i
      BY <1>2, <2>2
    <3>2. I \in SUBSET Int
      BY <1>2
    <3> HIDE DEF I
    <3>3. Min(I) = Len(a) + 1
      BY <3>1, <3>2, MinIs
    <3> QED
      BY <1>2, <3>1, <3>3
  <2> QED
    BY <2>1, <2>2
<1> HIDE DEF i0
<1>5. While(class)[text] = Split(text, Len(a))
  BY <1>3, <1>4
<1> QED
  BY <1>1, <1>5, SplitConcat DEF Text

LEMMA UntilConcat ==
    ASSUME NEW class, NEW a \in Seq(Character \ class), NEW b \in Text,
           b = <<>> \/ b[1] \in class
    PROVE  Until(class)[a \o b] = [read |-> a, left |-> b]
<1> DEFINE text == a \o b
           other == Character \ class
           I == {i \in 1 .. Len(text) : text[i] \in class}
           J == {i \in 1 .. Len(text) : text[i] \notin other}
<1>1. a \in Text /\ text \in Text
  BY SeqMonotonic, ConcatProperties DEF Text
<1>2. I = J
  <2>1. \A i \in 1 .. Len(text) : text[i] \in Character
    BY <1>1, ElementOfSeq DEF Text
  <2> QED
    BY <2>1
<1>3. Until(class)[text] = While(other)[text]
  <2> HIDE DEF text, other
  <2>1. /\ Until(class)[text] = LET i == IF I # {} THEN Min(I) ELSE 0
                                IN  Split(text, IF i = 0 THEN Len(text) ELSE i - 1)
        /\ While(other)[text] = LET i == IF J # {} THEN Min(J) ELSE 0
                                IN  Split(text, IF i = 0 THEN Len(text) ELSE i - 1)
    BY <1>1 DEF Until, While, SelectInSeq
  <2> HIDE DEF I, J
  <2> QED
    BY <1>2, <2>1
<1>4. a \in Seq(Character \cap other)
  <2>1. Character \cap other = Character \ class
    OBVIOUS
  <2> QED
    BY <2>1
<1>5. b = <<>> \/ b[1] \notin other
  OBVIOUS
<1> HIDE DEF other
<1> QED
  BY <1>3, <1>4, <1>5, WhileConcat

\* Nothing of the class to read.
LEMMA WhileNothing ==
    ASSUME NEW class, NEW b \in Text, b = <<>> \/ b[1] \notin class
    PROVE  While(class)[b] = [read |-> <<>>, left |-> b]
<1>1. <<>> \in Seq(Character \cap class) /\ <<>> \o b = b
  BY ConcatEmptySeq DEF Text
<1>2. While(class)[<<>> \o b] = [read |-> <<>>, left |-> b]
  BY <1>1, WhileConcat
<1> QED
  BY <1>1, <1>2

LEMMA UntilNothing ==
    ASSUME NEW class, NEW a \in Seq(Character \ class)
    PROVE  a \in Text /\ Until(class)[a] = [read |-> a, left |-> <<>>]
<1>1. a \in Seq(Character) /\ <<>> \in Text /\ a \o <<>> = a
  BY SeqMonotonic, ConcatEmptySeq, EmptySeq DEF Text
<1>2. Until(class)[a \o <<>>] = [read |-> a, left |-> <<>>]
  BY <1>1, UntilConcat
<1> QED
  BY <1>1, <1>2 DEF Text

LEMMA ReadWordConcat ==
    ASSUME NEW word \in Seq(Character \ Space), word # <<>>,
           NEW b \in Text, b = <<>> \/ b[1] \in Space
    PROVE  ReadWord(word \o b) = [read |-> word, left |-> b]
<1>1. word \in Text /\ word[1] \notin Space /\ 1 \in 1 .. Len(word)
  BY SeqMonotonic, EmptySeq, ElementOfSeq DEF Text
<1>2. word \o b \in Text /\ (word \o b)[1] = word[1]
  BY <1>1, ConcatProperties DEF Text
<1>3. While(Space)[word \o b] = [read |-> <<>>, left |-> word \o b]
  BY <1>1, <1>2, WhileNothing
<1>4. Until(Space)[word \o b] = [read |-> word, left |-> b]
  BY UntilConcat
<1> QED
  BY <1>3, <1>4 DEF ReadWord, SkipSpace

\* The digits are none of the other characters that are looked for.
LEMMA DigitIs == Digit \subseteq Character \ {"blank", "\n", "+", "-", ":"}
<1>1. ASSUME NEW c \in Digit PROVE c \in Character \ {"blank", "\n", "+", "-", ":"}
  <2>1. PICK i \in 1 .. 10 : c = Digits[i]
    BY DEF Digit, Digits, ToSet
  <2>2. c \notin {"blank", "\n", "+", "-", ":"}
    BY <2>1 DEF Digits
  <2> QED
    BY <2>2 DEF Character
<1> QED
  BY <1>1

LEMMA CharactersAre ==
    /\ Digit \subseteq Character /\ Keywords \subseteq Character /\ Space \subseteq Character
    /\ {"blank", "\n", "+", "-", ":"} \subseteq Character /\ Others \subseteq Character
BY DEF Character, Space

LEMMA NumeralConcat ==
    ASSUME NEW n \in Nat, NEW b \in Text
    PROVE  /\ Decimal[n] \in Text /\ Decimal[n] \o b \in Text /\ Decimal[n] \o b # <<>>
           /\ (Decimal[n] \o b)[1] \in Digit
<1>1. Decimal[n] \in Seq(Digit) /\ Decimal[n] # <<>>
  BY ValueOfNumeral
<1>2. Decimal[n] \in Text /\ 1 \in 1 .. Len(Decimal[n]) /\ Decimal[n][1] \in Digit
  BY <1>1, DigitIs, SeqMonotonic, EmptySeq, ElementOfSeq DEF Text
<1>3. Decimal[n] \o b \in Text /\ (Decimal[n] \o b)[1] = Decimal[n][1]
  BY <1>2, ConcatProperties DEF Text
<1>4. Decimal[n] \o b # <<>>
  BY <1>1, <1>2, ConcatEqualIffEmpty DEF Text
<1> QED
  BY <1>2, <1>3, <1>4

\* A number that was written is read back, and what follows it is left.
LEMMA ReadDecimal ==
    ASSUME NEW n \in Nat, NEW b \in Text, b = <<>> \/ b[1] \notin Digit, NEW limit
    PROVE  ReadNumber(<<"blank">> \o (Decimal[n] \o b), limit)
             = [ok |-> n <= limit, value |-> n, left |-> b]
<1> DEFINE text == Decimal[n] \o b
<1>1. text \in Text /\ text # <<>> /\ text[1] \in Digit
  BY NumeralConcat
<1>2. SkipSpace(<<"blank">> \o text) = text
  <2>1. "blank" \in Character \cap Space /\ text[1] \notin Space
    BY <1>1, DigitIs, CharactersAre DEF Space
  <2>2. <<"blank">> \in Seq(Character \cap Space)
    BY <2>1, ShortSeq
  <2> HIDE DEF text
  <2>3. While(Space)[<<"blank">> \o text] = [read |-> <<"blank">>, left |-> text]
    BY <1>1, <2>1, <2>2, WhileConcat
  <2> QED
    BY <2>3 DEF SkipSpace
<1>3. While({"+", "-"})[text] = [read |-> <<>>, left |-> text]
  <2>1. text[1] \notin {"+", "-"}
    BY <1>1, DigitIs
  <2> HIDE DEF text
  <2> QED
    BY <1>1, <2>1, WhileNothing
<1>4. While(Digit)[text] = [read |-> Decimal[n], left |-> b]
  <2>1. Character \cap Digit = Digit
    BY DigitIs
  <2>2. Decimal[n] \in Seq(Character \cap Digit)
    BY <2>1, ValueOfNumeral
  <2> QED
    BY <2>2, WhileConcat
<1>5. Decimal[n] # <<>> /\ Value[Decimal[n]] = n /\ Len(<<>>) <= 1 /\ <<>> # <<"-">>
  BY ValueOfNumeral
<1> HIDE DEF text
<1>6. ReadNumber(<<"blank">> \o text, limit) = [ok |-> n <= limit, value |-> n, left |-> b]
  BY <1>2, <1>3, <1>4, <1>5 DEF ReadNumber
<1> QED
  BY <1>6 DEF text

-----------------------------------------------------------------------------
(* Messages and commands *)

LEMMA MessageConcat ==
    ASSUME NEW kind \in Character \ {":"}, NEW content \in Text
    PROVE  LET data == Append(<<kind, ":">> \o content, "\n")
               head == Until({":"})[Front(data)]
           IN  /\ IsValidMessageFormat(data)
               /\ head.read = <<kind>> /\ Tail(head.left) = content
<1> DEFINE body == <<kind, ":">> \o content
           data == Append(body, "\n")
<1>1. /\ <<kind, ":">> \in Text /\ <<kind>> \in Seq(Character \ {":"}) /\ <<kind>> \in Text
      /\ <<":">> \in Text /\ "\n" \in Character /\ content \in Seq(Character)
      /\ <<kind>> \o <<":">> = <<kind, ":">>
  BY CharactersAre, ShortSeq DEF Text
<1>2. body \in Text /\ Len(body) = 2 + Len(content) /\ body[2] = ":"
  <2>1. Len(<<kind, ":">>) = 2 /\ <<kind, ":">>[2] = ":" /\ Len(content) \in Nat
    BY DEF Text
  <2>2. 2 \in 1 .. 2 + Len(content)
    BY <2>1
  <2> QED
    BY <1>1, <2>1, <2>2, ConcatProperties DEF Text
<1>3. /\ data # <<>> /\ Front(data) = body /\ Last(data) = "\n"
      /\ 2 \in 1 .. Len(data) /\ data[2] = ":" /\ data \in Text
  <2>1. body \in Seq(Character) /\ Len(content) \in Nat
    BY <1>2 DEF Text
  <2>2. 2 \in 1 .. Len(body)
    BY <1>2, <2>1
  <2> HIDE DEF body
  <2> QED
    BY <1>1, <1>2, <2>1, <2>2, AppendProperties, FrontLastOfAppend DEF Text
<1>4. body = <<kind>> \o (<<":">> \o content)
  BY <1>1, ConcatAssociative DEF Text
<1>5. /\ <<":">> \o content \in Text /\ (<<":">> \o content)[1] = ":"
      /\ Tail(<<":">> \o content) = content
  <2>1. /\ <<":">> \o content \in Seq(Character) /\ Len(<<":">> \o content) = 1 + Len(content)
        /\ (<<":">> \o content)[1] = ":"
        /\ \A i \in 2 .. 1 + Len(content) : (<<":">> \o content)[i] = content[i - 1]
    BY <1>1, ConcatProperties DEF Text
  <2> DEFINE left == <<":">> \o content
  <2>2. Len(content) \in Nat /\ left # <<>>
    BY <1>1, <2>1, ConcatEqualIffEmpty DEF Text
  <2> HIDE DEF left
  <2>3. /\ Tail(left) \in Seq(Character) /\ Len(Tail(left)) = Len(content)
        /\ \A i \in 1 .. Len(Tail(left)) : Tail(left)[i] = left[i + 1]
    BY <2>1, <2>2, HeadTailProperties DEF left
  <2>4. \A i \in 1 .. Len(content) : Tail(left)[i] = content[i]
    BY <2>1, <2>2, <2>3 DEF left
  <2> QED
    BY <1>1, <2>1, <2>3, <2>4, SeqEqual DEF left, Text
<1>6. Until({":"})[Front(data)] = [read |-> <<kind>>, left |-> <<":">> \o content]
  <2>1. Until({":"})[<<kind>> \o (<<":">> \o content)]
          = [read |-> <<kind>>, left |-> <<":">> \o content]
    BY <1>1, <1>5, UntilConcat
  <2> QED
    BY <1>3, <1>4, <2>1
<1>7. IsValidMessageFormat(data)
  <2> HIDE DEF data
  <2> QED
    BY <1>3 DEF IsValidMessageFormat, ToSet, Text
<1>8. /\ Until({":"})[Front(data)].read = <<kind>>
      /\ Tail(Until({":"})[Front(data)].left) = content
  <2> HIDE DEF data
  <2> QED
    BY <1>5, <1>6
<1> QED
  BY <1>7, <1>8

LEMMA TypeOfWord ==
    ASSUME NEW type \in CommandTypes
    PROVE  /\ CommandTypeToString(type) \in Keywords
           /\ StringToCommandType(<<CommandTypeToString(type)>>) = type
<1> DEFINE known == {t \in CommandTypes : <<CommandTypeToString(type)>> = <<CommandTypeToString(t)>>}
<1>1. CommandTypeToString(type) \in Keywords
  BY DEF CommandTypeToString, CommandTypes, Keywords
<1>2. ASSUME NEW t \in CommandTypes, CommandTypeToString(type) = CommandTypeToString(t)
      PROVE  t = type
  BY <1>2 DEF CommandTypeToString, CommandTypes
<1>3. known = {type}
  <2>1. \A t \in CommandTypes : <<CommandTypeToString(type)>> = <<CommandTypeToString(t)>>
                                  => CommandTypeToString(type) = CommandTypeToString(t)
    OBVIOUS
  <2> QED
    BY <1>2, <2>1
<1>4. (CHOOSE t \in known : TRUE) = type
  BY <1>3
<1> QED
  BY <1>1, <1>3, <1>4 DEF StringToCommandType

LEMMA CommandOfContent ==
    ASSUME NEW c \in Commands
    PROVE  LET numeral == IF TakesNumber(c.type) THEN <<"blank">> \o Decimal[c.number] ELSE <<>>
               content == <<CommandTypeToString(c.type)>> \o numeral
           IN  /\ numeral \in Text /\ content \in Text
               /\ CommandOf[content] = c
<1> DEFINE word == CommandTypeToString(c.type)
           numeral == IF TakesNumber(c.type) THEN <<"blank">> \o Decimal[c.number] ELSE <<>>
           content == <<word>> \o numeral
<1>1. /\ c.type \in CommandTypes /\ c.number \in 0 .. MaxUint /\ c = [type |-> c.type, number |-> c.number]
      /\ ~TakesNumber(c.type) => c.number = 0
  BY DEF Commands
<1>2. word \in Keywords /\ StringToCommandType(<<word>>) = c.type
  BY <1>1, TypeOfWord
<1>3. c.number \in Nat /\ c.number <= MaxUint
  BY <1>1, ProtocolAssumption
<1>4. numeral \in Text /\ (numeral = <<>> \/ numeral[1] \in Space)
  <2>1. CASE TakesNumber(c.type)
    <3>1. Decimal[c.number] \in Seq(Character)
      BY <1>3, DigitIs, ValueOfNumeral, SeqMonotonic
    <3>2. <<"blank">> \in Seq(Character) /\ Len(<<"blank">>) = 1
      BY CharactersAre
    <3>3. <<"blank">> \o Decimal[c.number] \in Seq(Character)
          /\ (<<"blank">> \o Decimal[c.number])[1] = "blank"
      BY <3>1, <3>2, ConcatProperties
    <3> QED
      BY <2>1, <3>3 DEF Text, Space
  <2>2. CASE ~TakesNumber(c.type)
    BY <2>2, EmptySeq DEF Text
  <2> QED
    BY <2>1, <2>2
<1>5. word \in Character \ Space
  BY <1>2, CharactersAre DEF Keywords, Space
<1>6. <<word>> \in Seq(Character \ Space) /\ <<word>> # <<>> /\ <<word>> \in Text
  <2> HIDE DEF word
  <2> QED
    BY <1>5 DEF Text
<1>7. content \in Text
  BY <1>4, <1>6, ConcatProperties DEF Text
<1>8. ReadWord(content) = [read |-> <<word>>, left |-> numeral]
  <2> HIDE DEF word, numeral
  <2> QED
    BY <1>4, <1>6, ReadWordConcat
<1>9. TakesNumber(c.type) =>
        ReadNumber(numeral, MaxUint) = [ok |-> TRUE, value |-> c.number, left |-> <<>>]
  <2>1. ReadNumber(<<"blank">> \o (Decimal[c.number] \o <<>>), MaxUint)
          = [ok |-> c.number <= MaxUint, value |-> c.number, left |-> <<>>]
    BY <1>3, ReadDecimal, EmptySeq DEF Text
  <2>2. Decimal[c.number] \o <<>> = Decimal[c.number]
    BY <1>3, ValueOfNumeral, ConcatEmptySeq
  <2> QED
    BY <1>3, <2>1, <2>2
<1>10. /\ ReadWord(content).read = <<word>> /\ ReadWord(content).left = numeral
  <2> HIDE DEF word, numeral, content
  <2> QED
    BY <1>8
<1>11. CommandOf[content] = c
  <2> HIDE DEF word, numeral, content
  <2>1. CommandOf[content] =
          IF ~TakesNumber(c.type) THEN [type |-> c.type, number |-> 0]
          ELSE IF ReadNumber(numeral, MaxUint).ok
               THEN [type |-> c.type, number |-> ReadNumber(numeral, MaxUint).value]
          ELSE Null
    BY <1>2, <1>7, <1>10 DEF CommandOf
  <2> QED
    BY <1>1, <1>9, <2>1
<1> QED
  BY <1>4, <1>7, <1>11

(* Whatever command is sent is the command the daemon reads                *)
(* (Command.cxx:19-47 inverts Command.cxx:11-17 and 49-63, with            *)
(* MessageSerializer.cxx).                                                 *)
THEOREM CommandsAreReadBack ==
    \A c \in Commands : DeserializeCommand(SerializeCommand(c)) = c
<1> SUFFICES ASSUME NEW c \in Commands PROVE DeserializeCommand(SerializeCommand(c)) = c
  OBVIOUS
<1> DEFINE word == CommandTypeToString(c.type)
           numeral == IF TakesNumber(c.type) THEN <<"blank">> \o Decimal[c.number] ELSE <<>>
           content == <<word>> \o numeral
<1>1. numeral \in Text /\ content \in Text /\ CommandOf[content] = c
  BY CommandOfContent
<1>2. word \in Character /\ "CMD" \in Character \ {":"} /\ "\n" \in Character /\ ":" \in Character
  <2>1. c.type \in CommandTypes
    BY DEF Commands
  <2> QED
    BY <2>1, TypeOfWord, CharactersAre DEF Keywords
<1> HIDE DEF word, numeral
<1>3. <<"CMD", ":", word>> = <<"CMD", ":">> \o <<word>>
  BY <1>2
<1>4. SerializeCommand(c) = Append(<<"CMD", ":">> \o content, "\n")
  <2>1. SerializeCommand(c) = (<<"CMD", ":", word>> \o numeral) \o <<"\n">>
    BY DEF SerializeCommand, word, numeral
  <2>2. <<"CMD", ":">> \in Seq(Character) /\ <<word>> \in Seq(Character) /\ numeral \in Seq(Character)
    BY <1>1, <1>2 DEF Text
  <2>3. (<<"CMD", ":">> \o <<word>>) \o numeral = <<"CMD", ":">> \o content
    BY <2>2, ConcatAssociative
  <2>4. <<"CMD", ":">> \o content \in Seq(Character)
    BY <1>1, <2>2, ConcatProperties DEF Text
  <2> QED
    BY <1>2, <1>3, <2>1, <2>3, <2>4, AppendIsConcat
<1> HIDE DEF content
<1>5. /\ IsValidMessageFormat(SerializeCommand(c))
      /\ Until({":"})[Front(SerializeCommand(c))].read = <<"CMD">>
      /\ Tail(Until({":"})[Front(SerializeCommand(c))].left) = content
  BY <1>1, <1>2, <1>4, MessageConcat
<1> QED
  BY <1>1, <1>5 DEF DeserializeCommand, Deserialize

-----------------------------------------------------------------------------
(* Validator *)

(* A text is accepted just if it is the numeral of a number in             *)
(* 1 .. MaxUint, the limits included: no leading zero, no sign, no other   *)
(* character (Validator.cxx:7-73).                                         *)
THEOREM NumeralsAreAccepted ==
    \A text \in Text : Accepts(text) <=> \E n \in 1 .. MaxUint : text = Decimal[n]
<1> SUFFICES ASSUME NEW text \in Text
             PROVE  Accepts(text) <=> \E n \in 1 .. MaxUint : text = Decimal[n]
  OBVIOUS
<1>1. ASSUME Accepts(text) PROVE Value[text] \in 1 .. MaxUint /\ text = Decimal[Value[text]]
  <2>1. /\ text # <<>> /\ (Len(text) > 1 => text[1] # "0") /\ ToSet(text) \subseteq Digit
        /\ Value[text] > 0 /\ Value[text] <= MaxUint
    BY <1>1 DEF Accepts, IsValidNumber, FitsUint64, IsPositiveInteger
  <2>2. text \in Seq(Digit)
    <3>1. Len(text) \in Nat /\ text = [i \in 1 .. Len(text) |-> text[i]]
      BY DEF Text
    <3>2. \A i \in 1 .. Len(text) : text[i] \in Digit
      BY <2>1 DEF ToSet, Text
    <3> QED
      BY <3>1, <3>2, SeqDef
  <2>3. Value[text] \in Nat
    BY <2>2, ValueDef, ZeroDigit
  <2>4. text[1] # "0"
    <3> SUFFICES ASSUME text[1] = "0" PROVE FALSE
      OBVIOUS
    <3>1. Len(text) = 1
      <4>1. text \in Seq(Character) /\ Len(text) \in Nat /\ Len(text) # 0
        BY <2>1, EmptySeq DEF Text
      <4>2. ~(Len(text) > 1)
        BY <2>1
      <4> DEFINE length == Len(text)
      <4>3. length \in Nat /\ length # 0 /\ ~(length > 1)
        BY <4>1, <4>2
      <4> HIDE DEF length
      <4>4. length = 1
        BY <4>3
      <4> QED
        BY <4>4 DEF length
    <3>2. text = Append(<<>>, "0") /\ <<>> \in Seq(Digit)
      BY <3>1, EmptySeq DEF Text
    <3>3. Value[text] = 10 * Value[<<>>] + DigitValue("0")
      BY <3>2, ZeroDigit, ValueDef
    <3> QED
      BY <2>1, <3>3, ValueDef, ZeroDigit
  <2> QED
    BY <2>1, <2>2, <2>3, <2>4, NumeralOfValue, ProtocolAssumption
<1>2. ASSUME NEW n \in 1 .. MaxUint, text = Decimal[n] PROVE Accepts(text)
  <2>1. n \in Nat /\ n > 0 /\ n <= MaxUint
    BY ProtocolAssumption
  <2>2. text \in Seq(Digit) /\ text # <<>> /\ Value[text] = n /\ text[1] # "0"
    BY <1>2, <2>1, ValueOfNumeral
  <2>3. ToSet(text) \subseteq Digit
    BY <2>2, ElementOfSeq DEF ToSet
  <2> QED
    BY <2>1, <2>2, <2>3 DEF Accepts, IsValidNumber, FitsUint64, IsPositiveInteger
<1> QED
  BY <1>1, <1>2

-----------------------------------------------------------------------------
(* Responses *)

LEMMA MessageIs ==
    ASSUME NEW data \in Seq(Character \ {"\n"})
    PROVE  LET tail == IF data = <<>> THEN <<>> ELSE <<"blank">> \o data
           IN  /\ tail \in Text /\ (tail = <<>> \/ tail[1] = "blank")
               /\ MessageOf(tail) = data
<1> DEFINE tail == IF data = <<>> THEN <<>> ELSE <<"blank">> \o data
           other == Character \ {"\n"}
<1>1. "blank" \in other /\ data \in Seq(other)
  BY CharactersAre
<1>2. CASE data = <<>>
  <2>1. tail = <<>> /\ tail \in Text /\ tail \in Seq(other)
    BY <1>2, EmptySeq DEF Text
  <2> HIDE DEF tail
  <2>2. ReadLine(tail) = tail
    <3>1. Until({"\n"})[tail] = [read |-> tail, left |-> <<>>]
      BY <2>1, UntilNothing
    <3> QED
      BY <3>1 DEF ReadLine
  <2>3. MessageOf(tail) = data
    BY <1>2, <2>1, <2>2 DEF MessageOf
  <2> QED
    BY <2>1, <2>3 DEF tail
<1>3. CASE data # <<>>
  <2> HIDE DEF other
  <2>1. /\ tail = <<"blank">> \o data /\ tail \in Seq(other) /\ tail # <<>> /\ tail[1] = "blank"
        /\ Len(tail) = 1 + Len(data) /\ \A i \in 2 .. 1 + Len(data) : tail[i] = data[i - 1]
    BY <1>1, <1>3, ConcatProperties, ConcatEqualIffEmpty
  <2>2. tail \in Text
    BY <2>1, SeqMonotonic DEF Text, other
  <2>3. ReadLine(tail) = tail
    <3> HIDE DEF tail
    <3>1. Until({"\n"})[tail] = [read |-> tail, left |-> <<>>]
      BY <2>1, UntilNothing DEF other
    <3> QED
      BY <3>1 DEF ReadLine
  <2> HIDE DEF tail
  <2>4. Tail(tail) = data
    <3>1. /\ Tail(tail) \in Seq(other) /\ Len(Tail(tail)) = Len(data) /\ Len(data) \in Nat
          /\ \A i \in 1 .. Len(Tail(tail)) : Tail(tail)[i] = tail[i + 1]
      BY <1>1, <2>1, HeadTailProperties
    <3>2. \A i \in 1 .. Len(data) : Tail(tail)[i] = data[i]
      BY <2>1, <3>1
    <3> QED
      BY <1>1, <3>1, <3>2, SeqEqual
  <2>5. MessageOf(tail) = data
    BY <2>1, <2>3, <2>4 DEF MessageOf
  <2> QED
    BY <2>1, <2>2, <2>5 DEF tail
<1> QED
  BY <1>2, <1>3

\* What is left of printed data: all but the newline at their end.
WithoutLastNewline(data) == IF data # <<>> /\ Last(data) = "\n" THEN Front(data) ELSE data

LEMMA LinesAre ==
    ASSUME NEW data \in Text, data = <<>> \/ data[1] # "\n"
    PROVE  LET tail == IF data = <<>> THEN <<>> ELSE <<"\n">> \o data
           IN  /\ tail \in Text /\ (tail = <<>> \/ tail[1] = "\n")
               /\ Lines(tail) = WithoutLastNewline(data)
<1> DEFINE tail == IF data = <<>> THEN <<>> ELSE <<"\n">> \o data
<1>1. "\n" \in Character \cap {"\n"} /\ data \in Seq(Character)
  BY CharactersAre DEF Text
<1>2. tail \in Text /\ (tail = <<>> \/ tail[1] = "\n")
  BY <1>1, ConcatProperties, EmptySeq DEF Text
<1>3. While({"\n"})[tail] = [read |-> IF data = <<>> THEN <<>> ELSE <<"\n">>, left |-> data]
  <2>1. CASE data = <<>>
    BY <2>1, <1>2, WhileNothing
  <2>2. CASE data # <<>>
    <3>1. <<"\n">> \in Seq(Character \cap {"\n"})
      BY <1>1
    <3>2. While({"\n"})[<<"\n">> \o data] = [read |-> <<"\n">>, left |-> data]
      BY <2>2, <3>1, WhileConcat
    <3> QED
      BY <2>2, <3>2
  <2> QED
    BY <2>1, <2>2
<1> HIDE DEF tail
<1>4. While({"\n"})[tail].left = data
  BY <1>3
<1>5. Lines(tail) = WithoutLastNewline(data)
  BY <1>4 DEF Lines, WithoutLastNewline
<1> QED
  BY <1>2, <1>5 DEF tail

\* What the daemon may answer: only errors carry a code, a message is one line,
\* and printed data do not begin with an empty one.
Replies == {r \in [type : {"SUCCESS", "DATA", "ERROR"}, code : 0 .. MaxInt, data : Text] :
    /\ r.type # "ERROR" => r.code = 0
    /\ r.type # "DATA" => r.data \in Seq(Character \ {"\n"})
    /\ r.type = "DATA" => r.data = <<>> \/ r.data[1] # "\n"}

\* What the client makes of it.
Received(r) == [type |-> r.type, code |-> r.code,
                data |-> IF r.type = "DATA" THEN WithoutLastNewline(r.data) ELSE r.data]

\* The parts of a response as they are written.
Code(r) == IF r.type = "ERROR" THEN <<"blank">> \o Decimal[r.code] ELSE <<>>
Data(r) == IF r.data = <<>> THEN <<>>
           ELSE (IF r.type = "DATA" THEN <<"\n">> ELSE <<"blank">>) \o r.data

LEMMA PartsAre ==
    ASSUME NEW r \in Replies
    PROVE  /\ r.type \in {"SUCCESS", "DATA", "ERROR"} /\ r.code \in Nat /\ r.code <= MaxInt
           /\ r.type # "ERROR" => r.code = 0
           /\ Code(r) \in Text /\ Data(r) \in Text /\ Code(r) \o Data(r) \in Text
           /\ Code(r) \o Data(r) = <<>> \/ (Code(r) \o Data(r))[1] \in Space
           /\ r.type # "ERROR" => Code(r) \o Data(r) = Data(r)
           /\ r.type = "DATA" => Lines(Data(r)) = WithoutLastNewline(r.data)
           /\ r.type # "DATA" => MessageOf(Data(r)) = r.data
           /\ r.type = "ERROR" =>
                ReadNumber(Code(r) \o Data(r), MaxInt)
                  = [ok |-> TRUE, value |-> r.code, left |-> Data(r)]
<1>1. /\ r.type \in {"SUCCESS", "DATA", "ERROR"} /\ r.code \in Nat /\ r.code <= MaxInt
      /\ r.data \in Text /\ (r.type # "ERROR" => r.code = 0)
      /\ (r.type # "DATA" => r.data \in Seq(Character \ {"\n"}))
      /\ (r.type = "DATA" => r.data = <<>> \/ r.data[1] # "\n")
  BY ProtocolAssumption DEF Replies
<1>2. /\ Data(r) \in Text /\ (Data(r) = <<>> \/ Data(r)[1] \in Space)
      /\ r.type = "DATA" => Lines(Data(r)) = WithoutLastNewline(r.data)
      /\ r.type # "DATA" => MessageOf(Data(r)) = r.data
  <2>1. CASE r.type = "DATA"
    <3> DEFINE tail == IF r.data = <<>> THEN <<>> ELSE <<"\n">> \o r.data
    <3>1. tail \in Text /\ (tail = <<>> \/ tail[1] = "\n") /\ Lines(tail) = WithoutLastNewline(r.data)
      BY <1>1, <2>1, LinesAre
    <3>2. Data(r) = tail
      BY <2>1 DEF Data
    <3> HIDE DEF tail
    <3> QED
      BY <2>1, <3>1, <3>2 DEF Space
  <2>2. CASE r.type # "DATA"
    <3> DEFINE tail == IF r.data = <<>> THEN <<>> ELSE <<"blank">> \o r.data
    <3>1. tail \in Text /\ (tail = <<>> \/ tail[1] = "blank") /\ MessageOf(tail) = r.data
      BY <1>1, <2>2, MessageIs
    <3>2. Data(r) = tail
      BY <2>2 DEF Data
    <3> HIDE DEF tail
    <3> QED
      BY <2>2, <3>1, <3>2 DEF Space
  <2> QED
    BY <2>1, <2>2
<1>3. r.type # "ERROR" => Code(r) \in Text /\ Code(r) \o Data(r) = Data(r)
  BY <1>2, EmptySeq, ConcatEmptySeq DEF Code, Text
<1>4. r.type = "ERROR" =>
        /\ Code(r) \in Text /\ Code(r) \o Data(r) \in Text /\ (Code(r) \o Data(r))[1] = "blank"
        /\ ReadNumber(Code(r) \o Data(r), MaxInt)
             = [ok |-> TRUE, value |-> r.code, left |-> Data(r)]
  <2> SUFFICES ASSUME r.type = "ERROR"
               PROVE  /\ Code(r) \in Text /\ Code(r) \o Data(r) \in Text
                      /\ (Code(r) \o Data(r))[1] = "blank"
                      /\ ReadNumber(Code(r) \o Data(r), MaxInt)
                           = [ok |-> TRUE, value |-> r.code, left |-> Data(r)]
    OBVIOUS
  <2> DEFINE numeral == Decimal[r.code]
  <2>1. numeral \in Text /\ numeral \o Data(r) \in Text
    BY <1>1, <1>2, NumeralConcat
  <2>2. <<"blank">> \in Seq(Character) /\ Len(<<"blank">>) = 1
    BY CharactersAre
  <2>3. Code(r) = <<"blank">> \o numeral
    BY DEF Code
  <2>4. Data(r) = <<>> \/ Data(r)[1] \notin Digit
    <3>1. Data(r) = <<>> \/ Data(r)[1] \in {"blank", "\n"}
      BY <1>2 DEF Space
    <3> QED
      BY <3>1, DigitIs
  <2>5. ReadNumber(<<"blank">> \o (numeral \o Data(r)), MaxInt)
          = [ok |-> r.code <= MaxInt, value |-> r.code, left |-> Data(r)]
    BY <1>1, <1>2, <2>4, ReadDecimal
  <2> HIDE DEF numeral
  <2>6. Code(r) \in Text /\ Code(r) \o Data(r) = <<"blank">> \o (numeral \o Data(r))
    BY <1>2, <2>1, <2>2, <2>3, ConcatProperties, ConcatAssociative DEF Text
  <2>7. /\ <<"blank">> \o (numeral \o Data(r)) \in Text
        /\ (<<"blank">> \o (numeral \o Data(r)))[1] = "blank"
    BY <2>1, <2>2, ConcatProperties DEF Text
  <2> QED
    BY <1>1, <2>5, <2>6, <2>7
<1>5. r.type = "ERROR" => (Code(r) \o Data(r))[1] \in Space
  BY <1>4 DEF Space
<1> QED
  BY <1>1, <1>2, <1>3, <1>4, <1>5

LEMMA ResponseOfContent ==
    ASSUME NEW r \in Replies
    PROVE  /\ <<r.type>> \o (Code(r) \o Data(r)) \in Text
           /\ ResponseOf[<<r.type>> \o (Code(r) \o Data(r))] = Received(r)
<1> DEFINE tail == Code(r) \o Data(r)
           content == <<r.type>> \o tail
<1>1. /\ r.type \in {"SUCCESS", "DATA", "ERROR"} /\ (r.type # "ERROR" => r.code = 0)
      /\ tail \in Text /\ (tail = <<>> \/ tail[1] \in Space)
  BY PartsAre
<1> HIDE DEF tail
<1>2. r.type \in Character \ Space
  BY <1>1, CharactersAre DEF Keywords, Space
<1>3. <<r.type>> \in Seq(Character \ Space) /\ <<r.type>> # <<>> /\ <<r.type>> \in Text
  BY <1>2 DEF Text
<1>4. content \in Text
  BY <1>1, <1>3, ConcatProperties DEF Text
<1>5. ReadWord(content) = [read |-> <<r.type>>, left |-> tail]
  BY <1>1, <1>3, ReadWordConcat
<1> HIDE DEF content
<1>6. ReadWord(content).read = <<r.type>> /\ ReadWord(content).left = tail
  BY <1>5
<1>7. (IF <<r.type>> \in {<<"SUCCESS">>, <<"DATA">>} THEN <<r.type>>[1] ELSE "ERROR") = r.type
  BY <1>1
<1>8. ResponseOf[content] =
        CASE r.type = "DATA" -> [type |-> r.type, code |-> 0, data |-> Lines(tail)]
          [] r.type = "SUCCESS" -> [type |-> r.type, code |-> 0, data |-> MessageOf(tail)]
          [] r.type = "ERROR" /\ ReadNumber(tail, MaxInt).ok ->
                [type |-> r.type, code |-> ReadNumber(tail, MaxInt).value,
                 data |-> MessageOf(ReadNumber(tail, MaxInt).left)]
          [] OTHER -> Null
  BY <1>4, <1>6, <1>7 DEF ResponseOf
<1>9. CASE r.type = "DATA"
  <2>1. Lines(tail) = WithoutLastNewline(r.data) /\ r.code = 0
    BY <1>9, PartsAre DEF tail
  <2>2. ResponseOf[content] = [type |-> r.type, code |-> 0, data |-> Lines(tail)]
    BY <1>8, <1>9
  <2> QED
    BY <1>4, <1>9, <2>1, <2>2 DEF Received, content, tail
<1>10. CASE r.type = "SUCCESS"
  <2>1. MessageOf(tail) = r.data /\ r.code = 0
    BY <1>10, PartsAre DEF tail
  <2>2. ResponseOf[content] = [type |-> r.type, code |-> 0, data |-> MessageOf(tail)]
    BY <1>8, <1>10
  <2> QED
    BY <1>4, <1>10, <2>1, <2>2 DEF Received, content, tail
<1>11. CASE r.type = "ERROR"
  <2>1. ReadNumber(tail, MaxInt) = [ok |-> TRUE, value |-> r.code, left |-> Data(r)]
        /\ MessageOf(Data(r)) = r.data
    BY <1>11, PartsAre DEF tail
  <2>2. /\ ReadNumber(tail, MaxInt).ok /\ ReadNumber(tail, MaxInt).value = r.code
        /\ MessageOf(ReadNumber(tail, MaxInt).left) = r.data
    BY <2>1
  <2>3. ResponseOf[content] = [type |-> r.type, code |-> r.code, data |-> r.data]
    BY <1>8, <1>11, <2>2
  <2> QED
    BY <1>4, <1>11, <2>3 DEF Received, content, tail
<1> QED
  BY <1>1, <1>9, <1>10, <1>11

(* Whatever response the daemon writes, the client reads its type, its     *)
(* code and its text, all but the newline that ends printed data           *)
(* (Response.cxx:27-88 against Response.cxx:90-136, with                   *)
(* MessageSerializer.cxx).                                                 *)
THEOREM ResponsesAreReadBack ==
    \A r \in Replies : DeserializeResponse(SerializeResponse(r)) = Received(r)
<1> SUFFICES ASSUME NEW r \in Replies
             PROVE  DeserializeResponse(SerializeResponse(r)) = Received(r)
  OBVIOUS
<1> DEFINE content == <<r.type>> \o (Code(r) \o Data(r))
           body == <<"RESP", ":">> \o content
<1>1. content \in Text /\ ResponseOf[content] = Received(r)
  BY ResponseOfContent
<1>2. /\ r.type \in Character /\ "RESP" \in Character \ {":"} /\ "\n" \in Character /\ ":" \in Character
      /\ Code(r) \in Seq(Character) /\ Data(r) \in Seq(Character)
  <2>1. r.type \in {"SUCCESS", "DATA", "ERROR"} /\ Code(r) \in Text /\ Data(r) \in Text
    BY PartsAre
  <2> QED
    BY <2>1, CharactersAre DEF Keywords, Text
<1>3. SerializeResponse(r) = Append(body, "\n")
  <2>1. SerializeResponse(r) = ((<<"RESP", ":", r.type>> \o Code(r)) \o Data(r)) \o <<"\n">>
    BY DEF SerializeResponse, Code, Data
  <2>2. /\ <<"RESP", ":">> \in Seq(Character) /\ <<r.type>> \in Seq(Character)
        /\ <<"RESP", ":", r.type>> = <<"RESP", ":">> \o <<r.type>>
    BY <1>2
  <2>3. /\ <<"RESP", ":", r.type>> \in Seq(Character)
        /\ Code(r) \o Data(r) \in Seq(Character)
    BY <1>2, <2>2, ConcatProperties
  <2>4. (<<"RESP", ":", r.type>> \o Code(r)) \o Data(r) = <<"RESP", ":", r.type>> \o (Code(r) \o Data(r))
    BY <1>2, <2>3, ConcatAssociative
  <2>5. <<"RESP", ":", r.type>> \o (Code(r) \o Data(r)) = body
    BY <2>2, <2>3, ConcatAssociative
  <2>6. body \in Seq(Character)
    BY <1>1, <2>2, ConcatProperties DEF Text
  <2> HIDE DEF body
  <2> QED
    BY <1>2, <2>1, <2>4, <2>5, <2>6, AppendIsConcat
<1> HIDE DEF content
<1>4. /\ IsValidMessageFormat(SerializeResponse(r))
      /\ Until({":"})[Front(SerializeResponse(r))].read = <<"RESP">>
      /\ Tail(Until({":"})[Front(SerializeResponse(r))].left) = content
  BY <1>1, <1>2, <1>3, MessageConcat
<1> QED
  BY <1>1, <1>4 DEF DeserializeResponse, Deserialize
=============================================================================
