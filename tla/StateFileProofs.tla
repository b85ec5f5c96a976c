-------------------------- MODULE StateFileProofs --------------------------
(***************************************************************************)
(* Proofs about StateFile, for any files, boards, texts and numbers of     *)
(* servers: the loader stays in its array, and what is dumped is loaded as *)
(* it was.                                                                 *)
(***************************************************************************)
EXTENDS StateFile, FiniteSetTheorems, SequenceTheorems, WellFoundedInduction, TLAPS

----------------------------------------------------------------------------
(* Numbers and recursion *)

LEMMA LowestOf ==
  ASSUME NEW S \in SUBSET Nat, S # {}
  PROVE  \E x \in S : \A y \in S : x <= y
<1>1. PICK x \in S : \A y \in S : <<y, x>> \notin OpToRel(<, Nat)
  BY NatLessThanWellFounded, WFMin, Zenon
<1>2. ASSUME NEW y \in S, y < x PROVE FALSE
  <2>1. <<y, x>> \in Nat \X Nat /\ <<y, x>>[1] < <<y, x>>[2]
    BY <1>2
  <2>2. <<y, x>> \in OpToRel(<, Nat)
    BY <2>1, Zenon DEF OpToRel
  <2> QED
    BY <1>1, <2>2
<1>3. \A y \in S : x <= y
  BY <1>2
<1> QED
  BY <1>3

\* What holds of 0, and of n with n - 1, holds up to N: good is where it holds.
LEMMA UpTo ==
  ASSUME NEW N \in Nat, NEW good, 0 \in good, \A n \in 1 .. N : n - 1 \in good => n \in good
  PROVE  \A n \in 0 .. N : n \in good
<1> DEFINE bad == {n \in 0 .. N : n \notin good}
<1>1. SUFFICES ASSUME bad # {} PROVE FALSE
  OBVIOUS
<1>2. PICK n \in bad : \A y \in bad : n <= y
  <2>1. bad \in SUBSET Nat
    OBVIOUS
  <2> HIDE DEF bad
  <2> QED
    BY <1>1, <2>1, LowestOf
<1>3. n \in 1 .. N /\ n - 1 \in 0 .. N /\ ~ (n <= n - 1)
  OBVIOUS
<1>4. n - 1 \in good
  BY <1>2, <1>3
<1> QED
  BY <1>3, <1>4

\* next[n], a function, leads from the value for n - 1 to the one for n.
Iterates(g, N, first, next) ==
  g[0] = first /\ \A n \in 1 .. N : g[n] = next[n][g[n - 1]]

LEMMA IteratesExist ==
  ASSUME NEW N \in Nat, NEW D, NEW first \in D, NEW next \in [1 .. N -> [D -> D]]
  PROVE  \E g \in [0 .. N -> D] : Iterates(g, N, first, next)
<1> DEFINE good == {n \in 0 .. N : \E g \in [0 .. n -> D] : Iterates(g, n, first, next)}
<1>1. 0 \in good
  <2> DEFINE g == [n \in 0 .. 0 |-> first]
  <2>1. g \in [0 .. 0 -> D] /\ Iterates(g, 0, first, next)
    BY DEF Iterates
  <2> HIDE DEF g
  <2> QED
    BY <2>1
<1>2. ASSUME NEW n \in 1 .. N, n - 1 \in good PROVE n \in good
  <2>1. PICK g \in [0 .. n - 1 -> D] : Iterates(g, n - 1, first, next)
    BY <1>2
  <2> DEFINE h == [k \in 0 .. n |-> IF k = n THEN next[n][g[n - 1]] ELSE g[k]]
  <2>2. g[n - 1] \in D /\ next[n] \in [D -> D]
    BY <2>1
  <2>3. h \in [0 .. n -> D]
    BY <2>1, <2>2
  <2>4. ASSUME NEW k \in 1 .. n PROVE h[k] = next[k][h[k - 1]]
    <3>1. h[k - 1] = g[k - 1]
      OBVIOUS
    <3>2. CASE k = n
      BY <3>1, <3>2
    <3>3. CASE k # n
      <4>1. k \in 1 .. n - 1 /\ h[k] = g[k]
        BY <3>3
      <4>2. g[k] = next[k][g[k - 1]]
        BY <4>1, <2>1 DEF Iterates
      <4> HIDE DEF h
      <4> QED
        BY <4>1, <4>2, <3>1
    <3> QED
      BY <3>2, <3>3
  <2>5. h[0] = first
    BY <2>1 DEF Iterates
  <2> HIDE DEF h
  <2>6. Iterates(h, n, first, next)
    BY <2>4, <2>5 DEF Iterates
  <2> QED
    BY <2>3, <2>6
<1> HIDE DEF good
<1>3. \A n \in 0 .. N : n \in good
  BY <1>1, <1>2, UpTo
<1> QED
  BY <1>3 DEF good
----------------------------------------------------------------------------
(* Cells *)

\* What a file may hold; a number that has no digit of its own is printed as some cell.
Byte == Cells \cup {Digits[n] : n \in Nat}

BoardEntry == [entryNumber : Nat, mode : Byte, length : Nat, entry : Seq(Byte)]

LEMMA CellsFacts ==
  /\ Cells \subseteq Byte /\ Modes \subseteq Byte
  /\ "!" \in Byte /\ "nl" \in Byte /\ "zero" \in Byte /\ "x" \in Byte
  /\ \A n \in Nat : Digits[n + 1] \in Byte
  /\ "!" # "nl" /\ "nl" \notin Modes /\ "!" \notin Modes /\ "ff" \notin Modes
BY DEF Byte, Cells, Modes

LEMMA DigitFacts ==
  /\ Len(Digits) = 10
  /\ \A c \in ToSet(Digits) : \E n \in 1 .. 10 : Digits[n] = c
  /\ \A n \in 1 .. 10 : Digits[n] \in ToSet(Digits)
  /\ \A n, m \in 1 .. 10 : Digits[n] = Digits[m] => n = m
  /\ "nl" \notin ToSet(Digits) /\ "!" \notin ToSet(Digits) /\ "ff" \notin ToSet(Digits)
  /\ ToSet(Digits) \cap Modes = {}
<1>6. Len(Digits) = 10
  BY DEF Digits
<1>1. DOMAIN Digits = 1 .. 10
  BY DEF Digits
<1>2. \A n, m \in 1 .. 10 : Digits[n] = Digits[m] => n = m
  BY DEF Digits
<1>3. \A n \in 1 .. 10 : Digits[n] \notin {"nl", "!", "ff", "p", "c"}
  BY DEF Digits
<1>4. ToSet(Digits) = {Digits[n] : n \in 1 .. 10}
  BY <1>1 DEF ToSet
<1> QED
  BY <1>2, <1>3, <1>4, <1>6 DEF Modes

\* The position of a digit among the digits.
LEMMA DigitAt ==
  ASSUME NEW n \in 1 .. 10
  PROVE  SelectInSeq(Digits, LAMBDA d : d = Digits[n]) = n
<1> DEFINE here == {k \in 1 .. Len(Digits) : Digits[k] = Digits[n]}
<1>1. here = {n}
  BY DigitFacts
<1>2. SelectInSeq(Digits, LAMBDA d : d = Digits[n]) = IF here # {} THEN Min(here) ELSE 0
  BY DEF SelectInSeq
<1>3. Min({n}) = n
  BY DEF Min
<1> QED
  BY <1>1, <1>2, <1>3

\* The first cell of S from p on, or the end.
LEMMA NextInFacts ==
  ASSUME NEW f \in Seq(Byte), NEW p \in Nat \ {0}, NEW S
  PROVE  /\ NextIn(f, p, S) \in Nat
         /\ NextIn(f, p, S) <= Len(f)
         /\ p <= Len(f) => p <= NextIn(f, p, S)
         /\ p > Len(f) => NextIn(f, p, S) = Len(f)
         /\ \A q \in p .. Len(f) :
              f[q] \in S => f[NextIn(f, p, S)] \in S /\ NextIn(f, p, S) <= q
         /\ \A q \in p .. Len(f) :
              f[q] \in S /\ (\A r \in p .. q - 1 : f[r] \notin S) => NextIn(f, p, S) = q
<1> DEFINE here == {q \in p .. Len(f) : f[q] \in S}
           n    == NextIn(f, p, S)
<1>1. SelectInSubSeq(f, p, Len(f), LAMBDA c : c \in S) = IF here # {} THEN Min(here) ELSE 0
  BY DEF SelectInSubSeq
<1>2. Len(f) \in Nat /\ here \in SUBSET Nat /\ n = NextIn(f, p, S)
  OBVIOUS
<1>3. CASE here = {}
  <2>1. n = Len(f)
    BY <1>1, <1>3 DEF NextIn
  <2>2. \A q \in p .. Len(f) : f[q] \notin S
    BY <1>3
  <2> HIDE DEF n, here
  <2> QED
    BY <2>1, <2>2, <1>2
<1>4. CASE here # {}
  <2>1. \E x \in here : \A y \in here : x <= y
    <3> HIDE DEF here
    <3> QED
      BY <1>2, <1>4, LowestOf
  <2>2. Min(here) \in here /\ \A y \in here : Min(here) <= y
    <3> HIDE DEF here
    <3> QED
      BY <2>1 DEF Min
  <2>3. Min(here) # 0 /\ Min(here) \in p .. Len(f)
    BY <2>2
  <2>4. n = Min(here)
    BY <1>1, <1>4, <2>3 DEF NextIn
  <2> HIDE DEF n
  <2>5. n \in p .. Len(f) /\ f[n] \in S /\ \A q \in p .. Len(f) : f[q] \in S => n <= q
    BY <2>2, <2>4
  <2>6. ASSUME NEW q \in p .. Len(f), f[q] \in S, \A r \in p .. q - 1 : f[r] \notin S
        PROVE  n = q
    <3>1. n <= q /\ ~ (n \in p .. q - 1)
      BY <2>5, <2>6
    <3> QED
      BY <3>1, <2>5
  <2> HIDE DEF here
  <2>7. p <= Len(f)
    BY <2>5, <1>2
  <2> QED
    BY <2>5, <2>6, <2>7, <1>2
<1> QED
  BY <1>3, <1>4
----------------------------------------------------------------------------
(* Numbers read back *)

\* The digits a sequence begins with.
LEMMA DigitsOfFacts ==
  ASSUME NEW s \in Seq(Byte)
  PROVE  /\ DigitsOf(s) \in 0 .. Len(s)
         /\ \A n \in 1 .. DigitsOf(s) : s[n] \in ToSet(Digits)
         /\ Len(s) = 1 /\ s[1] \in ToSet(Digits) => DigitsOf(s) = 1
<1> DEFINE T == {n \in DOMAIN s : \A m \in 1 .. n : s[m] \in ToSet(Digits)}
           others == Nat \ (T \cup {0})
<1>1. Len(s) \in Nat /\ DOMAIN s = 1 .. Len(s) /\ T \subseteq 1 .. Len(s)
  OBVIOUS
<1>2. PICK b \in others : \A y \in others : b <= y
  <2>1. Len(s) + 1 \in others /\ others \in SUBSET Nat
    BY <1>1
  <2> HIDE DEF others
  <2> QED
    BY <2>1, LowestOf
<1>3. b \in 1 .. Len(s) + 1 /\ b \notin T
  <2>1. Len(s) + 1 \in others
    BY <1>1
  <2> QED
    BY <2>1, <1>1, <1>2
<1>4. T = 1 .. b - 1
  <2>1. ASSUME NEW n \in 1 .. b - 1 PROVE n \in T
    <3>1. n \in Nat /\ n # 0 /\ ~ (b <= n)
      BY <1>3
    <3> HIDE DEF T
    <3> QED
      BY <3>1, <1>2
  <2>2. ASSUME NEW n \in T, n >= b PROVE FALSE
    <3>1. b \in 1 .. n /\ b \in DOMAIN s
      BY <2>2, <1>1, <1>3
    <3>2. \A m \in 1 .. b : m \in 1 .. n
      BY <3>1, <2>2, <1>1
    <3>3. b \in T
      BY <3>1, <3>2, <2>2
    <3> QED
      BY <3>3, <1>3
  <2>3. \A n \in T : n \in 1 .. Len(s)
    BY <1>1
  <2> HIDE DEF T
  <2>4. ASSUME NEW n \in T PROVE n \in 1 .. b - 1
    <3>1. n \in 1 .. Len(s) /\ ~ (n >= b)
      BY <2>2, <2>3
    <3> QED
      BY <3>1, <1>3
  <2> QED
    BY <2>1, <2>4
<1>5. DigitsOf(s) = b - 1
  <2>1. DigitsOf(s) = Cardinality(T)
    BY DEF DigitsOf
  <2>2. 1 \in Int /\ b - 1 \in Int /\ ~ (1 > b - 1 /\ b - 1 # 0)
    BY <1>3
  <2>3. Cardinality(1 .. b - 1) = IF 1 > b - 1 THEN 0 ELSE b - 1 - 1 + 1
    BY <2>2, FS_Interval
  <2> HIDE DEF T
  <2> QED
    BY <2>1, <2>2, <2>3, <1>3, <1>4
<1>6. ASSUME NEW n \in 1 .. b - 1 PROVE s[n] \in ToSet(Digits)
  BY <1>4
<1>7. ASSUME Len(s) = 1, s[1] \in ToSet(Digits) PROVE b = 2
  <2>1. 1 \in T
    BY <1>7
  <2> HIDE DEF T
  <2> QED
    BY <2>1, <1>3, <1>4, <1>7
<1> HIDE DEF T, others
<1> QED
  BY <1>1, <1>3, <1>5, <1>6, <1>7

\* A number is read as a number, and one digit as its value.
LEMMA StrtolFacts ==
  ASSUME NEW s \in Seq(Byte)
  PROVE  /\ Strtol(s) \in Nat
         /\ \A n \in 0 .. 9 : Len(s) = 1 /\ s[1] = Digits[n + 1] => Strtol(s) = n
<1> DEFINE N == DigitsOf(s)
           At(k) == SelectInSeq(Digits, LAMBDA d : d = s[k])
           next == [k \in 1 .. N |-> [a \in Nat |-> 10 * a + At(k) - 1]]
<1>1. N \in Nat
  BY DigitsOfFacts
<1>2. ASSUME NEW k \in 1 .. N PROVE At(k) \in 1 .. 10 /\ Digits[At(k)] = s[k]
  <2>1. s[k] \in ToSet(Digits)
    BY DigitsOfFacts
  <2>2. PICK n \in 1 .. 10 : Digits[n] = s[k]
    BY <2>1, DigitFacts
  <2>3. At(k) = SelectInSeq(Digits, LAMBDA d : d = Digits[n])
    BY <2>2
  <2>4. SelectInSeq(Digits, LAMBDA d : d = Digits[n]) = n
    BY DigitAt
  <2> HIDE DEF At
  <2> QED
    BY <2>2, <2>3, <2>4
<1>3. next \in [1 .. N -> [Nat -> Nat]]
  <2> HIDE DEF At, N
  <2>1. \A k \in 1 .. N, a \in Nat : 10 * a + At(k) - 1 \in Nat
    BY <1>2
  <2> QED
    BY <2>1
<1> DEFINE Body(v) == [n \in 0 .. N |-> IF n = 0 THEN 0 ELSE 10 * v[n - 1] + At(n) - 1]
           value == CHOOSE v : v = Body(v)
<1>4. Strtol(s) = value[N]
  BY DEF Strtol
<1> HIDE DEF N, At
<1>5. PICK g \in [0 .. N -> Nat] : Iterates(g, N, 0, next)
  <2> HIDE DEF next
  <2> QED
    BY <1>1, <1>3, IteratesExist
<1>6. g[0] = 0 /\ \A n \in 1 .. N : g[n - 1] \in Nat /\ g[n] = 10 * g[n - 1] + At(n) - 1
  <2>1. ASSUME NEW n \in 1 .. N PROVE g[n - 1] \in Nat /\ g[n] = 10 * g[n - 1] + At(n) - 1
    <3>1. n - 1 \in 0 .. N /\ g[n - 1] \in Nat
      BY <1>1, <1>5
    <3>2. g[n] = next[n][g[n - 1]]
      BY <1>5 DEF Iterates
    <3> QED
      BY <3>1, <3>2
  <2> QED
    BY <2>1, <1>5 DEF Iterates
<1> HIDE DEF next
<1>7. g = Body(g)
  <2>1. ASSUME NEW n \in 0 .. N PROVE g[n] = Body(g)[n]
    <3>1. CASE n = 0
      BY <3>1, <1>6
    <3>2. CASE n # 0
      <4>1. n \in 1 .. N
        BY <3>2, <1>1
      <4> QED
        BY <4>1, <3>2, <1>6
    <3> QED
      BY <3>1, <3>2
  <2>2. g = [n \in 0 .. N |-> g[n]] /\ Body(g) = [n \in 0 .. N |-> Body(g)[n]]
    OBVIOUS
  <2> HIDE DEF Body
  <2> QED
    BY <2>1, <2>2
<1>8. value = Body(value)
  <2> HIDE DEF Body
  <2> QED
    BY <1>7
<1> HIDE DEF value
<1>9. value[0] = 0 /\ \A n \in 1 .. N : value[n] = 10 * value[n - 1] + At(n) - 1
  <2>1. 0 \in 0 .. N /\ value[0] = Body(value)[0]
    BY <1>1, <1>8
  <2>2. ASSUME NEW n \in 1 .. N PROVE value[n] = 10 * value[n - 1] + At(n) - 1
    <3>1. n \in 0 .. N /\ n # 0
      BY <1>1
    <3>2. value[n] = Body(value)[n]
      BY <1>8
    <3> QED
      BY <3>1, <3>2
  <2> QED
    BY <2>1, <2>2
<1> HIDE DEF Body
<1> DEFINE good == {n \in 0 .. N : value[n] \in Nat}
<1>10. 0 \in good
  BY <1>1, <1>9
<1>11. ASSUME NEW n \in 1 .. N, n - 1 \in good PROVE n \in good
  <2>1. At(n) \in 1 .. 10 /\ value[n - 1] \in Nat /\ value[n] = 10 * value[n - 1] + At(n) - 1
    BY <1>2, <1>9, <1>11
  <2>2. value[n] \in Nat
    <3> DEFINE a == At(n)
               b == value[n - 1]
    <3>1. a \in 1 .. 10 /\ b \in Nat /\ value[n] = 10 * b + a - 1
      BY <2>1
    <3> HIDE DEF a, b
    <3>2. 10 * b + a - 1 \in Nat
      BY <3>1
    <3> QED
      BY <3>1, <3>2
  <2>3. n \in 0 .. N
    BY <1>1
  <2> QED
    BY <2>2, <2>3
<1>12. \A n \in 0 .. N : n \in good
  <2> HIDE DEF good
  <2> QED
    BY <1>1, <1>10, <1>11, UpTo
<1>13. value[N] \in Nat
  BY <1>1, <1>12
<1>14. ASSUME NEW n \in 0 .. 9, Len(s) = 1, s[1] = Digits[n + 1] PROVE value[N] = n
  <2>1. n + 1 \in 1 .. 10 /\ Digits[n + 1] \in ToSet(Digits)
    BY DigitFacts
  <2>2. N = 1
    BY <2>1, <1>14, DigitsOfFacts DEF N
  <2>3. At(1) \in 1 .. 10 /\ Digits[At(1)] = Digits[n + 1]
    BY <2>2, <1>2, <1>14
  <2>4. At(1) = n + 1
    BY <2>1, <2>3, DigitFacts
  <2>5. value[1] = 10 * value[1 - 1] + At(1) - 1
    BY <2>2, <1>9
  <2>6. 1 - 1 = 0
    OBVIOUS
  <2> QED
    BY <2>2, <2>4, <2>5, <2>6, <1>9
<1> QED
  BY <1>4, <1>13, <1>14

----------------------------------------------------------------------------
(* Dumps *)

Plains(E) == E \in Seq(BoardEntry) /\ \A n \in 1 .. Len(E) : Plain(E[n])

\* The cells an entry is printed as.
Size(e) == Len(e.entry) + 6

LEMMA PrintedFacts ==
  ASSUME NEW e \in BoardEntry
  PROVE  /\ Printed(e) \in Seq(Byte) /\ Len(Printed(e)) = Size(e) /\ Size(e) \in Nat
         /\ Len(e.entry) \in Nat /\ Size(e) >= 6
         /\ Printed(e)[1] = "!" /\ Printed(e)[2] = Digits[e.entryNumber + 1]
         /\ Printed(e)[3] = e.mode /\ Printed(e)[4] = Digits[e.length + 1]
         /\ Printed(e)[5] = "nl"
         /\ \A n \in 1 .. Len(e.entry) : Printed(e)[5 + n] = e.entry[n]
         /\ Printed(e)[Size(e)] = "nl"
<1> DEFINE head == <<"!", Digits[e.entryNumber + 1], e.mode, Digits[e.length + 1], "nl">>
           text == e.entry
           both == head \o text
<1>1. /\ head \in Seq(Byte) /\ Len(head) = 5
      /\ head[1] = "!" /\ head[2] = Digits[e.entryNumber + 1] /\ head[3] = e.mode
      /\ head[4] = Digits[e.length + 1] /\ head[5] = "nl"
  <2>1. /\ "!" \in Byte /\ Digits[e.entryNumber + 1] \in Byte /\ e.mode \in Byte
        /\ Digits[e.length + 1] \in Byte /\ "nl" \in Byte
    BY CellsFacts DEF BoardEntry
  <2> QED
    BY <2>1
<1>2. text \in Seq(Byte) /\ Len(text) \in Nat
  BY DEF BoardEntry
<1>3. Printed(e) = both \o <<"nl">>
  BY DEF Printed
<1> HIDE DEF head, text
<1>4. /\ both \in Seq(Byte) /\ Len(both) = 5 + Len(text)
      /\ \A n \in 1 .. 5 : both[n] = head[n]
      /\ \A n \in 1 .. Len(text) : both[5 + n] = text[n]
  <2>1. /\ Len(both) = Len(head) + Len(text)
        /\ \A n \in 1 .. Len(head) + Len(text) :
             both[n] = IF n <= Len(head) THEN head[n] ELSE text[n - Len(head)]
    BY <1>1, <1>2, ConcatProperties
  <2>2. both \in Seq(Byte)
    BY <1>1, <1>2, ConcatProperties
  <2> HIDE DEF both
  <2>3. \A n \in 1 .. 5 : both[n] = head[n]
    BY <1>1, <1>2, <2>1
  <2>4. ASSUME NEW n \in 1 .. Len(text) PROVE both[5 + n] = text[n]
    <3>1. 5 + n \in 1 .. 5 + Len(text) /\ ~ (5 + n <= 5) /\ (5 + n) - 5 = n
      BY <1>2
    <3> QED
      BY <3>1, <2>1, <1>1
  <2> QED
    BY <1>1, <2>1, <2>2, <2>3, <2>4
<1>5. <<"nl">> \in Seq(Byte) /\ Len(<<"nl">>) = 1 /\ <<"nl">>[1] = "nl"
  BY CellsFacts
<1> HIDE DEF both
<1>6. /\ Printed(e) \in Seq(Byte) /\ Len(Printed(e)) = Len(both) + 1
      /\ \A n \in 1 .. Len(both) : Printed(e)[n] = both[n]
      /\ Printed(e)[Len(both) + 1] = "nl"
  BY <1>3, <1>4, <1>5
<1>7. \A n \in 1 .. 5 : Printed(e)[n] = head[n]
  BY <1>2, <1>4, <1>6
<1>8. \A n \in 1 .. Len(text) : Printed(e)[5 + n] = text[n]
  BY <1>2, <1>4, <1>6
<1>9. Size(e) = Len(text) + 6 /\ Len(both) + 1 = Size(e)
  BY <1>2, <1>4 DEF Size, text
<1> QED
  BY <1>1, <1>2, <1>6, <1>7, <1>8, <1>9 DEF text

\* Where, in the dump of E, its entry k ends.
Offset(E) ==
  CHOOSE o \in [0 .. Len(E) -> Nat] : o[0] = 0 /\ \A k \in 1 .. Len(E) : o[k] = o[k - 1] + Size(E[k])

LEMMA OffsetFacts ==
  ASSUME NEW E \in Seq(BoardEntry)
  PROVE  /\ Offset(E)[0] = 0
         /\ \A k \in 0 .. Len(E) : Offset(E)[k] \in Nat
         /\ \A k \in 1 .. Len(E) : Offset(E)[k] = Offset(E)[k - 1] + Size(E[k])
<1> DEFINE N == Len(E)
           next == [k \in 1 .. N |-> [a \in Nat |-> a + Size(E[k])]]
           Right(o) == o[0] = 0 /\ \A k \in 1 .. Len(E) : o[k] = o[k - 1] + Size(E[k])
<1>1. N \in Nat /\ \A k \in 1 .. N : Size(E[k]) \in Nat
  BY PrintedFacts
<1>2. next \in [1 .. N -> [Nat -> Nat]]
  BY <1>1
<1>3. PICK g \in [0 .. N -> Nat] : Iterates(g, N, 0, next)
  <2> HIDE DEF N, next
  <2> QED
    BY <1>1, <1>2, IteratesExist
<1>4. Right(g)
  <2>1. ASSUME NEW k \in 1 .. N PROVE g[k] = g[k - 1] + Size(E[k])
    <3>1. k - 1 \in 0 .. N /\ g[k - 1] \in Nat
      <4> HIDE DEF N, next
      <4> QED
        BY <1>1, <1>3
    <3>2. g[k] = next[k][g[k - 1]]
      BY <1>3 DEF Iterates
    <3> QED
      BY <3>1, <3>2
  <2> QED
    BY <2>1, <1>3 DEF Iterates
<1>5. Offset(E) = CHOOSE o \in [0 .. N -> Nat] : Right(o)
  BY DEF Offset
<1> HIDE DEF next, Right, N
<1>6. Offset(E) \in [0 .. N -> Nat] /\ Right(Offset(E))
  BY <1>3, <1>4, <1>5
<1> QED
  BY <1>6 DEF Right, N

LEMMA OffsetGrows ==
  ASSUME NEW E \in Seq(BoardEntry), NEW j \in 0 .. Len(E), NEW k \in 0 .. Len(E), j < k
  PROVE  Offset(E)[j] + 6 <= Offset(E)[k]
<1> DEFINE o == Offset(E)
           good == {n \in 0 .. Len(E) : n <= j \/ o[j] + 6 <= o[n]}
<1>1. Len(E) \in Nat /\ 0 \in good
  OBVIOUS
<1>2. ASSUME NEW n \in 1 .. Len(E), n - 1 \in good PROVE n \in good
  <2>1. /\ o[n] = o[n - 1] + Size(E[n]) /\ o[n - 1] \in Nat /\ o[j] \in Nat
        /\ Size(E[n]) \in Nat /\ Size(E[n]) >= 6
    <3>1. E[n] \in BoardEntry /\ n - 1 \in 0 .. Len(E)
      OBVIOUS
    <3> QED
      BY <3>1, OffsetFacts, PrintedFacts
  <2> HIDE DEF o
  <2>2. n \in 0 .. Len(E) /\ (n - 1 < j \/ n - 1 = j \/ o[j] + 6 <= o[n - 1])
    BY <1>2
  <2>3. n <= j \/ o[j] + 6 <= o[n]
    BY <2>1, <2>2
  <2> QED
    BY <2>2, <2>3
<1>3. \A n \in 0 .. Len(E) : n \in good
  <2> HIDE DEF good
  <2> QED
    BY <1>1, <1>2, UpTo
<1>4. ~ (k <= j)
  OBVIOUS
<1> QED
  BY <1>3, <1>4

\* f is the dump of the first m entries of E.
Holds(f, E, m) ==
  /\ f \in Seq(Byte) /\ Len(f) = Offset(E)[m]
  /\ \A k \in 1 .. m : \A n \in 1 .. Size(E[k]) : f[Offset(E)[k - 1] + n] = Printed(E[k])[n]

\* Every cell of a dump is of one of the entries.
LEMMA CellOf ==
  ASSUME NEW E \in Seq(BoardEntry), NEW m \in 0 .. Len(E), NEW q \in 1 .. Offset(E)[m]
  PROVE  \E k \in 1 .. m : \E n \in 1 .. Size(E[k]) : q = Offset(E)[k - 1] + n
<1> DEFINE o == Offset(E)
           good == {j \in 0 .. m : q <= o[j] =>
                      \E k \in 1 .. j : \E n \in 1 .. Size(E[k]) : q = o[k - 1] + n}
<1>1. m \in Nat /\ Len(E) \in Nat /\ o[m] \in Nat /\ q \in Nat /\ q >= 1
  BY OffsetFacts
<1>2. 0 \in good
  <2>1. o[0] = 0 /\ ~ (q <= 0)
    BY <1>1, OffsetFacts
  <2> QED
    BY <2>1, <1>1
<1>3. ASSUME NEW j \in 1 .. m, j - 1 \in good PROVE j \in good
  <2>1. j \in 1 .. Len(E) /\ j - 1 \in 0 .. Len(E) /\ E[j] \in BoardEntry
    BY <1>1
  <2>2. o[j] = o[j - 1] + Size(E[j]) /\ o[j - 1] \in Nat /\ Size(E[j]) \in Nat
    BY <2>1, OffsetFacts, PrintedFacts
  <2> HIDE DEF o
  <2>3. ASSUME q <= o[j]
        PROVE  \E k \in 1 .. j : \E n \in 1 .. Size(E[k]) : q = o[k - 1] + n
    <3>1. CASE q <= o[j - 1]
      <4>1. PICK k \in 1 .. j - 1 : \E n \in 1 .. Size(E[k]) : q = o[k - 1] + n
        BY <3>1, <1>3
      <4>2. k \in 1 .. j
        BY <1>1
      <4> QED
        BY <4>1, <4>2
    <3>2. CASE q > o[j - 1]
      <4>1. q - o[j - 1] \in 1 .. Size(E[j]) /\ q = o[j - 1] + (q - o[j - 1]) /\ j \in 1 .. j
        BY <3>2, <2>2, <2>3, <1>1
      <4> QED
        BY <4>1
    <3> QED
      BY <3>1, <3>2, <2>2, <1>1
  <2>4. j \in 0 .. m
    OBVIOUS
  <2> QED
    BY <2>3, <2>4
<1>4. \A j \in 0 .. m : j \in good
  <2> HIDE DEF good
  <2> QED
    BY <1>1, <1>2, <1>3, UpTo
<1> QED
  BY <1>1, <1>4

LEMMA HoldsNone ==
  ASSUME NEW E \in Seq(BoardEntry)
  PROVE  Holds(<<>>, E, 0)
<1>1. Offset(E)[0] = 0
  BY OffsetFacts
<1> QED
  BY <1>1 DEF Holds

LEMMA HoldsMore ==
  ASSUME NEW E \in Seq(BoardEntry), NEW m \in 0 .. Len(E) - 1, NEW s, Holds(s, E, m)
  PROVE  Holds(s \o Printed(E[m + 1]), E, m + 1)
<1> DEFINE r == Printed(E[m + 1])
           o == Offset(E)
           t == s \o r
<1>1. /\ m + 1 \in 1 .. Len(E) /\ m \in 0 .. Len(E) /\ (m + 1) - 1 = m /\ m \in Nat
      /\ E[m + 1] \in BoardEntry
  OBVIOUS
<1>2. r \in Seq(Byte) /\ Len(r) = Size(E[m + 1]) /\ Size(E[m + 1]) \in Nat
  BY <1>1, PrintedFacts
<1>3. s \in Seq(Byte) /\ Len(s) = o[m]
  BY DEF Holds
<1>4. o[m] \in Nat /\ o[m + 1] = o[m] + Size(E[m + 1])
  BY <1>1, OffsetFacts
<1>5. /\ t \in Seq(Byte) /\ Len(t) = Len(s) + Len(r)
      /\ \A n \in 1 .. Len(s) + Len(r) : t[n] = IF n <= Len(s) THEN s[n] ELSE r[n - Len(s)]
  <2> HIDE DEF r
  <2> QED
    BY <1>2, <1>3, ConcatProperties
<1> HIDE DEF t, r
<1>6. ASSUME NEW k \in 1 .. m + 1, NEW n \in 1 .. Size(E[k])
      PROVE  t[o[k - 1] + n] = Printed(E[k])[n]
  <2>1. CASE k = m + 1
    <3>1. k - 1 = m /\ n \in Nat /\ n >= 1 /\ n <= Len(r)
      BY <2>1, <1>1, <1>2
    <3>2. o[m] + n \in 1 .. Len(s) + Len(r) /\ ~ (o[m] + n <= Len(s)) /\ (o[m] + n) - Len(s) = n
      BY <3>1, <1>2, <1>3, <1>4
    <3>3. t[o[m] + n] = r[n]
      BY <3>2, <1>5
    <3> QED
      BY <3>1, <3>3, <2>1 DEF r
  <2>2. CASE k # m + 1
    <3>1. /\ k \in 1 .. m /\ k \in 1 .. Len(E) /\ k - 1 \in 0 .. Len(E) /\ k \in 0 .. Len(E)
          /\ E[k] \in BoardEntry
      BY <2>2, <1>1
    <3>2. /\ o[k - 1] \in Nat /\ o[k] = o[k - 1] + Size(E[k]) /\ o[k] \in Nat
          /\ Size(E[k]) \in Nat
      BY <3>1, OffsetFacts, PrintedFacts
    <3>3. k = m \/ o[k] + 6 <= o[m]
      <4>1. k = m \/ k < m
        BY <3>1, <1>1
      <4> QED
        BY <4>1, <3>1, <1>1, OffsetGrows
    <3>4. o[k - 1] + n \in 1 .. Len(s) + Len(r) /\ o[k - 1] + n <= Len(s)
      <4> HIDE DEF o
      <4>1. o[k] <= o[m]
        BY <3>2, <3>3, <1>4
      <4>2. n \in Nat /\ n >= 1 /\ n <= Size(E[k])
        BY <3>2
      <4> QED
        BY <4>1, <4>2, <3>2, <1>2, <1>3, <1>4
    <3>5. t[o[k - 1] + n] = s[o[k - 1] + n]
      BY <3>4, <1>5
    <3> QED
      BY <3>1, <3>5 DEF Holds
  <2> QED
    BY <2>1, <2>2
<1>7. Len(t) = o[m + 1]
  BY <1>2, <1>3, <1>4, <1>5
<1> QED
  BY <1>5, <1>6, <1>7 DEF Holds, t, r

\* Dumps of the same board agree as far as the shorter one goes.
LEMMA HoldsPrefix ==
  ASSUME NEW E \in Seq(BoardEntry), NEW j \in 0 .. Len(E), NEW m \in 0 .. Len(E), j <= m,
         NEW s, Holds(s, E, j), NEW f, Holds(f, E, m)
  PROVE  Len(s) <= Len(f) /\ \A q \in 1 .. Len(s) : s[q] = f[q]
<1> DEFINE o == Offset(E)
<1>1. Len(s) = o[j] /\ Len(f) = o[m] /\ o[j] \in Nat /\ o[m] \in Nat
  BY OffsetFacts DEF Holds
<1>2. Len(s) <= Len(f)
  <2>1. j = m \/ j < m
    OBVIOUS
  <2>2. o[j] = o[m] \/ o[j] + 6 <= o[m]
    BY <2>1, OffsetGrows
  <2> HIDE DEF o
  <2> QED
    BY <2>2, <1>1
<1>3. ASSUME NEW q \in 1 .. Len(s) PROVE s[q] = f[q]
  <2>1. q \in 1 .. o[j]
    BY <1>1
  <2>2. PICK k \in 1 .. j : \E n \in 1 .. Size(E[k]) : q = o[k - 1] + n
    BY <2>1, CellOf
  <2>3. PICK n \in 1 .. Size(E[k]) : q = o[k - 1] + n
    BY <2>2
  <2>4. k \in 1 .. m
    OBVIOUS
  <2>5. s[q] = Printed(E[k])[n] /\ f[q] = Printed(E[k])[n]
    BY <2>3, <2>4 DEF Holds
  <2> QED
    BY <2>5
<1> QED
  BY <1>2, <1>3

\* What is flushed is a sequence.
LEMMA FlushedSeq ==
  ASSUME NEW s \in Seq(Seq(Byte))
  PROVE  Flushed(s) \in Seq(Byte)
<1> DEFINE cells == UNION {DOMAIN s[k] : k \in DOMAIN s}
           N == Len(s)
           good == {m \in 0 .. N : \E L \in Nat : UNION {1 .. Len(s[k]) : k \in 1 .. m} = 1 .. L}
<1>1. N \in Nat /\ DOMAIN s = 1 .. N /\ \A k \in 1 .. N : s[k] \in Seq(Byte) /\ Len(s[k]) \in Nat
  OBVIOUS
<1>2. cells = UNION {1 .. Len(s[k]) : k \in 1 .. N}
  <2>1. \A k \in 1 .. N : DOMAIN s[k] = 1 .. Len(s[k])
    BY <1>1
  <2> HIDE DEF N
  <2> QED
    BY <2>1, <1>1
<1>3. 0 \in good
  <2>1. UNION {1 .. Len(s[k]) : k \in 1 .. 0} = 1 .. 0
    OBVIOUS
  <2> QED
    BY <2>1, <1>1
<1>4. ASSUME NEW m \in 1 .. N, m - 1 \in good PROVE m \in good
  <2>1. PICK L \in Nat : UNION {1 .. Len(s[k]) : k \in 1 .. m - 1} = 1 .. L
    BY <1>4
  <2> DEFINE M == IF L < Len(s[m]) THEN Len(s[m]) ELSE L
  <2>2. Len(s[m]) \in Nat /\ M \in Nat /\ \A n \in Nat : n <= M <=> n <= L \/ n <= Len(s[m])
    BY <1>1
  <2>3. ASSUME NEW n PROVE n \in UNION {1 .. Len(s[k]) : k \in 1 .. m} <=> n \in 1 .. M
    <3>1. ASSUME NEW k \in 1 .. m, n \in 1 .. Len(s[k]) PROVE n \in 1 .. M
      <4>1. k = m \/ k \in 1 .. m - 1
        BY <1>1
      <4>2. n \in 1 .. Len(s[m]) \/ n \in 1 .. L
        BY <4>1, <3>1, <2>1
      <4> HIDE DEF M
      <4> QED
        BY <4>2, <2>2
    <3>2. ASSUME n \in 1 .. M PROVE \E k \in 1 .. m : n \in 1 .. Len(s[k])
      <4>1. n \in Nat /\ n >= 1 /\ (n <= L \/ n <= Len(s[m]))
        BY <3>2, <2>2
      <4>2. CASE n <= L
        <5>1. n \in 1 .. L
          BY <4>1, <4>2
        <5>2. PICK k \in 1 .. m - 1 : n \in 1 .. Len(s[k])
          BY <5>1, <2>1
        <5>3. k \in 1 .. m
          BY <1>1
        <5> QED
          BY <5>2, <5>3
      <4>3. CASE n <= Len(s[m])
        <5>1. n \in 1 .. Len(s[m]) /\ m \in 1 .. m
          BY <4>1, <4>3, <2>2, <1>1
        <5> QED
          BY <5>1
      <4> QED
        BY <4>1, <4>2, <4>3
    <3> QED
      BY <3>1, <3>2
  <2> HIDE DEF M
  <2>4. UNION {1 .. Len(s[k]) : k \in 1 .. m} = 1 .. M
    BY <2>3, Zenon
  <2>5. m \in 0 .. N
    BY <1>1
  <2> QED
    BY <2>2, <2>4, <2>5
<1>5. \A m \in 0 .. N : m \in good
  <2> HIDE DEF good
  <2> QED
    BY <1>1, <1>3, <1>4, UpTo
<1>6. PICK L \in Nat : cells = 1 .. L
  <2>1. N \in 0 .. N
    BY <1>1
  <2>2. N \in good
    BY <2>1, <1>5
  <2>3. PICK L \in Nat : UNION {1 .. Len(s[k]) : k \in 1 .. N} = 1 .. L
    BY <2>2
  <2> QED
    BY <2>3, <1>2
<1> HIDE DEF good
<1>7. ASSUME NEW n \in cells
      PROVE  s[Min({k \in DOMAIN s : n \in DOMAIN s[k]})][n] \in Byte
  <2> DEFINE reach == {k \in DOMAIN s : n \in DOMAIN s[k]}
  <2>1. reach # {} /\ reach \in SUBSET Nat
    BY <1>1, <1>7
  <2>2. \E x \in reach : \A y \in reach : x <= y
    <3> HIDE DEF reach
    <3> QED
      BY <2>1, LowestOf
  <2>3. Min(reach) \in reach
    <3> HIDE DEF reach
    <3> QED
      BY <2>2 DEF Min
  <2>4. PICK k \in DOMAIN s : k = Min(reach) /\ n \in DOMAIN s[k]
    BY <2>3
  <2>5. s[k] \in Seq(Byte) /\ s[k][n] \in Byte
    BY <2>4, <1>1
  <2> QED
    BY <2>4, <2>5
<1>8. Flushed(s) = [n \in cells |-> s[Min({k \in DOMAIN s : n \in DOMAIN s[k]})][n]]
  BY DEF Flushed
<1> HIDE DEF cells
<1>9. Flushed(s) \in [1 .. L -> Byte]
  BY <1>6, <1>7, <1>8
<1> QED
  BY <1>9

\* Streams that hold beginnings of the same dump, the last one all of it, are flushed to it.
LEMMA FlushedDump ==
  ASSUME NEW E \in Seq(BoardEntry), NEW s \in Seq(Seq(Byte)), s # <<>>,
         \A k \in 1 .. Len(s) : \E m \in 0 .. Len(E) : Holds(s[k], E, m),
         Holds(s[Len(s)], E, Len(E))
  PROVE  Flushed(s) = s[Len(s)]
<1> DEFINE N == Len(s)
           D == s[N]
           cells == UNION {DOMAIN s[k] : k \in DOMAIN s}
<1>1. /\ N \in Nat /\ N \in 1 .. N /\ DOMAIN s = 1 .. N /\ D \in Seq(Byte)
      /\ Len(E) \in 0 .. Len(E)
      /\ \A k \in 1 .. N : s[k] \in Seq(Byte) /\ Len(s[k]) \in Nat /\ DOMAIN s[k] = 1 .. Len(s[k])
  OBVIOUS
<1>2. ASSUME NEW k \in 1 .. N
      PROVE  Len(s[k]) <= Len(D) /\ \A q \in 1 .. Len(s[k]) : s[k][q] = D[q]
  <2>1. PICK m \in 0 .. Len(E) : Holds(s[k], E, m)
    OBVIOUS
  <2>2. m <= Len(E) /\ Holds(D, E, Len(E))
    OBVIOUS
  <2> HIDE DEF D
  <2>3. Len(E) \in 0 .. Len(E)
    BY <1>1
  <2> QED
    BY <2>1, <2>2, <2>3, HoldsPrefix
<1>3. cells = 1 .. Len(D)
  <2>1. ASSUME NEW n \in cells PROVE n \in 1 .. Len(D)
    <3>1. PICK k \in 1 .. N : n \in 1 .. Len(s[k])
      BY <1>1
    <3>2. Len(s[k]) <= Len(D) /\ Len(s[k]) \in Nat /\ Len(D) \in Nat
      BY <1>1, <1>2
    <3> HIDE DEF D
    <3> QED
      BY <3>1, <3>2
  <2>2. ASSUME NEW n \in 1 .. Len(D) PROVE n \in cells
    <3>1. N \in DOMAIN s /\ n \in DOMAIN s[N]
      BY <1>1
    <3> QED
      BY <3>1
  <2> HIDE DEF cells, D
  <2> QED
    BY <2>1, <2>2
<1>4. ASSUME NEW n \in cells
      PROVE  s[Min({k \in DOMAIN s : n \in DOMAIN s[k]})][n] = D[n]
  <2> DEFINE reach == {k \in DOMAIN s : n \in DOMAIN s[k]}
  <2>1. reach # {} /\ reach \in SUBSET Nat
    BY <1>1, <1>4
  <2>2. \E x \in reach : \A y \in reach : x <= y
    <3> HIDE DEF reach
    <3> QED
      BY <2>1, LowestOf
  <2>3. Min(reach) \in reach
    <3> HIDE DEF reach
    <3> QED
      BY <2>2 DEF Min
  <2>4. PICK k \in DOMAIN s : k = Min(reach) /\ n \in DOMAIN s[k]
    BY <2>3
  <2>5. k \in 1 .. N /\ n \in 1 .. Len(s[k])
    BY <2>4, <1>1
  <2>6. s[k][n] = D[n]
    BY <2>5, <1>2
  <2> QED
    BY <2>4, <2>6
<1>5. Flushed(s) = [n \in cells |-> s[Min({k \in DOMAIN s : n \in DOMAIN s[k]})][n]]
  BY DEF Flushed
<1> HIDE DEF cells
<1>6. D = [n \in 1 .. Len(D) |-> D[n]]
  BY <1>1
<1> HIDE DEF D
<1>7. Flushed(s) = D
  BY <1>3, <1>4, <1>5, <1>6
<1> QED
  BY <1>7 DEF D, N

----------------------------------------------------------------------------
(* A dump read back *)

LEMMA PlainCell ==
  ASSUME NEW e \in BoardEntry, Plain(e), NEW n \in 1 .. Size(e)
  PROVE  (Printed(e)[n] = "!" <=> n = 1) /\ Printed(e)[n] # "ff"
<1> DEFINE r == Printed(e)
<1>1. /\ r[1] = "!" /\ r[2] = Digits[e.entryNumber + 1] /\ r[3] = e.mode
      /\ r[4] = Digits[e.length + 1] /\ r[5] = "nl" /\ r[Size(e)] = "nl"
      /\ \A j \in 1 .. Len(e.entry) : r[5 + j] = e.entry[j]
      /\ Len(e.entry) \in Nat /\ Size(e) = Len(e.entry) + 6
  BY PrintedFacts DEF Size
<1>2. ASSUME NEW d \in 0 .. 9 PROVE Digits[d + 1] \notin {"!", "ff"}
  <2>1. d + 1 \in 1 .. 10
    OBVIOUS
  <2>2. Digits[d + 1] \in ToSet(Digits)
    BY <2>1, DigitFacts
  <2> QED
    BY <2>2, DigitFacts
<1>3. e.entryNumber \in 0 .. 9 /\ e.length \in 0 .. 9 /\ e.mode \notin {"!", "ff"}
  BY CellsFacts DEF Plain
<1>4. ASSUME NEW j \in 1 .. Len(e.entry) PROVE e.entry[j] \notin {"!", "ff"}
  <2>1. e.entry \in Seq(Byte)
    BY DEF BoardEntry
  <2>2. j \in DOMAIN e.entry
    BY <2>1
  <2>3. e.entry[j] \in ToSet(e.entry)
    BY <2>2 DEF ToSet
  <2> QED
    BY <2>3 DEF Plain
<1> HIDE DEF r
<1>5. CASE n \in 1 .. 5
  <2>1. r[2] \notin {"!", "ff"} /\ r[4] \notin {"!", "ff"} /\ r[3] \notin {"!", "ff"}
    BY <1>1, <1>2, <1>3
  <2>2. n = 1 \/ n = 2 \/ n = 3 \/ n = 4 \/ n = 5
    BY <1>5
  <2> QED
    BY <1>1, <2>1, <2>2 DEF r
<1>6. CASE n \notin 1 .. 5 /\ n # Size(e)
  <2>1. n - 5 \in 1 .. Len(e.entry) /\ 5 + (n - 5) = n /\ n # 1
    BY <1>1, <1>6
  <2>2. r[n] = e.entry[n - 5]
    BY <2>1, <1>1
  <2> QED
    BY <2>1, <2>2, <1>4 DEF r
<1>7. CASE n = Size(e)
  <2>1. n # 1
    BY <1>1, <1>7
  <2> QED
    BY <2>1, <1>1, <1>7 DEF r
<1> QED
  BY <1>5, <1>6, <1>7

\* The cells of one entry in a dump.
LEMMA DumpCell ==
  ASSUME NEW E, Plains(E), NEW f, Holds(f, E, Len(E)),
         NEW k \in 1 .. Len(E), NEW n \in 1 .. Size(E[k])
  PROVE  /\ Offset(E)[k - 1] \in Nat /\ Offset(E)[k] = Offset(E)[k - 1] + Size(E[k])
         /\ Offset(E)[k - 1] + n \in 1 .. Len(f) /\ Offset(E)[k] <= Len(f)
         /\ f[Offset(E)[k - 1] + n] = Printed(E[k])[n]
         /\ f[Offset(E)[k - 1] + n] = "!" <=> n = 1
         /\ f[Offset(E)[k - 1] + n] # "ff"
<1> DEFINE o == Offset(E)
<1>1. /\ E \in Seq(BoardEntry) /\ E[k] \in BoardEntry /\ Plain(E[k]) /\ Len(E) \in Nat
      /\ k - 1 \in 0 .. Len(E) /\ k \in 0 .. Len(E) /\ Len(E) \in 0 .. Len(E)
  BY DEF Plains
<1>2. /\ o[k - 1] \in Nat /\ o[k] = o[k - 1] + Size(E[k]) /\ Size(E[k]) \in Nat
      /\ o[k] \in Nat /\ o[Len(E)] \in Nat /\ Len(f) = o[Len(E)]
  BY <1>1, OffsetFacts, PrintedFacts DEF Holds
<1>3. o[k] <= Len(f)
  <2>1. k = Len(E) \/ k < Len(E)
    BY <1>1
  <2>2. o[k] = o[Len(E)] \/ o[k] + 6 <= o[Len(E)]
    BY <2>1, <1>1, OffsetGrows
  <2> HIDE DEF o
  <2> QED
    BY <2>2, <1>2
<1>4. f[o[k - 1] + n] = Printed(E[k])[n]
  BY DEF Holds
<1>5. (Printed(E[k])[n] = "!" <=> n = 1) /\ Printed(E[k])[n] # "ff"
  BY <1>1, PlainCell
<1> HIDE DEF o
<1>6. o[k - 1] + n \in 1 .. Len(f)
  BY <1>2, <1>3
<1> QED
  BY <1>2, <1>3, <1>4, <1>5, <1>6 DEF o

\* There is room for just the entries that were dumped.
LEMMA DumpLimit ==
  ASSUME NEW E, Plains(E), NEW f, Holds(f, E, Len(E))
  PROVE  getEntryLimit(f) = Len(E)
<1> DEFINE o == Offset(E)
           T == {n \in DOMAIN f : f[n] = "!" /\ \A m \in 1 .. n : f[m] # "ff"}
           g == [k \in 1 .. Len(E) |-> o[k - 1] + 1]
<1>1. /\ E \in Seq(BoardEntry) /\ Len(E) \in Nat /\ f \in Seq(Byte) /\ DOMAIN f = 1 .. Len(f)
      /\ Len(f) = o[Len(E)] /\ \A k \in 1 .. Len(E) : 1 \in 1 .. Size(E[k])
  <2>1. E \in Seq(BoardEntry) /\ Len(E) \in Nat /\ f \in Seq(Byte) /\ Len(f) = o[Len(E)]
    BY DEF Plains, Holds
  <2>2. ASSUME NEW k \in 1 .. Len(E) PROVE 1 \in 1 .. Size(E[k])
    <3>1. E[k] \in BoardEntry
      BY <2>1
    <3>2. Size(E[k]) \in Nat /\ Size(E[k]) >= 6
      BY <3>1, PrintedFacts
    <3> QED
      BY <3>2
  <2> QED
    BY <2>1, <2>2
<1>2. \A q \in 1 .. Len(f) : \E k \in 1 .. Len(E) : \E n \in 1 .. Size(E[k]) : q = o[k - 1] + n
  <2>1. Len(E) \in 0 .. Len(E)
    BY <1>1
  <2> QED
    BY <2>1, <1>1, CellOf
<1>3. \A q \in 1 .. Len(f) : f[q] # "ff"
  BY <1>2, DumpCell
<1>4. ASSUME NEW k \in 1 .. Len(E) PROVE g[k] \in T
  <2>1. g[k] = o[k - 1] + 1 /\ 1 \in 1 .. Size(E[k])
    BY <1>1
  <2>2. o[k - 1] + 1 \in 1 .. Len(f) /\ f[o[k - 1] + 1] = "!"
    BY <2>1, DumpCell
  <2>3. \A m \in 1 .. o[k - 1] + 1 : m \in 1 .. Len(f)
    BY <2>2, <1>1
  <2> HIDE DEF g, o
  <2> QED
    BY <2>1, <2>2, <2>3, <1>1, <1>3
<1>5. ASSUME NEW q \in T PROVE \E k \in 1 .. Len(E) : q = g[k]
  <2>1. q \in 1 .. Len(f) /\ f[q] = "!"
    BY <1>1
  <2>2. PICK k \in 1 .. Len(E) : \E n \in 1 .. Size(E[k]) : q = o[k - 1] + n
    BY <2>1, <1>2
  <2>3. PICK n \in 1 .. Size(E[k]) : q = o[k - 1] + n
    BY <2>2
  <2>4. n = 1
    BY <2>1, <2>3, DumpCell
  <2> QED
    BY <2>3, <2>4
<1>6. ASSUME NEW j \in 1 .. Len(E), NEW k \in 1 .. Len(E), j < k PROVE g[j] # g[k]
  <2>0. Len(E) \in Nat
    BY <1>1
  <2>1. j - 1 \in 0 .. Len(E) /\ k - 1 \in 0 .. Len(E) /\ j - 1 < k - 1
    BY <2>0, <1>6
  <2>2. o[j - 1] + 6 <= o[k - 1] /\ o[j - 1] \in Nat /\ o[k - 1] \in Nat
    BY <2>1, <1>1, OffsetGrows, OffsetFacts
  <2> HIDE DEF o
  <2> QED
    BY <2>2
<1>7. \A j, k \in 1 .. Len(E) : g[j] = g[k] => j = k
  <2>1. \A j, k \in 1 .. Len(E) : j = k \/ j < k \/ k < j
    BY <1>1
  <2> HIDE DEF g
  <2> QED
    BY <2>1, <1>6
<1>8. g \in [1 .. Len(E) -> T]
  <2> HIDE DEF T
  <2> QED
    BY <1>4
<1> HIDE DEF g, T, o
<1>9. g \in Bijection(1 .. Len(E), T)
  <2>1. g \in Injection(1 .. Len(E), T)
    BY <1>7, <1>8 DEF Injection, IsInjective
  <2>2. \A q \in T : \E k \in 1 .. Len(E) : g[k] = q
    BY <1>5
  <2>3. g \in Surjection(1 .. Len(E), T)
    BY <1>8, <2>2 DEF Surjection
  <2> QED
    BY <2>1, <2>3 DEF Bijection
<1>10. ExistsBijection(1 .. Len(E), T)
  BY <1>9 DEF ExistsBijection
<1>11. IsFiniteSet(1 .. Len(E)) /\ Cardinality(1 .. Len(E)) = Len(E)
  <2>1. 1 \in Int /\ Len(E) \in Int
    BY <1>1
  <2>2. /\ IsFiniteSet(1 .. Len(E))
        /\ Cardinality(1 .. Len(E)) = IF 1 > Len(E) THEN 0 ELSE Len(E) - 1 + 1
    BY <2>1, FS_Interval
  <2> QED
    BY <2>2, <1>1
<1>12. Cardinality(T) = Len(E)
  BY <1>10, <1>11, FS_Bijection
<1> QED
  BY <1>12 DEF getEntryLimit, T

LEMMA HeaderTypes ==
  ASSUME NEW f \in Seq(Byte), NEW p \in 1 .. Len(f)
  PROVE  /\ ModeAt(f, p) \in p .. Len(f) /\ HeaderEnd(f, p) \in p .. Len(f)
         /\ NumberAt(f, p) \in Nat /\ LengthAt(f, p) \in Nat
         /\ TextEnd(f, p) \in Nat /\ p <= TextEnd(f, p)
         /\ TextEnd(f, p) <= Len(f) => TextAt(f, p) \in Seq(Byte)
<1> DEFINE m == ModeAt(f, p)
           h == HeaderEnd(f, p)
<1>1. Len(f) \in Nat /\ p \in Nat /\ p + 1 \in Nat \ {0}
  OBVIOUS
<1>2. m \in Nat /\ m <= Len(f) /\ (p + 1 <= Len(f) => p + 1 <= m) /\ (p + 1 > Len(f) => m = Len(f))
  BY <1>1, NextInFacts DEF ModeAt
<1> HIDE DEF m
<1>3. m + 1 \in Nat \ {0} /\ p <= m
  BY <1>1, <1>2
<1>4. h \in Nat /\ h <= Len(f) /\ (m + 1 <= Len(f) => m + 1 <= h) /\ (m + 1 > Len(f) => h = Len(f))
  BY <1>3, NextInFacts DEF HeaderEnd, m
<1> HIDE DEF h
<1>5. h \in p .. Len(f) /\ m \in p .. Len(f)
  BY <1>1, <1>2, <1>3, <1>4
<1>6. SubSeq(f, p + 1, m - 1) \in Seq(Byte) /\ SubSeq(f, m + 1, h - 1) \in Seq(Byte)
  BY <1>1, <1>2, <1>3, <1>4, <1>5
<1>7. NumberAt(f, p) \in Nat /\ LengthAt(f, p) \in Nat
  BY <1>6, StrtolFacts DEF NumberAt, LengthAt, m, h
<1>8. TextEnd(f, p) = h + LengthAt(f, p)
  BY DEF TextEnd, h
<1>9. TextEnd(f, p) \in Nat /\ p <= TextEnd(f, p) /\ h <= TextEnd(f, p)
  BY <1>1, <1>5, <1>7, <1>8
<1>10. ASSUME TextEnd(f, p) <= Len(f) PROVE TextAt(f, p) \in Seq(Byte)
  <2> DEFINE t == TextEnd(f, p)
  <2>1. TextAt(f, p) = SubSeq(f, h + 1, t)
    BY DEF TextAt, h
  <2>2. t \in Nat /\ t <= Len(f) /\ h + 1 \in Nat \ {0}
    BY <1>4, <1>9, <1>10
  <2> HIDE DEF t
  <2>3. SubSeq(f, h + 1, t) \in Seq(Byte)
    BY <2>2, <1>1
  <2> QED
    BY <2>1, <2>3
<1> QED
  BY <1>5, <1>7, <1>9, <1>10 DEF m, h

\* In the dump of E, entry k starts at p.
StartsAt(E, k, p) == p = Offset(E)[k - 1] + 1

\* An entry of a dump is read back as it was.
LEMMA ReadBack ==
  ASSUME NEW E, Plains(E), NEW f, Holds(f, E, Len(E)), NEW k \in 1 .. Len(E), NEW p,
         StartsAt(E, k, p)
  PROVE  /\ InOrder(f, p) /\ p \in 1 .. Len(f)
         /\ NumberAt(f, p) = E[k].entryNumber /\ f[ModeAt(f, p)] = E[k].mode
         /\ LengthAt(f, p) = E[k].length /\ TextEnd(f, p) = p + 4 + E[k].length
         /\ TextAt(f, p) = SubSeq(E[k].entry, 1, E[k].length)
         /\ TextEnd(f, p) < Offset(E)[k]
         /\ ModeAt(f, p) = p + 2 /\ HeaderEnd(f, p) = p + 4
<1> DEFINE e == E[k]
           r == Printed(e)
           o == Offset(E)
<1>1. E \in Seq(BoardEntry) /\ e \in BoardEntry /\ Plain(e) /\ f \in Seq(Byte) /\ Len(f) \in Nat
  BY DEF Plains, Holds
<1>2. /\ r[1] = "!" /\ r[2] = Digits[e.entryNumber + 1] /\ r[3] = e.mode
      /\ r[4] = Digits[e.length + 1] /\ r[5] = "nl"
      /\ \A n \in 1 .. Len(e.entry) : r[5 + n] = e.entry[n]
      /\ Len(e.entry) \in Nat /\ Size(e) = Len(e.entry) + 6
  BY <1>1, PrintedFacts DEF Size
<1>3. /\ e.entryNumber \in 0 .. 9 /\ e.length \in 0 .. 9 /\ e.mode \in Modes
      /\ e.length <= Len(e.entry) /\ e.entry \in Seq(Byte)
      /\ ToSet(SubSeq(e.entry, 1, e.length)) \cap (Negative \cup {"!"}) = {}
  BY <1>1 DEF Plain, BoardEntry
<1>4. /\ o[k - 1] \in Nat /\ o[k] = o[k - 1] + Size(e) /\ o[k] <= Len(f)
      /\ \A n \in 1 .. Size(e) : f[o[k - 1] + n] = r[n]
  <2>1. 1 \in 1 .. Size(e)
    BY <1>2
  <2>2. o[k - 1] \in Nat /\ o[k] = o[k - 1] + Size(e) /\ o[k] <= Len(f)
    BY <2>1, DumpCell
  <2>3. \A n \in 1 .. Size(e) : f[o[k - 1] + n] = r[n]
    BY DumpCell
  <2> QED
    BY <2>2, <2>3
<1> HIDE DEF e, r, o
<1>5. /\ p = o[k - 1] + 1 /\ p \in Nat /\ p >= 1 /\ p + 5 + Len(e.entry) <= Len(f)
      /\ Len(f) \in Nat /\ Len(e.entry) \in Nat
  <2>1. Size(e) = Len(e.entry) + 6 /\ Len(e.entry) \in Nat /\ Len(f) \in Nat
    BY <1>1, <1>2
  <2>2. o[k - 1] \in Nat /\ o[k - 1] + Size(e) <= Len(f) /\ p = o[k - 1] + 1
    BY <1>4 DEF o, StartsAt
  <2> DEFINE Z == o[k - 1]
             M == Len(e.entry)
             N == Len(f)
             A == Size(e)
  <2>3. A = M + 6 /\ M \in Nat /\ N \in Nat /\ Z \in Nat /\ Z + A <= N /\ p = Z + 1
    BY <2>1, <2>2
  <2> HIDE DEF Z, M, N, A
  <2>4. p = Z + 1 /\ p \in Nat /\ p >= 1 /\ p + 5 + M <= N
    BY <2>3
  <2> QED
    BY <2>3, <2>4 DEF Z, M, N
<1>18. /\ p + 1 \in 1 .. Len(f) /\ p + 2 \in 1 .. Len(f) /\ p + 3 \in 1 .. Len(f)
       /\ p + 4 \in 1 .. Len(f) /\ p + 5 \in 1 .. Len(f)
       /\ p + 1 + 1 = p + 2 /\ (p + 2) + 1 = p + 3 /\ (p + 2) - 1 = p + 1 /\ (p + 4) - 1 = p + 3
  <2> DEFINE N == Len(f)
             M == Len(e.entry)
  <2>1. N \in Nat /\ M \in Nat /\ p \in Nat /\ p >= 1 /\ p + 5 + M <= N
    BY <1>5
  <2> HIDE DEF N, M
  <2>2. /\ p + 1 \in 1 .. N /\ p + 2 \in 1 .. N /\ p + 3 \in 1 .. N
        /\ p + 4 \in 1 .. N /\ p + 5 \in 1 .. N
    BY <2>1
  <2>3. p + 1 + 1 = p + 2 /\ (p + 2) + 1 = p + 3 /\ (p + 2) - 1 = p + 1 /\ (p + 4) - 1 = p + 3
    BY <2>1
  <2> QED
    BY <2>2, <2>3 DEF N
<1>6. \A n \in 1 .. 5 + Len(e.entry) : f[p + n - 1] = r[n]
  <2>1. ASSUME NEW n \in 1 .. 5 + Len(e.entry) PROVE f[p + n - 1] = r[n]
    <3>1. n \in 1 .. Size(e) /\ p + n - 1 = o[k - 1] + n
      <4> DEFINE Z == o[k - 1]
                 M == Len(e.entry)
                 A == Size(e)
      <4>1. A = M + 6 /\ M \in Nat /\ Z \in Nat /\ p = Z + 1 /\ n \in 1 .. 5 + M
        BY <1>2, <1>4, <1>5
      <4> HIDE DEF Z, M, A
      <4>2. n \in 1 .. A /\ p + n - 1 = Z + n
        BY <4>1
      <4> QED
        BY <4>2 DEF Z, A
    <3> QED
      BY <3>1, <1>4
  <2> QED
    BY <2>1
<1>7. /\ f[p + 1] = Digits[e.entryNumber + 1] /\ f[p + 2] = e.mode
      /\ f[p + 3] = Digits[e.length + 1] /\ f[p + 4] = "nl"
  <2>3. \A n \in 1 .. 5 : n \in 1 .. 5 + Len(e.entry)
    BY <1>5
  <2>1. f[p + 2 - 1] = r[2] /\ f[p + 3 - 1] = r[3] /\ f[p + 4 - 1] = r[4] /\ f[p + 5 - 1] = r[5]
    BY <2>3, <1>6
  <2>2. p + 2 - 1 = p + 1 /\ p + 3 - 1 = p + 2 /\ p + 4 - 1 = p + 3 /\ p + 5 - 1 = p + 4
    BY <1>5
  <2> QED
    BY <2>1, <2>2, <1>2
<1>8. f[p + 1] \in ToSet(Digits) /\ f[p + 3] \in ToSet(Digits)
  <2>1. e.entryNumber + 1 \in 1 .. 10 /\ e.length + 1 \in 1 .. 10
    BY <1>3
  <2> QED
    BY <2>1, <1>7, DigitFacts
<1>9. ModeAt(f, p) = p + 2
  <2>1. /\ p + 1 \in Nat \ {0} /\ p + 2 \in p + 1 .. Len(f)
        /\ \A j \in p + 1 .. (p + 2) - 1 : j = p + 1
    <3>1. p \in Nat /\ Len(f) \in Nat /\ p + 2 <= Len(f)
      BY <1>5, <1>18
    <3> QED
      BY <3>1
  <2>2. f[p + 2] \in Modes \cup {"nl"} /\ f[p + 1] \notin Modes \cup {"nl"}
    BY <1>3, <1>7, <1>8, DigitFacts
  <2>3. \A j \in p + 1 .. (p + 2) - 1 : f[j] \notin Modes \cup {"nl"}
    BY <2>1, <2>2
  <2>4. NextIn(f, p + 1, Modes \cup {"nl"}) = p + 2
    BY <2>1, <2>2, <2>3, <1>1, NextInFacts
  <2> QED
    BY <2>4 DEF ModeAt
<1>10. HeaderEnd(f, p) = p + 4
  <2>1. /\ (p + 2) + 1 \in Nat \ {0} /\ p + 4 \in (p + 2) + 1 .. Len(f)
        /\ \A j \in (p + 2) + 1 .. (p + 4) - 1 : j = p + 3
    <3>1. p \in Nat /\ Len(f) \in Nat /\ p + 4 <= Len(f)
      BY <1>5, <1>18
    <3> QED
      BY <3>1
  <2>2. f[p + 4] \in Cells \ ToSet(Digits) /\ f[p + 3] \notin Cells \ ToSet(Digits)
    BY <1>7, <1>8, DigitFacts DEF Cells
  <2>3. \A j \in (p + 2) + 1 .. (p + 4) - 1 : f[j] \notin Cells \ ToSet(Digits)
    BY <2>1, <2>2
  <2>4. NextIn(f, (p + 2) + 1, Cells \ ToSet(Digits)) = p + 4
    BY <2>1, <2>2, <2>3, <1>1, NextInFacts
  <2> QED
    BY <2>4, <1>9 DEF HeaderEnd
<1>11. NumberAt(f, p) = e.entryNumber
  <2> DEFINE s == SubSeq(f, p + 1, (p + 2) - 1)
  <2>1. (p + 2) - 1 = p + 1 /\ p + 1 \in 1 .. Len(f)
    BY <1>5, <1>18
  <2>2. s \in Seq(Byte) /\ Len(s) = 1 /\ s[1] = f[p + 1]
    BY <2>1, <1>1
  <2> HIDE DEF s
  <2>3. Strtol(s) = e.entryNumber
    BY <2>2, <1>3, <1>7, StrtolFacts
  <2> QED
    BY <2>3, <1>9 DEF NumberAt, s
<1>12. LengthAt(f, p) = e.length
  <2> DEFINE s == SubSeq(f, (p + 2) + 1, (p + 4) - 1)
  <2>1. (p + 2) + 1 = p + 3 /\ (p + 4) - 1 = p + 3 /\ p + 3 \in 1 .. Len(f)
    BY <1>5, <1>18
  <2>4. s = SubSeq(f, p + 3, p + 3)
    BY <2>1
  <2>2. s \in Seq(Byte) /\ Len(s) = 1 /\ s[1] = f[p + 3]
    <3> DEFINE q == p + 3
    <3>1. q \in 1 .. Len(f) /\ s = SubSeq(f, q, q)
      BY <2>1, <2>4
    <3> HIDE DEF s, q
    <3>2. s \in Seq(Byte) /\ Len(s) = 1 /\ s[1] = f[q]
      BY <3>1, <1>1
    <3> QED
      BY <3>2 DEF q
  <2> HIDE DEF s
  <2>3. Strtol(s) = e.length
    BY <2>2, <1>3, <1>7, StrtolFacts
  <2> QED
    BY <2>3, <1>9, <1>10 DEF LengthAt, s
<1>13. TextEnd(f, p) = p + 4 + e.length
  BY <1>10, <1>12 DEF TextEnd
<1>14. p + 4 + e.length <= Len(f) /\ p + 4 + e.length < o[k]
  <2>1. o[k] = o[k - 1] + Size(e) /\ Size(e) = Len(e.entry) + 6 /\ o[k - 1] \in Nat
    BY <1>2, <1>4
  <2>2. e.length \in Nat /\ e.length <= Len(e.entry)
    BY <1>3
  <2> DEFINE N == Len(f)
             M == Len(e.entry)
             L == e.length
             Z == o[k - 1]
  <2>3. N \in Nat /\ M \in Nat /\ p = Z + 1 /\ Z \in Nat /\ p + 5 + M <= N /\ L \in Nat /\ L <= M
    BY <2>1, <2>2, <1>5
  <2>4. o[k] = Z + (M + 6)
    BY <2>1
  <2> HIDE DEF N, M, L, Z
  <2>5. p + 4 + L <= N /\ p + 4 + L < Z + (M + 6)
    BY <2>3
  <2> QED
    BY <2>4, <2>5 DEF N, L
<1>15. TextAt(f, p) = SubSeq(e.entry, 1, e.length)
  <2> DEFINE a == SubSeq(f, (p + 4) + 1, p + 4 + e.length)
             b == SubSeq(e.entry, 1, e.length)
  <2>1. TextAt(f, p) = a
    BY <1>10, <1>13 DEF TextAt
  <2> DEFINE L == e.length
             u == p + 4
  <2>2. L \in Nat /\ u \in Nat /\ u + L <= Len(f) /\ L <= Len(e.entry)
    <3>1. e.length \in Nat /\ e.length <= Len(e.entry)
      BY <1>3
    <3> QED
      BY <3>1, <1>5, <1>14
  <2>3. a = SubSeq(f, u + 1, u + L) /\ b = SubSeq(e.entry, 1, L)
    OBVIOUS
  <2> DEFINE M == Len(e.entry)
             N == Len(f)
  <2>7. M \in Nat /\ N \in Nat /\ p \in Nat /\ u + L <= N /\ L <= M
    BY <2>2, <1>5
  <2> HIDE DEF L, u, a, b
  <2>4. /\ a \in Seq(Byte) /\ Len(a) = L /\ \A n \in 1 .. L : a[n] = f[u + n]
    <3>1. a \in Seq(Byte)
      BY <2>2, <2>3, <1>1
    <3>2. u + 1 \in Int /\ u + L \in Int /\ u + L - (u + 1) + 1 = L
      BY <2>2
    <3>3. \A n \in u + 1 .. u + L : n \in 1 .. Len(f)
      BY <2>2, <1>5
    <3>4. Len(a) = L /\ \A n \in 1 .. L : a[n] = f[u + 1 + n - 1]
      BY <2>2, <2>3, <3>2, <3>3, <1>1, SubSeqProperties
    <3>5. \A n \in 1 .. L : u + 1 + n - 1 = u + n
      BY <2>2
    <3> QED
      BY <3>1, <3>4, <3>5
  <2>5. /\ b \in Seq(Byte) /\ Len(b) = L /\ \A n \in 1 .. L : b[n] = e.entry[n]
    BY <2>2, <2>3, <1>3
  <2>6. ASSUME NEW n \in 1 .. L PROVE a[n] = b[n]
    <3>1. 5 + n \in 1 .. 5 + Len(e.entry) /\ n \in 1 .. Len(e.entry) /\ p + (5 + n) - 1 = u + n
      <4>1. 5 + n \in 1 .. 5 + M /\ n \in 1 .. M
        <5> HIDE DEF M, N
        <5> QED
          BY <2>2, <2>7
      <4>2. p + (5 + n) - 1 = u + n
        BY <2>2, <2>7 DEF u
      <4> QED
        BY <4>1, <4>2
    <3>2. f[u + n] = r[5 + n] /\ r[5 + n] = e.entry[n]
      BY <3>1, <1>2, <1>6
    <3> QED
      BY <3>2, <2>4, <2>5
  <2>8. a = b
    <3>1. a = [n \in 1 .. Len(a) |-> a[n]] /\ b = [n \in 1 .. Len(b) |-> b[n]]
      BY <2>4, <2>5
    <3>2. Len(a) = L /\ Len(b) = L
      BY <2>4, <2>5
    <3>3. a = [n \in 1 .. L |-> a[n]] /\ b = [n \in 1 .. L |-> b[n]]
      BY <3>1, <3>2, Zenon
    <3> QED
      BY <3>3, <2>6, Zenon
  <2> QED
    BY <2>1, <2>8 DEF b
<1>16. InOrder(f, p)
  BY <1>3, <1>7, <1>9, <1>10, <1>13, <1>14, <1>15, CellsFacts DEF InOrder
<1>17. p \in 1 .. Len(f)
  BY <1>2, <1>5
<1> QED
  BY <1>7, <1>9, <1>10, <1>11, <1>12, <1>13, <1>14, <1>15, <1>16, <1>17 DEF e, o

----------------------------------------------------------------------------
(* The inductive invariant *)

Updates == [pc : {"none", "erase", "mode", "length", "buffer", "fill"}, at : Nat,
            mode : Byte, length : Nat, entry : Seq(Byte)]

\* What the variables hold.
Typed ==
  /\ \A p \in DOMAIN disk : disk[p] \in Seq(Byte)
  /\ entries \in Seq(BoardEntry) /\ entryNum \in Nat /\ pos \in Nat \ {0}
  /\ streams \in Seq(Seq(Byte)) /\ i \in 0 .. Len(entries)
  /\ upd \in Updates /\ (upd # NoUpdate => upd.at \in DOMAIN entries)
  /\ signals \in Nat /\ quiet \in BOOLEAN /\ args.size \in Nat

\* What main has not done yet where it is.
Phases ==
  /\ pc \in {"down", "args", "fill", "fork", "stuck"} =>
       jump = "none" /\ upd = NoUpdate /\ streams = <<>>
  /\ pc = "args" => entries = <<>> /\ entryNum = 0 /\ pos = 1
  /\ pc = "fill" => args.file \in DOMAIN disk
  /\ pc \in {"armed", "daemon", "serve"} => streams = <<>>
  /\ pc \in {"handler", "landing", "closing"} =>
       quit_request /\ (dir \in args.rights => streams # <<>>)
  /\ streams # <<>> => dir \in args.rights
  /\ pc = "closing" /\ dir \in args.rights => dir \notin DOMAIN kept

\* Every stream holds a beginning of the board's dump, unless the board has changed since.
Beginnings ==
  quiet /\ streams # <<>> =>
    /\ upd = NoUpdate
    /\ \A k \in 1 .. Len(streams) : \E m \in 0 .. Len(entries) : Holds(streams[k], entries, m)
    /\ pc \in {"handler", "closing"} => Holds(streams[Len(streams)], entries, i)

\* A file of which a board is remembered is the dump of that board.
Copies ==
  \A p \in DOMAIN kept :
    p \in DOMAIN disk /\ Plains(kept[p]) /\ Holds(disk[p], kept[p], Len(kept[p]))

\* The "!" in front of cell q.
Marks(f, q) == {n \in DOMAIN f : n < q /\ f[n] = "!"}

\* For every entry that has been loaded the loader is past another "!".
Room ==
  pc = "fill" =>
    /\ Len(entries) = getEntryLimit(file)
    /\ "ff" \notin ToSet(file) => entryNum <= Cardinality(Marks(file, pos))

\* The loader has come to the rest of the entry it has loaded last, or to the next one.
Restoring ==
  pc = "fill" /\ args.file \in DOMAIN kept =>
    /\ entryNum <= Len(kept[args.file])
    /\ pos <= Offset(kept[args.file])[entryNum] + 1
    /\ entryNum > 0 => pos > Offset(kept[args.file])[entryNum - 1] + 1
    /\ \A n \in 1 .. entryNum : SameEntry(entries[n], kept[args.file][n])

IInv == Typed /\ Phases /\ Beginnings /\ Copies /\ Room /\ Restoring /\ RestoredAsDumped

LEMMA Groups ==
  \A S, T : S \subseteq T => Seq(S) \subseteq Seq(T)
OBVIOUS

LEMMA NoUpdateFacts == NoUpdate \in Updates /\ NoUpdate.pc = "none"
<1>1. "p" \in Byte /\ <<>> \in Seq(Byte)
  BY CellsFacts DEF Modes
<1> QED
  BY <1>1 DEF NoUpdate, Updates

LEMMA SizesFacts == NoArgs.size \in Nat /\ \A a \in Arguments : a.size \in Nat
<1>1. Sizes \subseteq Nat
  BY BoundsAssumption
<1>2. NoArgs.size \in Nat
  BY DEF NoArgs
<1>3. ASSUME NEW a \in Arguments PROVE a.size \in Nat
  <2>1. a.size \in Sizes \/ a.size \in {0}
    BY DEF Arguments
  <2>2. 0 \in Nat
    OBVIOUS
  <2> QED
    BY <2>1, <2>2, <1>1, Zenon
<1> QED
  BY <1>2, <1>3

LEMMA Initially == Init => IInv
<1> SUFFICES ASSUME Init PROVE IInv
  OBVIOUS
<1>1. \A p \in DOMAIN disk : disk[p] \in Seq(Byte)
  <2>1. \A f \in Handmade : f \in Seq(Byte)
    BY HandmadeAssumption, CellsFacts, Groups
  <2> QED
    BY <2>1 DEF Init
<1>2. Typed
  BY <1>1, NoUpdateFacts, SizesFacts DEF Init, Typed
<1>3. Phases /\ Beginnings /\ Room /\ Restoring /\ RestoredAsDumped
  BY DEF Init, Phases, Beginnings, Room, Restoring, RestoredAsDumped
<1>4. Copies
  BY DEF Init, Copies
<1> QED
  BY <1>2, <1>3, <1>4 DEF IInv

\* Nothing is loaded.
LEMMA NotLoading ==
  ASSUME pc' \notin {"fill", "fork"}
  PROVE  Room' /\ Restoring' /\ RestoredAsDumped'
BY DEF Room, Restoring, RestoredAsDumped

\* The process ends.
LEMMA Stopping ==
  ASSUME Stop, signals' \in Nat, Copies', \A p \in DOMAIN disk' : disk'[p] \in Seq(Byte)
  PROVE  IInv'
<1>1. Typed'
  BY NoUpdateFacts, SizesFacts DEF Stop, Blank, Typed
<1>2. Phases' /\ Beginnings'
  BY DEF Stop, Blank, Phases, Beginnings
<1>3. Room' /\ Restoring' /\ RestoredAsDumped'
  BY NotLoading DEF Stop
<1> QED
  BY <1>1, <1>2, <1>3 DEF IInv

\* The files and what is remembered of them are left alone.
LEMMA FilesKept ==
  ASSUME IInv, UNCHANGED <<disk, kept>>
  PROVE  Copies' /\ \A q \in DOMAIN disk' : disk'[q] \in Seq(Byte)
BY DEF IInv, Copies, Typed

LEMMA Truncating ==
  ASSUME IInv, NEW p, NEW rights, Truncate(p, rights)
  PROVE  /\ Copies' /\ (\A q \in DOMAIN disk' : disk'[q] \in Seq(Byte))
         /\ p \in rights => p \notin DOMAIN kept'
<1> SUFFICES ASSUME p \in rights
             PROVE  /\ Copies' /\ (\A q \in DOMAIN disk' : disk'[q] \in Seq(Byte))
                    /\ p \notin DOMAIN kept'
  BY FilesKept DEF Truncate
<1>1. DOMAIN disk' = DOMAIN disk \cup {p} /\ DOMAIN kept' = DOMAIN kept \ {p}
  BY DEF Truncate, Put, Drop
<1>2. \A q \in DOMAIN disk' : disk'[q] = IF q = p THEN <<>> ELSE disk[q]
  BY DEF Truncate, Put
<1>3. \A q \in DOMAIN kept' : kept'[q] = kept[q] /\ q # p
  BY DEF Truncate, Drop
<1>4. Copies'
  <2> SUFFICES ASSUME NEW q \in DOMAIN kept'
               PROVE  q \in DOMAIN disk' /\ Plains(kept'[q]) /\ Holds(disk'[q], kept'[q], Len(kept'[q]))
    BY DEF Copies
  <2>1. q \in DOMAIN kept /\ q \in DOMAIN disk /\ q \in DOMAIN disk'
    BY <1>1 DEF IInv, Copies
  <2>2. kept'[q] = kept[q] /\ disk'[q] = disk[q]
    BY <2>1, <1>2, <1>3
  <2> QED
    BY <2>1, <2>2 DEF IInv, Copies
<1>5. <<>> \in Seq(Byte)
  OBVIOUS
<1> QED
  BY <1>1, <1>2, <1>4, <1>5 DEF IInv, Typed

LEMMA Starting ==
  ASSUME IInv, NEW a \in Arguments, Start(a)
  PROVE  IInv'
<1>1. /\ Truncate(a.cwd, a.rights) /\ Blank(a) /\ pc' = "args"
      /\ signals' = signals /\ quiet' = quiet
  BY DEF Start
<1>2. Copies' /\ \A q \in DOMAIN disk' : disk'[q] \in Seq(Byte)
  BY <1>1, Truncating
<1>3. Typed'
  BY <1>1, <1>2, NoUpdateFacts, SizesFacts DEF Blank, Typed, IInv
<1>4. Phases' /\ Beginnings'
  BY <1>1 DEF Blank, Phases, Beginnings
<1>5. Room' /\ Restoring' /\ RestoredAsDumped'
  BY <1>1, NotLoading
<1> QED
  BY <1>2, <1>3, <1>4, <1>5 DEF IInv

LEMMA Refusing ==
  ASSUME IInv, RefuseArgs \/ RefuseEntry \/ Overrun \/ NullStream \/ ForkFails \/ BindFails
  PROVE  IInv'
<1>1. Stop /\ UNCHANGED <<disk, counts, kept>>
  BY DEF RefuseArgs, RefuseEntry, Overrun, NullStream, ForkFails, BindFails
<1>2. signals' \in Nat
  BY <1>1 DEF counts, IInv, Typed
<1> QED
  BY <1>1, <1>2, FilesKept, Stopping

----------------------------------------------------------------------------
(* The board is made or loaded *)

\* Before the fork nothing has been dumped.
LEMMA BeforeFork ==
  ASSUME IInv, pc \in {"args", "fill"}, pc' \in {"fill", "fork"}, streams' = streams,
         jump' = jump, upd' = upd, i' = i
  PROVE  Beginnings' /\ (pc' = "fork" => Phases') /\ streams = <<>> /\ upd = NoUpdate
<1>1. jump = "none" /\ upd = NoUpdate /\ streams = <<>>
  BY DEF IInv, Phases
<1> QED
  BY <1>1 DEF Beginnings, Phases

LEMMA Blanking ==
  ASSUME IInv, fillWhiteboardBlank
  PROVE  IInv'
<1> DEFINE board == [n \in 1 .. args.size |->
                       [entryNumber |-> n, mode |-> "p", length |-> 0, entry |-> <<>>]]
<1>1. /\ pc = "args" /\ args.opt = "-n" /\ pc' = "fork" /\ args' = args
      /\ entries' = board
      /\ UNCHANGED <<disk, kept, entryNum, pos, jump, streams, i, upd, signals, quiet>>
  BY DEF fillWhiteboardBlank, arguments, points, dump, counts
<1>2. board \in Seq(BoardEntry)
  <2>1. args.size \in Nat /\ "p" \in Byte /\ <<>> \in Seq(Byte)
    BY CellsFacts DEF IInv, Typed, Modes
  <2>2. \A n \in 1 .. args.size :
          [entryNumber |-> n, mode |-> "p", length |-> 0, entry |-> <<>>] \in BoardEntry
    BY <2>1 DEF BoardEntry
  <2> QED
    BY <2>1, <2>2
<1> HIDE DEF board
<1>3. i = 0 /\ 0 \in 0 .. Len(entries')
  <2>1. i \in 0 .. Len(entries) /\ entries = <<>>
    BY <1>1 DEF IInv, Typed, Phases
  <2> QED
    BY <2>1, <1>1, <1>2
<1>4. Beginnings' /\ Phases' /\ upd = NoUpdate
  BY <1>1, BeforeFork
<1>5. Typed'
  BY <1>1, <1>2, <1>3, <1>4 DEF IInv, Typed
<1>6. Copies'
  BY <1>1, FilesKept
<1>7. Room' /\ Restoring' /\ RestoredAsDumped'
  BY <1>1 DEF Room, Restoring, RestoredAsDumped
<1> QED
  BY <1>4, <1>5, <1>6, <1>7 DEF IInv

LEMMA UnfilledTyped == Unfilled \in BoardEntry
<1>1. <<"x">> \in Seq(Byte) /\ "zero" \in Byte
  BY CellsFacts
<1> QED
  BY <1>1 DEF Unfilled, BoardEntry

\* The "!" in a file can be counted.
LEMMA LimitType ==
  ASSUME NEW f \in Seq(Byte)
  PROVE  /\ getEntryLimit(f) \in Nat
         /\ \A q : IsFiniteSet(Marks(f, q)) /\ Cardinality(Marks(f, q)) \in Nat
         /\ "ff" \notin ToSet(f) => \A q : Cardinality(Marks(f, q)) <= getEntryLimit(f)
<1> DEFINE T == {n \in DOMAIN f : f[n] = "!" /\ \A m \in 1 .. n : f[m] # "ff"}
<1>1. DOMAIN f = 1 .. Len(f) /\ Len(f) \in Nat /\ IsFiniteSet(1 .. Len(f))
  BY FS_Interval
<1>2. IsFiniteSet(T) /\ Cardinality(T) \in Nat /\ getEntryLimit(f) = Cardinality(T)
  <2>1. T \subseteq 1 .. Len(f)
    BY <1>1
  <2>2. getEntryLimit(f) = Cardinality(T)
    BY DEF getEntryLimit
  <2> HIDE DEF T
  <2> QED
    BY <2>1, <2>2, <1>1, FS_Subset, FS_CardinalityType
<1>3. ASSUME NEW q PROVE IsFiniteSet(Marks(f, q)) /\ Cardinality(Marks(f, q)) \in Nat
  <2>1. Marks(f, q) \subseteq 1 .. Len(f)
    BY <1>1 DEF Marks
  <2> QED
    BY <2>1, <1>1, FS_Subset, FS_CardinalityType
<1>4. ASSUME "ff" \notin ToSet(f), NEW q PROVE Cardinality(Marks(f, q)) <= getEntryLimit(f)
  <2>1. \A m \in 1 .. Len(f) : f[m] # "ff"
    BY <1>1, <1>4 DEF ToSet
  <2>2. Marks(f, q) \subseteq T
    <3>1. ASSUME NEW n \in Marks(f, q) PROVE n \in T
      <4>1. n \in 1 .. Len(f) /\ f[n] = "!"
        BY <1>1 DEF Marks
      <4>2. \A m \in 1 .. n : m \in 1 .. Len(f)
        BY <4>1, <1>1
      <4> QED
        BY <4>1, <4>2, <2>1, <1>1
    <3> HIDE DEF T
    <3> QED
      BY <3>1
  <2> HIDE DEF T
  <2> QED
    BY <2>2, <1>2, FS_Subset
<1> HIDE DEF T
<1> QED
  BY <1>2, <1>3, <1>4

LEMMA Opening ==
  ASSUME IInv, OpenStateFile
  PROVE  IInv'
<1> DEFINE N == getEntryLimit(disk[args.file])
           board == [n \in 1 .. N |-> Unfilled]
           f == disk[args.file]
<1>1. /\ pc = "args" /\ args.file \in DOMAIN disk /\ pc' = "fill" /\ args' = args
      /\ entries' = board
      /\ UNCHANGED <<disk, kept, entryNum, pos, jump, streams, i, upd, signals, quiet>>
  BY DEF OpenStateFile, arguments, points, dump, counts
<1>2. /\ f \in Seq(Byte) /\ entries = <<>> /\ entryNum = 0 /\ pos = 1 /\ i \in 0 .. Len(entries)
      /\ jump = "none"
  BY <1>1 DEF IInv, Typed, Phases
<1>3. N \in Nat
  <2> HIDE DEF f
  <2>1. getEntryLimit(f) \in Nat
    BY <1>2, LimitType
  <2> QED
    BY <2>1 DEF f
<1>4. file' = f
  BY <1>1 DEF file
<1> HIDE DEF N
<1>5. board \in Seq(BoardEntry) /\ Len(board) = N
  BY <1>3, UnfilledTyped
<1> HIDE DEF board
<1>6. i = 0 /\ 0 \in 0 .. Len(entries')
  BY <1>1, <1>2, <1>3, <1>5
<1>7. Beginnings' /\ streams = <<>> /\ upd = NoUpdate
  BY <1>1, BeforeFork
<1>8. Typed'
  BY <1>1, <1>5, <1>6, <1>7 DEF IInv, Typed
<1>9. Phases'
  BY <1>1, <1>2, <1>7 DEF Phases
<1>10. Copies'
  BY <1>1, FilesKept
<1>11. Room'
  <2>1. Cardinality(Marks(f, 1)) \in Nat
    BY <1>2, LimitType
  <2>2. Len(entries') = getEntryLimit(f)
    BY <1>1, <1>5 DEF N
  <2> HIDE DEF f
  <2> QED
    BY <2>1, <2>2, <1>1, <1>2, <1>4 DEF Room
<1>12. Restoring'
  <2> SUFFICES ASSUME args.file \in DOMAIN kept
               PROVE  /\ 0 <= Len(kept[args.file])
                      /\ 1 <= Offset(kept[args.file])[0] + 1
    BY <1>1, <1>2 DEF Restoring
  <2>1. kept[args.file] \in Seq(BoardEntry)
    BY DEF IInv, Copies, Plains
  <2>2. Offset(kept[args.file])[0] = 0
    BY <2>1, OffsetFacts
  <2> QED
    BY <2>1, <2>2
<1>13. RestoredAsDumped'
  BY <1>1 DEF RestoredAsDumped
<1> QED
  BY <1>7, <1>8, <1>9, <1>10, <1>11, <1>12, <1>13 DEF IInv

\* Where the loader is, and that only its place and its entries change.
Loading(p, n) ==
  /\ pc = "fill" /\ pc' = pc /\ args' = args /\ pos' = p /\ entryNum' = n
  /\ UNCHANGED <<disk, kept, jump, streams, i, upd, signals, quiet>>

LEMMA Loader ==
  ASSUME IInv, NEW p \in Nat \ {0}, NEW n \in Nat, Loading(p, n),
         entries' \in Seq(BoardEntry), Len(entries') = Len(entries)
  PROVE  /\ Typed' /\ Phases' /\ Beginnings' /\ Copies' /\ RestoredAsDumped'
         /\ file' = file /\ file \in Seq(Byte)
<1>1. Beginnings' /\ streams = <<>> /\ upd = NoUpdate
  BY BeforeFork DEF Loading
<1>2. Typed'
  BY <1>1 DEF Loading, IInv, Typed
<1>3. Phases'
  BY <1>1 DEF Loading, IInv, Phases
<1>4. Copies'
  BY FilesKept DEF Loading
<1>5. RestoredAsDumped'
  BY DEF Loading, RestoredAsDumped
<1>6. file' = file
  BY DEF Loading, file
<1>7. file \in Seq(Byte)
  BY DEF Loading, IInv, Typed, Phases, file
<1> QED
  BY <1>1, <1>2, <1>3, <1>4, <1>5, <1>6, <1>7

\* The board the file is the dump of.
LEMMA Remembered ==
  ASSUME IInv, pc = "fill", args.file \in DOMAIN kept
  PROVE  LET E == kept[args.file]
         IN  /\ Plains(E) /\ E \in Seq(BoardEntry) /\ Holds(file, E, Len(E)) /\ Len(E) \in Nat
             /\ entryNum \in 0 .. Len(E) /\ Len(entries) = Len(E)
             /\ pos <= Offset(E)[entryNum] + 1
             /\ entryNum > 0 => pos > Offset(E)[entryNum - 1] + 1
             /\ \A n \in 1 .. entryNum : SameEntry(entries[n], E[n])
<1> DEFINE E == kept[args.file]
<1>1. Plains(E) /\ Holds(file, E, Len(E))
  BY DEF IInv, Copies, file
<1>2. E \in Seq(BoardEntry) /\ Len(E) \in Nat
  BY <1>1 DEF Plains
<1>3. /\ entryNum \in Nat /\ entryNum <= Len(E)
      /\ pos <= Offset(E)[entryNum] + 1
      /\ entryNum > 0 => pos > Offset(E)[entryNum - 1] + 1
      /\ \A n \in 1 .. entryNum : SameEntry(entries[n], E[n])
  BY DEF IInv, Restoring, Typed
<1> HIDE DEF E
<1>4. Len(entries) = Len(E)
  <2>1. Len(entries) = getEntryLimit(file)
    BY DEF IInv, Room
  <2>2. getEntryLimit(file) = Len(E)
    BY <1>1, DumpLimit
  <2> QED
    BY <2>1, <2>2
<1>5. entryNum \in 0 .. Len(E)
  BY <1>2, <1>3
<1> QED
  BY <1>1, <1>2, <1>3, <1>4, <1>5 DEF E

\* Between the "!" of the entry loaded last and the next entry there is no other "!".
LEMMA NextMark ==
  ASSUME IInv, pc = "fill", args.file \in DOMAIN kept, pos <= Len(file), file[pos] = "!"
  PROVE  /\ entryNum + 1 \in 1 .. Len(kept[args.file])
         /\ StartsAt(kept[args.file], entryNum + 1, pos)
<1> DEFINE E == kept[args.file]
           o == Offset(E)
<1>1. /\ Plains(E) /\ E \in Seq(BoardEntry) /\ Holds(file, E, Len(E)) /\ Len(E) \in Nat
      /\ entryNum \in 0 .. Len(E)
      /\ pos <= o[entryNum] + 1
      /\ entryNum > 0 => pos > o[entryNum - 1] + 1
  BY Remembered
<1>2. pos \in Nat /\ pos >= 1 /\ entryNum \in Nat
  BY DEF IInv, Typed
<1> HIDE DEF E
<1>3. \A k \in 0 .. Len(E) : o[k] \in Nat
  BY <1>1, OffsetFacts
<1>4. Len(E) \in 0 .. Len(E) /\ Len(file) = o[Len(E)] /\ o[Len(E)] \in Nat
  BY <1>1, <1>3 DEF Holds
<1>5. pos \in 1 .. o[Len(E)]
  BY <1>2, <1>4
<1>6. PICK k \in 1 .. Len(E) : \E n \in 1 .. Size(E[k]) : pos = o[k - 1] + n
  BY <1>1, <1>4, <1>5, CellOf
<1>7. PICK n \in 1 .. Size(E[k]) : pos = o[k - 1] + n
  BY <1>6
<1>8. n = 1
  BY <1>1, <1>7, DumpCell
<1>9. k - 1 \in 0 .. Len(E) /\ o[k - 1] \in Nat /\ o[entryNum] \in Nat
  BY <1>1, <1>3
<1>10. ~ (k - 1 > entryNum)
  <2> SUFFICES ASSUME k - 1 > entryNum PROVE FALSE
    OBVIOUS
  <2>1. o[entryNum] + 6 <= o[k - 1]
    BY <1>1, <1>9, <1>2, OffsetGrows
  <2> HIDE DEF o
  <2> QED
    BY <2>1, <1>1, <1>2, <1>7, <1>8, <1>9
<1>11. ~ (k - 1 < entryNum)
  <2> SUFFICES ASSUME k - 1 < entryNum PROVE FALSE
    OBVIOUS
  <2>1. entryNum - 1 \in 0 .. Len(E) /\ entryNum > 0
    BY <1>1, <1>2, <1>9
  <2>2. k - 1 = entryNum - 1 \/ k - 1 < entryNum - 1
    BY <1>2, <1>9
  <2>3. o[k - 1] = o[entryNum - 1] \/ o[k - 1] + 6 <= o[entryNum - 1]
    BY <2>1, <2>2, <1>1, <1>9, OffsetGrows
  <2>4. o[entryNum - 1] \in Nat /\ pos > o[entryNum - 1] + 1
    BY <2>1, <1>1, <1>3
  <2> HIDE DEF o
  <2> QED
    BY <2>3, <2>4, <1>2, <1>7, <1>8, <1>9
<1>12. k = entryNum + 1
  BY <1>2, <1>9, <1>10, <1>11
<1>13. (entryNum + 1) - 1 = k - 1
  BY <1>2, <1>12
<1> QED
  BY <1>7, <1>8, <1>12, <1>13 DEF StartsAt, E

LEMMA Skipping ==
  ASSUME IInv, SkipLine
  PROVE  IInv'
<1> DEFINE p == NextIn(file, pos, {"nl"}) + 1
<1>1. /\ Loading(p, entryNum) /\ pc = "fill" /\ entries' = entries /\ file[pos] # "!"
      /\ pos <= Len(file)
  BY DEF SkipLine, Loading, arguments, points, dump, counts
<1>2. /\ pos \in Nat \ {0} /\ entryNum \in Nat /\ entries \in Seq(BoardEntry)
      /\ file \in Seq(Byte)
  BY <1>1 DEF IInv, Typed, Phases, file
<1>3. p \in Nat \ {0} /\ pos < p
  <2> DEFINE n == NextIn(file, pos, {"nl"})
  <2>1. n \in Nat /\ pos <= n
    BY <1>1, <1>2, NextInFacts
  <2> HIDE DEF n
  <2>2. n + 1 \in Nat \ {0} /\ pos < n + 1
    BY <2>1, <1>2
  <2> QED
    BY <2>2 DEF n
<1> HIDE DEF p
<1>4. /\ Typed' /\ Phases' /\ Beginnings' /\ Copies' /\ RestoredAsDumped'
      /\ file' = file
  BY <1>1, <1>2, <1>3, Loader
<1>5. pc' = "fill" /\ pos' = p /\ entryNum' = entryNum /\ kept' = kept /\ args' = args
  BY <1>1 DEF Loading
<1>6. Room'
  <2>1. Marks(file, pos) \subseteq Marks(file, p)
    BY <1>2, <1>3 DEF Marks
  <2>2. /\ IsFiniteSet(Marks(file, p)) /\ Cardinality(Marks(file, p)) \in Nat
        /\ Cardinality(Marks(file, pos)) \in Nat
    BY <1>2, LimitType
  <2>3. Cardinality(Marks(file, pos)) <= Cardinality(Marks(file, p))
    BY <2>1, <2>2, FS_Subset
  <2>4. /\ Len(entries) = getEntryLimit(file)
        /\ "ff" \notin ToSet(file) => entryNum <= Cardinality(Marks(file, pos))
    BY <1>1 DEF IInv, Room
  <2>5. "ff" \notin ToSet(file) => entryNum <= Cardinality(Marks(file, p))
    BY <2>2, <2>3, <2>4, <1>2
  <2> QED
    BY <2>4, <2>5, <1>1, <1>4, <1>5 DEF Room
<1>7. Restoring'
  <2> SUFFICES ASSUME args.file \in DOMAIN kept PROVE Restoring'
    BY <1>5 DEF Restoring
  <2> DEFINE E == kept[args.file]
             o == Offset(E)
  <2>1. /\ Plains(E) /\ E \in Seq(BoardEntry) /\ Holds(file, E, Len(E)) /\ Len(E) \in Nat
        /\ entryNum \in 0 .. Len(E)
        /\ pos <= o[entryNum] + 1
        /\ entryNum > 0 => pos > o[entryNum - 1] + 1
        /\ \A n \in 1 .. entryNum : SameEntry(entries[n], E[n])
    BY <1>1, Remembered
  <2> HIDE DEF E
  <2>2. o[entryNum] \in Nat /\ o[0] = 0 /\ Len(file) \in Nat
    BY <2>1, <1>2, OffsetFacts
  <2>10. ASSUME pos = o[entryNum] + 1 PROVE FALSE
    <3>1. Len(file) = o[Len(E)]
      BY <2>1 DEF Holds
    <3>2. entryNum # Len(E)
      BY <3>1, <2>2, <2>10, <1>1
    <3> DEFINE k == entryNum + 1
    <3>3. k \in 1 .. Len(E) /\ k - 1 = entryNum
      BY <3>2, <2>1
    <3> HIDE DEF k
    <3>4. E[k] \in BoardEntry
      BY <3>3, <2>1
    <3>5. 1 \in 1 .. Size(E[k])
      BY <3>4, PrintedFacts
    <3>6. file[o[k - 1] + 1] = "!"
      BY <3>3, <3>5, <2>1, DumpCell
    <3> QED
      BY <3>3, <3>6, <2>10, <1>1
  <2>3. entryNum # 0
    BY <2>1, <2>2, <2>10, <1>2
  <2>4. entryNum \in 1 .. Len(E) /\ entryNum - 1 \in 0 .. Len(E) /\ entryNum > 0
    BY <2>1, <2>3
  <2>5. o[entryNum - 1] \in Nat /\ o[entryNum] = o[entryNum - 1] + Size(E[entryNum])
    BY <2>1, <2>4, OffsetFacts
  <2>6. E[entryNum] \in BoardEntry
    BY <2>1, <2>4
  <2>7. /\ Size(E[entryNum]) \in Nat /\ Size(E[entryNum]) >= 6
        /\ Printed(E[entryNum])[Size(E[entryNum])] = "nl"
    BY <2>6, PrintedFacts
  <2>8. Size(E[entryNum]) \in 1 .. Size(E[entryNum])
    BY <2>7
  <2>9. o[entryNum] <= Len(file) /\ file[o[entryNum]] = "nl"
    <3>1. /\ o[entryNum] <= Len(file)
          /\ file[o[entryNum - 1] + Size(E[entryNum])]
               = Printed(E[entryNum])[Size(E[entryNum])]
      BY <2>1, <2>4, <2>8, DumpCell
    <3> QED
      BY <3>1, <2>5, <2>7
  <2>11. pos <= o[entryNum]
    BY <2>1, <2>2, <2>10, <1>2
  <2>12. p <= o[entryNum] + 1
    <3> DEFINE n == NextIn(file, pos, {"nl"})
               q == o[entryNum]
    <3>1. q \in pos .. Len(file) /\ file[q] \in {"nl"}
      BY <2>2, <2>9, <2>11, <1>2
    <3> HIDE DEF q
    <3>2. n \in Nat /\ n <= q
      BY <3>1, <1>2, NextInFacts
    <3>3. p = n + 1
      BY DEF p
    <3> HIDE DEF n
    <3>4. q \in Nat
      BY <2>2 DEF q
    <3>5. p <= q + 1
      BY <3>2, <3>3, <3>4
    <3> QED
      BY <3>5 DEF q
  <2>13. p > o[entryNum - 1] + 1
    <3>1. pos > o[entryNum - 1] + 1
      BY <2>1, <2>4
    <3> HIDE DEF o
    <3> QED
      BY <3>1, <2>5, <1>2, <1>3
  <2> QED
    BY <2>1, <2>4, <2>12, <2>13, <1>1, <1>5 DEF Restoring, E
<1> QED
  BY <1>4, <1>6, <1>7 DEF IInv

\* A beginning of a text does not change when the text gets longer.
LEMMA BeginningOf ==
  ASSUME NEW S, NEW t \in Seq(S), NEW s \in Seq(S)
  PROVE  SubSeq(t \o s, 1, Len(t)) = t
<1> DEFINE b == t \o s
           r == SubSeq(b, 1, Len(t))
<1>1. /\ b \in Seq(S) /\ Len(b) = Len(t) + Len(s) /\ Len(t) \in Nat /\ Len(s) \in Nat
      /\ \A n \in 1 .. Len(t) : b[n] = t[n]
  BY ConcatProperties
<1> HIDE DEF b
<1>2. r \in Seq(S) /\ Len(r) = Len(t) /\ \A n \in 1 .. Len(t) : r[n] = b[n]
  BY <1>1
<1> HIDE DEF r
<1>3. r = [n \in 1 .. Len(r) |-> r[n]] /\ t = [n \in 1 .. Len(t) |-> t[n]]
  BY <1>2
<1>4. r = [n \in 1 .. Len(t) |-> r[n]] /\ \A n \in 1 .. Len(t) : r[n] = t[n]
  BY <1>1, <1>2, <1>3, Zenon
<1>5. r = t
  BY <1>3, <1>4, Zenon
<1> QED
  BY <1>5 DEF r, b

LEMMA Filling ==
  ASSUME IInv, NEW tail \in Tails, FillEntry(tail)
  PROVE  IInv'
<1> DEFINE p == TextEnd(file, pos) + 1
           n == entryNum + 1
           new == [entryNumber |-> NumberAt(file, pos), mode |-> file[ModeAt(file, pos)],
                   length |-> LengthAt(file, pos), entry |-> TextAt(file, pos) \o tail]
<1>1. /\ Loading(p, n) /\ pc = "fill" /\ file[pos] = "!" /\ pos <= Len(file)
      /\ InOrder(file, pos)
      /\ entries' = IF n \in DOMAIN entries THEN [entries EXCEPT ![n] = new] ELSE entries
  BY DEF FillEntry, AtEntry, Loading, arguments, points, dump, counts
<1>2. /\ pos \in Nat \ {0} /\ entryNum \in Nat /\ entries \in Seq(BoardEntry)
      /\ file \in Seq(Byte)
  BY <1>1 DEF IInv, Typed, Phases, file
<1>3. pos \in 1 .. Len(file)
  BY <1>1, <1>2
<1>4. /\ ModeAt(file, pos) \in pos .. Len(file)
      /\ NumberAt(file, pos) \in Nat /\ LengthAt(file, pos) \in Nat
      /\ TextEnd(file, pos) \in Nat /\ pos <= TextEnd(file, pos)
      /\ TextAt(file, pos) \in Seq(Byte)
  <2>1. TextEnd(file, pos) <= Len(file)
    BY <1>1 DEF InOrder
  <2> QED
    BY <2>1, <1>2, <1>3, HeaderTypes
<1>5. tail \in Seq(Byte)
  BY TailsAssumption, CellsFacts, Groups
<1>6. new \in BoardEntry
  <2>1. ModeAt(file, pos) \in 1 .. Len(file)
    BY <1>2, <1>3, <1>4
  <2>2. file[ModeAt(file, pos)] \in Byte
    BY <2>1, <1>2
  <2>3. TextAt(file, pos) \o tail \in Seq(Byte)
    BY <1>4, <1>5, ConcatProperties
  <2> QED
    BY <2>2, <2>3, <1>4 DEF BoardEntry
<1>7. p \in Nat \ {0} /\ pos < p /\ n \in Nat
  BY <1>2, <1>4
<1> HIDE DEF new
<1>8. entries' \in Seq(BoardEntry) /\ Len(entries') = Len(entries)
  BY <1>1, <1>2, <1>6
<1> HIDE DEF p, n
<1>9. Typed' /\ Phases' /\ Beginnings' /\ Copies' /\ RestoredAsDumped' /\ file' = file
  BY <1>1, <1>7, <1>8, Loader
<1>10. pc' = "fill" /\ pos' = p /\ entryNum' = n /\ kept' = kept /\ args' = args
  BY <1>1 DEF Loading
<1>11. Room'
  <2> DEFINE before == Marks(file, pos)
  <2>1. IsFiniteSet(before) /\ Cardinality(before) \in Nat
    BY <1>2, LimitType
  <2>2. pos \notin before /\ before \cup {pos} \subseteq Marks(file, p)
    BY <1>1, <1>2, <1>3, <1>7 DEF Marks
  <2>3. IsFiniteSet(Marks(file, p)) /\ Cardinality(Marks(file, p)) \in Nat
    BY <1>2, LimitType
  <2> HIDE DEF before
  <2>4. Cardinality(before \cup {pos}) = Cardinality(before) + 1
    BY <2>1, <2>2, FS_AddElement
  <2>5. Cardinality(before \cup {pos}) <= Cardinality(Marks(file, p))
    BY <2>2, <2>3, FS_Subset
  <2>6. /\ Len(entries) = getEntryLimit(file)
        /\ "ff" \notin ToSet(file) => entryNum <= Cardinality(before)
    BY <1>1 DEF IInv, Room, before
  <2>7. "ff" \notin ToSet(file) => n <= Cardinality(Marks(file, p))
    BY <2>1, <2>3, <2>4, <2>5, <2>6, <1>2 DEF n
  <2> QED
    BY <2>6, <2>7, <1>8, <1>9, <1>10 DEF Room
<1>12. Restoring'
  <2> SUFFICES ASSUME args.file \in DOMAIN kept PROVE Restoring'
    BY <1>10 DEF Restoring
  <2> DEFINE E == kept[args.file]
             o == Offset(E)
  <2>1. /\ Plains(E) /\ E \in Seq(BoardEntry) /\ Holds(file, E, Len(E)) /\ Len(E) \in Nat
        /\ entryNum \in 0 .. Len(E) /\ Len(entries) = Len(E)
        /\ \A j \in 1 .. entryNum : SameEntry(entries[j], E[j])
    BY <1>1, Remembered
  <2>2. n \in 1 .. Len(E) /\ StartsAt(E, n, pos)
    BY <1>1, NextMark DEF n
  <2> HIDE DEF E
  <2>3. /\ NumberAt(file, pos) = E[n].entryNumber /\ file[ModeAt(file, pos)] = E[n].mode
        /\ LengthAt(file, pos) = E[n].length /\ TextEnd(file, pos) = pos + 4 + E[n].length
        /\ TextAt(file, pos) = SubSeq(E[n].entry, 1, E[n].length)
        /\ TextEnd(file, pos) < o[n]
    BY <2>1, <2>2, ReadBack
  <2>4. E[n] \in BoardEntry /\ Plain(E[n]) /\ n \in 0 .. Len(E) /\ n - 1 \in 0 .. Len(E)
    BY <2>1, <2>2 DEF Plains
  <2>5. o[n] \in Nat /\ o[n - 1] \in Nat /\ pos = o[n - 1] + 1
    BY <2>1, <2>2, <2>4, OffsetFacts DEF StartsAt
  <2>6. p <= o[n] + 1
    <3> DEFINE t == TextEnd(file, pos)
               q == o[n]
    <3>1. t \in Nat /\ q \in Nat /\ t < q /\ p = t + 1
      BY <1>4, <2>3, <2>5 DEF p
    <3> HIDE DEF t, q
    <3>2. p <= q + 1
      BY <3>1
    <3> QED
      BY <3>2 DEF q
  <2>7. n > 0 => p > o[n - 1] + 1
    BY <2>5, <1>2, <1>7
  <2>8. n \in DOMAIN entries
    BY <2>1, <2>2, <1>2
  <2>9. entries' = [entries EXCEPT ![n] = new]
    BY <2>8, <1>1
  <2>10. SameEntry(new, E[n])
    <3> DEFINE t == TextAt(file, pos)
               L == E[n].length
    <3>1. L \in Nat /\ L <= Len(E[n].entry) /\ E[n].entry \in Seq(Byte)
      BY <2>4 DEF Plain, BoardEntry
    <3>2. t = SubSeq(E[n].entry, 1, L) /\ t \in Seq(Byte)
      BY <2>3, <1>4
    <3>3. Len(t) = L
      BY <3>1, <3>2
    <3>4. SubSeq(t \o tail, 1, Len(t)) = t
      BY <3>2, <1>5, BeginningOf
    <3>5. /\ new.entryNumber = E[n].entryNumber /\ new.mode = E[n].mode /\ new.length = L
          /\ new.entry = t \o tail
      BY <2>3 DEF new
    <3> HIDE DEF t, L
    <3>6. SubSeq(new.entry, 1, new.length) = SubSeq(E[n].entry, 1, L)
      BY <3>2, <3>3, <3>4, <3>5
    <3> QED
      BY <3>5, <3>6 DEF SameEntry, L
  <2>11. ASSUME NEW j \in 1 .. n PROVE SameEntry(entries'[j], E[j])
    <3>1. CASE j = n
      BY <3>1, <2>8, <2>9, <2>10
    <3>2. CASE j # n
      <4>1. j \in 1 .. entryNum
        BY <3>2, <1>2 DEF n
      <4>2. entries'[j] = entries[j]
        BY <2>9, <3>2, <1>2
      <4> QED
        BY <4>1, <4>2, <2>1
    <3> QED
      BY <3>1, <3>2
  <2>12. n <= Len(E)
    BY <2>2
  <2> QED
    BY <2>6, <2>7, <2>11, <2>12, <1>10 DEF Restoring, E
<1> QED
  BY <1>9, <1>11, <1>12 DEF IInv

LEMMA Loaded ==
  ASSUME IInv, EndOfFile
  PROVE  IInv'
<1>1. /\ pc = "fill" /\ pc' = "fork" /\ pos > Len(file)
      /\ UNCHANGED <<disk, kept, args, entries, entryNum, pos, jump, streams, i, upd, signals, quiet>>
  BY DEF EndOfFile, process, arguments, loaded, points, dump, counts
<1>2. Beginnings' /\ Phases'
  BY <1>1, BeforeFork
<1>3. Typed'
  BY <1>1 DEF IInv, Typed
<1>4. Copies'
  BY <1>1, FilesKept
<1>5. Room' /\ Restoring'
  BY <1>1 DEF Room, Restoring
<1>6. RestoredAsDumped'
  <2> SUFFICES ASSUME args.file \in DOMAIN kept PROVE SameBoard(entries, kept[args.file])
    BY <1>1 DEF RestoredAsDumped
  <2> DEFINE E == kept[args.file]
             o == Offset(E)
  <2>1. /\ E \in Seq(BoardEntry) /\ Holds(file, E, Len(E)) /\ Len(E) \in Nat
        /\ entryNum \in 0 .. Len(E) /\ Len(entries) = Len(E)
        /\ pos <= o[entryNum] + 1
        /\ \A j \in 1 .. entryNum : SameEntry(entries[j], E[j])
    BY <1>1, Remembered
  <2>2. pos \in Nat /\ entries \in Seq(BoardEntry)
    BY DEF IInv, Typed
  <2> HIDE DEF E
  <2>3. Len(E) \in 0 .. Len(E) /\ o[Len(E)] \in Nat /\ o[entryNum] \in Nat /\ Len(file) = o[Len(E)]
    BY <2>1, OffsetFacts DEF Holds
  <2>4. entryNum < Len(E) => o[entryNum] + 6 <= o[Len(E)]
    BY <2>1, <2>3, OffsetGrows
  <2>5. entryNum = Len(E)
    <3> HIDE DEF o
    <3> QED
      BY <2>1, <2>2, <2>3, <2>4, <1>1
  <2>6. \A j \in DOMAIN entries : SameEntry(entries[j], E[j])
    BY <2>1, <2>2, <2>5
  <2> QED
    BY <2>1, <2>6 DEF SameBoard, E
<1> QED
  BY <1>2, <1>3, <1>4, <1>5, <1>6 DEF IInv

----------------------------------------------------------------------------
(* The daemon *)

LEMMA Moving ==
  ASSUME IInv, Fork \/ Chdir \/ Accept \/ Jump
  PROVE  IInv'
<1>1. /\ pc' \in {"armed", "daemon", "serve", "landing"}
      /\ pc' = "landing" => pc = "handler" /\ UNCHANGED <<dir, quit_request>>
      /\ pc' # "landing" => pc \in {"fork", "armed", "daemon"}
      /\ UNCHANGED <<disk, kept, args, entries, entryNum, pos, streams, i, upd, signals, quiet>>
  BY DEF Fork, Chdir, Accept, Jump, process, arguments, loaded, points, dump, counts
<1>2. Typed'
  BY <1>1 DEF IInv, Typed
<1>3. Phases'
  BY <1>1 DEF IInv, Phases
<1>4. Beginnings'
  BY <1>1 DEF IInv, Beginnings
<1>5. Copies'
  BY <1>1, FilesKept
<1>6. Room' /\ Restoring' /\ RestoredAsDumped'
  BY <1>1, NotLoading
<1> QED
  BY <1>2, <1>3, <1>4, <1>5, <1>6 DEF IInv

\* There are updates only behind the first accept, and none while a dump that counts is made.
LEMMA Asking ==
  ASSUME IInv, NEW n, NEW m \in Messages, NEW tail \in Tails, updateEntry(n, m, tail)
  PROVE  IInv'
<1> DEFINE at == SelectInSeq(entries, LAMBDA e : e.entryNumber = n)
           new == [pc |-> "erase", at |-> at, mode |-> m.mode, length |-> Len(m.text),
                   entry |-> m.text \o <<"nl">> \o tail]
<1>1. /\ jump = "accept" /\ at # 0 /\ upd' = new
      /\ quiet' = (quiet /\ streams = <<>>)
      /\ UNCHANGED <<disk, kept, pc, args, dir, entries, entryNum, pos, jump, quit_request,
                     streams, i, signals>>
  BY DEF updateEntry, arguments, loaded, points, dump
<1>2. pc \notin {"down", "args", "fill", "fork", "stuck"}
  BY <1>1 DEF IInv, Phases
<1>3. at \in DOMAIN entries
  <2> DEFINE here == {k \in 1 .. Len(entries) : entries[k].entryNumber = n}
  <2>1. at = IF here # {} THEN Min(here) ELSE 0
    BY DEF SelectInSeq
  <2>2. here # {} /\ here \in SUBSET Nat
    BY <2>1, <1>1
  <2>3. \E x \in here : \A y \in here : x <= y
    <3> HIDE DEF here
    <3> QED
      BY <2>2, LowestOf
  <2>4. Min(here) \in here
    <3> HIDE DEF here
    <3> QED
      BY <2>3 DEF Min
  <2>5. entries \in Seq(BoardEntry)
    BY DEF IInv, Typed
  <2> HIDE DEF at
  <2> QED
    BY <2>1, <2>2, <2>4, <2>5
<1> HIDE DEF at
<1>4. new \in Updates
  <2>1. m.mode \in Byte /\ m.text \in Seq(Byte) /\ tail \in Seq(Byte) /\ <<"nl">> \in Seq(Byte)
    BY MessagesAssumption, TailsAssumption, CellsFacts, Groups
  <2>2. m.text \o <<"nl">> \o tail \in Seq(Byte)
    BY <2>1
  <2>3. at \in Nat
    BY <1>3 DEF IInv, Typed
  <2>4. Len(m.text) \in Nat
    BY <2>1
  <2> QED
    BY <2>1, <2>2, <2>3, <2>4 DEF Updates
<1>5. new.at = at
  OBVIOUS
<1> HIDE DEF new
<1>6. Typed'
  BY <1>1, <1>3, <1>4, <1>5 DEF IInv, Typed
<1>7. Phases'
  BY <1>1, <1>2 DEF IInv, Phases
<1>8. Beginnings'
  <2>2. ASSUME quiet', streams # <<>> PROVE FALSE
    BY <2>2, <1>1, Zenon
  <2>3. streams' = streams
    BY <1>1
  <2> QED
    BY <2>2, <2>3, Zenon DEF Beginnings
<1>9. Copies'
  BY <1>1, FilesKept
<1>10. Room' /\ Restoring' /\ RestoredAsDumped'
  BY <1>1, <1>2, NotLoading
<1> QED
  BY <1>6, <1>7, <1>8, <1>9, <1>10 DEF IInv

LEMMA Storing ==
  ASSUME IInv, NEW from, NEW to, NEW new \in BoardEntry, UpdateStep(from, to, new),
         from # "none", to \in {"none", "erase", "mode", "length", "buffer", "fill"}
  PROVE  IInv'
<1>1. /\ upd # NoUpdate /\ entries' = [entries EXCEPT ![upd.at] = new]
      /\ upd' = IF to = "none" THEN NoUpdate ELSE [upd EXCEPT !.pc = to]
      /\ UNCHANGED <<disk, kept, pc, args, dir, entryNum, pos, jump, quit_request, streams, i,
                     signals, quiet>>
  BY NoUpdateFacts DEF UpdateStep, arguments, points, dump, counts
<1>2. pc \notin {"down", "args", "fill", "fork", "stuck"}
  BY <1>1 DEF IInv, Phases
<1>3. /\ entries \in Seq(BoardEntry) /\ upd \in Updates /\ upd.at \in DOMAIN entries
      /\ quiet \in BOOLEAN
  BY <1>1 DEF IInv, Typed
<1>4. entries' \in Seq(BoardEntry) /\ Len(entries') = Len(entries) /\ DOMAIN entries' = DOMAIN entries
  BY <1>1, <1>3
<1>5. upd' \in Updates /\ (upd' # NoUpdate => upd'.at \in DOMAIN entries')
  <2>1. CASE to = "none"
    BY <2>1, <1>1, NoUpdateFacts
  <2>2. CASE to # "none"
    <3>1. upd' = [upd EXCEPT !.pc = to]
      BY <2>2, <1>1
    <3>2. upd' \in Updates /\ upd'.at = upd.at
      BY <3>1, <1>3 DEF Updates
    <3> QED
      BY <3>2, <1>3, <1>4
  <2> QED
    BY <2>1, <2>2
<1>6. Typed'
  BY <1>1, <1>4, <1>5 DEF IInv, Typed
<1>7. Phases'
  BY <1>1, <1>2 DEF IInv, Phases
<1>8. Beginnings'
  BY <1>1 DEF IInv, Beginnings
<1>9. Copies'
  BY <1>1, FilesKept
<1>10. Room' /\ Restoring' /\ RestoredAsDumped'
  BY <1>1, <1>2, NotLoading
<1> QED
  BY <1>6, <1>7, <1>8, <1>9, <1>10 DEF IInv

LEMMA Regrowing ==
  ASSUME IInv, NEW n \in DOMAIN entries, NEW tail \in Tails, HeapChanges(n, tail)
  PROVE  IInv'
<1> DEFINE e   == entries[n]
           end == IF e.length < Len(e.entry) /\ e.entry[e.length + 1] = "nl"
                    THEN e.length + 1 ELSE e.length
           text == SubSeq(e.entry, 1, end) \o tail
<1>1. /\ streams # <<>> /\ e.length \in 1 .. Len(e.entry)
      /\ entries' = [entries EXCEPT ![n].entry = text] /\ quiet' = FALSE
      /\ UNCHANGED <<disk, kept, pc, args, dir, entryNum, pos, jump, quit_request, streams, i,
                     upd, signals>>
  BY DEF HeapChanges, arguments, points, dump, counts
<1>2. /\ entries \in Seq(BoardEntry) /\ e \in BoardEntry
      /\ pc \notin {"down", "args", "fill", "fork", "stuck"}
  BY <1>1 DEF IInv, Typed, Phases
<1>3. text \in Seq(Byte)
  <2>1. e.entry \in Seq(Byte) /\ e.length \in Nat /\ tail \in Seq(Byte)
    BY <1>2, TailsAssumption, CellsFacts, Groups DEF BoardEntry
  <2>2. end \in Nat /\ end <= Len(e.entry)
    <3> HIDE DEF e
    <3> QED
      BY <1>1, <2>1
  <2> HIDE DEF end, e
  <2>3. SubSeq(e.entry, 1, end) \in Seq(Byte)
    BY <2>1, <2>2
  <2> QED
    BY <2>1, <2>3, ConcatProperties
<1>4. entries' \in Seq(BoardEntry) /\ Len(entries') = Len(entries) /\ DOMAIN entries' = DOMAIN entries
  <2> HIDE DEF text
  <2>1. [entries[n] EXCEPT !.entry = text] \in BoardEntry
    BY <1>2, <1>3 DEF BoardEntry
  <2>2. entries' = [entries EXCEPT ![n] = [entries[n] EXCEPT !.entry = text]]
    BY <1>1
  <2> HIDE DEF e
  <2> QED
    BY <1>2, <2>1, <2>2
<1>5. Typed'
  BY <1>1, <1>4 DEF IInv, Typed
<1>6. Phases'
  BY <1>1, <1>2 DEF IInv, Phases
<1>7. Beginnings'
  BY <1>1 DEF Beginnings
<1>8. Copies'
  BY <1>1, FilesKept
<1>9. Room' /\ Restoring' /\ RestoredAsDumped'
  BY <1>1, <1>2, NotLoading
<1> QED
  BY <1>5, <1>6, <1>7, <1>8, <1>9 DEF IInv

LEMMA Updating ==
  ASSUME IInv, Update
  PROVE  IInv'
<1>1. ASSUME Erase \/ SetMode \/ SetLength \/ SetBuffer \/ Fill PROVE IInv'
  <2> DEFINE e == entries[upd.at]
  <2>1. upd.pc # "none"
    BY <1>1 DEF Erase, SetMode, SetLength, SetBuffer, Fill, UpdateStep
  <2>2. upd # NoUpdate
    BY <2>1, NoUpdateFacts
  <2>3. e \in BoardEntry /\ upd \in Updates /\ <<>> \in Seq(Byte)
    BY <2>2 DEF IInv, Typed
  <2> HIDE DEF e
  <2>4. CASE Erase
    <3> DEFINE new == [e EXCEPT !.entry = <<>>]
    <3>1. new \in BoardEntry
      BY <2>3 DEF BoardEntry
    <3>2. UpdateStep("erase", "mode", new)
      BY <2>4 DEF Erase, e
    <3> HIDE DEF new
    <3> QED
      BY <3>1, <3>2, Storing
  <2>5. CASE SetMode
    <3> DEFINE new == [e EXCEPT !.mode = upd.mode]
    <3>1. new \in BoardEntry
      BY <2>3 DEF BoardEntry, Updates
    <3>2. UpdateStep("mode", "length", new)
      BY <2>5 DEF SetMode, e
    <3> HIDE DEF new
    <3> QED
      BY <3>1, <3>2, Storing
  <2>6. CASE SetLength
    <3> DEFINE new == [e EXCEPT !.length = upd.length]
    <3>1. new \in BoardEntry
      BY <2>3 DEF BoardEntry, Updates
    <3>2. UpdateStep("length", "buffer", new)
      BY <2>6 DEF SetLength, e
    <3> HIDE DEF new
    <3> QED
      BY <3>1, <3>2, Storing
  <2>7. CASE SetBuffer
    <3>1. PICK junk \in Tails : UpdateStep("buffer", "fill", [e EXCEPT !.entry = junk])
      BY <2>7 DEF SetBuffer, e
    <3> DEFINE new == [e EXCEPT !.entry = junk]
    <3>2. junk \in Seq(Byte)
      BY TailsAssumption, CellsFacts, Groups
    <3>3. new \in BoardEntry
      BY <2>3, <3>2 DEF BoardEntry
    <3>4. UpdateStep("buffer", "fill", new)
      BY <3>1
    <3> HIDE DEF new
    <3> QED
      BY <3>3, <3>4, Storing
  <2>8. CASE Fill
    <3> DEFINE new == [e EXCEPT !.entry = upd.entry]
    <3>1. new \in BoardEntry
      BY <2>3 DEF BoardEntry, Updates
    <3>2. UpdateStep("fill", "none", new)
      BY <2>8 DEF Fill, e
    <3> HIDE DEF new
    <3> QED
      BY <3>1, <3>2, Storing
  <2> QED
    BY <1>1, <2>4, <2>5, <2>6, <2>7, <2>8
<1> QED
  BY <1>1, Asking, Regrowing DEF Update

----------------------------------------------------------------------------
(* SIGTERM *)

LEMMA EarlySignalling ==
  ASSUME IInv, EarlySignal
  PROVE  IInv'
<1>1. Truncate(dir, args.rights) /\ Stop /\ signals' = signals + 1
  BY DEF EarlySignal
<1>2. signals' \in Nat
  BY <1>1 DEF IInv, Typed
<1> QED
  BY <1>1, <1>2, Truncating, Stopping

\* The handler hangs, or the process that hangs is killed.
LEMMA Hanging ==
  ASSUME IInv, HandlerHangs \/ Kill
  PROVE  IInv'
<1>1. CASE HandlerHangs
  <2>1. /\ pc' = "stuck" /\ Blank(NoArgs) /\ quiet' = TRUE /\ signals' \in Nat
        /\ UNCHANGED <<disk, kept>>
    BY <1>1 DEF HandlerHangs, IInv, Typed
  <2>2. Copies' /\ \A q \in DOMAIN disk' : disk'[q] \in Seq(Byte)
    BY <2>1, FilesKept
  <2>3. Typed'
    BY <2>1, <2>2, NoUpdateFacts, SizesFacts DEF Blank, Typed
  <2>4. Phases' /\ Beginnings'
    BY <2>1 DEF Blank, Phases, Beginnings
  <2>5. Room' /\ Restoring' /\ RestoredAsDumped'
    BY <2>1, NotLoading
  <2> QED
    BY <2>2, <2>3, <2>4, <2>5 DEF IInv
<1>2. CASE Kill
  <2>1. /\ pc = "stuck" /\ pc' = "down"
        /\ UNCHANGED <<disk, kept, args, dir, entries, entryNum, pos, jump, streams, i, upd,
                       signals, quiet>>
    BY <1>2 DEF Kill, process, arguments, loaded, points, dump, counts
  <2>2. Typed'
    BY <2>1 DEF IInv, Typed
  <2>3. Phases' /\ Beginnings'
    BY <2>1 DEF IInv, Phases, Beginnings
  <2>4. Copies'
    BY <2>1, FilesKept
  <2>5. Room' /\ Restoring' /\ RestoredAsDumped'
    BY <2>1, NotLoading
  <2> QED
    BY <2>2, <2>3, <2>4, <2>5 DEF IInv
<1> QED
  BY <1>1, <1>2

\* A new stream holds none of the dump.
LEMMA DumpOpened ==
  ASSUME IInv, OpenDump, dir \in args.rights,
         pc' \in {"handler", "closing"}, signals' \in Nat, quit_request',
         quiet' = (quiet /\ upd = NoUpdate) \/ (quiet' = quiet /\ streams # <<>>),
         UNCHANGED <<args, dir, entries, entryNum, pos, jump, upd>>
  PROVE  IInv'
<1>1. Truncate(dir, args.rights) /\ streams' = Append(streams, <<>>) /\ i' = 0
  BY DEF OpenDump
<1>2. /\ entries \in Seq(BoardEntry) /\ streams \in Seq(Seq(Byte))
      /\ quiet \in BOOLEAN /\ <<>> \in Seq(Byte)
  BY DEF IInv, Typed
<1>3. /\ streams' \in Seq(Seq(Byte)) /\ Len(streams') = Len(streams) + 1
      /\ streams'[Len(streams')] = <<>> /\ streams' # <<>>
      /\ \A k \in 1 .. Len(streams) : streams'[k] = streams[k]
  <2>1. streams' \in Seq(Seq(Byte)) /\ Len(streams') = Len(streams) + 1
    BY <1>1, <1>2
  <2>2. streams'[Len(streams) + 1] = <<>> /\ \A k \in 1 .. Len(streams) : streams'[k] = streams[k]
    BY <1>1, <1>2
  <2>3. streams' # <<>>
    BY <2>1, <1>2
  <2> QED
    BY <2>1, <2>2, <2>3
<1>4. Copies' /\ \A q \in DOMAIN disk' : disk'[q] \in Seq(Byte)
  BY <1>1, Truncating
<1>5. 0 \in 0 .. Len(entries) /\ quiet' \in BOOLEAN
  <2>1. quiet' \in BOOLEAN
    BY <1>2, Zenon
  <2>2. 0 \in 0 .. Len(entries)
    BY <1>2
  <2> QED
    BY <2>1, <2>2
<1>6. Typed'
  BY <1>1, <1>3, <1>4, <1>5 DEF IInv, Typed
<1>7. Phases'
  <2>1. dir' = dir /\ dir \notin DOMAIN kept'
    BY <1>1, Truncating
  <2> QED
    BY <2>1, <1>3 DEF Phases
<1>8. Beginnings'
  <2> SUFFICES ASSUME quiet'
               PROVE  /\ upd = NoUpdate
                      /\ \A k \in 1 .. Len(streams') :
                           \E m \in 0 .. Len(entries) : Holds(streams'[k], entries, m)
                      /\ Holds(streams'[Len(streams')], entries, 0)
    BY <1>1 DEF Beginnings
  <2>1. quiet /\ upd = NoUpdate
    BY <1>2 DEF IInv, Beginnings
  <2>2. Holds(streams'[Len(streams')], entries, 0)
    BY <1>2, <1>3, HoldsNone
  <2>3. ASSUME NEW k \in 1 .. Len(streams')
        PROVE  \E m \in 0 .. Len(entries) : Holds(streams'[k], entries, m)
    <3>1. CASE k = Len(streams')
      BY <3>1, <2>2, <1>5
    <3>2. CASE k # Len(streams')
      <4>1. k \in 1 .. Len(streams) /\ streams # <<>>
        BY <3>2, <1>2, <1>3
      <4>2. \E m \in 0 .. Len(entries) : Holds(streams[k], entries, m)
        BY <4>1, <2>1 DEF IInv, Beginnings
      <4> QED
        BY <4>1, <4>2, <1>3
    <3> QED
      BY <3>1, <3>2
  <2> QED
    BY <2>1, <2>2, <2>3
<1>9. Room' /\ Restoring' /\ RestoredAsDumped'
  BY NotLoading
<1> QED
  BY <1>4, <1>6, <1>7, <1>8, <1>9 DEF IInv

\* There is no stream where the file cannot be opened.
LEMMA DumpNotOpened ==
  ASSUME IInv, OpenDump, dir \notin args.rights,
         pc' \in {"handler", "closing"}, signals' \in Nat, quit_request', quiet' \in BOOLEAN,
         UNCHANGED <<args, dir, entries, entryNum, pos, jump, upd>>
  PROVE  IInv'
<1>1. UNCHANGED <<disk, kept, streams>> /\ i' = 0 /\ streams = <<>>
  BY DEF OpenDump, Truncate, IInv, Phases
<1>2. 0 \in 0 .. Len(entries)
  BY DEF IInv, Typed
<1>3. Typed'
  BY <1>1, <1>2 DEF IInv, Typed
<1>4. Phases' /\ Beginnings'
  BY <1>1 DEF Phases, Beginnings
<1>5. Copies'
  BY <1>1, FilesKept
<1>6. Room' /\ Restoring' /\ RestoredAsDumped'
  BY NotLoading
<1> QED
  BY <1>3, <1>4, <1>5, <1>6 DEF IInv

LEMMA Signalling ==
  ASSUME IInv, sigint_handler
  PROVE  IInv'
<1>1. /\ OpenDump /\ pc' = "handler" /\ quit_request'
      /\ signals' = signals + 1 /\ quiet' = (quiet /\ upd = NoUpdate)
      /\ UNCHANGED <<args, dir, entries, entryNum, pos, jump, upd>>
  BY DEF sigint_handler, arguments, loaded
<1>2. signals' \in Nat
  BY <1>1 DEF IInv, Typed
<1>3. quiet' \in BOOLEAN
  <2>1. quiet \in BOOLEAN
    BY DEF IInv, Typed
  <2> QED
    BY <2>1, <1>1, Zenon
<1> QED
  BY <1>1, <1>2, <1>3, DumpOpened, DumpNotOpened

LEMMA Landing ==
  ASSUME IInv, Land
  PROVE  IInv'
<1>1. /\ quit_request /\ quit_request' /\ (dir \in args.rights => streams # <<>>)
      /\ signals' \in Nat /\ quiet' \in BOOLEAN /\ quiet' = quiet
      /\ UNCHANGED <<args, dir, entries, entryNum, pos, jump, upd>>
  BY DEF Land, arguments, loaded, points, counts, IInv, Phases, Typed
<1>2. pc' = "closing" /\ OpenDump
  BY <1>1 DEF Land
<1> QED
  BY <1>1, <1>2, DumpOpened, DumpNotOpened

LEMMA Dumping ==
  ASSUME IInv, dumpToFile
  PROVE  IInv'
<1> DEFINE L == Len(streams)
           more == streams[L] \o Printed(entries[i + 1])
<1>1. /\ pc \in {"handler", "closing"} /\ i < Len(entries) /\ dir \in args.rights
      /\ streams' = [streams EXCEPT ![L] = more] /\ i' = i + 1
      /\ UNCHANGED <<disk, kept, pc, args, dir, entries, entryNum, pos, jump, quit_request, upd,
                     signals, quiet>>
  BY DEF dumpToFile, arguments, loaded, points, counts
<1>2. /\ entries \in Seq(BoardEntry) /\ streams \in Seq(Seq(Byte)) /\ i \in 0 .. Len(entries)
      /\ streams # <<>> /\ quiet \in BOOLEAN
  BY <1>1 DEF IInv, Typed, Phases
<1>3. L \in 1 .. L /\ L \in Nat /\ streams[L] \in Seq(Byte)
  BY <1>2
<1>4. /\ i + 1 \in 1 .. Len(entries) /\ i + 1 \in 0 .. Len(entries)
      /\ i \in 0 .. Len(entries) - 1 /\ entries[i + 1] \in BoardEntry
  BY <1>1, <1>2
<1>5. more \in Seq(Byte)
  <2>1. Printed(entries[i + 1]) \in Seq(Byte)
    BY <1>4, PrintedFacts
  <2> QED
    BY <2>1, <1>3, ConcatProperties
<1> HIDE DEF more
<1>6. /\ streams' \in Seq(Seq(Byte)) /\ Len(streams') = L /\ streams' # <<>>
      /\ streams'[L] = more /\ \A k \in 1 .. L : k # L => streams'[k] = streams[k]
  <2>1. streams' \in Seq(Seq(Byte)) /\ Len(streams') = L
    BY <1>1, <1>2, <1>3, <1>5
  <2>2. streams'[L] = more /\ \A k \in 1 .. L : k # L => streams'[k] = streams[k]
    BY <1>1, <1>2, <1>3
  <2> QED
    BY <2>1, <2>2, <1>3
<1>7. Typed'
  BY <1>1, <1>4, <1>6 DEF IInv, Typed
<1>8. Phases'
  BY <1>1, <1>2, <1>6 DEF IInv, Phases
<1>9. Beginnings'
  <2> SUFFICES ASSUME quiet
               PROVE  /\ upd = NoUpdate
                      /\ \A k \in 1 .. L : \E m \in 0 .. Len(entries) : Holds(streams'[k], entries, m)
                      /\ Holds(streams'[L], entries, i + 1)
    BY <1>1, <1>6 DEF Beginnings
  <2>1. /\ upd = NoUpdate /\ Holds(streams[L], entries, i)
        /\ \A k \in 1 .. L : \E m \in 0 .. Len(entries) : Holds(streams[k], entries, m)
    BY <1>1, <1>2 DEF IInv, Beginnings
  <2>2. Holds(more, entries, i + 1)
    BY <2>1, <1>2, <1>4, HoldsMore DEF more
  <2>3. ASSUME NEW k \in 1 .. L
        PROVE  \E m \in 0 .. Len(entries) : Holds(streams'[k], entries, m)
    BY <2>1, <2>2, <1>4, <1>6
  <2> QED
    BY <2>1, <2>2, <2>3, <1>6
<1>10. Copies'
  BY <1>1, FilesKept
<1>11. Room' /\ Restoring' /\ RestoredAsDumped'
  BY <1>1, NotLoading
<1> QED
  BY <1>7, <1>8, <1>9, <1>10, <1>11 DEF IInv

LEMMA Exiting ==
  ASSUME IInv, Exit
  PROVE  IInv'
<1> SUFFICES ASSUME streams # <<>> PROVE IInv'
  <2>1. CASE streams = <<>>
    <3>1. Stop /\ UNCHANGED <<disk, kept, signals>>
      BY <2>1 DEF Exit, counts
    <3>2. signals' \in Nat
      BY <3>1 DEF IInv, Typed
    <3> QED
      BY <3>1, <3>2, FilesKept, Stopping
  <2> QED
    BY <2>1
<1>1. /\ pc = "closing" /\ i = Len(entries) /\ disk' = Put(disk, dir, Flushed(streams))
      /\ kept' = IF quiet /\ \A n \in DOMAIN entries : Plain(entries[n])
                   THEN Put(kept, dir, entries) ELSE kept
      /\ Stop /\ signals' = signals
  BY DEF Exit, counts
<1>2. /\ entries \in Seq(BoardEntry) /\ streams \in Seq(Seq(Byte)) /\ signals \in Nat
      /\ dir \in args.rights
  BY <1>1 DEF IInv, Typed, Phases
<1>3. Flushed(streams) \in Seq(Byte)
  BY <1>2, FlushedSeq
<1>4. /\ DOMAIN disk' = DOMAIN disk \cup {dir}
      /\ \A q \in DOMAIN disk' : disk'[q] = IF q = dir THEN Flushed(streams) ELSE disk[q]
  BY <1>1 DEF Put
<1>5. \A q \in DOMAIN disk' : disk'[q] \in Seq(Byte)
  BY <1>3, <1>4 DEF IInv, Typed
<1>6. Copies'
  <2>1. ASSUME NEW q \in DOMAIN kept, q # dir
        PROVE  q \in DOMAIN disk' /\ Plains(kept[q]) /\ Holds(disk'[q], kept[q], Len(kept[q]))
    <3>1. q \in DOMAIN disk /\ Plains(kept[q]) /\ Holds(disk[q], kept[q], Len(kept[q]))
      BY DEF IInv, Copies
    <3>2. q \in DOMAIN disk' /\ disk'[q] = disk[q]
      BY <3>1, <2>1, <1>4
    <3> QED
      BY <3>1, <3>2
  <2>2. CASE kept' = kept
    <3>1. dir \notin DOMAIN kept
      BY <1>1, <1>2 DEF IInv, Phases
    <3> QED
      BY <3>1, <2>1, <2>2 DEF Copies
  <2>3. CASE kept' = Put(kept, dir, entries) /\ quiet /\ \A n \in DOMAIN entries : Plain(entries[n])
    <3>1. /\ DOMAIN kept' = DOMAIN kept \cup {dir} /\ kept'[dir] = entries
          /\ \A q \in DOMAIN kept : q # dir => kept'[q] = kept[q]
      BY <2>3 DEF Put
    <3>2. Plains(entries)
      BY <2>3, <1>2 DEF Plains
    <3>3. Holds(Flushed(streams), entries, Len(entries))
      <4>1. /\ \A k \in 1 .. Len(streams) : \E m \in 0 .. Len(entries) : Holds(streams[k], entries, m)
            /\ Holds(streams[Len(streams)], entries, Len(entries))
        BY <2>3, <1>1, <1>2 DEF IInv, Beginnings
      <4>2. Flushed(streams) = streams[Len(streams)]
        BY <4>1, <1>2, FlushedDump
      <4> QED
        BY <4>1, <4>2
    <3>4. dir \in DOMAIN disk' /\ disk'[dir] = Flushed(streams)
      BY <1>4
    <3>5. ASSUME NEW q \in DOMAIN kept'
          PROVE  q \in DOMAIN disk' /\ Plains(kept'[q]) /\ Holds(disk'[q], kept'[q], Len(kept'[q]))
      <4>1. CASE q = dir
        BY <4>1, <3>1, <3>2, <3>3, <3>4
      <4>2. CASE q # dir
        <5>1. q \in DOMAIN kept /\ kept'[q] = kept[q]
          BY <4>2, <3>1
        <5> QED
          BY <5>1, <4>2, <2>1
      <4> QED
        BY <4>1, <4>2
    <3> QED
      BY <3>5 DEF Copies
  <2> QED
    BY <1>1, <2>2, <2>3
<1> QED
  BY <1>1, <1>2, <1>5, <1>6, Stopping

LEMMA Saving ==
  ASSUME IInv, Save
  PROVE  IInv'
<1>1. /\ pc = "down" /\ "root" \in DOMAIN disk /\ disk' = Put(disk, "saved", disk["root"])
      /\ kept' = IF "root" \in DOMAIN kept THEN Put(kept, "saved", kept["root"])
                                           ELSE Drop(kept, "saved")
      /\ UNCHANGED <<pc, args, dir, entries, entryNum, pos, jump, streams, i, upd, signals, quiet>>
  BY DEF Save, process, arguments, loaded, points, dump, counts
<1>2. /\ DOMAIN disk' = DOMAIN disk \cup {"saved"}
      /\ \A q \in DOMAIN disk' : disk'[q] = IF q = "saved" THEN disk["root"] ELSE disk[q]
  BY <1>1 DEF Put
<1>3. \A q \in DOMAIN disk' : disk'[q] \in Seq(Byte)
  BY <1>1, <1>2 DEF IInv, Typed
<1>4. ASSUME NEW q \in DOMAIN kept'
      PROVE  q \in DOMAIN disk' /\ Plains(kept'[q]) /\ Holds(disk'[q], kept'[q], Len(kept'[q]))
  <2>1. CASE q = "saved"
    <3>1. "root" \in DOMAIN kept /\ kept'[q] = kept["root"]
      BY <2>1, <1>1 DEF Put, Drop
    <3>2. q \in DOMAIN disk' /\ disk'[q] = disk["root"]
      BY <2>1, <1>2
    <3> QED
      BY <3>1, <3>2 DEF IInv, Copies
  <2>2. CASE q # "saved"
    <3>1. q \in DOMAIN kept /\ kept'[q] = kept[q]
      BY <2>2, <1>1 DEF Put, Drop
    <3>2. q \in DOMAIN disk /\ q \in DOMAIN disk' /\ disk'[q] = disk[q]
      BY <3>1, <2>2, <1>2 DEF IInv, Copies
    <3> QED
      BY <3>1, <3>2 DEF IInv, Copies
  <2> QED
    BY <2>1, <2>2
<1>5. Copies'
  BY <1>4 DEF Copies
<1>6. Typed'
  BY <1>1, <1>3 DEF IInv, Typed
<1>7. Phases'
  BY <1>1 DEF IInv, Phases
<1>8. Beginnings'
  BY <1>1 DEF IInv, Beginnings
<1>9. Room' /\ Restoring' /\ RestoredAsDumped'
  BY <1>1, NotLoading
<1> QED
  BY <1>5, <1>6, <1>7, <1>8, <1>9 DEF IInv

----------------------------------------------------------------------------
(* Theorems *)

LEMMA Untouched ==
  ASSUME IInv, UNCHANGED vars
  PROVE  IInv'
<1>1. UNCHANGED <<disk, pc, args, dir, entries, entryNum, pos, jump, quit_request, streams, i,
                  upd, signals, quiet, kept>>
  BY DEF vars, process, arguments, loaded, points, dump, counts
<1>2. file' = file
  BY <1>1 DEF file
<1>3. Typed' /\ Phases'
  BY <1>1 DEF IInv, Typed, Phases
<1>4. Beginnings' /\ Copies'
  BY <1>1 DEF IInv, Beginnings, Copies
<1>5. Room' /\ Restoring' /\ RestoredAsDumped'
  BY <1>1, <1>2 DEF IInv, Room, Restoring, RestoredAsDumped
<1> QED
  BY <1>3, <1>4, <1>5 DEF IInv

LEMMA Invariance == Spec => []IInv
<1>1. IInv /\ [Next]_vars => IInv'
  <2> SUFFICES ASSUME IInv, [Next]_vars PROVE IInv'
    OBVIOUS
  <2>1. CASE UNCHANGED vars
    BY <2>1, Untouched
  <2>2. CASE \E a \in Arguments : Start(a)
    BY <2>2, Starting
  <2>3. CASE Startup
    BY <2>3, Blanking, Opening, Skipping, Loaded, Filling, Refusing, Moving DEF Startup
  <2>4. CASE Shutdown
    BY <2>4, Dumping, Refusing, Moving, Landing, Exiting DEF Shutdown
  <2>5. CASE Update
    BY <2>5, Updating
  <2>6. CASE RefuseArgs \/ ForkFails \/ BindFails
    BY <2>6, Refusing
  <2>7. CASE EarlySignal \/ sigint_handler \/ HandlerHangs \/ Kill \/ Save
    BY <2>7, EarlySignalling, Signalling, Hanging, Saving
  <2> QED
    BY <2>1, <2>2, <2>3, <2>4, <2>5, <2>6, <2>7 DEF Next
<1> QED
  BY <1>1, Initially, PTL DEF Spec

\* Whatever boards, updates and signals there were: a server started with a file that is the
\* dump of a board has that board.
THEOREM AllRestored == Spec => []RestoredAsDumped
<1>1. IInv => RestoredAsDumped
  BY DEF IInv
<1> QED
  BY <1>1, Invariance, PTL

\* Whatever file is loaded, the loader stays in the array that getEntryLimit has made room
\* for, unless there is a 0xFF in the file.
THEOREM AllLoadsFit == Spec => []LoadFits
<1>1. IInv => LoadFits
  <2> SUFFICES ASSUME IInv, pc = "fill", "ff" \notin ToSet(file) PROVE entryNum <= Len(entries)
    BY DEF LoadFits
  <2>1. file \in Seq(Byte) /\ entryNum \in Nat
    BY DEF IInv, Typed, Phases, file
  <2>2. Len(entries) = getEntryLimit(file) /\ entryNum <= Cardinality(Marks(file, pos))
    BY DEF IInv, Room
  <2>3. /\ Cardinality(Marks(file, pos)) <= getEntryLimit(file)
        /\ Cardinality(Marks(file, pos)) \in Nat /\ getEntryLimit(file) \in Nat
    BY <2>1, LimitType
  <2> QED
    BY <2>1, <2>2, <2>3
<1> QED
  BY <1>1, Invariance, PTL

\* The dump of a board is never refused, and none of its numbers overruns its array.
THEOREM AllDumpsAccepted == Spec => DumpsAreAccepted
<1>1. IInv /\ [Next]_vars => (RefuseEntry \/ Overrun => args.file \notin DOMAIN kept) \/ UNCHANGED vars
  <2> SUFFICES ASSUME IInv, RefuseEntry \/ Overrun, args.file \in DOMAIN kept PROVE FALSE
    OBVIOUS
  <2> DEFINE E == kept[args.file]
             k == entryNum + 1
  <2>1. /\ pc = "fill" /\ pos <= Len(file) /\ file[pos] = "!"
        /\ \/ ~ InOrder(file, pos)
           \/ ModeAt(file, pos) - pos > 10
           \/ HeaderEnd(file, pos) - ModeAt(file, pos) > 10
    BY DEF RefuseEntry, Overrun, AtEntry
  <2>2. Plains(E) /\ Holds(file, E, Len(E))
    BY <2>1, Remembered
  <2>3. k \in 1 .. Len(E) /\ StartsAt(E, k, pos)
    BY <2>1, NextMark
  <2> HIDE DEF E, k
  <2>4. /\ InOrder(file, pos) /\ pos \in Nat
        /\ ModeAt(file, pos) = pos + 2 /\ HeaderEnd(file, pos) = pos + 4
    BY <2>2, <2>3, ReadBack
  <2> QED
    BY <2>1, <2>4
<1> QED
  BY <1>1, Invariance, PTL DEF Spec, DumpsAreAccepted

============================================================================
