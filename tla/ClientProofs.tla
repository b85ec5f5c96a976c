---------------------------- MODULE ClientProofs ----------------------------
(***************************************************************************)
(* Proofs about Client and the thread that serves it, for any texts, key   *)
(* files, boards and numbers of requests.                                  *)
(***************************************************************************)
EXTENDS Client, FiniteSetTheorems, SequenceTheorems, WellFoundedInduction, TLAPS

----------------------------------------------------------------------------
(* Numbers and recursion *)

LEMMA LowestOf ==
  ASSUME NEW S \in SUBSET Nat, S # {}
  PROVE  \E x \in S : \A y \in S : x <= y
<1>1. PICK x \in S : \A y \in S : <<y, x>> \notin OpToRel(<, Nat)
  BY NatLessThanWellFounded, WFMin, Zenon
<1>2. ASSUME NEW y \in S, y < x PROVE FALSE
  <2>1. <<y, x>> \in Nat \X Nat /\ <<y, x>>[1] < <<y, x>>[2]
    BY <1>2
  <2>2. <<y, x>> \in OpToRel(<, Nat)
    BY <2>1, Zenon DEF OpToRel
  <2> QED
    BY <1>1, <2>2
<1>3. \A y \in S : x <= y
  BY <1>2
<1> QED
  BY <1>3

\* What holds of 0, and of n with n - 1, holds up to N: good is where it holds.
LEMMA UpTo ==
  ASSUME NEW N \in Nat, NEW good, 0 \in good, \A n \in 1 .. N : n - 1 \in good => n \in good
  PROVE  \A n \in 0 .. N : n \in good
<1> DEFINE bad == {n \in 0 .. N : n \notin good}
<1>1. SUFFICES ASSUME bad # {} PROVE FALSE
  OBVIOUS
<1>2. PICK n \in bad : \A y \in bad : n <= y
  <2>1. bad \in SUBSET Nat
    OBVIOUS
  <2> HIDE DEF bad
  <2> QED
    BY <1>1, <2>1, LowestOf
<1>3. n \in 1 .. N /\ n - 1 \in 0 .. N /\ ~ (n <= n - 1)
  OBVIOUS
<1>4. n - 1 \in good
  BY <1>2, <1>3
<1> QED
  BY <1>3, <1>4

\* next[n], a function, leads from the value for n - 1 to the one for n.
Iterates(g, N, first, next) ==
  g[0] = first /\ \A n \in 1 .. N : g[n] = next[n][g[n - 1]]

LEMMA IteratesExist ==
  ASSUME NEW N \in Nat, NEW D, NEW first \in D, NEW next \in [1 .. N -> [D -> D]]
  PROVE  \E g \in [0 .. N -> D] : Iterates(g, N, first, next)
<1> DEFINE good == {n \in 0 .. N : \E g \in [0 .. n -> D] : Iterates(g, n, first, next)}
<1>1. 0 \in good
  <2> DEFINE g == [n \in 0 .. 0 |-> first]
  <2>1. g \in [0 .. 0 -> D] /\ Iterates(g, 0, first, next)
    BY DEF Iterates
  <2> HIDE DEF g
  <2> QED
    BY <2>1
<1>2. ASSUME NEW n \in 1 .. N, n - 1 \in good PROVE n \in good
  <2>1. PICK g \in [0 .. n - 1 -> D] : Iterates(g, n - 1, first, next)
    BY <1>2
  <2> DEFINE h == [k \in 0 .. n |-> IF k = n THEN next[n][g[n - 1]] ELSE g[k]]
  <2>2. g[n - 1] \in D /\ next[n] \in [D -> D]
    BY <2>1
  <2>3. h \in [0 .. n -> D]
    BY <2>1, <2>2
  <2>4. ASSUME NEW k \in 1 .. n PROVE h[k] = next[k][h[k - 1]]
    <3>1. h[k - 1] = g[k - 1]
      OBVIOUS
    <3>2. CASE k = n
      BY <3>1, <3>2
    <3>3. CASE k # n
      <4>1. k \in 1 .. n - 1 /\ h[k] = g[k]
        BY <3>3
      <4>2. g[k] = next[k][g[k - 1]]
        BY <4>1, <2>1 DEF Iterates
      <4> HIDE DEF h
      <4> QED
        BY <4>1, <4>2, <3>1
    <3> QED
      BY <3>2, <3>3
  <2>5. h[0] = first
    BY <2>1 DEF Iterates
  <2> HIDE DEF h
  <2>6. Iterates(h, n, first, next)
    BY <2>4, <2>5 DEF Iterates
  <2> QED
    BY <2>3, <2>6
<1> HIDE DEF good
<1>3. \A n \in 0 .. N : n \in good
  BY <1>1, <1>2, UpTo
<1> QED
  BY <1>3 DEF good

----------------------------------------------------------------------------
(* Widths *)

\* Cells that take room.
Wide(s) == \A k \in 1 .. Len(s) : s[k].w \in Nat \ {0}

LEMMA UntilFacts ==
  ASSUME NEW S, NEW s \in Seq(S), Wide(s)
  PROVE  /\ Until(s, 0) = 0
         /\ \A k \in 1 .. Len(s) : Until(s, k) = Until(s, k - 1) + s[k].w
         /\ \A k \in 0 .. Len(s) : Until(s, k) \in Nat
<1> DEFINE N == Len(s)
           next == [n \in 1 .. N |-> [a \in Nat |-> a + s[n].w]]
<1>1. N \in Nat /\ \A n \in 1 .. N : s[n].w \in Nat
  BY DEF Wide
<1>2. next \in [1 .. N -> [Nat -> Nat]]
  BY <1>1
<1>3. PICK g \in [0 .. N -> Nat] : Iterates(g, N, 0, next)
  <2> HIDE DEF N, next
  <2> QED
    BY <1>1, <1>2, IteratesExist
<1>4. g[0] = 0 /\ \A n \in 1 .. N : g[n - 1] \in Nat /\ g[n] = g[n - 1] + s[n].w
  <2>1. ASSUME NEW n \in 1 .. N PROVE g[n - 1] \in Nat /\ g[n] = g[n - 1] + s[n].w
    <3>1. n - 1 \in 0 .. N /\ g[n - 1] \in Nat
      BY <1>1, <1>3
    <3>2. g[n] = next[n][g[n - 1]]
      BY <1>3 DEF Iterates
    <3> QED
      BY <3>1, <3>2
  <2> QED
    BY <2>1, <1>3 DEF Iterates
<1> HIDE DEF next, N
<1>5. ASSUME NEW k \in 0 .. N PROVE Until(s, k) = g[k]
  <2> DEFINE Body(f) == [j \in 0 .. k |-> IF j = 0 THEN 0 ELSE f[j - 1] + s[j].w]
             h == [j \in 0 .. k |-> g[j]]
             sum == CHOOSE f : f = Body(f)
  <2>1. h = Body(h)
    <3>1. ASSUME NEW j \in 0 .. k PROVE h[j] = Body(h)[j]
      <4>1. CASE j = 0
        BY <4>1, <1>4
      <4>2. CASE j # 0
        <5>1. j \in 1 .. N /\ j - 1 \in 0 .. k
          BY <4>2, <1>1
        <5> QED
          BY <5>1, <4>2, <1>4
      <4> QED
        BY <4>1, <4>2
    <3>2. h = [j \in 0 .. k |-> h[j]] /\ Body(h) = [j \in 0 .. k |-> Body(h)[j]]
      OBVIOUS
    <3> HIDE DEF h, Body
    <3> QED
      BY <3>1, <3>2
  <2>2. sum = Body(sum)
    <3> HIDE DEF Body, h
    <3> QED
      BY <2>1
  <2>3. Until(s, k) = sum[k]
    BY DEF Until
  <2> HIDE DEF sum
  <2>4. sum[0] = 0 /\ \A j \in 1 .. k : sum[j] = sum[j - 1] + s[j].w
    <3>1. k \in Nat /\ 0 \in 0 .. k
      BY <1>1
    <3>2. sum[0] = Body(sum)[0] /\ \A j \in 1 .. k : sum[j] = Body(sum)[j]
      BY <2>2
    <3>3. Body(sum)[0] = 0
      BY <3>1
    <3>4. ASSUME NEW j \in 1 .. k PROVE Body(sum)[j] = sum[j - 1] + s[j].w
      <4>1. j \in 0 .. k /\ j # 0
        BY <3>1
      <4> QED
        BY <4>1
    <3> HIDE DEF Body
    <3> QED
      BY <3>2, <3>3, <3>4
  <2> DEFINE good == {j \in 0 .. k : sum[j] = g[j]}
  <2>5. 0 \in good
    BY <2>4, <1>4, <1>1
  <2>6. ASSUME NEW j \in 1 .. k, j - 1 \in good PROVE j \in good
    <3>1. j \in 1 .. N
      BY <1>1
    <3> QED
      BY <3>1, <2>4, <2>6, <1>4
  <2> HIDE DEF good
  <2>7. k \in Nat /\ k \in 0 .. k
    BY <1>1
  <2>8. k \in good
    BY <2>5, <2>6, <2>7, UpTo
  <2> QED
    BY <2>3, <2>8 DEF good
<1>6. ASSUME NEW k \in 1 .. N PROVE Until(s, k) = Until(s, k - 1) + s[k].w
  <2>1. k \in 0 .. N /\ k - 1 \in 0 .. N
    BY <1>1
  <2> QED
    BY <2>1, <1>4, <1>5
<1>7. Until(s, 0) = 0 /\ \A k \in 0 .. N : Until(s, k) \in Nat
  BY <1>1, <1>3, <1>4, <1>5
<1> QED
  BY <1>6, <1>7 DEF N

\* Sequences with the same beginning have the same widths there.
LEMMA UntilSame ==
  ASSUME NEW S, NEW s \in Seq(S), Wide(s), NEW r \in Seq(S), Wide(r),
         NEW N \in Nat, N <= Len(s), N <= Len(r), \A k \in 1 .. N : s[k] = r[k]
  PROVE  \A k \in 0 .. N : Until(s, k) = Until(r, k)
<1> DEFINE good == {k \in 0 .. N : Until(s, k) = Until(r, k)}
<1>1. 0 \in good
  BY UntilFacts
<1>2. ASSUME NEW k \in 1 .. N, k - 1 \in good PROVE k \in good
  <2>1. k \in 1 .. Len(s) /\ k \in 1 .. Len(r)
    OBVIOUS
  <2>2. Until(s, k) = Until(s, k - 1) + s[k].w /\ Until(r, k) = Until(r, k - 1) + r[k].w
    BY <2>1, UntilFacts
  <2> QED
    BY <2>2, <1>2
<1> HIDE DEF good
<1>3. \A k \in 0 .. N : k \in good
  BY <1>1, <1>2, UpTo
<1> QED
  BY <1>3 DEF good

\* Longer beginnings are wider.
LEMMA UntilGrows ==
  ASSUME NEW S, NEW s \in Seq(S), Wide(s), NEW j \in 0 .. Len(s), NEW k \in 0 .. Len(s), j < k
  PROVE  Until(s, j) < Until(s, k)
<1> DEFINE good == {n \in 0 .. Len(s) : n <= j \/ Until(s, j) < Until(s, n)}
<1>1. 0 \in good
  OBVIOUS
<1>2. ASSUME NEW n \in 1 .. Len(s), n - 1 \in good PROVE n \in good
  <2>1. /\ Until(s, n) = Until(s, n - 1) + s[n].w /\ s[n].w \in Nat \ {0}
        /\ Until(s, n - 1) \in Nat /\ Until(s, j) \in Nat
    BY UntilFacts DEF Wide
  <2> QED
    BY <2>1, <1>2
<1> HIDE DEF good
<1>3. Len(s) \in Nat
  OBVIOUS
<1>4. \A n \in 0 .. Len(s) : n \in good
  BY <1>1, <1>2, <1>3, UpTo
<1> QED
  BY <1>4 DEF good

\* The cells within n characters, if some cells take just those.
LEMMA CellsOf ==
  ASSUME NEW S, NEW s \in Seq(S), Wide(s), NEW m \in 0 .. Len(s)
  PROVE  Cells(s, Until(s, m)) = m
<1> DEFINE n == Until(s, m)
           Within(k) == Until(s, k) <= n /\ (k < Len(s) => Until(s, k + 1) > n)
<1>1. \A k \in 0 .. Len(s) : Until(s, k) \in Nat
  BY UntilFacts
<1>2. Within(m)
  <2>1. m < Len(s) => m + 1 \in 0 .. Len(s)
    OBVIOUS
  <2> QED
    BY <1>1, <2>1, UntilGrows
<1>3. ASSUME NEW k \in 0 .. Len(s), Within(k) PROVE k = m
  <2>1. CASE k < m
    <3>1. k + 1 \in 0 .. Len(s) /\ k < Len(s)
      BY <2>1
    <3>2. Until(s, k + 1) > n
      BY <3>1, <1>3
    <3>3. k + 1 = m \/ Until(s, k + 1) < Until(s, m)
      BY <3>1, <2>1, UntilGrows
    <3> QED
      BY <3>1, <3>2, <3>3, <1>1
  <2>2. CASE m < k
    <3>1. Until(s, m) < Until(s, k)
      BY <2>2, UntilGrows
    <3> QED
      BY <3>1, <1>1, <1>3
  <2> QED
    BY <2>1, <2>2
<1>4. Cells(s, n) = CHOOSE k \in 0 .. Len(s) : Within(k)
  BY DEF Cells
<1> HIDE DEF Within
<1>5. (CHOOSE k \in 0 .. Len(s) : Within(k)) = m
  BY <1>2, <1>3
<1> QED
  BY <1>4, <1>5

----------------------------------------------------------------------------
(* Texts *)

\* A sequence of cells that take room.
Text(s) == s \in Seq(ToSet(s)) /\ Wide(s)

LEMMA SomeSeq ==
  ASSUME NEW S, NEW s \in Seq(S)
  PROVE  s \in Seq(ToSet(s))
<1>1. \A k \in 1 .. Len(s) : s[k] \in ToSet(s)
  BY DEF ToSet
<1>2. Len(s) \in Nat /\ s = [k \in 1 .. Len(s) |-> s[k]]
  OBVIOUS
<1> QED
  BY <1>1, <1>2

LEMMA TextPart ==
  ASSUME NEW s, Text(s), NEW j \in Nat \ {0}, NEW k \in j - 1 .. Len(s)
  PROVE  /\ Text(SubSeq(s, j, k))
         /\ Len(SubSeq(s, j, k)) = k - j + 1
         /\ \A n \in 1 .. k - j + 1 : SubSeq(s, j, k)[n] = s[j + n - 1]
<1> DEFINE r == SubSeq(s, j, k)
<1>1. s \in Seq(ToSet(s)) /\ Len(s) \in Nat /\ k \in Int
  BY DEF Text
<1>2. Len(r) = k - j + 1 /\ \A n \in 1 .. k - j + 1 : r[n] = s[j + n - 1]
  BY <1>1, SubSeqProperties
<1>3. r \in Seq(ToSet(s))
  BY <1>1, SubSeqProperties
<1> HIDE DEF r
<1>4. r \in Seq(ToSet(r))
  BY <1>3, SomeSeq
<1>5. Wide(r)
  <2>1. ASSUME NEW n \in 1 .. Len(r) PROVE r[n].w \in Nat \ {0}
    <3>1. j + n - 1 \in 1 .. Len(s) /\ r[n] = s[j + n - 1]
      BY <1>1, <1>2
    <3> QED
      BY <3>1 DEF Text, Wide
  <2> QED
    BY <2>1 DEF Wide
<1>6. Text(r)
  BY <1>4, <1>5 DEF Text
<1> QED
  BY <1>2, <1>6 DEF r

LEMMA TextJoin ==
  ASSUME NEW s, Text(s), NEW r, Text(r)
  PROVE  /\ Text(s \o r)
         /\ Len(s \o r) = Len(s) + Len(r)
         /\ \A n \in 1 .. Len(s) : (s \o r)[n] = s[n]
         /\ \A n \in 1 .. Len(r) : (s \o r)[Len(s) + n] = r[n]
<1> DEFINE S == ToSet(s) \cup ToSet(r)
           t == s \o r
<1>1. s \in Seq(S) /\ r \in Seq(S)
  BY SeqMonotonic DEF Text
<1> HIDE DEF S
<1>2. Len(s) \in Nat /\ Len(r) \in Nat
  BY <1>1
<1>3. t \in Seq(S) /\ Len(t) = Len(s) + Len(r)
  BY <1>1
<1>4. \A n \in 1 .. Len(s) : t[n] = s[n]
  BY <1>1
<1>5. \A n \in 1 .. Len(r) : t[Len(s) + n] = r[n]
  BY <1>1
<1> HIDE DEF t
<1>6. t \in Seq(ToSet(t))
  BY <1>3, SomeSeq
<1>7. Wide(t)
  <2>1. ASSUME NEW n \in 1 .. Len(t) PROVE t[n].w \in Nat \ {0}
    <3>1. CASE n <= Len(s)
      <4>1. n \in 1 .. Len(s)
        BY <3>1, <1>2
      <4> QED
        BY <4>1, <1>4 DEF Text, Wide
    <3>2. CASE n > Len(s)
      <4>1. n - Len(s) \in 1 .. Len(r) /\ n = Len(s) + (n - Len(s))
        BY <3>2, <1>2, <1>3
      <4>2. t[n] = r[n - Len(s)]
        BY <4>1, <1>5
      <4> QED
        BY <4>1, <4>2 DEF Text, Wide
    <3> QED
      BY <3>1, <3>2, <1>2, <1>3
  <2> QED
    BY <2>1 DEF Wide
<1>8. Text(t)
  BY <1>6, <1>7 DEF Text
<1> QED
  BY <1>3, <1>4, <1>5, <1>8 DEF t

LEMMA Joined ==
  \A s, r : Text(s) /\ Text(r) =>
    /\ Text(s \o r)
    /\ Len(s \o r) = Len(s) + Len(r)
    /\ \A n \in 1 .. Len(s) : (s \o r)[n] = s[n]
    /\ \A n \in 1 .. Len(r) : (s \o r)[Len(s) + n] = r[n]
BY TextJoin

\* One and two cells.
LEMMA TextOf ==
  ASSUME NEW c, NEW d, c.w \in Nat \ {0}, d.w \in Nat \ {0}
  PROVE  /\ Text(<<>>) /\ Text(<<c>>) /\ Text(<<c, d>>)
         /\ Len(<<c>>) = 1 /\ <<c>>[1] = c
         /\ Len(<<c, d>>) = 2 /\ <<c, d>>[1] = c /\ <<c, d>>[2] = d
<1>1. <<>> \in Seq({}) /\ <<c>> \in Seq({c}) /\ <<c, d>> \in Seq({c, d})
  OBVIOUS
<1>2. <<>> \in Seq(ToSet(<<>>)) /\ <<c>> \in Seq(ToSet(<<c>>)) /\ <<c, d>> \in Seq(ToSet(<<c, d>>))
  BY <1>1, SomeSeq
<1>3. Wide(<<>>) /\ Wide(<<c>>)
  BY DEF Wide
<1>4. Wide(<<c, d>>)
  <2>1. ASSUME NEW k \in 1 .. 2 PROVE <<c, d>>[k].w \in Nat \ {0}
    <3>1. k = 1 \/ k = 2
      OBVIOUS
    <3> QED
      BY <3>1
  <2> QED
    BY <2>1 DEF Wide
<1> QED
  BY <1>2, <1>3, <1>4 DEF Text

LEMMA WidthOf ==
  ASSUME NEW s, Text(s)
  PROVE  /\ Len(s) \in Nat
         /\ \A k \in 0 .. Len(s) : Until(s, k) \in Nat
         /\ Width(s) \in Nat
         /\ Until(s, 0) = 0
         /\ \A k \in 1 .. Len(s) : Until(s, k) = Until(s, k - 1) + s[k].w
<1>1. s \in Seq(ToSet(s)) /\ Wide(s) /\ Len(s) \in Nat
  BY DEF Text
<1>2. Len(s) \in 0 .. Len(s)
  BY <1>1
<1> QED
  BY <1>1, <1>2, UntilFacts DEF Width

\* What begins a text and is as wide as all of r is r, or as long.
LEMMA Begins ==
  ASSUME NEW s, Text(s), NEW r, Text(r), Len(r) <= Len(s), \A k \in 1 .. Len(r) : s[k] = r[k]
  PROVE  /\ Until(s, Len(r)) = Width(r)
         /\ Cells(s, Width(r)) = Len(r)
         /\ Upto(s, Width(r)) = r
<1>1. /\ s \in Seq(ToSet(s)) /\ Wide(s) /\ Len(s) \in Nat
      /\ r \in Seq(ToSet(r)) /\ Wide(r) /\ Len(r) \in Nat
  BY DEF Text
<1>2. s \in Seq(ToSet(s) \cup ToSet(r)) /\ r \in Seq(ToSet(s) \cup ToSet(r))
  BY <1>1, SeqMonotonic
<1>3. \A k \in 0 .. Len(r) : Until(s, k) = Until(r, k)
  BY <1>1, <1>2, UntilSame
<1>4. Len(r) \in 0 .. Len(r) /\ Len(r) \in 0 .. Len(s)
  BY <1>1
<1>5. Until(s, Len(r)) = Width(r)
  BY <1>3, <1>4 DEF Width
<1>6. Cells(s, Width(r)) = Len(r)
  BY <1>1, <1>4, <1>5, CellsOf
<1>7. Upto(s, Width(r)) = SubSeq(s, 1, Len(r))
  BY <1>6 DEF Upto
<1>8. /\ SubSeq(s, 1, Len(r)) \in Seq(ToSet(s)) /\ Len(SubSeq(s, 1, Len(r))) = Len(r)
      /\ \A k \in 1 .. Len(r) : SubSeq(s, 1, Len(r))[k] = s[k]
  BY <1>1
<1>9. SubSeq(s, 1, Len(r)) = r
  BY <1>1, <1>8, SeqEqual
<1> QED
  BY <1>5, <1>6, <1>7, <1>9

----------------------------------------------------------------------------
(* Lines *)

\* The first new line ends the line.
LEMMA LineFacts ==
  ASSUME Text(toServer), Contains(toServer, NL)
  PROVE  \E p \in 1 .. Len(toServer) :
           /\ toServer[p] = NL
           /\ \A k \in 1 .. p - 1 : toServer[k] # NL
           /\ Line = SubSeq(toServer, 1, p - 1) /\ Len(Line) = p - 1
           /\ \A k \in 1 .. p - 1 : Line[k] = toServer[k]
<1> DEFINE ends == {k \in 1 .. Len(toServer) : toServer[k] = NL}
<1>1. ends # {} /\ ends \in SUBSET Nat
  BY DEF Contains
<1>2. SelectInSeq(toServer, LAMBDA c : c = NL) = Min(ends)
  BY <1>1 DEF SelectInSeq
<1>3. Min(ends) \in ends /\ \A k \in ends : Min(ends) <= k
  <2> HIDE DEF ends
  <2>1. \E x \in ends : \A y \in ends : x <= y
    BY <1>1, LowestOf
  <2> QED
    BY <2>1 DEF Min
<1> DEFINE p == Min(ends)
<1>4. p \in 1 .. Len(toServer) /\ toServer[p] = NL
  BY <1>3
<1>5. ASSUME NEW k \in 1 .. p - 1 PROVE toServer[k] # NL
  <2>1. Len(toServer) \in Nat /\ p \in 1 .. Len(toServer)
    BY <1>4 DEF Text
  <2>2. k \in 1 .. Len(toServer) /\ ~ (p <= k)
    BY <2>1
  <2> QED
    BY <2>2, <1>3
<1>6. Line = SubSeq(toServer, 1, p - 1)
  BY <1>2 DEF Line
<1> HIDE DEF p
<1>7. Len(toServer) \in Nat /\ p \in Int /\ p - 1 \in 1 - 1 .. Len(toServer) /\ p - 1 - 1 + 1 = p - 1
  BY <1>4 DEF Text
<1>8. Len(Line) = p - 1 /\ \A k \in 1 .. p - 1 : Line[k] = toServer[1 + k - 1]
  BY <1>6, <1>7, TextPart
<1>9. \A k \in 1 .. p - 1 : 1 + k - 1 = k
  BY <1>7
<1> QED
  BY <1>4, <1>5, <1>6, <1>8, <1>9

----------------------------------------------------------------------------
(* Requests, one behind the other *)

\* A request the client makes: a header on a line of its own and, for an update, a text
\* as wide as the header tells and the new line behind it.
Request(m) ==
  /\ Text(m) /\ Len(m) >= 2 /\ m[2] = NL
  /\ m[1].w < 20 /\ m[1].entry \in Entries
  /\ \/ m[1].is = "?" /\ Len(m) = 2
     \/ /\ m[1].is = "@" /\ Len(m) >= 3 /\ m[Len(m)] = NL
        /\ m[1].length \in Nat /\ m[1].length + 1 = Width(SubSeq(m, 3, Len(m)))

\* Behind its first r cells, s is made of the members of M.
Laid(s, M, r) ==
  \E cuts \in [0 .. Len(M) -> 0 .. Len(s)] :
    /\ cuts[0] = r /\ cuts[Len(M)] = Len(s)
    /\ \A j \in 1 .. Len(M) :
         /\ cuts[j] = cuts[j - 1] + Len(M[j])
         /\ \A k \in 1 .. Len(M[j]) : s[cuts[j - 1] + k] = M[j][k]

Requested(M) == /\ M = [j \in 1 .. Len(M) |-> M[j]] /\ Len(M) \in Nat
                /\ \A j \in 1 .. Len(M) : Request(M[j])

LEMMA RequestedSeq ==
  ASSUME NEW M, Requested(M)
  PROVE  M \in Seq(ToSet(M))
<1>1. \A j \in 1 .. Len(M) : M[j] \in ToSet(M)
  BY DEF ToSet, Requested
<1> QED
  BY <1>1 DEF Requested

\* One more request.
LEMMA LaidAppend ==
  ASSUME NEW s, Text(s), NEW M, Requested(M), NEW r, Laid(s, M, r), NEW m, Request(m)
  PROVE  Requested(Append(M, m)) /\ Laid(s \o m, Append(M, m), r)
<1> DEFINE A == Append(M, m)
           t == s \o m
<1>1. M \in Seq(ToSet(M) \cup {m}) /\ m \in ToSet(M) \cup {m} /\ Len(M) \in Nat
  BY RequestedSeq, SeqMonotonic DEF Requested
<1>2. Len(A) = Len(M) + 1 /\ A[Len(M) + 1] = m /\ \A j \in 1 .. Len(M) : A[j] = M[j]
  BY <1>1, AppendProperties
<1>3. A = [j \in 1 .. Len(A) |-> A[j]]
  <2>1. A \in Seq(ToSet(M) \cup {m})
    BY <1>1, AppendProperties
  <2> HIDE DEF A
  <2> QED
    BY <2>1
<1>4. Text(m) /\ Len(m) \in Nat /\ Len(s) \in Nat
  BY DEF Request, Text
<1>5. /\ Len(t) = Len(s) + Len(m) /\ \A k \in 1 .. Len(s) : t[k] = s[k]
      /\ \A k \in 1 .. Len(m) : t[Len(s) + k] = m[k]
  BY <1>4, TextJoin
<1> HIDE DEF A, t
<1>6. Requested(A)
  <2>1. ASSUME NEW j \in 1 .. Len(A) PROVE Request(A[j])
    <3>1. j = Len(M) + 1 \/ j \in 1 .. Len(M)
      BY <1>1, <1>2
    <3> QED
      BY <3>1, <1>2 DEF Requested
  <2> QED
    BY <2>1, <1>1, <1>2, <1>3 DEF Requested
<1>7. PICK cuts \in [0 .. Len(M) -> 0 .. Len(s)] :
        /\ cuts[0] = r /\ cuts[Len(M)] = Len(s)
        /\ \A j \in 1 .. Len(M) :
             /\ cuts[j] = cuts[j - 1] + Len(M[j])
             /\ \A k \in 1 .. Len(M[j]) : s[cuts[j - 1] + k] = M[j][k]
  BY DEF Laid
<1> DEFINE new == [j \in 0 .. Len(A) |-> IF j = Len(A) THEN Len(t) ELSE cuts[j]]
<1>8. new \in [0 .. Len(A) -> 0 .. Len(t)]
  <2>1. ASSUME NEW j \in 0 .. Len(A) PROVE new[j] \in 0 .. Len(t)
    <3>1. CASE j = Len(A)
      BY <3>1, <1>4, <1>5
    <3>2. CASE j # Len(A)
      <4>1. j \in 0 .. Len(M)
        BY <3>2, <1>1, <1>2
      <4>2. cuts[j] \in 0 .. Len(s)
        BY <4>1, <1>7
      <4> QED
        BY <3>2, <4>2, <1>4, <1>5
    <3> QED
      BY <3>1, <3>2
  <2> QED
    BY <2>1
<1>9. \A j \in 0 .. Len(M) : j \in 0 .. Len(A) /\ j # Len(A) /\ new[j] = cuts[j]
  BY <1>1, <1>2
<1>10. new[0] = r /\ new[Len(A)] = Len(t) /\ new[Len(M)] = Len(s)
  BY <1>1, <1>2, <1>7, <1>9
<1> HIDE DEF new
<1>11. ASSUME NEW j \in 1 .. Len(A)
       PROVE  /\ new[j] = new[j - 1] + Len(A[j])
              /\ \A k \in 1 .. Len(A[j]) : t[new[j - 1] + k] = A[j][k]
  <2>1. CASE j = Len(A)
    <3>1. new[j - 1] = Len(s) /\ A[j] = m /\ new[j] = Len(t)
      BY <2>1, <1>1, <1>2, <1>10
    <3> QED
      BY <3>1, <1>5
  <2>2. CASE j # Len(A)
    <3>1. j \in 1 .. Len(M) /\ j \in 0 .. Len(M) /\ j - 1 \in 0 .. Len(M)
      BY <2>2, <1>1, <1>2
    <3>2. new[j] = cuts[j] /\ new[j - 1] = cuts[j - 1] /\ A[j] = M[j]
      BY <3>1, <1>2, <1>9
    <3>3. /\ cuts[j] = cuts[j - 1] + Len(M[j]) /\ cuts[j] \in 0 .. Len(s) /\ cuts[j - 1] \in 0 .. Len(s)
          /\ \A k \in 1 .. Len(M[j]) : s[cuts[j - 1] + k] = M[j][k]
      BY <3>1, <1>7
    <3>4. ASSUME NEW k \in 1 .. Len(M[j]) PROVE t[cuts[j - 1] + k] = M[j][k]
      <4>1. Len(M[j]) \in Nat
        BY <3>1 DEF Requested, Request, Text
      <4>2. cuts[j - 1] + k \in 1 .. Len(s)
        BY <3>3, <4>1, <1>4
      <4> QED
        BY <4>2, <3>3, <1>5
    <3> QED
      BY <3>2, <3>3, <3>4
  <2> QED
    BY <2>1, <2>2
<1>12. Laid(t, A, r)
  BY <1>8, <1>10, <1>11 DEF Laid
<1> QED
  BY <1>6, <1>12 DEF A, t

\* The first request is read.
LEMMA LaidNext ==
  ASSUME NEW s, Text(s), NEW M, Requested(M), M # <<>>, NEW r, Laid(s, M, r)
  PROVE  /\ r \in 0 .. Len(s) /\ r + Len(M[1]) \in 0 .. Len(s) /\ Len(M) >= 1 /\ Request(M[1])
         /\ \A k \in 1 .. Len(M[1]) : s[r + k] = M[1][k]
         /\ Requested(SubSeq(M, 2, Len(M)))
         /\ Laid(s, SubSeq(M, 2, Len(M)), r + Len(M[1]))
<1> DEFINE T == SubSeq(M, 2, Len(M))
<1>1. M \in Seq(ToSet(M)) /\ Len(M) \in Nat /\ Len(s) \in Nat
  BY RequestedSeq DEF Requested, Text
<1>2. Len(M) >= 1 /\ 1 \in 1 .. Len(M)
  <2>1. Len(M) # 0
    BY <1>1
  <2> QED
    BY <2>1, <1>1
<1>3. Len(T) = Len(M) - 1 /\ T \in Seq(ToSet(M)) /\ \A j \in 1 .. Len(M) - 1 : T[j] = M[j + 1]
  <2>1. \A j \in 2 .. Len(M) : M[j] \in ToSet(M)
    BY <1>1
  <2>2. /\ T \in Seq(ToSet(M))
        /\ Len(T) = IF 2 <= Len(M) THEN Len(M) - 2 + 1 ELSE 0
        /\ \A j \in 1 .. Len(M) - 2 + 1 : T[j] = M[2 + j - 1]
    BY <2>1, <1>1, SubSeqProperties
  <2> HIDE DEF T
  <2>3. Len(T) = Len(M) - 1
    <3> DEFINE n == Len(M)
    <3>1. n \in Nat /\ n >= 1 /\ Len(T) = IF 2 <= n THEN n - 2 + 1 ELSE 0
      BY <2>2, <1>1, <1>2
    <3> HIDE DEF n
    <3>2. Len(T) = n - 1
      BY <3>1
    <3> QED
      BY <3>2 DEF n
  <2>4. ASSUME NEW j \in 1 .. Len(M) - 1 PROVE T[j] = M[j + 1]
    <3>1. j \in 1 .. Len(M) - 2 + 1 /\ 2 + j - 1 = j + 1
      BY <1>1
    <3> QED
      BY <3>1, <2>2
  <2> QED
    BY <2>2, <2>3, <2>4
<1> HIDE DEF T
<1>4. Requested(T)
  <2>1. ASSUME NEW j \in 1 .. Len(T) PROVE Request(T[j])
    <3>1. j + 1 \in 1 .. Len(M) /\ T[j] = M[j + 1]
      BY <1>1, <1>3
    <3> QED
      BY <3>1 DEF Requested
  <2> QED
    BY <2>1, <1>3 DEF Requested
<1>5. PICK cuts \in [0 .. Len(M) -> 0 .. Len(s)] :
        /\ cuts[0] = r /\ cuts[Len(M)] = Len(s)
        /\ \A j \in 1 .. Len(M) :
             /\ cuts[j] = cuts[j - 1] + Len(M[j])
             /\ \A k \in 1 .. Len(M[j]) : s[cuts[j - 1] + k] = M[j][k]
  BY DEF Laid
<1>6. /\ cuts[1] = r + Len(M[1]) /\ cuts[1] \in 0 .. Len(s) /\ r \in 0 .. Len(s)
      /\ \A k \in 1 .. Len(M[1]) : s[r + k] = M[1][k]
  <2>1. 1 - 1 = 0 /\ 0 \in 0 .. Len(M) /\ 1 \in 0 .. Len(M)
    BY <1>2, <1>1
  <2> QED
    BY <2>1, <1>2, <1>5
<1> DEFINE new == [j \in 0 .. Len(T) |-> cuts[j + 1]]
<1>7. ASSUME NEW j \in 0 .. Len(T)
      PROVE  new[j] = cuts[j + 1] /\ j + 1 \in 1 .. Len(M) /\ cuts[j + 1] \in 0 .. Len(s)
  <2>1. j + 1 \in 1 .. Len(M) /\ j + 1 \in 0 .. Len(M)
    BY <1>1, <1>2, <1>3
  <2> QED
    BY <2>1, <1>5
<1>8. new \in [0 .. Len(T) -> 0 .. Len(s)]
  BY <1>7
<1> HIDE DEF new
<1>9. new[0] = r + Len(M[1]) /\ new[Len(T)] = Len(s)
  <2>1. 0 \in 0 .. Len(T) /\ Len(T) \in 0 .. Len(T) /\ 0 + 1 = 1 /\ Len(T) + 1 = Len(M)
    BY <1>1, <1>2, <1>3
  <2> QED
    BY <2>1, <1>5, <1>6, <1>7
<1>10. ASSUME NEW j \in 1 .. Len(T)
       PROVE  /\ new[j] = new[j - 1] + Len(T[j])
              /\ \A k \in 1 .. Len(T[j]) : s[new[j - 1] + k] = T[j][k]
  <2>1. j \in 0 .. Len(T) /\ j - 1 \in 0 .. Len(T) /\ j - 1 + 1 = j /\ j + 1 \in 1 .. Len(M) /\ j + 1 - 1 = j
    BY <1>1, <1>3
  <2>2. new[j] = cuts[j + 1] /\ new[j - 1] = cuts[j] /\ T[j] = M[j + 1]
    BY <2>1, <1>3, <1>7
  <2>3. /\ cuts[j + 1] = cuts[j] + Len(M[j + 1])
        /\ \A k \in 1 .. Len(M[j + 1]) : s[cuts[j] + k] = M[j + 1][k]
    BY <2>1, <1>5
  <2> QED
    BY <2>2, <2>3
<1>11. Laid(s, T, r + Len(M[1]))
  BY <1>8, <1>9, <1>10 DEF Laid
<1>12. Request(M[1])
  BY <1>2 DEF Requested
<1> QED
  BY <1>2, <1>4, <1>6, <1>11, <1>12 DEF T

\* Cells before the requests are taken away.
LEMMA LaidDrop ==
  ASSUME NEW s, Text(s), NEW M, Requested(M), NEW r \in Nat, Laid(s, M, r), NEW d \in 0 .. r
  PROVE  /\ r \in 0 .. Len(s)
         /\ Laid(SubSeq(s, d + 1, Len(s)), M, r - d)
<1> DEFINE t == SubSeq(s, d + 1, Len(s))
<1>1. PICK cuts \in [0 .. Len(M) -> 0 .. Len(s)] :
        /\ cuts[0] = r /\ cuts[Len(M)] = Len(s)
        /\ \A j \in 1 .. Len(M) :
             /\ cuts[j] = cuts[j - 1] + Len(M[j])
             /\ \A k \in 1 .. Len(M[j]) : s[cuts[j - 1] + k] = M[j][k]
  BY DEF Laid
<1>2. Len(M) \in Nat /\ Len(s) \in Nat
  BY DEF Requested, Text
<1>3. r \in 0 .. Len(s)
  <2>1. 0 \in 0 .. Len(M)
    BY <1>2
  <2> QED
    BY <2>1, <1>1
<1>4. /\ Len(t) = Len(s) - d
      /\ \A k \in 1 .. Len(t) : t[k] = s[d + k]
  <2>1. d + 1 \in Nat \ {0} /\ Len(s) \in d + 1 - 1 .. Len(s)
    BY <1>2, <1>3
  <2>2. /\ Len(t) = Len(s) - (d + 1) + 1
        /\ \A k \in 1 .. Len(s) - (d + 1) + 1 : t[k] = s[d + 1 + k - 1]
    BY <2>1, TextPart
  <2> HIDE DEF t
  <2>3. Len(t) = Len(s) - d
    BY <2>2, <1>2
  <2>4. ASSUME NEW k \in 1 .. Len(t) PROVE t[k] = s[d + k]
    <3>1. k \in 1 .. Len(s) - (d + 1) + 1 /\ d + 1 + k - 1 = d + k
      BY <2>3, <1>2
    <3> QED
      BY <3>1, <2>2
  <2> QED
    BY <2>3, <2>4
<1> HIDE DEF t
<1>5. Len(t) \in Nat
  BY <1>2, <1>3, <1>4
<1> DEFINE good == {j \in 0 .. Len(M) : cuts[j] >= r}
<1>6. 0 \in good
  BY <1>1, <1>2
<1>7. ASSUME NEW j \in 1 .. Len(M), j - 1 \in good PROVE j \in good
  <2>1. Len(M[j]) \in Nat /\ cuts[j] = cuts[j - 1] + Len(M[j]) /\ j - 1 \in 0 .. Len(M) /\ j \in 0 .. Len(M)
    BY <1>1, <1>2 DEF Requested, Request, Text
  <2>2. cuts[j - 1] \in 0 .. Len(s) /\ cuts[j - 1] >= r
    BY <2>1, <1>1, <1>7
  <2> QED
    BY <2>1, <2>2, <1>2
<1> HIDE DEF good
<1>8. \A j \in 0 .. Len(M) : j \in good
  BY <1>2, <1>6, <1>7, UpTo
<1>9. \A j \in 0 .. Len(M) : cuts[j] >= r /\ cuts[j] \in 0 .. Len(s)
  BY <1>8, <1>1 DEF good
<1> DEFINE new == [j \in 0 .. Len(M) |-> cuts[j] - d]
<1>10. \A j \in 0 .. Len(M) : new[j] = cuts[j] - d /\ cuts[j] - d \in 0 .. Len(t)
  BY <1>2, <1>3, <1>4, <1>9
<1>11. new \in [0 .. Len(M) -> 0 .. Len(t)]
  BY <1>10
<1> HIDE DEF new
<1>12. new[0] = r - d /\ new[Len(M)] = Len(t)
  <2>1. 0 \in 0 .. Len(M) /\ Len(M) \in 0 .. Len(M)
    BY <1>2
  <2>2. new[0] = cuts[0] - d /\ new[Len(M)] = cuts[Len(M)] - d
    BY <2>1, <1>10
  <2> QED
    BY <2>2, <1>1, <1>4
<1>13. ASSUME NEW j \in 1 .. Len(M)
       PROVE  /\ new[j] = new[j - 1] + Len(M[j])
              /\ \A k \in 1 .. Len(M[j]) : t[new[j - 1] + k] = M[j][k]
  <2>1. /\ Len(M[j]) \in Nat /\ cuts[j] = cuts[j - 1] + Len(M[j]) /\ j - 1 \in 0 .. Len(M) /\ j \in 0 .. Len(M)
        /\ \A k \in 1 .. Len(M[j]) : s[cuts[j - 1] + k] = M[j][k]
    BY <1>1, <1>2 DEF Requested, Request, Text
  <2>2. /\ new[j] = cuts[j] - d /\ new[j - 1] = cuts[j - 1] - d
        /\ cuts[j] \in 0 .. Len(s) /\ cuts[j - 1] \in 0 .. Len(s) /\ cuts[j - 1] >= r
    BY <2>1, <1>9, <1>10
  <2>3. ASSUME NEW k \in 1 .. Len(M[j]) PROVE t[cuts[j - 1] - d + k] = M[j][k]
    <3> DEFINE a == cuts[j - 1]
               b == Len(M[j])
    <3>1. a \in Nat /\ b \in Nat /\ a >= r /\ a + b <= Len(s) /\ Len(t) = Len(s) - d /\ k \in 1 .. b
      BY <2>1, <2>2, <1>2, <1>4
    <3> HIDE DEF a, b
    <3>2. a - d + k \in 1 .. Len(t) /\ d + (a - d + k) = a + k
      BY <3>1, <1>2
    <3>3. t[a - d + k] = s[a + k]
      BY <3>2, <1>4
    <3> QED
      BY <3>3, <2>1 DEF a
  <2>4. \A k \in 1 .. Len(M[j]) : t[new[j - 1] + k] = M[j][k]
    BY <2>2, <2>3
  <2>5. new[j] = new[j - 1] + Len(M[j])
    <3>1. cuts[j - 1] \in Int /\ d \in Int
      BY <2>2
    <3> QED
      BY <3>1, <2>1, <2>2
  <2> QED
    BY <2>4, <2>5
<1>14. Laid(t, M, r - d)
  BY <1>11, <1>12, <1>13 DEF Laid
<1> QED
  BY <1>3, <1>14 DEF t

----------------------------------------------------------------------------
(* What the client sends *)

LEMMA NLFacts == NL.w = 1 /\ NL.w \in Nat \ {0} /\ NL.is = "nl" /\ Text(<<NL>>)
                 /\ Len(<<NL>>) = 1 /\ <<NL>>[1] = NL
<1>1. NL.w = 1 /\ NL.w \in Nat \ {0} /\ NL.is = "nl"
  BY DEF NL
<1> HIDE DEF NL
<1>2. Text(<<NL>>) /\ Len(<<NL>>) = 1 /\ <<NL>>[1] = NL
  BY <1>1, TextOf
<1> QED
  BY <1>1, <1>2

LEMMA DigitsFacts == \A n : Digits(n) \in 1 .. 3
BY DEF Digits

LEMMA QueryRequest ==
  ASSUME NEW n \in Entries
  PROVE  Request(<<Query(n), NL>>)
<1> DEFINE m == <<Query(n), NL>>
<1>1. Query(n).w \in Nat \ {0} /\ Query(n).w < 20 /\ Query(n).is = "?" /\ Query(n).entry = n
  BY DigitsFacts DEF Query
<1>2. Text(m) /\ Len(m) = 2 /\ m[1] = Query(n) /\ m[2] = NL
  BY <1>1, NLFacts, TextOf
<1> HIDE DEF m
<1>3. Request(m)
  BY <1>1, <1>2 DEF Request
<1> QED
  BY <1>3 DEF m

\* A new line makes a text one character wider.
LEMMA WidthEnded ==
  ASSUME NEW text, Text(text)
  PROVE  Text(text \o <<NL>>) /\ Width(text \o <<NL>>) = Width(text) + 1
<1> DEFINE t == text \o <<NL>>
<1>1. /\ Text(t) /\ Len(t) = Len(text) + 1 /\ \A k \in 1 .. Len(text) : t[k] = text[k]
      /\ t[Len(text) + 1] = NL
  <2>1. 1 \in 1 .. Len(<<NL>>)
    BY NLFacts
  <2> QED
    BY <2>1, NLFacts, TextJoin
<1> HIDE DEF t
<1>2. Len(text) \in Nat
  BY WidthOf
<1>3. Until(t, Len(text)) = Width(text)
  BY <1>1, <1>2, Begins
<1>4. Until(t, Len(t)) = Until(t, Len(t) - 1) + NL.w
  <2>1. Len(t) \in 1 .. Len(t) /\ t[Len(t)] = NL
    BY <1>1, <1>2
  <2> QED
    BY <2>1, <1>1, WidthOf
<1>5. Len(t) - 1 = Len(text)
  BY <1>1, <1>2
<1>6. Width(t) = Width(text) + 1
  BY <1>3, <1>4, <1>5, NLFacts DEF Width
<1> QED
  BY <1>1, <1>6 DEF t

LEMMA UpdateRequest ==
  ASSUME NEW n \in Entries, NEW mode, NEW text, Text(text)
  PROVE  Request(Update(n, mode, text))
<1> DEFINE h == Header("@", n, mode, Width(text))
           a == <<h, NL>>
           b == a \o text
           m == b \o <<NL>>
           t == SubSeq(m, 3, Len(m))
<1>1. h.w \in Nat \ {0} /\ h.w < 20 /\ h.is = "@" /\ h.length = Width(text) /\ h.entry = n
  BY DigitsFacts DEF Header
<1>2. m = Update(n, mode, text)
  BY DEF Update
<1> HIDE DEF h
<1>3. Text(a) /\ Len(a) = 2 /\ a[1] = h /\ a[2] = NL
  BY <1>1, NLFacts, TextOf
<1> HIDE DEF a
<1>4. /\ Text(b) /\ Len(b) = 2 + Len(text) /\ Len(text) \in Nat
      /\ b[1] = h /\ b[2] = NL /\ \A k \in 1 .. Len(text) : b[2 + k] = text[k]
  <2>1. 1 \in 1 .. Len(a) /\ 2 \in 1 .. Len(a)
    BY <1>3
  <2> QED
    <3>1. Len(text) \in Nat
      BY WidthOf
    <3>2. /\ Text(b) /\ Len(b) = Len(a) + Len(text)
          /\ \A k \in 1 .. Len(a) : b[k] = a[k]
          /\ \A k \in 1 .. Len(text) : b[Len(a) + k] = text[k]
      <4>1. Text(a) /\ Text(text)
        BY <1>3
      <4>2. /\ Text(a \o text) /\ Len(a \o text) = Len(a) + Len(text)
            /\ \A k \in 1 .. Len(a) : (a \o text)[k] = a[k]
            /\ \A k \in 1 .. Len(text) : (a \o text)[Len(a) + k] = text[k]
        BY <4>1, Joined
      <4> QED
        BY <4>2
    <3> HIDE DEF b
    <3> QED
      BY <2>1, <3>1, <3>2, <1>3
<1> HIDE DEF b
<1>5. /\ Text(m) /\ Len(m) = 3 + Len(text) /\ \A k \in 1 .. 2 + Len(text) : m[k] = b[k]
      /\ m[3 + Len(text)] = NL
  <2>1. 1 \in 1 .. Len(<<NL>>) /\ Len(b) + 1 = 3 + Len(text) /\ Len(b) + Len(<<NL>>) = 3 + Len(text)
    BY <1>4, NLFacts
  <2>2. /\ Text(m) /\ Len(m) = Len(b) + Len(<<NL>>) /\ \A k \in 1 .. Len(b) : m[k] = b[k]
        /\ m[Len(b) + 1] = <<NL>>[1]
    BY <2>1, <1>4, NLFacts, TextJoin
  <2> HIDE DEF m
  <2> QED
    BY <2>1, <2>2, <1>4, NLFacts
<1> HIDE DEF m
<1>6. m[1] = h /\ m[2] = NL /\ \A k \in 1 .. Len(text) : m[2 + k] = text[k]
  <2>1. 1 \in 1 .. 2 + Len(text) /\ 2 \in 1 .. 2 + Len(text)
    BY <1>4
  <2>2. \A k \in 1 .. Len(text) : 2 + k \in 1 .. 2 + Len(text)
    BY <1>4
  <2> QED
    BY <2>1, <2>2, <1>4, <1>5
<1>8. t = text \o <<NL>>
  <2> DEFINE e == text \o <<NL>>
  <2>1. Text(e) /\ Len(e) = Len(text) + 1 /\ \A k \in 1 .. Len(text) : e[k] = text[k]
    BY NLFacts, TextJoin
  <2>2. e[Len(text) + 1] = NL
    <3>1. 1 \in 1 .. Len(<<NL>>)
      BY NLFacts
    <3> QED
      BY <3>1, NLFacts, TextJoin
  <2> HIDE DEF e
  <2>3. /\ Text(t) /\ Len(t) = Len(m) - 3 + 1
        /\ \A k \in 1 .. Len(m) - 3 + 1 : t[k] = m[3 + k - 1]
    <3>1. 3 \in Nat \ {0} /\ Len(m) \in 3 - 1 .. Len(m)
      BY <1>4, <1>5
    <3> QED
      BY <3>1, <1>5, TextPart
  <2> HIDE DEF t
  <2>4. Len(t) = Len(text) + 1
    BY <2>3, <1>4, <1>5
  <2>5. ASSUME NEW k \in 1 .. Len(text) + 1 PROVE t[k] = e[k]
    <3>1. k \in 1 .. Len(m) - 3 + 1 /\ 3 + k - 1 = 2 + k
      BY <1>4, <1>5
    <3>2. t[k] = m[2 + k]
      BY <3>1, <2>3
    <3>3. CASE k = Len(text) + 1
      <4>1. 2 + k = 3 + Len(text)
        BY <3>3, <1>4
      <4> QED
        BY <4>1, <3>2, <3>3, <2>2, <1>5
    <3>4. CASE k # Len(text) + 1
      <4>1. k \in 1 .. Len(text)
        BY <3>4, <1>4
      <4> QED
        BY <4>1, <3>2, <2>1, <1>6
    <3> QED
      BY <3>3, <3>4
  <2>6. t \in Seq(ToSet(t) \cup ToSet(e)) /\ e \in Seq(ToSet(t) \cup ToSet(e))
    BY <2>1, <2>3, SeqMonotonic DEF Text
  <2>7. t = e
    BY <2>1, <2>4, <2>5, <2>6, SeqEqual
  <2> QED
    BY <2>7 DEF e
<1> HIDE DEF t
<1>9. m[1].length + 1 = Width(t) /\ m[1].length \in Nat
  BY <1>1, <1>6, <1>8, WidthEnded, WidthOf
<1>10. Request(m)
  <2>1. Len(m) >= 3 /\ Len(m) >= 2 /\ m[Len(m)] = NL
    BY <1>4, <1>5
  <2> QED
    BY <2>1, <1>1, <1>5, <1>6, <1>9 DEF Request, t
<1> QED
  BY <1>2, <1>10

\* What a user types can be sent, and so can what it is encrypted to.
LEMMA Typing ==
  ASSUME NEW typed \in Typed, typed # <<>>
  PROVE  Text(tempstring(typed))
<1>1. typed \in Seq(ToSet(typed)) /\ \A c \in ToSet(typed) : c.w \in Nat \ {0}
  BY TypedAssumption
<1>2. Len(typed) \in Nat \ {0}
  BY <1>1
<1>3. \A k \in 1 .. Len(typed) : typed[k].w \in Nat \ {0}
  BY <1>1
<1>4. Text(typed)
  BY <1>1, <1>3 DEF Text, Wide
<1> DEFINE f == Front(typed)
<1>5. Text(f)
  <2>1. 1 \in Nat \ {0} /\ Len(typed) - 1 \in 1 - 1 .. Len(typed) /\ f = SubSeq(typed, 1, Len(typed) - 1)
    BY <1>2 DEF Front
  <2>2. PICK j \in 1 - 1 .. Len(typed) : j = Len(typed) - 1
    BY <2>1
  <2>3. Text(SubSeq(typed, 1, j))
    <3>1. 1 \in Nat \ {0} /\ j \in 1 - 1 .. Len(typed)
      OBVIOUS
    <3> QED
      BY <3>1, <1>4, TextPart
  <2> QED
    BY <2>1, <2>2, <2>3
<1>6. Text(<<>>)
  BY NLFacts, TextOf
<1> QED
  BY <1>5, <1>6 DEF tempstring

LEMMA Encrypting ==
  ASSUME NEW text, Text(text)
  PROVE  /\ Text(encrypt(text))
         /\ Padded(addon + Width(text)) \in Nat /\ Padded(addon + Width(text)) % 16 = 0
<1>1. Width(text) \in Nat
  BY WidthOf
<1> DEFINE n == Padded(addon + Width(text))
           c == [is |-> "cipher", w |-> base64encode(n), key |-> FirstKey, text |-> text]
<1>2. n \in Nat /\ n % 16 = 0
  <2>1. (addon + Width(text)) \div 16 \in Nat
    BY <1>1 DEF addon
  <2> DEFINE q == (addon + Width(text)) \div 16
  <2>2. n = 16 * (q + 1)
    BY DEF Padded
  <2> HIDE DEF q
  <2>3. 16 * (q + 1) \in Nat /\ (16 * (q + 1)) % 16 = 0
    BY <2>1 DEF q
  <2> HIDE DEF n
  <2> QED
    BY <2>2, <2>3
<1>3. base64encode(n) \in Nat \ {0}
  <2> HIDE DEF n
  <2>1. (n + 2) \div 3 \in Nat
    BY <1>2
  <2>2. n # 0
    <3>1. (addon + Width(text)) \div 16 \in Nat
      BY <1>1 DEF addon
    <3> QED
      BY <3>1 DEF n, Padded
  <2>3. (n + 2) \div 3 # 0
    BY <1>2, <2>2
  <2> QED
    BY <2>1, <2>3 DEF base64encode
<1>4. encrypt(text) = <<c>>
  BY DEF encrypt
<1>5. c.w \in Nat \ {0}
  BY <1>3
<1> HIDE DEF c, n
<1>6. Text(<<c>>)
  BY <1>5, TextOf
<1> QED
  BY <1>2, <1>4, <1>6 DEF n

----------------------------------------------------------------------------
(* What the server has not read yet *)

\* The header whose text the thread waits for is taken as not read yet.
Stream == IF thread.pc = "text" THEN <<thread.req, NL>> \o toServer ELSE toServer

\* What is left of a text that has come in pieces: up to a new line, and no header.
Leftover(s, r) ==
  /\ \A k \in 1 .. r : s[k].is \notin {"?", "@"}
  /\ r > 0 => s[r] = NL

\* The requests not understood yet are behind the first r cells.
Stands(r) ==
  /\ Leftover(Stream, r) /\ Laid(Stream, made, r)
  /\ whole \/ thread.pc = "text" => r = 0

RequestInv ==
  /\ Text(toServer) /\ Requested(made)
  /\ thread = [pc |-> thread.pc, req |-> thread.req, text |-> thread.text, reply |-> thread.reply]
  /\ thread.pc = "text" => made # <<>> /\ thread.req.is = "@" /\ thread.req = made[1][1]
  /\ thread.pc # "lost" => \E r \in 0 .. Len(Stream) : Stands(r)

\* A line of what is left, or the header of the next request.
LEMMA HeaderLine ==
  ASSUME Text(toServer), Requested(made), Contains(toServer, NL),
         NEW r \in 0 .. Len(toServer), Leftover(toServer, r), Laid(toServer, made, r)
  PROVE  /\ Len(Line) \in Nat
         /\ \/ /\ r = 0 /\ made # <<>> /\ Request(made[1])
               /\ Len(Line) = 1 /\ Line[1] = made[1][1] /\ Fits
            \/ /\ r > 0 /\ Len(Line) + 1 \in 1 .. r
               /\ Line # <<>> => Line[1].is \notin {"?", "@"}
<1>1. PICK p \in 1 .. Len(toServer) :
        /\ toServer[p] = NL
        /\ \A k \in 1 .. p - 1 : toServer[k] # NL
        /\ Line = SubSeq(toServer, 1, p - 1) /\ Len(Line) = p - 1
        /\ \A k \in 1 .. p - 1 : Line[k] = toServer[k]
  BY LineFacts
<1>2. Len(toServer) \in Nat /\ Len(Line) \in Nat /\ p \in Nat
  BY <1>1 DEF Text
<1>3. Text(Line)
  <2>1. 1 \in Nat \ {0} /\ p - 1 \in 1 - 1 .. Len(toServer)
    BY <1>2
  <2> QED
    BY <2>1, <1>1, TextPart
<1>4. CASE r > 0
  <2>1. p <= r
    <3>1. ~ (r \in 1 .. p - 1)
      BY <1>1, <1>4 DEF Leftover
    <3> QED
      BY <3>1, <1>2, <1>4
  <2>2. Len(Line) + 1 \in 1 .. r
    BY <2>1, <1>1, <1>2
  <2>3. ASSUME Line # <<>> PROVE Line[1].is \notin {"?", "@"}
    <3>1. Len(Line) # 0
      BY <2>3, <1>3 DEF Text
    <3>2. 1 \in 1 .. p - 1 /\ 1 \in 1 .. r
      BY <3>1, <1>1, <1>2, <1>4
    <3> QED
      BY <3>2, <1>1 DEF Leftover
  <2> QED
    BY <2>2, <2>3, <1>2, <1>4
<1>5. CASE r = 0
  <2>1. made # <<>>
    <3>1. SUFFICES ASSUME made = <<>> PROVE FALSE
      OBVIOUS
    <3>2. Len(made) = 0
      BY <3>1
    <3>3. Len(toServer) = r
      BY <3>2 DEF Laid
    <3> QED
      BY <3>3, <1>1, <1>2, <1>5
  <2> DEFINE m == made[1]
  <2>2. Request(m) /\ r + Len(m) \in 0 .. Len(toServer) /\ \A k \in 1 .. Len(m) : toServer[r + k] = m[k]
    BY <2>1, LaidNext
  <2> HIDE DEF m
  <2>3. Len(m) \in Nat /\ Len(m) >= 2 /\ m[2] = NL /\ m[1].w < 20 /\ m[1].is # "nl" /\ m[1].w \in Nat
    <3>1. Text(m) /\ Len(m) >= 2 /\ m[2] = NL /\ m[1].w < 20 /\ m[1].is # "nl"
      BY <2>2 DEF Request
    <3>2. Len(m) \in Nat /\ 1 \in 1 .. Len(m)
      BY <3>1 DEF Text
    <3> QED
      BY <3>1, <3>2 DEF Text, Wide
  <2>4. toServer[1] = m[1] /\ toServer[2] = NL /\ toServer[1] # NL
    <3>1. 1 \in 1 .. Len(m) /\ 2 \in 1 .. Len(m) /\ r + 1 = 1 /\ r + 2 = 2
      BY <2>3, <1>5
    <3>2. toServer[1] = m[1] /\ toServer[2] = m[2]
      BY <3>1, <2>2
    <3> QED
      BY <3>2, <2>3, NLFacts
  <2>5. p = 2
    <3>1. p # 1
      BY <2>4, <1>1
    <3>2. ~ (2 \in 1 .. p - 1)
      BY <2>4, <1>1
    <3> QED
      BY <3>1, <3>2, <1>2, <1>1
  <2>6. Len(Line) = 1 /\ Line[1] = m[1]
    <3>1. 1 \in 1 .. p - 1 /\ p - 1 = 1
      BY <2>5
    <3> QED
      BY <3>1, <2>4, <1>1
  <2>7. Width(Line) = m[1].w
    <3>1. 1 \in 1 .. Len(Line) /\ 1 - 1 = 0
      BY <2>6
    <3>2. Until(Line, 0) = 0 /\ Until(Line, 1) = Until(Line, 1 - 1) + Line[1].w
      BY <3>1, <1>3, WidthOf
    <3> QED
      BY <3>1, <3>2, <2>3, <2>6 DEF Width
  <2>8. Line # <<>>
    BY <2>6
  <2>9. Fits
    BY <2>3, <2>7, <2>8 DEF Fits
  <2> QED
    BY <2>1, <2>2, <2>6, <2>9, <1>2, <1>5 DEF m
<1> QED
  BY <1>4, <1>5

\* The thread is elsewhere, with the same before it.
LEMMA StreamKept ==
  ASSUME RequestInv, UNCHANGED <<whole, toServer, made>>,
         thread.pc \notin {"text", "lost"}, thread'.pc \notin {"text", "lost"},
         thread' = [pc |-> thread'.pc, req |-> thread'.req, text |-> thread'.text, reply |-> thread'.reply]
  PROVE  RequestInv'
<1>1. Stream = toServer /\ Stream' = toServer
  BY DEF Stream
<1>2. \E r \in 0 .. Len(Stream) : Stands(r)
  BY DEF RequestInv
<1>3. \E r \in 0 .. Len(Stream') : Stands(r)'
  BY <1>1, <1>2 DEF Stands
<1> QED
  BY <1>3 DEF RequestInv

LEMMA LineRead ==
  ASSUME RequestInv, thread.pc = "header", Contains(toServer, NL)
  PROVE  \E r \in 0 .. Len(toServer) :
           /\ Stream = toServer
           /\ Leftover(toServer, r) /\ Laid(toServer, made, r) /\ (whole => r = 0)
           /\ Len(Line) \in Nat
           /\ \/ /\ r = 0 /\ made # <<>> /\ Request(made[1])
                 /\ Len(Line) = 1 /\ Line[1] = made[1][1] /\ Fits
              \/ /\ r > 0 /\ Len(Line) + 1 \in 1 .. r
                 /\ Line # <<>> => Line[1].is \notin {"?", "@"}
<1>1. Stream = toServer
  BY DEF Stream
<1>2. PICK r \in 0 .. Len(toServer) : Stands(r)
  BY <1>1 DEF RequestInv
<1>3. Leftover(toServer, r) /\ Laid(toServer, made, r) /\ (whole => r = 0)
  BY <1>1, <1>2 DEF Stands
<1>4. Text(toServer) /\ Requested(made)
  BY DEF RequestInv
<1> QED
  BY <1>1, <1>3, <1>4, HeaderLine

\* A header the thread takes for one is that of the first request it has not understood.
LEMMA HeaderTaken ==
  ASSUME RequestInv, thread.pc = "header", Contains(toServer, NL), Fits, Line[1].is \in {"?", "@"}
  PROVE  /\ made # <<>> /\ Request(made[1]) /\ Len(Line) = 1 /\ Line[1] = made[1][1]
         /\ Text(toServer) /\ Requested(made) /\ Laid(toServer, made, 0)
<1>1. PICK r \in 0 .. Len(toServer) :
        /\ Laid(toServer, made, r)
        /\ \/ /\ r = 0 /\ made # <<>> /\ Request(made[1])
              /\ Len(Line) = 1 /\ Line[1] = made[1][1] /\ Fits
           \/ /\ r > 0 /\ Len(Line) + 1 \in 1 .. r
              /\ Line # <<>> => Line[1].is \notin {"?", "@"}
  BY LineRead
<1>2. Line # <<>>
  BY DEF Fits
<1>3. r = 0
  BY <1>1, <1>2
<1> QED
  BY <1>1, <1>2, <1>3 DEF RequestInv

LEMMA LeftoverDrop ==
  ASSUME NEW s, Text(s), NEW r \in 0 .. Len(s), Leftover(s, r), NEW d \in 0 .. r
  PROVE  /\ Text(SubSeq(s, d + 1, Len(s))) /\ Len(SubSeq(s, d + 1, Len(s))) = Len(s) - d
         /\ \A k \in 1 .. Len(s) - d : SubSeq(s, d + 1, Len(s))[k] = s[d + k]
         /\ Leftover(SubSeq(s, d + 1, Len(s)), r - d)
<1> DEFINE t == SubSeq(s, d + 1, Len(s))
<1>1. Len(s) \in Nat /\ r \in Nat /\ d \in Nat
  BY DEF Text
<1>2. /\ d + 1 \in Nat \ {0} /\ Len(s) \in d + 1 - 1 .. Len(s)
      /\ Len(s) - (d + 1) + 1 = Len(s) - d
  BY <1>1
<1>3. /\ Text(t) /\ Len(t) = Len(s) - (d + 1) + 1
      /\ \A k \in 1 .. Len(s) - (d + 1) + 1 : t[k] = s[d + 1 + k - 1]
  <2>1. d + 1 \in Nat \ {0} /\ Len(s) \in d + 1 - 1 .. Len(s)
    BY <1>2
  <2> QED
    BY <2>1, TextPart
<1> HIDE DEF t
<1>4. Len(t) = Len(s) - d /\ \A k \in 1 .. Len(s) - d : t[k] = s[d + k]
  <2>1. ASSUME NEW k \in 1 .. Len(s) - d PROVE t[k] = s[d + k]
    <3>1. d + 1 + k - 1 = d + k
      BY <1>1
    <3> QED
      BY <3>1, <1>2, <1>3
  <2> QED
    BY <2>1, <1>2, <1>3
<1>5. Leftover(t, r - d)
  <2>1. ASSUME NEW k \in 1 .. r - d PROVE t[k].is \notin {"?", "@"}
    <3>1. k \in 1 .. Len(s) - d /\ d + k \in 1 .. r
      BY <1>1
    <3> QED
      BY <3>1, <1>4 DEF Leftover
  <2>2. ASSUME r - d > 0 PROVE t[r - d] = NL
    <3>1. r - d \in 1 .. Len(s) - d /\ d + (r - d) = r /\ r > 0
      BY <2>2, <1>1
    <3> QED
      BY <3>1, <1>4 DEF Leftover
  <2> QED
    BY <2>1, <2>2 DEF Leftover
<1> QED
  BY <1>3, <1>4, <1>5 DEF t

LEMMA LineTaken ==
  ASSUME RequestInv, NEW new, ReadsLine(new),
         NEW r \in 0 .. Len(toServer), NEW M, Requested(M), Laid(toServer, M, r), Leftover(toServer, r),
         Len(Line) \in Nat, Len(Line) + 1 <= r
  PROVE  /\ Text(toServer') /\ r - (Len(Line) + 1) \in 0 .. Len(toServer')
         /\ Leftover(toServer', r - (Len(Line) + 1)) /\ Laid(toServer', M, r - (Len(Line) + 1))
<1>1. Text(toServer) /\ Len(toServer) \in Nat /\ r \in Nat
  BY DEF RequestInv, Text
<1>2. PICK d \in 0 .. r : d = Len(Line) + 1
  BY <1>1
<1>3. toServer' = SubSeq(toServer, d + 1, Len(toServer))
  <2>1. Len(Line) + 2 = d + 1
    BY <1>2
  <2> QED
    BY <2>1 DEF ReadsLine
<1>4. Laid(toServer', M, r - d)
  BY <1>1, <1>3, LaidDrop
<1>5. Text(toServer') /\ Len(toServer') = Len(toServer) - d /\ Leftover(toServer', r - d)
  BY <1>1, <1>3, LeftoverDrop
<1>6. r - d \in 0 .. Len(toServer')
  BY <1>1, <1>5
<1> QED
  BY <1>2, <1>4, <1>5, <1>6

LEMMA QueryRead ==
  ASSUME RequestInv, ReadQuery
  PROVE  RequestInv' /\ made # <<>> /\ Understood(made[1], thread')
<1>1. /\ thread.pc = "header" /\ Contains(toServer, NL) /\ Fits /\ Line[1].is = "?"
      /\ made' = SubSeq(made, 2, Len(made))
      /\ \E pc \in {"first", "lost"} :
           ReadsLine([Idle EXCEPT !.pc = pc, !.req = Line[1], !.reply = ReplyOf(Line[1].entry)])
  BY DEF ReadQuery, ReadsLine
<1>2. /\ made # <<>> /\ Request(made[1]) /\ Len(Line) = 1 /\ Line[1] = made[1][1]
      /\ Text(toServer) /\ Requested(made) /\ Laid(toServer, made, 0)
  BY <1>1, HeaderTaken
<1>3. /\ thread'.pc \in {"first", "lost"} /\ thread'.req = made[1][1]
      /\ thread' = [pc |-> thread'.pc, req |-> thread'.req, text |-> thread'.text, reply |-> thread'.reply]
      /\ whole' = whole
  BY <1>1, <1>2 DEF ReadsLine, Idle
<1>4. Len(made[1]) = 2 /\ made[1][1].is = "?"
  BY <1>1, <1>2 DEF Request
<1>5. Requested(made') /\ Laid(toServer, made', 0 + Len(made[1])) /\ 0 + Len(made[1]) \in 0 .. Len(toServer)
      /\ \A k \in 1 .. Len(made[1]) : toServer[0 + k] = made[1][k]
  BY <1>1, <1>2, LaidNext
<1>6. Text(toServer') /\ Laid(toServer', made', 0) /\ 0 \in 0 .. Len(toServer')
  <2>1. 2 \in Nat /\ 2 \in 0 .. 2 /\ 2 - 2 = 0 /\ 2 + 1 = 3 /\ 1 + 2 = 3 /\ 0 + 2 = 2
    OBVIOUS
  <2>2. toServer' = SubSeq(toServer, 2 + 1, Len(toServer))
    BY <1>1, <1>2, <2>1 DEF ReadsLine
  <2>3. Laid(toServer, made', 2)
    BY <1>4, <1>5, <2>1
  <2>4. Laid(toServer', made', 2 - 2)
    BY <2>1, <2>2, <2>3, <1>2, <1>5, LaidDrop
  <2>5. Text(toServer')
    <3>1. 3 \in Nat \ {0} /\ Len(toServer) \in 3 - 1 .. Len(toServer)
      BY <1>4, <1>5
    <3> QED
      BY <3>1, <2>1, <2>2, <1>2, TextPart
  <2>6. Len(toServer') \in Nat
    BY <2>5 DEF Text
  <2> QED
    BY <2>1, <2>4, <2>5, <2>6
<1>7. Stream' = toServer' /\ Leftover(toServer', 0)
  BY <1>3 DEF Stream, Leftover
<1>8. Stands(0)'
  BY <1>6, <1>7 DEF Stands
<1>9. RequestInv'
  BY <1>3, <1>5, <1>6, <1>7, <1>8 DEF RequestInv
<1>10. Understood(made[1], thread')
  BY <1>3, <1>4 DEF Understood
<1> QED
  BY <1>2, <1>9, <1>10

LEMMA HeaderAndRest ==
  ASSUME NEW s, Text(s), Len(s) >= 2
  PROVE  /\ Text(SubSeq(s, 3, Len(s)))
         /\ <<s[1], s[2]>> \o SubSeq(s, 3, Len(s)) = s
<1> DEFINE t == SubSeq(s, 3, Len(s))
           a == <<s[1], s[2]>>
           j == a \o t
<1>1. Len(s) \in Nat /\ 1 \in 1 .. Len(s) /\ 2 \in 1 .. Len(s)
  BY DEF Text
<1>2. /\ Text(t) /\ Len(t) = Len(s) - 3 + 1
      /\ \A k \in 1 .. Len(s) - 3 + 1 : t[k] = s[3 + k - 1]
  <2>1. 3 \in Nat \ {0} /\ Len(s) \in 3 - 1 .. Len(s)
    BY <1>1
  <2> QED
    BY <2>1, TextPart
<1> HIDE DEF t
<1>3. Text(a) /\ Len(a) = 2 /\ a[1] = s[1] /\ a[2] = s[2]
  <2>1. s[1].w \in Nat \ {0} /\ s[2].w \in Nat \ {0}
    BY <1>1 DEF Text, Wide
  <2> QED
    BY <2>1, TextOf
<1> HIDE DEF a
<1>4. /\ Text(j) /\ Len(j) = Len(a) + Len(t)
      /\ \A k \in 1 .. Len(a) : j[k] = a[k]
      /\ \A k \in 1 .. Len(t) : j[Len(a) + k] = t[k]
  <2>1. Text(a) /\ Text(t)
    BY <1>2, <1>3
  <2> QED
    BY <2>1, Joined
<1> HIDE DEF j
<1>5. Len(j) = Len(s)
  BY <1>1, <1>2, <1>3, <1>4
<1>6. ASSUME NEW k \in 1 .. Len(s) PROVE j[k] = s[k]
  <2>1. CASE k \in {1, 2}
    <3>1. 1 \in 1 .. Len(a) /\ 2 \in 1 .. Len(a)
      BY <1>3
    <3> QED
      BY <2>1, <3>1, <1>3, <1>4
  <2>2. CASE k \notin {1, 2}
    <3>1. /\ k - 2 \in 1 .. Len(s) - 3 + 1 /\ k - 2 \in 1 .. Len(t)
          /\ 2 + (k - 2) = k /\ 3 + (k - 2) - 1 = k
      BY <2>2, <1>1, <1>2
    <3>2. j[2 + (k - 2)] = t[k - 2] /\ t[k - 2] = s[3 + (k - 2) - 1]
      BY <3>1, <1>2, <1>3, <1>4
    <3> QED
      BY <3>1, <3>2
  <2> QED
    BY <2>1, <2>2
<1>7. j \in Seq(ToSet(j) \cup ToSet(s)) /\ s \in Seq(ToSet(j) \cup ToSet(s))
  BY <1>4, SeqMonotonic DEF Text
<1>8. j = s
  BY <1>5, <1>6, <1>7, SeqEqual
<1> QED
  BY <1>2, <1>8 DEF j, a, t

LEMMA UpdateRead ==
  ASSUME RequestInv, ReadUpdate
  PROVE  RequestInv'
<1>1. /\ thread.pc = "header" /\ Contains(toServer, NL) /\ Fits /\ Line[1].is = "@"
      /\ ReadsLine([Idle EXCEPT !.pc = "text", !.req = Line[1]])
      /\ made' = made
  BY DEF ReadUpdate, ReadsLine
<1>2. /\ made # <<>> /\ Request(made[1]) /\ Len(Line) = 1 /\ Line[1] = made[1][1]
      /\ Text(toServer) /\ Requested(made) /\ Laid(toServer, made, 0)
  BY <1>1, HeaderTaken
<1>3. /\ thread'.pc = "text" /\ thread'.req = made[1][1] /\ thread'.req.is = "@"
      /\ thread' = [pc |-> thread'.pc, req |-> thread'.req, text |-> thread'.text, reply |-> thread'.reply]
      /\ whole' = whole
  BY <1>1, <1>2 DEF ReadsLine, Idle
<1>4. /\ toServer[1] = made[1][1] /\ toServer[2] = NL /\ Len(toServer) >= 2 /\ Len(toServer) \in Nat
      /\ made[1][1].w \in Nat \ {0}
  <2>1. /\ 0 + Len(made[1]) \in 0 .. Len(toServer)
        /\ \A k \in 1 .. Len(made[1]) : toServer[0 + k] = made[1][k]
    BY <1>2, LaidNext
  <2>2. Len(made[1]) >= 2 /\ made[1][2] = NL /\ Len(made[1]) \in Nat /\ Text(made[1]) /\ Len(toServer) \in Nat
    BY <1>2 DEF Request, Text
  <2>3. 1 \in 1 .. Len(made[1]) /\ 2 \in 1 .. Len(made[1]) /\ 0 + 1 = 1 /\ 0 + 2 = 2
    BY <2>2
  <2>4. toServer[1] = made[1][1] /\ toServer[2] = made[1][2]
    BY <2>1, <2>3
  <2>5. Len(toServer) >= 2
    BY <2>1, <2>2
  <2>6. made[1][1].w \in Nat \ {0}
    BY <2>2, <2>3 DEF Text, Wide
  <2> QED
    BY <2>2, <2>4, <2>5, <2>6
<1>5. toServer' = SubSeq(toServer, 3, Len(toServer))
  <2>1. 1 + 2 = 3
    OBVIOUS
  <2> QED
    BY <1>1, <1>2, <2>1 DEF ReadsLine
<1>6. Text(toServer') /\ <<toServer[1], toServer[2]>> \o toServer' = toServer
  BY <1>2, <1>4, <1>5, HeaderAndRest
<1>7. Stream' = toServer
  BY <1>3, <1>4, <1>6 DEF Stream
<1>8. Stands(0)'
  BY <1>1, <1>2, <1>7 DEF Stands, Leftover
<1>9. 0 \in 0 .. Len(Stream')
  BY <1>4, <1>7
<1> QED
  BY <1>1, <1>2, <1>3, <1>5, <1>6, <1>8, <1>9 DEF RequestInv

LEMMA LineIgnored ==
  ASSUME RequestInv, IgnoreLine
  PROVE  RequestInv'
<1>1. /\ thread.pc = "header" /\ Contains(toServer, NL) /\ Fits /\ Line[1].is \notin {"?", "@"}
      /\ ReadsLine(thread) /\ thread' = thread /\ made' = made /\ whole' = whole
  BY DEF IgnoreLine, ReadsLine
<1>2. PICK r \in 0 .. Len(toServer) :
        /\ Stream = toServer
        /\ Leftover(toServer, r) /\ Laid(toServer, made, r) /\ (whole => r = 0)
        /\ Len(Line) \in Nat
        /\ \/ /\ r = 0 /\ made # <<>> /\ Request(made[1])
              /\ Len(Line) = 1 /\ Line[1] = made[1][1] /\ Fits
           \/ /\ r > 0 /\ Len(Line) + 1 \in 1 .. r
              /\ Line # <<>> => Line[1].is \notin {"?", "@"}
  BY <1>1, LineRead
<1>3. r > 0 /\ Len(Line) + 1 \in 1 .. r /\ ~whole
  <2>1. ASSUME r = 0 PROVE FALSE
    BY <2>1, <1>1, <1>2 DEF Request
  <2> QED
    BY <2>1, <1>2
<1>4. Requested(made) /\ Len(Line) + 1 <= r
  BY <1>2, <1>3 DEF RequestInv
<1>5. /\ Text(toServer') /\ r - (Len(Line) + 1) \in 0 .. Len(toServer')
      /\ Leftover(toServer', r - (Len(Line) + 1)) /\ Laid(toServer', made, r - (Len(Line) + 1))
  BY <1>1, <1>2, <1>3, <1>4, LineTaken
<1>6. Stream' = toServer'
  BY <1>1 DEF Stream
<1>7. PICK x \in 0 .. Len(toServer') : x = r - (Len(Line) + 1)
  BY <1>5
<1>8. Stands(x)'
  BY <1>1, <1>3, <1>5, <1>6, <1>7 DEF Stands
<1>9. \E y \in 0 .. Len(Stream') : Stands(y)'
  BY <1>6, <1>8
<1> QED
  BY <1>1, <1>5, <1>9 DEF RequestInv

LEMMA RanOff ==
  ASSUME RequestInv, RunOff
  PROVE  RequestInv' /\ ~whole
<1>1. /\ thread.pc = "header" /\ Contains(toServer, NL) /\ ~Fits
      /\ ReadsLine([thread EXCEPT !.pc = "lost"]) /\ made' = made
  BY DEF RunOff, ReadsLine
<1>2. PICK r \in 0 .. Len(toServer) :
        /\ Leftover(toServer, r) /\ Laid(toServer, made, r) /\ (whole => r = 0)
        /\ Len(Line) \in Nat
        /\ \/ /\ r = 0 /\ Fits
           \/ /\ r > 0 /\ Len(Line) + 1 \in 1 .. r
  BY <1>1, LineRead
<1>3. r > 0 /\ Len(Line) + 1 \in 1 .. r /\ ~whole
  BY <1>1, <1>2
<1>4. Requested(made) /\ Len(Line) + 1 <= r
  BY <1>2, <1>3 DEF RequestInv
<1>5. Text(toServer')
  BY <1>1, <1>2, <1>4, LineTaken
<1>6. thread' = [thread EXCEPT !.pc = "lost"]
  BY <1>1 DEF ReadsLine
<1>7. /\ thread'.pc = "lost"
      /\ thread' = [pc |-> thread'.pc, req |-> thread'.req, text |-> thread'.text, reply |-> thread'.reply]
  BY <1>6 DEF RequestInv
<1> QED
  BY <1>1, <1>3, <1>4, <1>5, <1>7 DEF RequestInv

\* What is read of a text is its beginning, and what is left of it is before the next
\* request.
LEMMA TextTaken ==
  ASSUME NEW s, Text(s), NEW M, Requested(M), M # <<>>, NEW h, h = M[1][1], h.is = "@",
         Laid(<<h, NL>> \o s, M, 0)
  PROVE  LET t == SubSeq(M[1], 3, Len(M[1]))
             T == SubSeq(M, 2, Len(M))
         IN  /\ Text(t) /\ Len(t) \in 1 .. Len(s) /\ Requested(T)
             /\ Upto(s, h.length + 1) = t /\ Width(t) = h.length + 1
             /\ \A k \in 1 .. Len(t) :
                  LET rest == SubSeq(s, k + 1, Len(s))
                  IN  /\ Text(rest) /\ Len(t) - k \in 0 .. Len(rest) /\ Laid(rest, T, Len(t) - k)
                      /\ (\A j \in k + 1 .. Len(t) : t[j].is \notin {"?", "@"})
                           => Leftover(rest, Len(t) - k)
<1> DEFINE a == <<h, NL>>
           w == a \o s
           m == M[1]
           t == SubSeq(m, 3, Len(m))
           T == SubSeq(M, 2, Len(M))
<1>1. Request(m) /\ Text(m) /\ Len(m) >= 3 /\ Len(m) \in Nat /\ Len(s) \in Nat /\ h = m[1] /\ h.w \in Nat \ {0}
  <2>1. Len(M) # 0
    BY RequestedSeq
  <2>2. Request(m)
    BY <2>1 DEF Requested
  <2> HIDE DEF m
  <2>3. Text(m) /\ Len(m) >= 3 /\ Len(m) \in Nat /\ Len(s) \in Nat /\ h = m[1]
    BY <2>2 DEF Request, Text, m
  <2>4. h.w \in Nat \ {0}
    BY <2>3 DEF Text, Wide
  <2> QED
    BY <2>2, <2>3, <2>4
<1>2. Text(a) /\ Len(a) = 2
  BY <1>1, NLFacts, TextOf
<1> HIDE DEF a
<1>3. Text(w) /\ Len(w) = 2 + Len(s) /\ \A k \in 1 .. Len(s) : w[2 + k] = s[k]
  <2>1. /\ Text(w) /\ Len(w) = Len(a) + Len(s) /\ \A k \in 1 .. Len(s) : w[Len(a) + k] = s[k]
    <3>1. Text(a)
      BY <1>2
    <3> QED
      BY <3>1, Joined
  <2> HIDE DEF w
  <2> QED
    BY <2>1, <1>2
<1>4. Laid(w, M, 0)
  BY DEF a
<1> HIDE DEF w
<1>5. /\ 0 + Len(m) \in 0 .. Len(w)
      /\ \A k \in 1 .. Len(m) : w[0 + k] = m[k]
      /\ Requested(T)
      /\ Laid(w, T, 0 + Len(m))
  <2>1. Text(w)
    BY <1>3
  <2> QED
    BY <2>1, <1>4, LaidNext
<1> HIDE DEF m, T
<1>6. Text(t) /\ Len(t) = Len(m) - 2 /\ \A k \in 1 .. Len(m) - 2 : t[k] = m[k + 2]
  <2>1. 3 \in Nat \ {0} /\ Len(m) \in 3 - 1 .. Len(m) /\ Len(m) - 3 + 1 = Len(m) - 2 /\ Text(m)
    BY <1>1
  <2>2. /\ Text(t) /\ Len(t) = Len(m) - 3 + 1
        /\ \A k \in 1 .. Len(m) - 3 + 1 : t[k] = m[3 + k - 1]
    BY <2>1, TextPart
  <2> HIDE DEF t
  <2>3. ASSUME NEW k \in 1 .. Len(m) - 2 PROVE t[k] = m[k + 2]
    <3>1. 3 + k - 1 = k + 2
      OBVIOUS
    <3> QED
      BY <3>1, <2>1, <2>2
  <2> QED
    BY <2>1, <2>2, <2>3
<1>7. Width(t) = h.length + 1 /\ m[Len(m)] = NL
  <2>1. m[1].is = "@"
    BY <1>1
  <2> QED
    BY <2>1, <1>1 DEF Request
<1> HIDE DEF t
<1>8. Len(t) \in Nat \ {0} /\ Len(t) <= Len(s)
  <2>1. Len(m) \in Nat /\ Len(m) >= 3 /\ Len(s) \in Nat /\ Len(t) = Len(m) - 2 /\ Len(w) = 2 + Len(s)
    BY <1>1, <1>3, <1>6
  <2>2. Len(m) <= Len(w)
    BY <2>1, <1>5
  <2> QED
    BY <2>1, <2>2
<1>9. \A k \in 1 .. Len(t) : s[k] = t[k]
  <2>1. ASSUME NEW k \in 1 .. Len(t) PROVE s[k] = t[k]
    <3>1. k \in 1 .. Len(m) - 2 /\ k \in 1 .. Len(s) /\ k + 2 \in 1 .. Len(m) /\ 0 + (k + 2) = 2 + k
      BY <1>1, <1>6, <1>8
    <3>2. t[k] = m[k + 2] /\ w[2 + k] = s[k]
      BY <3>1, <1>3, <1>6
    <3>3. w[0 + (k + 2)] = m[k + 2]
      BY <3>1, <1>5
    <3> QED
      BY <3>1, <3>2, <3>3
  <2> QED
    BY <2>1
<1>10. Upto(s, h.length + 1) = t
  <2>1. Text(t) /\ Len(t) <= Len(s)
    BY <1>6, <1>8
  <2>2. Upto(s, Width(t)) = t
    BY <2>1, <1>9, Begins
  <2> QED
    BY <2>2, <1>7
<1>11. s[Len(t)] = NL
  <2>1. Len(t) \in 1 .. Len(t) /\ Len(t) \in 1 .. Len(m) - 2 /\ Len(t) + 2 = Len(m)
    BY <1>1, <1>6, <1>8
  <2> QED
    BY <2>1, <1>6, <1>7, <1>9
<1>12. ASSUME NEW k \in 1 .. Len(t)
       PROVE  LET rest == SubSeq(s, k + 1, Len(s))
              IN  /\ Text(rest) /\ Len(t) - k \in 0 .. Len(rest) /\ Laid(rest, T, Len(t) - k)
                  /\ (\A j \in k + 1 .. Len(t) : t[j].is \notin {"?", "@"})
                       => Leftover(rest, Len(t) - k)
  <2> DEFINE rest == SubSeq(s, k + 1, Len(s))
  <2>1. k \in 0 .. Len(t) /\ Len(t) \in 0 .. Len(s)
    BY <1>1, <1>8
  <2>2. Text(rest) /\ Len(rest) = Len(s) - k
        /\ \A n \in 1 .. Len(s) - k : rest[n] = s[k + n]
    <3>1. Leftover(s, 0)
      BY DEF Leftover
    <3> DEFINE z == k + 1
    <3>2. z \in Nat \ {0} /\ Len(s) \in z - 1 .. Len(s) /\ Len(s) - z + 1 = Len(s) - k
      BY <2>1, <1>1, <1>8
    <3>3. rest = SubSeq(s, z, Len(s))
      OBVIOUS
    <3>4. \A n \in 1 .. Len(s) - k : z + n - 1 = k + n
      BY <2>1, <1>1, <1>8
    <3> HIDE DEF z, rest
    <3>5. /\ Text(SubSeq(s, z, Len(s))) /\ Len(SubSeq(s, z, Len(s))) = Len(s) - z + 1
          /\ \A n \in 1 .. Len(s) - z + 1 : SubSeq(s, z, Len(s))[n] = s[z + n - 1]
      BY <3>2, TextPart
    <3> QED
      BY <3>2, <3>3, <3>4, <3>5
  <2>3. Len(t) - k \in 0 .. Len(rest)
    <3> HIDE DEF rest
    <3> QED
      BY <2>1, <2>2, <1>1, <1>8
  <2>4. PICK d \in 0 .. Len(m) : d = k + 2
    BY <2>1, <1>1, <1>6
  <2> DEFINE e == SubSeq(w, d + 1, Len(w))
  <2>5. Laid(e, T, Len(m) - d)
    <3>1. Text(w) /\ Requested(T) /\ Len(m) \in Nat /\ Laid(w, T, Len(m)) /\ d \in 0 .. Len(m)
      <4>1. 0 + Len(m) = Len(m)
        BY <1>1
      <4> QED
        BY <4>1, <1>1, <1>3, <1>5
    <3> QED
      BY <3>1, LaidDrop
  <2>6. Text(e) /\ Len(e) = Len(w) - d /\ \A n \in 1 .. Len(w) - d : e[n] = w[d + n]
    <3>1. d + 1 \in Nat \ {0} /\ Len(w) \in d + 1 - 1 .. Len(w) /\ Text(w)
      BY <2>1, <2>4, <1>1, <1>3, <1>6, <1>8
    <3>2. /\ Text(e) /\ Len(e) = Len(w) - (d + 1) + 1
          /\ \A n \in 1 .. Len(w) - (d + 1) + 1 : e[n] = w[d + 1 + n - 1]
      BY <3>1, TextPart
    <3> HIDE DEF e
    <3>3. Len(w) - (d + 1) + 1 = Len(w) - d /\ d \in Nat
      BY <1>1, <1>3
    <3>4. ASSUME NEW n \in 1 .. Len(w) - d PROVE e[n] = w[d + n]
      <4>1. d + 1 + n - 1 = d + n
        BY <3>3
      <4> QED
        BY <4>1, <3>2, <3>3
    <3> QED
      BY <3>2, <3>3, <3>4
  <2> HIDE DEF e, rest
  <2>7. e = rest
    <3>1. Len(e) = Len(rest)
      BY <2>2, <2>4, <2>6, <1>1, <1>3
    <3>2. ASSUME NEW n \in 1 .. Len(e) PROVE e[n] = rest[n]
      <4>1. n \in 1 .. Len(w) - d /\ n \in 1 .. Len(s) - k /\ k + n \in 1 .. Len(s) /\ d + n = 2 + (k + n)
        BY <2>1, <2>2, <2>4, <2>6, <3>1, <1>1, <1>3
      <4>2. e[n] = w[d + n] /\ rest[n] = s[k + n]
        BY <4>1, <2>2, <2>6
      <4>3. w[2 + (k + n)] = s[k + n]
        BY <4>1, <1>3
      <4> QED
        BY <4>1, <4>2, <4>3
    <3>3. e \in Seq(ToSet(e) \cup ToSet(rest)) /\ rest \in Seq(ToSet(e) \cup ToSet(rest))
      BY <2>2, <2>6, SeqMonotonic DEF Text
    <3> QED
      BY <3>1, <3>2, <3>3, SeqEqual
  <2>8. Len(m) - d = Len(t) - k
    BY <2>1, <2>4, <1>1, <1>6
  <2>9. Laid(rest, T, Len(t) - k)
    BY <2>5, <2>7, <2>8
  <2>10. ASSUME \A j \in k + 1 .. Len(t) : t[j].is \notin {"?", "@"} PROVE Leftover(rest, Len(t) - k)
    <3>1. ASSUME NEW n \in 1 .. Len(t) - k PROVE rest[n].is \notin {"?", "@"}
      <4>1. n \in 1 .. Len(s) - k /\ k + n \in k + 1 .. Len(t) /\ k + n \in 1 .. Len(t)
        BY <2>1, <1>1, <1>8
      <4> QED
        BY <4>1, <2>2, <2>10, <1>9
    <3>2. ASSUME Len(t) - k > 0 PROVE rest[Len(t) - k] = NL
      <4>1. Len(t) - k \in 1 .. Len(s) - k /\ k + (Len(t) - k) = Len(t)
        BY <3>2, <2>1, <1>1, <1>8
      <4> QED
        BY <4>1, <2>2, <1>11
    <3> QED
      BY <3>1, <3>2 DEF Leftover
  <2> QED
    BY <2>2, <2>3, <2>9, <2>10 DEF rest
<1>13. Len(t) \in 1 .. Len(s)
  BY <1>1, <1>8
<1> QED
  BY <1>5, <1>6, <1>7, <1>10, <1>12, <1>13 DEF m, t, T

\* A read of a text of which as much is there as it asks for.
LEMMA PieceRead ==
  ASSUME NEW tail, ReadText(tail), NEW t, Upto(toServer, thread.req.length + 1) = t,
         Width(t) = thread.req.length + 1, thread.req.length + 1 \in Nat
  PROVE  \E k \in 1 .. Len(t) :
           /\ whole => k = Len(t)
           /\ Updates(SubSeq(t, 1, k), tail)
           /\ toServer' = SubSeq(toServer, k + 1, Len(toServer))
           /\ cut' = (cut \/ \E j \in k + 1 .. Len(t) : t[j].is \in {"?", "@"})
<1>1. ~ (Width(t) < thread.req.length + 1)
  OBVIOUS
<1> QED
  BY <1>1 DEF ReadText, TakesText

LEMMA TextRead ==
  ASSUME RequestInv, NEW tail, ReadText(tail)
  PROVE  /\ ~cut' => RequestInv'
         /\ made # <<>> /\ Understood(made[1], thread')
         /\ whole => (cut' => cut)
<1>1. /\ thread.pc = "text" /\ made # <<>> /\ thread.req.is = "@" /\ thread.req = made[1][1]
      /\ Text(toServer) /\ Requested(made)
  BY DEF RequestInv, ReadText, TakesText
<1>2. Laid(<<thread.req, NL>> \o toServer, made, 0)
  <2>1. PICK r \in 0 .. Len(Stream) : Stands(r)
    BY <1>1 DEF RequestInv
  <2> QED
    BY <2>1, <1>1 DEF Stands, Stream
<1> DEFINE t == SubSeq(made[1], 3, Len(made[1]))
           T == SubSeq(made, 2, Len(made))
<1>3. /\ Text(t) /\ Requested(T)
      /\ Upto(toServer, thread.req.length + 1) = t /\ Width(t) = thread.req.length + 1
      /\ \A k \in 1 .. Len(t) :
           LET rest == SubSeq(toServer, k + 1, Len(toServer))
           IN  /\ Text(rest) /\ Len(t) - k \in 0 .. Len(rest) /\ Laid(rest, T, Len(t) - k)
               /\ (\A j \in k + 1 .. Len(t) : t[j].is \notin {"?", "@"})
                    => Leftover(rest, Len(t) - k)
  BY <1>1, <1>2, TextTaken
<1> HIDE DEF t
<1>4. PICK k \in 1 .. Len(t) :
        /\ whole => k = Len(t)
        /\ toServer' = SubSeq(toServer, k + 1, Len(toServer))
        /\ thread' = [thread EXCEPT !.pc = "second", !.text = SubSeq(t, 1, k),
                        !.reply = <<Header("!", thread.req.entry, "e", 0), NL, NL>>]
        /\ cut' = (cut \/ \E j \in k + 1 .. Len(t) : t[j].is \in {"?", "@"})
  <2>1. thread.req.length + 1 \in Nat /\ Upto(toServer, thread.req.length + 1) = t
    BY <1>3, WidthOf
  <2>2. PICK k \in 1 .. Len(t) :
          /\ whole => k = Len(t)
          /\ Updates(SubSeq(t, 1, k), tail)
          /\ toServer' = SubSeq(toServer, k + 1, Len(toServer))
          /\ cut' = (cut \/ \E j \in k + 1 .. Len(t) : t[j].is \in {"?", "@"})
    BY <1>3, <2>1, PieceRead
  <2> QED
    BY <2>2 DEF Updates
<1>5. made' = T /\ whole' = whole
  BY DEF ReadText, TakesText
<1>6. /\ Text(toServer') /\ Len(t) - k \in 0 .. Len(toServer')
      /\ Laid(toServer', made', Len(t) - k) /\ Requested(made')
      /\ ~cut' => Leftover(toServer', Len(t) - k)
  BY <1>3, <1>4, <1>5
<1>7. /\ thread'.pc = "second" /\ thread'.req = thread.req /\ thread'.text = SubSeq(t, 1, k)
      /\ thread' = [pc |-> thread'.pc, req |-> thread'.req, text |-> thread'.text, reply |-> thread'.reply]
  BY <1>4 DEF RequestInv
<1>8. Stream' = toServer'
  BY <1>7 DEF Stream
<1>9. Len(t) \in Nat
  BY <1>3 DEF Text
<1>10. PICK x \in 0 .. Len(toServer') : x = Len(t) - k
  BY <1>6
<1>11. ASSUME ~cut' PROVE RequestInv'
  <2>1. whole' => x = 0
    BY <1>4, <1>5, <1>9, <1>10
  <2>2. Stands(x)'
    BY <2>1, <1>6, <1>7, <1>8, <1>10, <1>11 DEF Stands
  <2>3. \E y \in 0 .. Len(Stream') : Stands(y)'
    BY <2>2, <1>8
  <2> QED
    BY <2>3, <1>6, <1>7 DEF RequestInv
<1>12. whole => (cut' => cut)
  <2>1. SUFFICES ASSUME whole PROVE ~ \E j \in k + 1 .. Len(t) : t[j].is \in {"?", "@"}
    BY <1>4
  <2> QED
    BY <2>1, <1>4, <1>9
<1>14. IsPrefix(SubSeq(t, 1, k), t) /\ (k = Len(t) => SubSeq(t, 1, k) = t)
  <2> DEFINE u == SubSeq(t, 1, k)
  <2>1. Text(t) /\ 1 \in Nat \ {0} /\ k \in 1 - 1 .. Len(t)
    BY <1>3
  <2>2. Text(u) /\ Len(u) = k - 1 + 1
    BY <2>1, TextPart
  <2>3. Len(u) = k
    <3> HIDE DEF u
    <3> QED
      BY <2>2, <1>9
  <2>4. u \in Seq(ToSet(u)) /\ t \in Seq(ToSet(t))
    BY <2>1, <2>2 DEF Text
  <2>5. SubSeq(u, 1, Len(u)) = u /\ SubSeq(t, 1, Len(t)) = t
    <3> HIDE DEF u
    <3> QED
      BY <2>4, SubSeqFull
  <2>6. SubSeq(u, 1, Len(u)) = SubSeq(t, 1, Len(u)) /\ Len(u) <= Len(t)
    <3>1. SubSeq(t, 1, Len(u)) = u
      BY <2>3
    <3> HIDE DEF u
    <3> QED
      BY <3>1, <2>3, <2>5, <1>9
  <2>7. IsPrefix(u, t)
    <3> HIDE DEF u
    <3> QED
      BY <2>6 DEF IsPrefix
  <2>8. k = Len(t) => u = t
    BY <2>5
  <2> QED
    BY <2>7, <2>8
<1>15. Understood(made[1], thread')
  BY <1>1, <1>4, <1>7, <1>14 DEF Understood, t
<1> QED
  BY <1>1, <1>11, <1>12, <1>15

\* As long as nothing is left behind that reads like a header, the thread does not wait
\* for a text that has not been sent.
LEMMA TextSent ==
  ASSUME RequestInv, thread.pc = "text"
  PROVE  toServer # <<>>
<1>1. made # <<>> /\ thread.req.is = "@" /\ thread.req = made[1][1] /\ Text(toServer) /\ Requested(made)
  BY DEF RequestInv
<1>2. Laid(<<thread.req, NL>> \o toServer, made, 0)
  <2>1. PICK r \in 0 .. Len(Stream) : Stands(r)
    BY DEF RequestInv
  <2> QED
    BY <2>1 DEF Stands, Stream
<1>3. Len(SubSeq(made[1], 3, Len(made[1]))) \in 1 .. Len(toServer)
  BY <1>1, <1>2, TextTaken
<1>4. SUFFICES ASSUME toServer = <<>> PROVE FALSE
  OBVIOUS
<1>5. Len(toServer) = 0
  BY <1>4
<1> QED
  BY <1>3, <1>5

\* The client sends a request.
LEMMA RequestSent ==
  ASSUME RequestInv, NEW m, Request(m), Sends(m)
  PROVE  RequestInv'
<1>1. /\ toServer' = toServer \o m /\ made' = Append(made, m) /\ thread' = thread /\ whole' = whole
      /\ Text(toServer) /\ Requested(made) /\ Text(m)
  BY DEF Sends, RequestInv, Request
<1>2. Text(toServer')
  BY <1>1, Joined
<1>3. thread.pc = "text" => Text(<<thread.req, NL>>)
  <2>1. SUFFICES ASSUME thread.pc = "text" PROVE Text(<<thread.req, NL>>)
    OBVIOUS
  <2>2. made # <<>> /\ thread.req = made[1][1]
    BY <2>1 DEF RequestInv
  <2>3. Request(made[1])
    <3>1. Len(made) # 0 /\ Len(made) \in Nat
      BY <2>2, <1>1, RequestedSeq
    <3> QED
      BY <3>1, <1>1 DEF Requested
  <2>4. Text(made[1]) /\ 1 \in 1 .. Len(made[1])
    BY <2>3 DEF Request, Text
  <2>5. thread.req.w \in Nat \ {0}
    BY <2>2, <2>4 DEF Text, Wide
  <2> QED
    BY <2>5, NLFacts, TextOf
<1>4. Text(Stream) /\ Stream' = Stream \o m
  <2>1. CASE thread.pc = "text"
    <3>1. Text(<<thread.req, NL>>) /\ Text(toServer)
      BY <2>1, <1>1, <1>3
    <3>2. Text(<<thread.req, NL>> \o toServer)
      BY <3>1, Joined
    <3>3. <<thread.req, NL>> \o (toServer \o m) = (<<thread.req, NL>> \o toServer) \o m
      <4> DEFINE a == <<thread.req, NL>>
                 S == ToSet(a) \cup ToSet(toServer) \cup ToSet(m)
      <4>1. a \in Seq(S) /\ toServer \in Seq(S) /\ m \in Seq(S)
        <5>1. a \in Seq(ToSet(a)) /\ toServer \in Seq(ToSet(toServer)) /\ m \in Seq(ToSet(m))
          BY <3>1, <1>1 DEF Text
        <5> QED
          BY <5>1, SeqMonotonic
      <4> HIDE DEF a, S
      <4>2. a \o (toServer \o m) = (a \o toServer) \o m
        BY <4>1, ConcatAssociative
      <4> QED
        BY <4>2 DEF a
    <3> QED
      BY <2>1, <3>2, <3>3, <1>1 DEF Stream
  <2>2. CASE thread.pc # "text"
    BY <2>2, <1>1 DEF Stream
  <2> QED
    BY <2>1, <2>2
<1>5. Len(Stream) \in Nat /\ Len(Stream') = Len(Stream) + Len(m) /\ Len(m) \in Nat
      /\ \A k \in 1 .. Len(Stream) : Stream'[k] = Stream[k]
  <2>1. Text(Stream) /\ Text(m)
    BY <1>1, <1>4
  <2>2. /\ Len(Stream \o m) = Len(Stream) + Len(m)
        /\ \A k \in 1 .. Len(Stream) : (Stream \o m)[k] = Stream[k]
    BY <2>1, Joined
  <2> QED
    BY <2>1, <2>2, <1>4 DEF Text
<1>6. ASSUME NEW r \in 0 .. Len(Stream), Stands(r) PROVE Stands(r)' /\ r \in 0 .. Len(Stream')
  <2>1. Laid(Stream', made', r)
    <3>1. Text(Stream) /\ Laid(Stream, made, r) /\ Requested(made)
      BY <1>1, <1>4, <1>6 DEF Stands
    <3>2. Laid(Stream \o m, Append(made, m), r)
      BY <3>1, LaidAppend
    <3> QED
      BY <3>2, <1>1, <1>4
  <2>2. Leftover(Stream', r)
    <3>1. \A k \in 1 .. r : k \in 1 .. Len(Stream)
      BY <1>5
    <3>2. r > 0 => r \in 1 .. Len(Stream)
      BY <1>5
    <3>3. Leftover(Stream, r)
      BY <1>6 DEF Stands
    <3>4. ASSUME NEW k \in 1 .. r PROVE Stream'[k].is \notin {"?", "@"}
      BY <3>1, <3>3, <1>5 DEF Leftover
    <3>5. r > 0 => Stream'[r] = NL
      BY <3>2, <3>3, <1>5 DEF Leftover
    <3> QED
      BY <3>4, <3>5 DEF Leftover
  <2>3. whole' \/ thread'.pc = "text" => r = 0
    BY <1>1, <1>6 DEF Stands
  <2>4. r \in 0 .. Len(Stream')
    BY <1>5
  <2> QED
    BY <2>1, <2>2, <2>3, <2>4 DEF Stands
<1>7. Requested(made')
  <2>1. thread.pc = "lost" \/ thread.pc # "lost"
    OBVIOUS
  <2>2. \A j \in 1 .. Len(made') : Request(made'[j])
    <3>1. /\ made \in Seq(ToSet(made) \cup {m}) /\ m \in ToSet(made) \cup {m} /\ Len(made) \in Nat
      BY <1>1, RequestedSeq, SeqMonotonic DEF Requested
    <3>2. /\ Len(made') = Len(made) + 1 /\ made'[Len(made) + 1] = m
          /\ \A j \in 1 .. Len(made) : made'[j] = made[j]
      BY <3>1, <1>1, AppendProperties
    <3>3. ASSUME NEW j \in 1 .. Len(made') PROVE Request(made'[j])
      <4>1. j = Len(made) + 1 \/ j \in 1 .. Len(made)
        BY <3>1, <3>2
      <4> QED
        BY <4>1, <3>2, <1>1 DEF Requested
    <3> QED
      BY <3>3
  <2>3. made' \in Seq(ToSet(made) \cup {m})
    <3>1. /\ made \in Seq(ToSet(made) \cup {m}) /\ m \in ToSet(made) \cup {m}
      BY <1>1, RequestedSeq, SeqMonotonic
    <3> QED
      BY <3>1, <1>1, AppendProperties
  <2>4. Len(made') \in Nat /\ made' = [j \in 1 .. Len(made') |-> made'[j]]
    BY <2>3
  <2> QED
    BY <2>2, <2>4 DEF Requested
<1>8. made' # <<>> /\ (made # <<>> => made'[1] = made[1])
  <2>1. /\ made \in Seq(ToSet(made) \cup {m}) /\ m \in ToSet(made) \cup {m} /\ Len(made) \in Nat
    BY <1>1, RequestedSeq, SeqMonotonic DEF Requested
  <2>2. /\ Len(made') = Len(made) + 1 /\ \A j \in 1 .. Len(made) : made'[j] = made[j]
    BY <2>1, <1>1, AppendProperties
  <2>3. made # <<>> => 1 \in 1 .. Len(made)
    BY <2>1
  <2>4. Len(made') # 0
    BY <2>1, <2>2
  <2> QED
    BY <2>2, <2>3, <2>4
<1>9. thread'.pc # "lost" => \E r \in 0 .. Len(Stream') : Stands(r)'
  BY <1>1, <1>6 DEF RequestInv
<1>10. thread' = [pc |-> thread'.pc, req |-> thread'.req, text |-> thread'.text, reply |-> thread'.reply]
  BY <1>1 DEF RequestInv
<1>11. thread'.pc = "text" => made' # <<>> /\ thread'.req.is = "@" /\ thread'.req = made'[1][1]
  BY <1>1, <1>8 DEF RequestInv
<1> QED
  BY <1>2, <1>7, <1>9, <1>10, <1>11 DEF RequestInv

LEMMA RequestsInitially ==
  ASSUME Init
  PROVE  RequestInv
<1>1. toServer = <<>> /\ made = <<>> /\ thread = [Idle EXCEPT !.pc = "greet"]
  BY DEF Init, RequestsInit
<1>2. Text(toServer)
  BY <1>1, NLFacts, TextOf
<1>3. Len(made) = 0 /\ Requested(made) /\ Len(toServer) = 0
  BY <1>1 DEF Requested
<1>4. /\ thread.pc = "greet"
      /\ thread = [pc |-> thread.pc, req |-> thread.req, text |-> thread.text, reply |-> thread.reply]
  BY <1>1 DEF Idle
<1>5. Stream = toServer
  BY <1>4 DEF Stream
<1>6. Laid(toServer, made, 0)
  <2> DEFINE cuts == [j \in 0 .. Len(made) |-> 0]
  <2>1. cuts \in [0 .. Len(made) -> 0 .. Len(toServer)] /\ cuts[0] = 0 /\ cuts[Len(made)] = Len(toServer)
    BY <1>3
  <2>2. 1 .. Len(made) = {}
    BY <1>3
  <2> HIDE DEF cuts
  <2> QED
    BY <2>1, <2>2 DEF Laid
<1>7. Stands(0) /\ 0 \in 0 .. Len(Stream)
  BY <1>3, <1>5, <1>6 DEF Stands, Leftover
<1> QED
  BY <1>2, <1>3, <1>4, <1>7 DEF RequestInv

\* One step of the server, of which three understand a request or fail to.
LEMMA ServeKeepsRequests ==
  ASSUME RequestInv, Serve, ~cut'
  PROVE  RequestInv'
<1>1. CASE Greet
  <2>1. thread.pc = "greet" /\ thread' = Idle /\ UNCHANGED <<whole, toServer, made>>
    BY <1>1 DEF Greet
  <2>2. /\ thread'.pc = "header"
        /\ thread' = [pc |-> thread'.pc, req |-> thread'.req, text |-> thread'.text, reply |-> thread'.reply]
    BY <2>1 DEF Idle
  <2> QED
    BY <2>1, <2>2, StreamKept
<1>2. CASE ReadQuery
  BY <1>2, QueryRead
<1>3. CASE ReadUpdate
  BY <1>3, UpdateRead
<1>4. CASE IgnoreLine
  BY <1>4, LineIgnored
<1>5. CASE RunOff
  BY <1>5, RanOff
<1>6. ASSUME NEW tail \in Tails, ReadText(tail) \/ HangUpInText(tail) PROVE RequestInv'
  BY <1>6, TextRead, TextSent DEF HangUpInText
<1>7. CASE Reply
  <2>1. /\ thread.pc \in {"first", "second"} /\ UNCHANGED <<whole, toServer, made>>
        /\ thread' = IF thread.pc = "first" THEN [thread EXCEPT !.pc = "second"] ELSE Idle
    BY <1>7 DEF Reply
  <2>2. /\ thread'.pc \in {"second", "header"}
        /\ thread' = [pc |-> thread'.pc, req |-> thread'.req, text |-> thread'.text, reply |-> thread'.reply]
    BY <2>1 DEF Idle, RequestInv
  <2> QED
    BY <2>1, <2>2, StreamKept
<1>8. CASE HangUp
  <2>1. /\ thread.pc = "header" /\ UNCHANGED <<whole, toServer, made>>
        /\ thread' = [thread EXCEPT !.pc = "ended"]
    BY <1>8 DEF HangUp
  <2>2. /\ thread'.pc = "ended"
        /\ thread' = [pc |-> thread'.pc, req |-> thread'.req, text |-> thread'.text, reply |-> thread'.reply]
    BY <2>1 DEF RequestInv
  <2> QED
    BY <2>1, <2>2, StreamKept
<1> QED
  BY <1>1, <1>2, <1>3, <1>4, <1>5, <1>6, <1>7, <1>8 DEF Serve

\* What the client asks is a request.
LEMMA Asking ==
  ASSUME Ask
  PROVE  \E m : Request(m) /\ Sends(m)
<1>1. ASSUME NEW n \in Entries, View(n) PROVE \E m : Request(m) /\ Sends(m)
  BY <1>1, QueryRequest DEF View
<1>2. ASSUME NEW n \in Entries, NEW typed \in Typed, UpdatePlain(n, typed)
      PROVE  \E m : Request(m) /\ Sends(m)
  <2>1. typed # <<>> /\ Sends(Update(n, "p", tempstring(typed)))
    BY <1>2 DEF UpdatePlain
  <2>2. Text(tempstring(typed))
    BY <2>1, Typing
  <2>3. Request(Update(n, "p", tempstring(typed)))
    BY <2>2, UpdateRequest
  <2> QED
    BY <2>1, <2>3
<1>3. ASSUME NEW n \in Entries, NEW typed \in Typed, UpdateCipher(n, typed)
      PROVE  \E m : Request(m) /\ Sends(m)
  <2>1. typed # <<>> /\ Sends(Update(n, "c", encrypt(tempstring(typed))))
    BY <1>3 DEF UpdateCipher
  <2> DEFINE e == encrypt(tempstring(typed))
  <2>2. Text(e)
    <3>1. Text(tempstring(typed))
      BY <2>1, Typing
    <3> QED
      BY <3>1, Encrypting
  <2> HIDE DEF e
  <2>3. Request(Update(n, "c", e))
    BY <2>2, UpdateRequest
  <2> QED
    BY <2>1, <2>3 DEF e
<1> QED
  BY <1>1, <1>2, <1>3 DEF Ask

\* Where neither what the thread has read nor what it has to read is changed.
LEMMA RequestsUntouched ==
  ASSUME RequestInv, UNCHANGED <<whole, toServer, thread, made>>
  PROVE  RequestInv'
<1>1. Stream' = Stream
  BY DEF Stream
<1>2. \A r : Stands(r) => Stands(r)'
  BY <1>1 DEF Stands
<1> QED
  BY <1>1, <1>2 DEF RequestInv

LEMMA RequestInvariance ==
  ASSUME RequestInv, [Next]_vars, ~cut'
  PROVE  RequestInv'
<1>1. CASE ServerSteps
  BY <1>1, ServeKeepsRequests DEF ServerSteps
<1>2. CASE Ask
  BY <1>2, Asking, RequestSent
<1>3. CASE Receive
  <2>1. UNCHANGED <<whole, toServer, thread, made>>
    BY <1>3 DEF Receive, Greeted, Updated, Viewed, Decrypts, Receives, serverVars
  <2> QED
    BY <2>1, RequestsUntouched
<1>4. CASE Exit \/ Dies
  <2>1. UNCHANGED <<whole, toServer, thread, made>>
    BY <1>4 DEF Exit, Dies, Leaves
  <2> QED
    BY <2>1, RequestsUntouched
<1>5. CASE UNCHANGED vars
  <2>1. UNCHANGED <<whole, toServer, thread, made>>
    BY <1>5 DEF vars, serverVars
  <2> QED
    BY <2>1, RequestsUntouched
<1> QED
  BY <1>1, <1>2, <1>3, <1>4, <1>5 DEF Next

\* The requests are where they should be until a read leaves a header behind, which a text
\* in one piece never does.
CutInv == (whole => ~cut) /\ (~cut => RequestInv)

LEMMA CutInvariance ==
  ASSUME CutInv, [Next]_vars
  PROVE  CutInv' /\ whole' = whole /\ (cut => cut')
<1>1. ASSUME UNCHANGED <<whole, cut>> PROVE CutInv' /\ whole' = whole /\ (cut => cut')
  BY <1>1, RequestInvariance DEF CutInv
<1>2. CASE ServerSteps
  <2>1. ASSUME NEW tail \in Tails, ReadText(tail) PROVE CutInv' /\ whole' = whole /\ (cut => cut')
    <3>1. whole' = whole
      BY <2>1 DEF ReadText, TakesText
    <3>2. cut => cut'
      BY <2>1 DEF ReadText, TakesText
    <3>3. CASE cut
      BY <3>1, <3>2, <3>3 DEF CutInv
    <3>4. CASE ~cut
      BY <2>1, <3>1, <3>2, <3>4, TextRead DEF CutInv
    <3> QED
      BY <3>3, <3>4
  <2>2. CASE Greet \/ ReadQuery \/ ReadUpdate \/ IgnoreLine \/ RunOff \/ Reply \/ HangUp
             \/ \E tail \in Tails : HangUpInText(tail)
    <3>1. UNCHANGED <<whole, cut>>
      BY <2>2 DEF Greet, ReadQuery, ReadUpdate, IgnoreLine, RunOff, ReadsLine, Reply, HangUp, HangUpInText
    <3> QED
      BY <3>1, <1>1
  <2> QED
    BY <2>1, <2>2, <1>2 DEF ServerSteps, Serve
<1>3. CASE Ask
  <2>1. UNCHANGED <<whole, cut>>
    BY <1>3 DEF Ask, View, UpdatePlain, UpdateCipher, Sends
  <2> QED
    BY <2>1, <1>1
<1>4. CASE Receive \/ Exit \/ Dies \/ UNCHANGED vars
  <2>1. UNCHANGED <<whole, cut>>
    BY <1>4 DEF Receive, Greeted, Updated, Viewed, Decrypts, Receives, Exit, Dies, Leaves, vars, serverVars
  <2> QED
    BY <2>1, <1>1
<1> QED
  BY <1>2, <1>3, <1>4 DEF Next

\* What Client calls RequestsUnderstood: whatever texts are typed, also such that read like
\* requests, the thread takes the requests of its client one by one, as they have been
\* made, if texts come in one piece; if they come in several, until one of them is cut
\* before something that reads like a header.
THEOREM AllUnderstood == Spec => RequestsUnderstood
<1>1. Init => CutInv
  BY RequestsInitially DEF CutInv, Init, RequestsInit
<1>2. CutInv /\ [Next]_vars => CutInv'
  BY CutInvariance
<1>3. CutInv /\ [Next]_vars =>
        [/\ ~cut /\ (ReadQuery \/ (\E tail \in Tails : ReadText(tail)))
              => made # <<>> /\ Understood(made[1], thread')
         /\ whole => ~RunOff /\ ~cut']_vars
  <2> SUFFICES ASSUME CutInv, [Next]_vars
               PROVE  /\ ~cut /\ (ReadQuery \/ (\E tail \in Tails : ReadText(tail)))
                           => made # <<>> /\ Understood(made[1], thread')
                      /\ whole => ~RunOff /\ ~cut'
    OBVIOUS
  <2>1. ~cut /\ ReadQuery => made # <<>> /\ Understood(made[1], thread')
    BY QueryRead DEF CutInv
  <2>2. ASSUME ~cut, NEW tail \in Tails, ReadText(tail) PROVE made # <<>> /\ Understood(made[1], thread')
    BY <2>2, TextRead DEF CutInv
  <2>3. whole => ~RunOff
    BY RanOff DEF CutInv
  <2>4. whole => ~cut'
    BY CutInvariance DEF CutInv
  <2> QED
    BY <2>1, <2>2, <2>3, <2>4
<1> QED
  BY <1>1, <1>2, <1>3, PTL DEF Spec, RequestsUnderstood

----------------------------------------------------------------------------
(* Sequences of sequences *)

LEMMA FlattenFacts ==
  ASSUME NEW S, NEW q \in Seq(Seq(S))
  PROVE  \E g \in [0 .. Len(q) -> Seq(S)] :
           /\ g[0] = <<>> /\ \A n \in 1 .. Len(q) : g[n] = g[n - 1] \o q[n]
           /\ FlattenSeq(q) = g[Len(q)]
<1> DEFINE N == Len(q)
           next == [n \in 1 .. N |-> [a \in Seq(S) |-> a \o q[n]]]
<1>1. N \in Nat /\ \A n \in 1 .. N : q[n] \in Seq(S)
  OBVIOUS
<1> HIDE DEF N
<1>2. next \in [1 .. N -> [Seq(S) -> Seq(S)]] /\ <<>> \in Seq(S)
  BY <1>1
<1>3. PICK g \in [0 .. N -> Seq(S)] : Iterates(g, N, <<>>, next)
  <2> HIDE DEF next
  <2> QED
    BY <1>1, <1>2, IteratesExist
<1>4. g[0] = <<>> /\ \A n \in 1 .. N : g[n - 1] \in Seq(S) /\ g[n] = g[n - 1] \o q[n]
  <2>1. ASSUME NEW n \in 1 .. N PROVE g[n - 1] \in Seq(S) /\ g[n] = g[n - 1] \o q[n]
    <3>1. n - 1 \in 0 .. N /\ g[n - 1] \in Seq(S)
      BY <1>1, <1>3
    <3>2. g[n] = next[n][g[n - 1]]
      BY <1>3 DEF Iterates
    <3> QED
      BY <3>1, <3>2
  <2> QED
    BY <2>1, <1>3 DEF Iterates
<1> HIDE DEF next
<1>5. CASE N = 0
  <2>1. q = <<>>
    BY <1>5 DEF N
  <2>2. FlattenSeq(q) = <<>>
    BY <2>1, <1>5 DEF FlattenSeq, N
  <2> QED
    BY <2>2, <1>3, <1>4, <1>5 DEF N
<1>6. CASE N # 0
  <2> DEFINE Body(f) == [n \in 1 .. N |-> IF n = 1 THEN q[n] ELSE f[n - 1] \o q[n]]
             h == [n \in 1 .. N |-> g[n]]
             flat == CHOOSE f : f = Body(f)
  <2>1. h = Body(h)
    <3>1. ASSUME NEW n \in 1 .. N PROVE h[n] = Body(h)[n]
      <4>1. CASE n = 1
        <5>1. g[1] = g[1 - 1] \o q[1] /\ g[1 - 1] = <<>> /\ q[1] \in Seq(S)
          <6>1. 1 \in 1 .. N /\ 1 - 1 = 0
            BY <4>1, <1>1
          <6> QED
            BY <6>1, <1>1, <1>4
        <5>2. g[1] = q[1]
          BY <5>1
        <5> QED
          BY <4>1, <5>2
      <4>2. CASE n # 1
        <5>1. n - 1 \in 1 .. N
          BY <4>2, <1>1
        <5> QED
          BY <5>1, <4>2, <1>4
      <4> QED
        BY <4>1, <4>2
    <3>2. h = [n \in 1 .. N |-> h[n]] /\ Body(h) = [n \in 1 .. N |-> Body(h)[n]]
      OBVIOUS
    <3> HIDE DEF h, Body
    <3> QED
      BY <3>1, <3>2
  <2>2. flat = Body(flat)
    <3> HIDE DEF Body, h
    <3> QED
      BY <2>1
  <2>3. FlattenSeq(q) = flat[N]
    BY <1>6 DEF FlattenSeq, N
  <2> HIDE DEF flat
  <2>4. \A n \in 1 .. N : flat[n] = IF n = 1 THEN q[n] ELSE flat[n - 1] \o q[n]
    <3>1. \A n \in 1 .. N : flat[n] = Body(flat)[n]
      BY <2>2
    <3>2. \A n \in 1 .. N : Body(flat)[n] = IF n = 1 THEN q[n] ELSE flat[n - 1] \o q[n]
      OBVIOUS
    <3> HIDE DEF Body
    <3> QED
      BY <3>1, <3>2
  <2> DEFINE good == {n \in 0 .. N : n # 0 => flat[n] = g[n]}
  <2>5. 0 \in good
    BY <1>1
  <2>6. ASSUME NEW n \in 1 .. N, n - 1 \in good PROVE n \in good
    <3>1. CASE n = 1
      <4>1. g[1] = g[1 - 1] \o q[1] /\ g[1 - 1] = <<>> /\ q[1] \in Seq(S)
        <5>1. 1 \in 1 .. N /\ 1 - 1 = 0
          BY <3>1, <1>1
        <5> QED
          BY <5>1, <1>1, <1>4
      <4>2. g[1] = q[1]
        BY <4>1
      <4> QED
        BY <3>1, <4>2, <2>4, <1>1
    <3>2. CASE n # 1
      <4>1. n - 1 # 0 /\ flat[n - 1] = g[n - 1]
        BY <3>2, <2>6, <1>1
      <4>2. flat[n] = flat[n - 1] \o q[n] /\ g[n] = g[n - 1] \o q[n]
        BY <3>2, <2>4, <1>4
      <4>3. flat[n] = g[n]
        BY <4>1, <4>2
      <4> QED
        BY <4>3, <1>1
    <3> QED
      BY <3>1, <3>2
  <2> HIDE DEF good
  <2>7. N \in good
    <3>1. N \in 0 .. N
      BY <1>1
    <3> QED
      BY <3>1, <2>5, <2>6, <1>1, UpTo
  <2>8. FlattenSeq(q) = g[N]
    BY <2>3, <2>7, <1>6 DEF good
  <2> QED
    BY <2>8, <1>3, <1>4 DEF N
<1> QED
  BY <1>5, <1>6

LEMMA FlattenAppend ==
  ASSUME NEW S, NEW q \in Seq(Seq(S)), NEW e \in Seq(S)
  PROVE  FlattenSeq(Append(q, e)) = FlattenSeq(q) \o e /\ FlattenSeq(q) \in Seq(S)
<1> DEFINE r == Append(q, e)
<1>1. /\ r \in Seq(Seq(S)) /\ Len(r) = Len(q) + 1 /\ r[Len(q) + 1] = e /\ Len(q) \in Nat
      /\ \A n \in 1 .. Len(q) : r[n] = q[n]
  BY AppendProperties
<1> HIDE DEF r
<1>2. PICK g \in [0 .. Len(q) -> Seq(S)] :
        /\ g[0] = <<>> /\ \A n \in 1 .. Len(q) : g[n] = g[n - 1] \o q[n]
        /\ FlattenSeq(q) = g[Len(q)]
  BY FlattenFacts
<1>3. PICK h \in [0 .. Len(r) -> Seq(S)] :
        /\ h[0] = <<>> /\ \A n \in 1 .. Len(r) : h[n] = h[n - 1] \o r[n]
        /\ FlattenSeq(r) = h[Len(r)]
  BY <1>1, FlattenFacts
<1> DEFINE good == {n \in 0 .. Len(q) : g[n] = h[n]}
<1>4. 0 \in good
  BY <1>1, <1>2, <1>3
<1>5. ASSUME NEW n \in 1 .. Len(q), n - 1 \in good PROVE n \in good
  <2>1. n \in 1 .. Len(r) /\ n \in 0 .. Len(q)
    BY <1>1
  <2>2. g[n] = g[n - 1] \o q[n] /\ h[n] = h[n - 1] \o r[n] /\ r[n] = q[n] /\ g[n - 1] = h[n - 1]
    BY <2>1, <1>1, <1>2, <1>3, <1>5
  <2> QED
    BY <2>1, <2>2
<1> HIDE DEF good
<1>6. \A n \in 0 .. Len(q) : n \in good
  BY <1>1, <1>4, <1>5, UpTo
<1>7. g[Len(q)] = h[Len(q)]
  <2>1. Len(q) \in 0 .. Len(q)
    BY <1>1
  <2> QED
    BY <2>1, <1>6 DEF good
<1>8. h[Len(r)] = h[Len(q)] \o e
  <2>1. Len(r) \in 1 .. Len(r) /\ Len(r) - 1 = Len(q)
    BY <1>1
  <2> QED
    BY <2>1, <1>1, <1>3
<1>9. g[Len(q)] \in Seq(S)
  <2>1. Len(q) \in 0 .. Len(q)
    BY <1>1
  <2> QED
    BY <2>1, <1>2
<1> QED
  BY <1>2, <1>3, <1>7, <1>8, <1>9 DEF r

----------------------------------------------------------------------------
(* The keys tried *)

\* What is in an array up to its first zero byte.
LEMMA KeyOf ==
  ASSUME NEW C, NEW m \in 0 .. 127, NEW testkey \in [0 .. m - 1 -> C]
  PROVE  Key(testkey) = [n \in 1 .. m |-> testkey[n - 1]]
<1> DEFINE Zero(n) == n \notin DOMAIN testkey /\ 0 .. n - 1 \subseteq DOMAIN testkey
<1>1. DOMAIN testkey = 0 .. m - 1
  OBVIOUS
<1>2. m \in 0 .. 127 /\ Zero(m)
  BY <1>1
<1>3. ASSUME NEW n \in 0 .. 127, Zero(n) PROVE n = m
  <2>1. ~ (n < m)
    BY <1>1, <1>3
  <2>2. ~ (m < n)
    <3>1. SUFFICES ASSUME m < n PROVE FALSE
      OBVIOUS
    <3>2. m \in 0 .. n - 1
      BY <3>1
    <3>3. m \in DOMAIN testkey
      BY <3>2, <1>3
    <3> QED
      BY <3>3, <1>1
  <2> QED
    BY <2>1, <2>2
<1>4. Key(testkey) = LET strlen == CHOOSE n \in 0 .. 127 : Zero(n) IN [n \in 1 .. strlen |-> testkey[n - 1]]
  BY DEF Key
<1> HIDE DEF Zero
<1>5. (CHOOSE n \in 0 .. 127 : Zero(n)) = m
  BY <1>2, <1>3
<1> QED
  BY <1>4, <1>5

\* What the loop has after n characters of the file f: the lines that have ended by e, as keys,
\* and in testkey what has come of the next one.
Read(f, n, a) ==
  \E e \in 0 .. n :
    /\ e = 0 \/ f[e] = "nl"
    /\ \A k \in e + 1 .. n : f[k] # "nl"
    /\ a.i = n - e
    /\ a.testkey \in [0 .. n - e - 1 -> ToSet(f)]
    /\ \A k \in 0 .. n - e - 1 : a.testkey[k] = f[e + k + 1]
    /\ a.tried \in Seq(Seq(ToSet(f)))
    /\ FlattenSeq([k \in DOMAIN a.tried |-> Append(a.tried[k], "nl")]) = SubSeq(f, 1, e)
    /\ \A k \in 1 .. Len(a.tried) : ~Contains(a.tried[k], "nl")

\* One round of the loop.
Round(f, n, a) ==
  IF f[n] = "nl" THEN [i |-> 0, testkey |-> <<>>, tried |-> Append(a.tried, Key(a.testkey))]
  ELSE [i |-> a.i + 1, testkey |-> Set(a.testkey, a.i, f[n]), tried |-> a.tried]

Fresh == [i |-> 0, testkey |-> <<>>, tried |-> <<>>]

LEMMA ReadNone ==
  ASSUME NEW f, f \in Seq(ToSet(f))
  PROVE  Read(f, 0, Fresh)
<1>1. Fresh.i = 0 /\ Fresh.testkey = <<>> /\ Fresh.tried = <<>>
  BY DEF Fresh
<1>2. <<>> \in [0 .. 0 - 0 - 1 -> ToSet(f)]
  <2>1. 0 .. 0 - 0 - 1 = {}
    OBVIOUS
  <2>2. <<>> \in Seq(ToSet(f)) /\ Len(<<>>) = 0 /\ 1 .. 0 = {}
    OBVIOUS
  <2>3. <<>> \in [1 .. 0 -> ToSet(f)]
    BY <2>2, LenProperties
  <2> QED
    BY <2>1, <2>2, <2>3
<1>3. FlattenSeq([k \in DOMAIN <<>> |-> Append(<<>>[k], "nl")]) = <<>>
  <2> DEFINE q == [k \in DOMAIN <<>> |-> Append(<<>>[k], "nl")]
  <2>1. Len(<<>>) = 0 /\ DOMAIN <<>> = 1 .. 0
    OBVIOUS
  <2>2. q = <<>>
    BY <2>1
  <2> HIDE DEF q
  <2>3. FlattenSeq(q) = <<>>
    BY <2>1, <2>2 DEF FlattenSeq
  <2> QED
    BY <2>3 DEF q
<1>4. SubSeq(f, 1, 0) = <<>>
  BY SubSeqEmpty
<1>5. \A k \in 0 .. 0 - 0 - 1 : FALSE
  OBVIOUS
<1>6. <<>> \in Seq(Seq(ToSet(f))) /\ \A k \in 1 .. Len(<<>>) : FALSE
  OBVIOUS
<1>7. \A k \in 0 + 1 .. 0 : FALSE
  OBVIOUS
<1> HIDE DEF Fresh
<1>8. FlattenSeq([k \in DOMAIN Fresh.tried |-> Append(Fresh.tried[k], "nl")]) = SubSeq(f, 1, 0)
  BY <1>1, <1>3, <1>4
<1>9. 0 \in 0 .. 0 /\ Fresh.i = 0 - 0 /\ Fresh.testkey \in [0 .. 0 - 0 - 1 -> ToSet(f)]
  BY <1>1, <1>2
<1>10. Fresh.tried \in Seq(Seq(ToSet(f))) /\ \A k \in 1 .. Len(Fresh.tried) : ~Contains(Fresh.tried[k], "nl")
  BY <1>1, <1>6
<1> QED
  BY <1>5, <1>7, <1>8, <1>9, <1>10 DEF Read

\* One more key.
LEMMA EndedAppend ==
  ASSUME NEW C, NEW t \in Seq(Seq(C)), NEW key \in Seq(C), "nl" \in C
  PROVE  FlattenSeq([k \in DOMAIN Append(t, key) |-> Append(Append(t, key)[k], "nl")])
           = FlattenSeq([k \in DOMAIN t |-> Append(t[k], "nl")]) \o Append(key, "nl")
<1> DEFINE u == Append(t, key)
           q == [k \in DOMAIN t |-> Append(t[k], "nl")]
           r == [k \in DOMAIN u |-> Append(u[k], "nl")]
           e == Append(key, "nl")
           s == Append(q, e)
<1>1. /\ u \in Seq(Seq(C)) /\ Len(u) = Len(t) + 1 /\ u[Len(t) + 1] = key /\ Len(t) \in Nat
      /\ \A k \in 1 .. Len(t) : u[k] = t[k]
      /\ DOMAIN u = 1 .. Len(t) + 1 /\ DOMAIN t = 1 .. Len(t)
  BY AppendProperties
<1>2. e \in Seq(C)
  BY AppendProperties
<1>3. /\ q \in Seq(Seq(C)) /\ Len(q) = Len(t)
      /\ \A k \in 1 .. Len(t) : q[k] = Append(t[k], "nl")
  <2>1. \A k \in 1 .. Len(t) : Append(t[k], "nl") \in Seq(C)
    BY AppendProperties
  <2>2. q = [k \in 1 .. Len(t) |-> Append(t[k], "nl")]
    BY <1>1
  <2>3. q \in Seq(Seq(C))
    BY <2>1, <2>2, <1>1
  <2>4. Len(q) = Len(t)
    BY <2>2, <1>1
  <2> QED
    BY <2>2, <2>3, <2>4
<1>4. /\ s \in Seq(Seq(C)) /\ Len(s) = Len(t) + 1 /\ s[Len(t) + 1] = e
      /\ \A k \in 1 .. Len(t) : s[k] = Append(t[k], "nl")
  <2> HIDE DEF q, e
  <2>1. /\ s \in Seq(Seq(C)) /\ Len(s) = Len(q) + 1 /\ s[Len(q) + 1] = e
        /\ \A k \in 1 .. Len(q) : s[k] = q[k]
    BY <1>2, <1>3, AppendProperties
  <2> HIDE DEF s
  <2> QED
    BY <2>1, <1>3
<1>5. r = [k \in 1 .. Len(t) + 1 |-> Append(u[k], "nl")]
  BY <1>1
<1>6. \A k \in 1 .. Len(t) + 1 : Append(u[k], "nl") = s[k]
  <2>1. ASSUME NEW k \in 1 .. Len(t) + 1 PROVE Append(u[k], "nl") = s[k]
    <3>1. CASE k = Len(t) + 1
      BY <3>1, <1>1, <1>4
    <3>2. CASE k # Len(t) + 1
      <4>1. k \in 1 .. Len(t)
        BY <3>2, <1>1
      <4> HIDE DEF u, s
      <4> QED
        BY <4>1, <1>1, <1>4
    <3> QED
      BY <3>1, <3>2
  <2> QED
    BY <2>1
<1>7. s = [k \in 1 .. Len(t) + 1 |-> s[k]]
  <2> HIDE DEF s
  <2> QED
    BY <1>4
<1>8. r = s
  <2> HIDE DEF r, s, u
  <2> QED
    BY <1>5, <1>6, <1>7
<1>9. FlattenSeq(s) = FlattenSeq(q) \o e
  <2> HIDE DEF q, e
  <2> QED
    BY <1>2, <1>3, FlattenAppend
<1> QED
  BY <1>8, <1>9

LEMMA ReadMore ==
  ASSUME NEW f, f \in Seq(ToSet(f)), NEW n \in 1 .. Len(f), NEW a, Read(f, n - 1, a),
         \A m \in 1 .. Len(f) - 127 : \E k \in m .. m + 127 : f[k] = "nl"
  PROVE  Read(f, n, Round(f, n, a))
<1> DEFINE C == ToSet(f)
<1>1. PICK e \in 0 .. n - 1 :
        /\ e = 0 \/ f[e] = "nl"
        /\ \A k \in e + 1 .. n - 1 : f[k] # "nl"
        /\ a.i = n - 1 - e
        /\ a.testkey \in [0 .. n - 1 - e - 1 -> C]
        /\ \A k \in 0 .. n - 1 - e - 1 : a.testkey[k] = f[e + k + 1]
        /\ a.tried \in Seq(Seq(C))
        /\ FlattenSeq([k \in DOMAIN a.tried |-> Append(a.tried[k], "nl")]) = SubSeq(f, 1, e)
        /\ \A k \in 1 .. Len(a.tried) : ~Contains(a.tried[k], "nl")
  BY DEF Read
<1>2. Len(f) \in Nat /\ n \in Nat /\ \A k \in 1 .. Len(f) : f[k] \in C
  BY DEF ToSet
<1> HIDE DEF C
<1>3. CASE f[n] # "nl"
  <2> DEFINE b == [i |-> a.i + 1, testkey |-> Set(a.testkey, a.i, f[n]), tried |-> a.tried]
  <2>1. b.i = n - e /\ b.tried = a.tried /\ b.testkey = Set(a.testkey, n - 1 - e, f[n])
    BY <1>1, <1>2
  <2>2. Round(f, n, a) = b
    BY <1>3 DEF Round
  <2> HIDE DEF b
  <2>3. DOMAIN a.testkey = 0 .. n - 1 - e - 1 /\ 0 .. n - e - 1 = (0 .. n - 1 - e - 1) \cup {n - 1 - e}
    <3>1. DOMAIN a.testkey = 0 .. n - 1 - e - 1
      BY <1>1
    <3>2. \A x : x \in 0 .. n - e - 1 <=> x \in 0 .. n - 1 - e - 1 \/ x = n - 1 - e
      BY <1>2
    <3>3. 0 .. n - e - 1 = (0 .. n - 1 - e - 1) \cup {n - 1 - e}
      BY <3>2
    <3> QED
      BY <3>1, <3>3
  <2>4. b.testkey = [k \in 0 .. n - e - 1 |-> IF k = n - 1 - e THEN f[n] ELSE a.testkey[k]]
    BY <2>1, <2>3 DEF Set
  <2>5. ASSUME NEW k \in 0 .. n - e - 1 PROVE b.testkey[k] = f[e + k + 1] /\ b.testkey[k] \in C
    <3>1. e + k + 1 \in 1 .. Len(f) /\ f[e + k + 1] \in C
      BY <1>1, <1>2
    <3>2. CASE k = n - 1 - e
      <4>1. e + k + 1 = n
        BY <3>2, <1>2
      <4> QED
        BY <3>1, <3>2, <4>1, <2>4
    <3>3. CASE k # n - 1 - e
      <4>1. k \in 0 .. n - 1 - e - 1
        BY <3>3, <1>2
      <4> QED
        BY <3>1, <3>3, <4>1, <2>4, <1>1
    <3> QED
      BY <3>2, <3>3
  <2>6. b.testkey \in [0 .. n - e - 1 -> C]
    BY <2>4, <2>5
  <2>7. \A k \in e + 1 .. n : f[k] # "nl"
    <3>1. \A k \in e + 1 .. n : k = n \/ k \in e + 1 .. n - 1
      BY <1>2
    <3> QED
      BY <3>1, <1>1, <1>3
  <2>8. e \in 0 .. n
    BY <1>2
  <2>9. Read(f, n, b)
    BY <2>1, <2>5, <2>6, <2>7, <2>8, <1>1 DEF Read, C
  <2> QED
    BY <2>2, <2>9
<1>4. CASE f[n] = "nl"
  <2> DEFINE m == n - 1 - e
             key == [k \in 1 .. m |-> a.testkey[k - 1]]
             b == [i |-> 0, testkey |-> <<>>, tried |-> Append(a.tried, key)]
  <2>1. m \in 0 .. 127
    <3>1. SUFFICES ASSUME m > 127 PROVE FALSE
      BY <1>2
    <3>2. e + 1 \in 1 .. Len(f) - 127
      BY <3>1, <1>2
    <3>3. PICK k \in e + 1 .. e + 1 + 127 : f[k] = "nl"
      BY <3>2
    <3>4. k \in e + 1 .. n - 1
      BY <3>1, <1>2
    <3> QED
      BY <3>3, <3>4, <1>1
  <2>2. a.testkey \in [0 .. m - 1 -> C]
    BY <1>1
  <2>3. \A k \in 0 .. m - 1 : a.testkey[k] = f[e + k + 1]
    BY <1>1
  <2> HIDE DEF m
  <2>4. Key(a.testkey) = key
    BY <2>1, <2>2, KeyOf
  <2>5. Round(f, n, a) = b
    BY <2>4, <1>4 DEF Round
  <2>6. \A k \in 1 .. m : a.testkey[k - 1] = f[e + k] /\ e + k \in 1 .. Len(f) /\ e + k \in e + 1 .. n - 1
    <3>1. ASSUME NEW k \in 1 .. m
          PROVE  a.testkey[k - 1] = f[e + k] /\ e + k \in 1 .. Len(f) /\ e + k \in e + 1 .. n - 1
      <4>1. k - 1 \in 0 .. m - 1 /\ e + (k - 1) + 1 = e + k
        BY <2>1
      <4>2. e + k \in 1 .. Len(f) /\ e + k \in e + 1 .. n - 1
        BY <2>1, <1>2 DEF m
      <4> QED
        BY <4>1, <4>2, <2>3
    <3> QED
      BY <3>1
  <2>7. key \in Seq(C) /\ Len(key) = m /\ \A k \in 1 .. m : key[k] = f[e + k]
    <3>1. \A k \in 1 .. m : a.testkey[k - 1] \in C
      BY <2>6, <1>2
    <3>2. key \in Seq(C)
      <4>1. m \in Nat
        BY <2>1
      <4> QED
        BY <3>1, <4>1
    <3>3. Len(key) = m
      BY <2>1
    <3> QED
      BY <3>2, <3>3, <2>6
  <2> HIDE DEF key
  <2>8. ~Contains(key, "nl")
    <3>1. ASSUME NEW k \in 1 .. m PROVE key[k] # "nl"
      <4>1. key[k] = f[e + k] /\ e + k \in e + 1 .. n - 1
        BY <2>6, <2>7
      <4>2. \A j \in e + 1 .. n - 1 : f[j] # "nl"
        BY <1>1
      <4> QED
        BY <4>1, <4>2
    <3> QED
      BY <3>1, <2>7 DEF Contains
  <2>9. b.i = 0 /\ b.testkey = <<>> /\ b.tried = Append(a.tried, key)
    OBVIOUS
  <2> HIDE DEF b
  <2>10. "nl" \in C
    BY <1>2, <1>4
  <2>11. FlattenSeq([k \in DOMAIN b.tried |-> Append(b.tried[k], "nl")]) = SubSeq(f, 1, e) \o Append(key, "nl")
    <3>1. FlattenSeq([k \in DOMAIN Append(a.tried, key) |-> Append(Append(a.tried, key)[k], "nl")])
            = FlattenSeq([k \in DOMAIN a.tried |-> Append(a.tried[k], "nl")]) \o Append(key, "nl")
      <4>1. a.tried \in Seq(Seq(C)) /\ key \in Seq(C) /\ "nl" \in C
        BY <2>7, <2>10, <1>1
      <4> QED
        BY <4>1, EndedAppend
    <3> QED
      BY <3>1, <2>9, <1>1
  <2>12. SubSeq(f, 1, e) \o Append(key, "nl") = SubSeq(f, 1, n)
    <3> DEFINE p == SubSeq(f, 1, e)
               w == Append(key, "nl")
               j == p \o w
               x == SubSeq(f, 1, n)
    <3>1. f \in Seq(C)
      BY DEF C
    <3>2. /\ p \in Seq(C) /\ Len(p) = e /\ \A k \in 1 .. e : p[k] = f[k]
      <4>1. e \in 0 .. Len(f)
        BY <1>2
      <4> QED
        BY <4>1, <3>1
    <3>3. /\ x \in Seq(C) /\ Len(x) = n /\ \A k \in 1 .. n : x[k] = f[k]
      BY <3>1, <1>2
    <3>4. w \in Seq(C) /\ Len(w) = m + 1 /\ w[m + 1] = "nl" /\ \A k \in 1 .. m : w[k] = f[e + k]
      <4>1. key \in Seq(C) /\ "nl" \in C
        BY <2>7, <2>10
      <4>2. /\ w \in Seq(C) /\ Len(w) = Len(key) + 1 /\ w[Len(key) + 1] = "nl"
            /\ \A k \in 1 .. Len(key) : w[k] = key[k]
        BY <4>1, AppendProperties
      <4> HIDE DEF w
      <4> QED
        BY <4>2, <2>7
    <3> HIDE DEF p, w, x
    <3>5. /\ j \in Seq(C) /\ Len(j) = e + (m + 1)
          /\ \A k \in 1 .. e + (m + 1) : j[k] = IF k <= e THEN p[k] ELSE w[k - e]
      <4>1. /\ j \in Seq(C) /\ Len(j) = Len(p) + Len(w)
            /\ \A k \in 1 .. Len(p) + Len(w) : j[k] = IF k <= Len(p) THEN p[k] ELSE w[k - Len(p)]
        BY <3>2, <3>4, ConcatProperties
      <4> HIDE DEF j
      <4> QED
        BY <4>1, <3>2, <3>4
    <3> HIDE DEF j
    <3>6. e + (m + 1) = n
      BY <1>2 DEF m
    <3>7. ASSUME NEW k \in 1 .. n PROVE j[k] = x[k]
      <4>1. CASE k <= e
        <5>1. k \in 1 .. e
          BY <4>1
        <5> QED
          BY <5>1, <4>1, <3>2, <3>3, <3>5, <3>6
      <4>2. CASE k > e /\ k < n
        <5>1. k - e \in 1 .. m /\ e + (k - e) = k
          BY <4>2, <3>6, <2>1
        <5>2. j[k] = w[k - e]
          BY <4>2, <3>5, <3>6
        <5>3. w[k - e] = f[k]
          BY <5>1, <3>4
        <5> QED
          BY <5>2, <5>3, <3>3
      <4>3. CASE k > e /\ k = n
        <5>1. k - e = m + 1
          BY <4>3, <3>6, <2>1
        <5>2. j[k] = w[k - e]
          BY <4>3, <3>5, <3>6
        <5> QED
          BY <5>1, <5>2, <4>3, <3>3, <3>4, <1>4
      <4> QED
        BY <4>1, <4>2, <4>3, <1>2
    <3>8. j = x
      BY <3>3, <3>5, <3>6, <3>7, SeqEqual
    <3> QED
      BY <3>8 DEF j, p, w, x
  <2>13. b.tried \in Seq(Seq(C)) /\ \A k \in 1 .. Len(b.tried) : ~Contains(b.tried[k], "nl")
    <3>1. /\ b.tried \in Seq(Seq(C)) /\ Len(b.tried) = Len(a.tried) + 1 /\ b.tried[Len(a.tried) + 1] = key
          /\ Len(a.tried) \in Nat /\ \A k \in 1 .. Len(a.tried) : b.tried[k] = a.tried[k]
      BY <2>7, <2>9, <1>1, AppendProperties
    <3>2. ASSUME NEW k \in 1 .. Len(b.tried) PROVE ~Contains(b.tried[k], "nl")
      <4>1. k = Len(a.tried) + 1 \/ k \in 1 .. Len(a.tried)
        BY <3>1
      <4> QED
        BY <4>1, <3>1, <2>8, <1>1
    <3> QED
      BY <3>1, <3>2
  <2>14. <<>> \in [0 .. n - n - 1 -> C] /\ \A k \in 0 .. n - n - 1 : FALSE
    <3>1. n - n - 1 = 0 - 0 - 1 /\ 0 .. 0 - 0 - 1 = {}
      BY <1>2
    <3>2. <<>> \in [0 .. 0 - 0 - 1 -> C]
      <4>1. Read(f, 0, Fresh)
        BY ReadNone
      <4>2. Fresh.testkey \in [0 .. 0 - 0 - 1 -> C]
        <5>1. PICK z \in 0 .. 0 : Fresh.testkey \in [0 .. 0 - z - 1 -> C]
          BY <4>1 DEF Read, C
        <5> QED
          BY <5>1
      <4> QED
        BY <4>2 DEF Fresh
    <3> QED
      BY <3>1, <3>2
  <2>15. \A k \in n + 1 .. n : FALSE
    BY <1>2
  <2>16. n \in 0 .. n /\ n - n = 0
    BY <1>2
  <2>17. Read(f, n, b)
    BY <2>9, <2>11, <2>12, <2>13, <2>14, <2>15, <2>16, <1>4 DEF Read, C
  <2> QED
    BY <2>5, <2>17
<1> QED
  BY <1>3, <1>4

\* The values of the loop.
States(C) == [i : Nat, testkey : UNION {[0 .. n - 1 -> C] : n \in Nat}, tried : Seq(Seq(C))]

LEMMA ReadState ==
  ASSUME NEW f, NEW n \in Nat, NEW a, Read(f, n, a), a = [i |-> a.i, testkey |-> a.testkey, tried |-> a.tried]
  PROVE  a \in States(ToSet(f))
<1> DEFINE C == ToSet(f)
<1>1. PICK e \in 0 .. n : a.i = n - e /\ a.testkey \in [0 .. n - e - 1 -> C] /\ a.tried \in Seq(Seq(C))
  BY DEF Read
<1> HIDE DEF C
<1>2. n - e \in Nat
  OBVIOUS
<1>3. a.testkey \in UNION {[0 .. k - 1 -> C] : k \in Nat}
  BY <1>1, <1>2
<1>4. a \in [i : Nat, testkey : UNION {[0 .. k - 1 -> C] : k \in Nat}, tried : Seq(Seq(C))]
  BY <1>1, <1>2, <1>3
<1> QED
  BY <1>4 DEF States, C

LEMMA RoundRecord ==
  ASSUME NEW f, NEW n, NEW a
  PROVE  LET b == Round(f, n, a) IN b = [i |-> b.i, testkey |-> b.testkey, tried |-> b.tried]
BY DEF Round

LEMMA KeysRead ==
  ASSUME keyfile \in KeyFiles, i = 0
  PROVE  Read(keyfile, Len(keyfile), TryKeys)
<1> DEFINE f == keyfile
           N == Len(f)
           D == States(ToSet(f))
           next == [n \in 1 .. N |-> [a \in D |-> IF Round(f, n, a) \in D THEN Round(f, n, a) ELSE a]]
<1>1. /\ f \in Seq(ToSet(f)) /\ N \in Nat
      /\ \A m \in 1 .. Len(f) - 127 : \E k \in m .. m + 127 : f[k] = "nl"
  BY KeyFilesAssumption
<1>2. Read(f, 0, Fresh) /\ Fresh \in D
  <2>1. Read(f, 0, Fresh)
    BY <1>1, ReadNone
  <2>2. Fresh = [i |-> Fresh.i, testkey |-> Fresh.testkey, tried |-> Fresh.tried]
    BY DEF Fresh
  <2> QED
    BY <2>1, <2>2, ReadState
<1>3. next \in [1 .. N -> [D -> D]]
  <2> HIDE DEF D, N
  <2>1. ASSUME NEW n \in 1 .. N PROVE next[n] \in [D -> D]
    OBVIOUS
  <2> QED
    BY <2>1
<1>4. PICK g \in [0 .. N -> D] : Iterates(g, N, Fresh, next)
  <2> HIDE DEF D, N, next
  <2> QED
    BY <1>1, <1>2, <1>3, IteratesExist
<1> DEFINE good == {n \in 0 .. N : Read(f, n, g[n]) /\ (n # 0 => g[n] = Round(f, n, g[n - 1]))}
<1>5. 0 \in good
  BY <1>1, <1>2, <1>4 DEF Iterates
<1>6. ASSUME NEW n \in 1 .. N, n - 1 \in good PROVE n \in good
  <2>1. Read(f, n - 1, g[n - 1]) /\ g[n - 1] \in D
    BY <1>1, <1>4, <1>6
  <2>2. Read(f, n, Round(f, n, g[n - 1]))
    BY <2>1, <1>1, ReadMore
  <2>3. Round(f, n, g[n - 1]) \in D
    <3>1. n \in Nat
      BY <1>1
    <3> QED
      BY <3>1, <2>2, RoundRecord, ReadState
  <2>4. g[n] = next[n][g[n - 1]]
    BY <1>4 DEF Iterates
  <2>5. g[n] = Round(f, n, g[n - 1])
    <3> HIDE DEF D, N
    <3> QED
      BY <2>1, <2>3, <2>4
  <2>6. n \in 0 .. N
    BY <1>1
  <2> QED
    BY <2>2, <2>5, <2>6
<1> HIDE DEF good
<1>7. \A n \in 0 .. N : n \in good
  BY <1>1, <1>5, <1>6, UpTo
<1>8. g[0] = Fresh /\ \A n \in 1 .. N : g[n] = Round(f, n, g[n - 1])
  <2>1. \A n \in 1 .. N : n \in 0 .. N /\ n # 0
    BY <1>1
  <2> QED
    BY <2>1, <1>4, <1>7 DEF good, Iterates
<1>9. Read(f, N, g[N])
  <2>1. N \in 0 .. N
    BY <1>1
  <2> QED
    BY <2>1, <1>7 DEF good
<1> DEFINE Body(x) == [n \in 0 .. N |-> IF n = 0 THEN [i |-> i, testkey |-> <<>>, tried |-> <<>>]
                         ELSE LET a == x[n - 1] c == keyfile[n]
                              IN  IF c = "nl"
                                    THEN [i |-> 0, testkey |-> <<>>, tried |-> Append(a.tried, Key(a.testkey))]
                                    ELSE [i |-> a.i + 1, testkey |-> Set(a.testkey, a.i, c), tried |-> a.tried]]
           loop == CHOOSE x : x = Body(x)
<1>10. TryKeys = loop[N]
  BY DEF TryKeys
<1>11. \A x : Body(x) = [n \in 0 .. N |-> IF n = 0 THEN Fresh ELSE Round(f, n, x[n - 1])]
  BY DEF Fresh, Round
<1> HIDE DEF N, f, Body
<1>12. g = Body(g)
  <2>1. ASSUME NEW n \in 0 .. N PROVE g[n] = Body(g)[n]
    <3>1. CASE n = 0
      BY <3>1, <1>8, <1>11
    <3>2. CASE n # 0
      <4>1. n \in 1 .. N
        BY <3>2, <1>1
      <4> QED
        BY <4>1, <3>2, <1>8, <1>11
    <3> QED
      BY <3>1, <3>2
  <2>2. g = [n \in 0 .. N |-> g[n]]
    BY <1>4
  <2>3. Body(g) = [n \in 0 .. N |-> Body(g)[n]]
    BY <1>11
  <2> QED
    BY <2>1, <2>2, <2>3
<1>13. loop = Body(loop)
  BY <1>12
<1> HIDE DEF loop
<1> DEFINE same == {n \in 0 .. N : loop[n] = g[n]}
<1>14. loop[0] = Fresh /\ \A n \in 1 .. N : loop[n] = Round(f, n, loop[n - 1])
  <2>1. Body(loop) = [n \in 0 .. N |-> IF n = 0 THEN Fresh ELSE Round(f, n, loop[n - 1])]
    BY <1>11
  <2>2. 0 \in 0 .. N /\ \A n \in 1 .. N : n \in 0 .. N /\ n # 0
    BY <1>1
  <2>3. Body(loop)[0] = Fresh
    BY <2>1, <2>2
  <2>4. ASSUME NEW n \in 1 .. N PROVE Body(loop)[n] = Round(f, n, loop[n - 1])
    BY <2>1, <2>2
  <2> QED
    BY <2>3, <2>4, <1>13
<1>15. 0 \in same
  BY <1>1, <1>8, <1>14
<1>16. ASSUME NEW n \in 1 .. N, n - 1 \in same PROVE n \in same
  <2>1. loop[n - 1] = g[n - 1] /\ n \in 0 .. N
    BY <1>1, <1>16
  <2>2. loop[n] = Round(f, n, loop[n - 1]) /\ g[n] = Round(f, n, g[n - 1])
    BY <1>8, <1>14
  <2> QED
    BY <2>1, <2>2
<1> HIDE DEF same
<1>17. N \in same
  <2>1. N \in 0 .. N
    BY <1>1
  <2> QED
    BY <2>1, <1>1, <1>15, <1>16, UpTo
<1>18. loop[N] = g[N]
  BY <1>17 DEF same
<1> QED
  BY <1>9, <1>10, <1>18 DEF N, f

LEMMA AllKeysRead ==
  ASSUME keyfile \in KeyFiles, keyfile # <<>>, Last(keyfile) = "nl", i = 0
  PROVE  /\ TryKeys.i = 0
         /\ FlattenSeq([n \in DOMAIN TryKeys.tried |-> Append(TryKeys.tried[n], "nl")]) = keyfile
         /\ \A n \in DOMAIN TryKeys.tried : ~Contains(TryKeys.tried[n], "nl")
<1> DEFINE N == Len(keyfile)
           a == TryKeys
<1>1. keyfile \in Seq(ToSet(keyfile)) /\ N \in Nat \ {0} /\ keyfile[N] = "nl"
  BY KeyFilesAssumption DEF Last
<1> HIDE DEF a
<1>2. PICK e \in 0 .. N :
        /\ \A k \in e + 1 .. N : keyfile[k] # "nl"
        /\ a.i = N - e
        /\ a.tried \in Seq(Seq(ToSet(keyfile)))
        /\ FlattenSeq([k \in DOMAIN a.tried |-> Append(a.tried[k], "nl")]) = SubSeq(keyfile, 1, e)
        /\ \A k \in 1 .. Len(a.tried) : ~Contains(a.tried[k], "nl")
  BY KeysRead DEF a, Read
<1>3. e = N
  <2>1. ~ (N \in e + 1 .. N)
    BY <1>1, <1>2
  <2> QED
    BY <2>1, <1>1
<1>4. SubSeq(keyfile, 1, N) = keyfile
  BY <1>1, SubSeqFull
<1>5. DOMAIN a.tried = 1 .. Len(a.tried)
  BY <1>2
<1>6. a.i = 0
  BY <1>1, <1>2, <1>3
<1> QED
  BY <1>2, <1>3, <1>4, <1>5, <1>6 DEF a

KeysInv ==
  /\ keyfile \in KeyFiles
  /\ keyfile # <<>> /\ Last(keyfile) = "nl" => i = 0
  /\ keyfile = <<>> => client # "decrypt" /\ shown.by # "decrypt"
  /\ KeysTriedWhole

LEMMA KeysInvariance ==
  ASSUME KeysInv, [Next]_vars
  PROVE  KeysInv'
<1>1. keyfile' = keyfile
  BY DEF Next, ServerSteps, Ask, View, UpdatePlain, UpdateCipher, Sends, Receive, Greeted, Updated, Viewed,
         Decrypts, Receives, Exit, Dies, Leaves, vars
<1>2. ASSUME UNCHANGED <<i, client, shown, tried>> PROVE KeysInv'
  BY <1>1, <1>2 DEF KeysInv, KeysTriedWhole
<1>3. ASSUME i' = i \/ i' = 0, shown' = Nothing, client' # "decrypt" PROVE KeysInv'
  <2>1. shown'.by = "none"
    BY <1>3 DEF Nothing
  <2> QED
    BY <2>1, <1>1, <1>3 DEF KeysInv, KeysTriedWhole
<1>4. CASE ServerSteps \/ UNCHANGED vars
  BY <1>2, <1>4 DEF ServerSteps, vars
<1>5. CASE Ask
  <2>1. shown' = Nothing /\ i' = i /\ client' \in {"view", "plain", "cipher"}
    BY <1>5 DEF Ask, View, UpdatePlain, UpdateCipher, Sends
  <2> QED
    BY <2>1, <1>3
<1>6. CASE Receive
  <2>1. ASSUME NEW k \in 1 .. Len(toClient), Greeted(k) PROVE KeysInv'
    <3>1. UNCHANGED <<i, shown, tried>> /\ client' \in {"refused", "menu"}
      BY <2>1 DEF Greeted
    <3> QED
      BY <3>1, <1>1 DEF KeysInv, KeysTriedWhole
  <2>2. ASSUME NEW k \in 1 .. Len(toClient), Updated(k) PROVE KeysInv'
    <3>1. UNCHANGED <<i, tried>> /\ client' = "menu" /\ shown'.by = client /\ client \in {"plain", "cipher"}
      BY <2>2 DEF Updated
    <3> QED
      BY <3>1, <1>1 DEF KeysInv, KeysTriedWhole
  <2>3. ASSUME NEW k \in 1 .. Len(toClient), Viewed(k) PROVE KeysInv'
    <3>1. /\ UNCHANGED <<i, tried>> /\ shown'.by \in {"view", "none"}
          /\ client' = "menu" \/ keyfile # <<>>
      BY <2>3 DEF Viewed, Nothing
    <3> QED
      BY <3>1, <1>1 DEF KeysInv, KeysTriedWhole
  <2>4. CASE Decrypts
    <3>1. client = "decrypt" /\ client' = "menu" /\ i' = TryKeys.i /\ tried' = TryKeys.tried
      BY <2>4 DEF Decrypts, decrypt
    <3>2. keyfile # <<>> /\ keyfile \in KeyFiles
      BY <3>1 DEF KeysInv
    <3>3. CASE Last(keyfile) = "nl"
      <4>1. i = 0
        BY <3>2, <3>3 DEF KeysInv
      <4>2. /\ TryKeys.i = 0
            /\ FlattenSeq([n \in DOMAIN TryKeys.tried |-> Append(TryKeys.tried[n], "nl")]) = keyfile
            /\ \A n \in DOMAIN TryKeys.tried : ~Contains(TryKeys.tried[n], "nl")
        BY <4>1, <3>2, <3>3, AllKeysRead
      <4>3. KeysTriedWhole'
        BY <4>2, <3>1, <1>1 DEF KeysTriedWhole
      <4> QED
        BY <4>2, <4>3, <3>1, <3>2, <1>1 DEF KeysInv
    <3>4. CASE Last(keyfile) # "nl"
      <4>1. Last(keyfile') # "nl"
        BY <3>4, <1>1
      <4> QED
        BY <4>1, <3>2, <1>1 DEF KeysInv, KeysTriedWhole
    <3> QED
      BY <3>3, <3>4
  <2> QED
    BY <2>1, <2>2, <2>3, <2>4, <1>6 DEF Receive
<1>7. CASE Exit \/ Dies
  <2>1. shown' = Nothing /\ i' = 0 /\ client' \in {"left", "dead"}
    BY <1>7 DEF Exit, Dies, Leaves
  <2> QED
    BY <2>1, <1>3
<1> QED
  BY <1>4, <1>5, <1>6, <1>7 DEF Next

\* What Client calls KeysTriedWhole: whatever the key file, if its last line is ended, every
\* call of decrypt tries all its lines, whole, and nothing else.
THEOREM AllKeysTried == Spec => []KeysTriedWhole
<1>1. Init => KeysInv
  BY DEF Init, Nothing, KeysInv, KeysTriedWhole
<1>2. KeysInv /\ [Next]_vars => KeysInv'
  BY KeysInvariance
<1>3. KeysInv => KeysTriedWhole
  BY DEF KeysInv
<1> QED
  BY <1>1, <1>2, <1>3, PTL DEF Spec

----------------------------------------------------------------------------
(* More about texts *)

\* TextPart and LeftoverDrop cut; here is how long what is joined takes.
LEMMA UntilJoin ==
  ASSUME NEW a, Text(a), NEW b, Text(b)
  PROVE  \A j \in 0 .. Len(b) : Until(a \o b, Len(a) + j) = Width(a) + Until(b, j)
<1> DEFINE c == a \o b
           good == {j \in 0 .. Len(b) : Until(c, Len(a) + j) = Width(a) + Until(b, j)}
<1>1. /\ Text(c) /\ Len(c) = Len(a) + Len(b) /\ \A k \in 1 .. Len(a) : c[k] = a[k]
      /\ \A k \in 1 .. Len(b) : c[Len(a) + k] = b[k]
  BY Joined
<1> HIDE DEF c
<1>2. Len(a) \in Nat /\ Len(b) \in Nat /\ Width(a) \in Nat /\ Until(b, 0) = 0
  BY WidthOf
<1>3. 0 \in good
  <2>1. Len(a) <= Len(c)
    BY <1>1, <1>2
  <2>2. Until(c, Len(a)) = Width(a)
    BY <2>1, <1>1, Begins
  <2>3. Len(a) + 0 = Len(a) /\ Width(a) + 0 = Width(a)
    BY <1>2
  <2> QED
    BY <2>2, <2>3, <1>2
<1>4. ASSUME NEW j \in 1 .. Len(b), j - 1 \in good PROVE j \in good
  <2>1. Len(a) + j \in 1 .. Len(c) /\ Len(a) + j - 1 = Len(a) + (j - 1) /\ c[Len(a) + j] = b[j]
    BY <1>1, <1>2
  <2>2. Until(c, Len(a) + j) = Until(c, Len(a) + j - 1) + c[Len(a) + j].w
    <3>1. Text(c)
      BY <1>1
    <3> QED
      BY <3>1, <2>1, WidthOf
  <2>3. Until(b, j) = Until(b, j - 1) + b[j].w /\ b[j].w \in Nat /\ Until(b, j - 1) \in Nat
    <3>1. j - 1 \in 0 .. Len(b)
      BY <1>2
    <3>2. b[j].w \in Nat
      BY DEF Text, Wide
    <3> QED
      BY <3>1, <3>2, WidthOf
  <2>4. Until(c, Len(a) + (j - 1)) = Width(a) + Until(b, j - 1)
    BY <1>4
  <2>5. Until(c, Len(a) + j) = Width(a) + Until(b, j)
    BY <2>1, <2>2, <2>3, <2>4, <1>2
  <2> QED
    BY <2>5
<1> HIDE DEF good
<1>5. \A j \in 0 .. Len(b) : j \in good
  BY <1>2, <1>3, <1>4, UpTo
<1> QED
  BY <1>5 DEF good, c

\* There are cells within n characters.
LEMMA CellsFacts ==
  ASSUME NEW s, Text(s), NEW n \in Nat
  PROVE  /\ Cells(s, n) \in 0 .. Len(s) /\ Until(s, Cells(s, n)) <= n
         /\ Cells(s, n) < Len(s) => Until(s, Cells(s, n) + 1) > n
<1> DEFINE Within(k) == Until(s, k) <= n /\ (k < Len(s) => Until(s, k + 1) > n)
           beyond == {k \in 0 .. Len(s) : Until(s, k) > n}
<1>1. Len(s) \in Nat /\ Until(s, 0) = 0 /\ \A k \in 0 .. Len(s) : Until(s, k) \in Nat
  BY WidthOf
<1>2. \E k \in 0 .. Len(s) : Within(k)
  <2>1. CASE beyond = {}
    <3>1. Len(s) \in 0 .. Len(s)
      BY <1>1
    <3>2. ~ (Until(s, Len(s)) > n)
      BY <2>1, <3>1
    <3>3. Within(Len(s))
      BY <3>1, <3>2, <1>1
    <3> QED
      BY <3>1, <3>3
  <2>2. CASE beyond # {}
    <3>1. beyond \in SUBSET Nat
      BY <1>1
    <3>2. PICK x \in beyond : \A y \in beyond : x <= y
      <4> HIDE DEF beyond
      <4> QED
        BY <2>2, <3>1, LowestOf
    <3>3. x # 0 /\ x \in 0 .. Len(s) /\ Until(s, x) > n
      BY <1>1
    <3>4. x - 1 \in 0 .. Len(s) /\ ~ (x <= x - 1) /\ x - 1 + 1 = x
      BY <3>3, <1>1
    <3>5. ~ (Until(s, x - 1) > n)
      BY <3>2, <3>4
    <3>6. Within(x - 1)
      BY <3>3, <3>4, <3>5, <1>1
    <3> QED
      BY <3>4, <3>6
  <2> QED
    BY <2>1, <2>2
<1>3. Cells(s, n) = CHOOSE k \in 0 .. Len(s) : Within(k)
  BY DEF Cells
<1>4. Cells(s, n) \in 0 .. Len(s) /\ Within(Cells(s, n))
  <2> HIDE DEF Within
  <2> QED
    BY <1>2, <1>3
<1> QED
  BY <1>4

LEMMA BeyondText ==
  ASSUME NEW s, Text(s), NEW n \in Nat
  PROVE  Text(Beyond(s, n)) /\ (s = <<>> => Beyond(s, n) = <<>>)
<1> DEFINE k == Cells(s, n)
           rest == SubSeq(s, k + 2, Len(s))
           junk == [is |-> "junk", w |-> Until(s, k + 1) - n]
<1>1. /\ k \in 0 .. Len(s) /\ Until(s, k) <= n
      /\ k < Len(s) => Until(s, k + 1) > n
  BY CellsFacts
<1>2. Len(s) \in Nat /\ \A j \in 0 .. Len(s) : Until(s, j) \in Nat
  BY WidthOf
<1>3. Beyond(s, n) = IF k = Len(s) THEN <<>>
                     ELSE IF Until(s, k) = n THEN <<s[k + 1]>> \o rest ELSE <<junk>> \o rest
  BY DEF Beyond
<1> HIDE DEF k
<1>4. CASE k = Len(s)
  <2>1. Text(<<>>)
    BY NLFacts, TextOf
  <2> QED
    BY <2>1, <1>3, <1>4
<1>5. CASE k # Len(s)
  <2>1. k + 1 \in 1 .. Len(s) /\ k + 1 \in 0 .. Len(s) /\ k < Len(s) /\ s # <<>>
    <3>1. s = <<>> => Len(s) = 0
      OBVIOUS
    <3> QED
      BY <3>1, <1>1, <1>2, <1>5
  <2>2. s[k + 1].w \in Nat \ {0} /\ Until(s, k + 1) - n \in Nat \ {0}
    <3>1. s[k + 1].w \in Nat \ {0}
      BY <2>1 DEF Text, Wide
    <3>2. Until(s, k + 1) \in Nat /\ Until(s, k + 1) > n
      BY <2>1, <1>1, <1>2
    <3> QED
      BY <3>1, <3>2
  <2>3. junk.w \in Nat \ {0}
    BY <2>2
  <2> HIDE DEF junk
  <2>4. Text(rest)
    <3>1. PICK j \in Nat \ {0} : j = k + 2
      BY <2>1, <1>1, <1>2
    <3>2. Len(s) \in j - 1 .. Len(s)
      BY <2>1, <3>1, <1>1, <1>2
    <3>3. Text(SubSeq(s, j, Len(s)))
      BY <3>2, TextPart
    <3> QED
      BY <3>1, <3>3 DEF rest
  <2> HIDE DEF rest
  <2>5. Text(<<s[k + 1]>>) /\ Text(<<junk>>)
    BY <2>2, <2>3, TextOf
  <2>6. Text(<<s[k + 1]>> \o rest) /\ Text(<<junk>> \o rest)
    BY <2>4, <2>5, Joined
  <2> QED
    BY <2>1, <2>6, <1>3, <1>5
<1> QED
  BY <1>4, <1>5

\* Texts one behind the other are one text, which begins as the first one.
LEMMA FlattenTexts ==
  ASSUME NEW q, q \in Seq(ToSet(q)), \A n \in 1 .. Len(q) : Text(q[n]), Len(q) >= 1
  PROVE  /\ Text(FlattenSeq(q)) /\ Len(q[1]) <= Len(FlattenSeq(q))
         /\ \A k \in 1 .. Len(q[1]) : FlattenSeq(q)[k] = q[1][k]
<1> DEFINE S == UNION {ToSet(q[n]) : n \in 1 .. Len(q)}
<1>1. Len(q) \in Nat /\ 1 \in 1 .. Len(q)
  OBVIOUS
<1>2. \A n \in 1 .. Len(q) : q[n] \in Seq(S)
  <2>1. ASSUME NEW n \in 1 .. Len(q) PROVE q[n] \in Seq(S)
    <3>1. q[n] \in Seq(ToSet(q[n])) /\ ToSet(q[n]) \subseteq S
      BY DEF Text
    <3> HIDE DEF S
    <3> QED
      BY <3>1, SeqMonotonic
  <2> QED
    BY <2>1
<1> HIDE DEF S
<1>3. q \in Seq(Seq(S))
  BY <1>2
<1>4. PICK g \in [0 .. Len(q) -> Seq(S)] :
        /\ g[0] = <<>> /\ \A n \in 1 .. Len(q) : g[n] = g[n - 1] \o q[n]
        /\ FlattenSeq(q) = g[Len(q)]
  BY <1>3, FlattenFacts
<1> DEFINE Begun(t) == /\ Text(t) /\ Len(q[1]) <= Len(t)
                       /\ \A k \in 1 .. Len(q[1]) : t[k] = q[1][k]
           good == {n \in 0 .. Len(q) : n # 0 => Begun(g[n])}
<1>5. 0 \in good
  BY <1>1
<1>6. ASSUME NEW n \in 1 .. Len(q), n - 1 \in good PROVE n \in good
  <2>1. g[n] = g[n - 1] \o q[n] /\ Text(q[n]) /\ n \in 0 .. Len(q) /\ Len(q[n]) \in Nat /\ Len(q[1]) \in Nat
    <3>1. Text(q[n]) /\ Text(q[1])
      BY <1>1
    <3>2. Len(q[n]) \in Nat /\ Len(q[1]) \in Nat
      BY <3>1, WidthOf
    <3>3. g[n] = g[n - 1] \o q[n]
      BY <1>4
    <3>4. n \in 0 .. Len(q)
      BY <1>1
    <3> QED
      BY <3>1, <3>2, <3>3, <3>4
  <2>2. CASE n = 1
    <3>1. g[1] = <<>> \o q[1]
      <4>1. 1 - 1 = 0
        OBVIOUS
      <4> QED
        BY <4>1, <1>1, <1>4
    <3>2. g[1] = q[1]
      BY <3>1, <1>1, <1>2, ConcatEmptySeq
    <3> QED
      BY <2>1, <2>2, <3>2
  <2>3. CASE n # 1
    <3>1. n - 1 # 0 /\ Begun(g[n - 1])
      BY <2>3, <1>1, <1>6
    <3> DEFINE t == g[n - 1]
    <3>2. Text(t) /\ Len(q[1]) <= Len(t) /\ \A k \in 1 .. Len(q[1]) : t[k] = q[1][k]
      BY <3>1
    <3> HIDE DEF t
    <3>3. /\ Text(t \o q[n]) /\ Len(t \o q[n]) = Len(t) + Len(q[n])
          /\ \A k \in 1 .. Len(t) : (t \o q[n])[k] = t[k]
      <4>1. Text(t) /\ Text(q[n])
        BY <2>1, <3>2
      <4> QED
        BY <4>1, Joined
    <3>4. Len(t) \in Nat /\ \A k \in 1 .. Len(q[1]) : k \in 1 .. Len(t)
      <4>1. Len(t) \in Nat
        BY <3>2, WidthOf
      <4> QED
        BY <4>1, <3>2, <2>1
    <3>5. Begun(t \o q[n])
      BY <2>1, <3>2, <3>3, <3>4
    <3> QED
      BY <2>1, <3>5 DEF t
  <2> QED
    BY <2>2, <2>3
<1> HIDE DEF good
<1>7. Len(q) \in good
  <2>1. Len(q) \in 0 .. Len(q)
    BY <1>1
  <2> QED
    BY <2>1, <1>1, <1>5, <1>6, UpTo
<1>8. Begun(FlattenSeq(q))
  BY <1>1, <1>4, <1>7 DEF good
<1> QED
  BY <1>8

----------------------------------------------------------------------------
(* Replies *)

\* A write the client prints as a reply: the header, a text of the length it tells, and a
\* new line behind it.
Replied(m) ==
  /\ Text(m) /\ Len(m) >= 3 /\ m[2] = NL
  /\ m[1].length \in Nat /\ m[1].w = 2 + Digits(m[1].entry) + Digits(m[1].length)
  /\ \E k \in 2 .. Len(m) - 1 : Until(m, k) = Until(m, 2) + m[1].length /\ m[k + 1] = NL

\* What the client counts out of a buffer that begins with a reply is what it wants of it.
LEMMA ShownAsWanted ==
  ASSUME NEW m, Replied(m), NEW b, Text(b), Len(m) <= Len(b), \A k \in 1 .. Len(m) : b[k] = m[k]
  PROVE  Upto(b, premessage(b)) = Wanted(m)
<1>1. /\ Text(m) /\ Len(m) \in Nat /\ Len(b) \in Nat /\ Len(m) >= 3 /\ m[2] = NL
      /\ m[1].length \in Nat /\ m[1].w = 2 + Digits(m[1].entry) + Digits(m[1].length)
  BY WidthOf DEF Replied
<1>2. PICK k \in 2 .. Len(m) - 1 : Until(m, k) = Until(m, 2) + m[1].length /\ m[k + 1] = NL
  BY DEF Replied
<1> DEFINE p == SubSeq(m, 1, k + 1)
           s == SubSeq(m, 3, Len(m))
           y == SubSeq(s, 1, k - 2)
           a == <<m[1], m[2]>>
           L == m[1].length
<1>3. 1 \in 1 .. Len(m) /\ 2 \in 1 .. Len(m) /\ k \in 1 .. Len(m) /\ k + 1 \in 1 .. Len(m) /\ k \in Nat
  BY <1>1
<1>4. Text(p) /\ Len(p) = k + 1 /\ \A n \in 1 .. k + 1 : p[n] = m[n]
  <2>1. PICK x \in 0 .. Len(m) : x = k + 1
    BY <1>1
  <2>2. 1 \in Nat \ {0} /\ x \in 1 - 1 .. Len(m) /\ x - 1 + 1 = x /\ Text(m)
    BY <1>1
  <2>3. /\ Text(SubSeq(m, 1, x)) /\ Len(SubSeq(m, 1, x)) = x - 1 + 1
        /\ \A n \in 1 .. x - 1 + 1 : SubSeq(m, 1, x)[n] = m[1 + n - 1]
    BY <2>2, TextPart
  <2>4. ASSUME NEW n \in 1 .. x PROVE SubSeq(m, 1, x)[n] = m[n]
    <3>1. 1 + n - 1 = n
      OBVIOUS
    <3> QED
      BY <3>1, <2>2, <2>3
  <2> QED
    BY <2>1, <2>2, <2>3, <2>4
<1> HIDE DEF p
<1>5. Until(m, 2) = m[1].w + 1
  <2>1. Until(m, 0) = 0 /\ \A n \in 1 .. Len(m) : Until(m, n) = Until(m, n - 1) + m[n].w
    BY <1>1, WidthOf
  <2>2. Until(m, 1) = Until(m, 0) + m[1].w /\ Until(m, 2) = Until(m, 1) + m[2].w
    BY <2>1, <1>3
  <2>3. m[1].w \in Nat
    BY <1>1, <1>3 DEF Text, Wide
  <2> QED
    BY <2>1, <2>2, <2>3, <1>1, NLFacts
<1>6. Width(p) = 4 + Digits(m[1].entry) + Digits(L) + L
  <2>1. Len(p) <= Len(m) /\ \A n \in 1 .. Len(p) : m[n] = p[n]
    BY <1>1, <1>3, <1>4
  <2>2. Until(m, Len(p)) = Width(p)
    <3>1. Text(m) /\ Text(p)
      BY <1>1, <1>4
    <3> QED
      BY <3>1, <2>1, Begins
  <2>3. Until(m, k + 1) = Until(m, k + 1 - 1) + m[k + 1].w
    <3>1. PICK j \in 1 .. Len(m) : j = k + 1
      BY <1>3
    <3>2. Until(m, j) = Until(m, j - 1) + m[j].w
      BY <1>1, WidthOf
    <3> QED
      BY <3>1, <3>2
  <2>4. k + 1 - 1 = k
    BY <1>3
  <2>5. Until(m, k + 1) = m[1].w + 1 + L + 1
    BY <2>3, <2>4, <1>2, <1>5, NLFacts
  <2> QED
    BY <2>2, <2>5, <1>1, <1>4, DigitsFacts
<1>7. premessage(b) = Width(p)
  <2>1. b[1] = m[1]
    BY <1>3
  <2>2. premessage(b) = 5 + Digits(m[1].entry) + (IF L = 0 THEN 0 ELSE Digits(L) + L - 1)
    BY <2>1 DEF premessage
  <2>3. Digits(0) = 1
    BY DEF Digits
  <2>4. Digits(m[1].entry) \in Nat /\ Digits(L) \in Nat /\ L \in Nat
    BY <1>1, DigitsFacts
  <2> HIDE DEF L
  <2>5. CASE L = 0
    BY <2>2, <2>3, <2>4, <2>5, <1>6
  <2>6. CASE L # 0
    <3>1. premessage(b) = 5 + Digits(m[1].entry) + (Digits(L) + L - 1)
      BY <2>2, <2>6
    <3> QED
      BY <3>1, <2>4, <1>6
  <2> QED
    BY <2>5, <2>6
<1>8. Upto(b, premessage(b)) = p
  <2>1. Len(p) <= Len(b) /\ \A n \in 1 .. Len(p) : b[n] = p[n]
    <3>1. \A n \in 1 .. Len(p) : n \in 1 .. Len(m) /\ n \in 1 .. k + 1
      BY <1>1, <1>3, <1>4
    <3> QED
      BY <3>1, <1>1, <1>3, <1>4
  <2>2. Text(p)
    BY <1>4
  <2>3. Upto(b, Width(p)) = p
    BY <2>1, <2>2, Begins
  <2> QED
    BY <2>3, <1>7
<1>9. Text(s) /\ a \o s = m
  BY <1>1, HeaderAndRest
<1>10. Text(a) /\ Len(a) = 2 /\ a[1] = m[1] /\ a[2] = m[2]
  <2>1. m[1].w \in Nat \ {0} /\ m[2].w \in Nat \ {0}
    BY <1>1, <1>3 DEF Text, Wide
  <2> QED
    BY <2>1, TextOf
<1> HIDE DEF a, s
<1>11. Len(s) \in Nat /\ Len(m) = 2 + Len(s) /\ \A n \in 1 .. Len(s) : m[2 + n] = s[n]
  <2>1. Text(a) /\ Text(s)
    BY <1>9, <1>10
  <2>2. Len(a \o s) = Len(a) + Len(s) /\ \A n \in 1 .. Len(s) : (a \o s)[Len(a) + n] = s[n]
    BY <2>1, Joined
  <2>3. Len(s) \in Nat
    BY <2>1, WidthOf
  <2> QED
    BY <2>2, <2>3, <1>9, <1>10
<1>12. k - 2 \in 0 .. Len(s)
  BY <1>3, <1>11
<1>13. Until(s, k - 2) = L
  <2>1. Text(a) /\ Text(s)
    BY <1>9, <1>10
  <2>2. Until(a \o s, Len(a) + (k - 2)) = Width(a) + Until(s, k - 2)
    BY <2>1, <1>12, UntilJoin
  <2>3. Len(a) + (k - 2) = k
    BY <1>3, <1>10
  <2>4. Until(m, 2) = Width(a)
    <3>1. Len(a) <= Len(m) /\ \A n \in 1 .. Len(a) : m[n] = a[n]
      <4>1. \A n \in 1 .. 2 : n = 1 \/ n = 2
        OBVIOUS
      <4> QED
        BY <4>1, <1>1, <1>10
    <3>2. Text(m) /\ Text(a)
      BY <1>1, <1>10
    <3>3. Until(m, Len(a)) = Width(a)
      BY <3>1, <3>2, Begins
    <3> QED
      BY <3>3, <1>10
  <2>5. Width(a) \in Nat /\ Until(s, k - 2) \in Nat
    BY <2>1, <1>12, WidthOf
  <2>6. Until(m, k) = Width(a) + Until(s, k - 2)
    BY <2>2, <2>3, <1>9
  <2> QED
    BY <2>4, <2>5, <2>6, <1>1, <1>2
<1>14. Upto(s, L) = y
  <2>1. s \in Seq(ToSet(s)) /\ Wide(s)
    BY <1>9 DEF Text
  <2>2. Cells(s, Until(s, k - 2)) = k - 2
    BY <2>1, <1>12, CellsOf
  <2> QED
    BY <2>2, <1>13 DEF Upto
<1>15. Text(y) /\ Len(y) = k - 2 /\ \A n \in 1 .. k - 2 : y[n] = m[2 + n]
  <2>1. PICK x \in 0 .. Len(s) : x = k - 2
    BY <1>12
  <2>2. 1 \in Nat \ {0} /\ x \in 1 - 1 .. Len(s) /\ x - 1 + 1 = x /\ Text(s)
    BY <1>9, <1>11
  <2>3. /\ Text(SubSeq(s, 1, x)) /\ Len(SubSeq(s, 1, x)) = x - 1 + 1
        /\ \A n \in 1 .. x - 1 + 1 : SubSeq(s, 1, x)[n] = s[1 + n - 1]
    BY <2>2, TextPart
  <2>4. ASSUME NEW n \in 1 .. x PROVE SubSeq(s, 1, x)[n] = m[2 + n]
    <3>1. 1 + n - 1 = n /\ n \in 1 .. Len(s)
      BY <1>11
    <3> QED
      BY <3>1, <2>2, <2>3, <1>11
  <2> QED
    BY <2>1, <2>2, <2>3, <2>4
<1> HIDE DEF y
<1>16. SubSeq(m, 1, 2) = a
  <2> DEFINE x == SubSeq(m, 1, 2)
  <2>1. 1 \in Nat \ {0} /\ 2 \in 1 - 1 .. Len(m) /\ Text(m)
    BY <1>1
  <2>2. Text(x) /\ Len(x) = 2 - 1 + 1 /\ \A n \in 1 .. 2 - 1 + 1 : x[n] = m[1 + n - 1]
    BY <2>1, TextPart
  <2> HIDE DEF x
  <2>3. Len(x) = 2 /\ x[1] = m[1] /\ x[2] = m[2]
    <3>1. 1 \in 1 .. 2 - 1 + 1 /\ 2 \in 1 .. 2 - 1 + 1 /\ 1 + 1 - 1 = 1 /\ 1 + 2 - 1 = 2 /\ 2 - 1 + 1 = 2
      OBVIOUS
    <3>2. x[1] = m[1 + 1 - 1] /\ x[2] = m[1 + 2 - 1]
      BY <3>1, <2>2
    <3> QED
      BY <3>1, <3>2, <2>2
  <2>4. x \in Seq(ToSet(x) \cup ToSet(a)) /\ a \in Seq(ToSet(x) \cup ToSet(a))
    BY <2>2, <1>10, SeqMonotonic DEF Text
  <2>5. \A n \in 1 .. Len(x) : x[n] = a[n]
    <3>1. \A n \in 1 .. 2 : n = 1 \/ n = 2
      OBVIOUS
    <3> QED
      BY <3>1, <2>3, <1>10
  <2>6. x = a
    BY <2>3, <2>4, <2>5, <1>10, SeqEqual
  <2> QED
    BY <2>6 DEF x
<1>17. Wanted(m) = a \o y \o <<NL>>
  BY <1>14, <1>16 DEF Wanted, s
<1> DEFINE c == a \o y
           w == c \o <<NL>>
<1>18. Text(c) /\ Len(c) = k /\ c[1] = m[1] /\ c[2] = m[2] /\ \A n \in 1 .. k - 2 : c[2 + n] = m[2 + n]
  <2>1. Text(a) /\ Text(y)
    BY <1>10, <1>15
  <2>2. /\ Text(c) /\ Len(c) = Len(a) + Len(y)
        /\ \A n \in 1 .. Len(a) : c[n] = a[n]
        /\ \A n \in 1 .. Len(y) : c[Len(a) + n] = y[n]
    BY <2>1, Joined
  <2> HIDE DEF c
  <2>3. 1 \in 1 .. Len(a) /\ 2 \in 1 .. Len(a) /\ Len(a) + Len(y) = k
    BY <1>3, <1>10, <1>15
  <2> QED
    BY <2>2, <2>3, <1>10, <1>15
<1> HIDE DEF c
<1>19. Text(w) /\ Len(w) = k + 1 /\ w[k + 1] = NL /\ \A n \in 1 .. k : w[n] = c[n]
  <2>1. Text(c) /\ Text(<<NL>>) /\ Len(<<NL>>) = 1 /\ 1 \in 1 .. Len(<<NL>>)
    BY <1>18, NLFacts
  <2>2. /\ Text(w) /\ Len(w) = Len(c) + Len(<<NL>>)
        /\ \A n \in 1 .. Len(c) : w[n] = c[n]
        /\ \A n \in 1 .. Len(<<NL>>) : w[Len(c) + n] = <<NL>>[n]
    <3>1. Text(c) /\ Text(<<NL>>)
      BY <2>1
    <3> QED
      BY <3>1, Joined
  <2> HIDE DEF w
  <2>3. w[Len(c) + 1] = <<NL>>[1]
    BY <2>1, <2>2
  <2> QED
    BY <2>1, <2>2, <2>3, <1>18, NLFacts
<1> HIDE DEF w
<1>20. ASSUME NEW n \in 1 .. k + 1 PROVE w[n] = p[n]
  <2>1. CASE n = 1 \/ n = 2
    <3>1. n \in 1 .. k
      BY <2>1
    <3> QED
      BY <2>1, <3>1, <1>4, <1>18, <1>19
  <2>2. CASE n = k + 1
    BY <2>2, <1>2, <1>4, <1>19
  <2>3. CASE n # 1 /\ n # 2 /\ n # k + 1
    <3>1. n \in 1 .. k /\ n - 2 \in 1 .. k - 2 /\ 2 + (n - 2) = n
      BY <2>3, <1>3
    <3>2. w[n] = c[n] /\ c[2 + (n - 2)] = m[2 + (n - 2)]
      BY <3>1, <1>18, <1>19
    <3> QED
      BY <3>1, <3>2, <1>4
  <2> QED
    BY <2>1, <2>2, <2>3
<1>21. w = p
  <2>1. w \in Seq(ToSet(w) \cup ToSet(p)) /\ p \in Seq(ToSet(w) \cup ToSet(p))
    BY <1>4, <1>19, SeqMonotonic DEF Text
  <2> QED
    BY <2>1, <1>4, <1>19, <1>20, SeqEqual
<1> QED
  BY <1>8, <1>17, <1>21 DEF w, c

LEMMA ReplyTo ==
  ASSUME NEW h, h.length \in Nat, h.w = 2 + Digits(h.entry) + Digits(h.length),
         NEW text, Text(text)
  PROVE  /\ Text(<<h, NL>> \o text \o <<NL>>)
         /\ (\E k \in 0 .. Len(text) : /\ Until(text, k) = h.length
                                       /\ k < Len(text) => text[k + 1] = NL)
              => Replied(<<h, NL>> \o text \o <<NL>>)
<1> DEFINE a == <<h, NL>>
           b == a \o text
           m == b \o <<NL>>
<1>1. h.w \in Nat \ {0}
  BY DigitsFacts
<1>2. Text(a) /\ Len(a) = 2 /\ a[1] = h /\ a[2] = NL
  BY <1>1, NLFacts, TextOf
<1> HIDE DEF a
<1>3. /\ Text(b) /\ Len(b) = 2 + Len(text) /\ Len(text) \in Nat /\ b[1] = h /\ b[2] = NL
      /\ \A n \in 1 .. Len(text) : b[2 + n] = text[n]
  <2>1. Text(a) /\ Text(text)
    BY <1>2
  <2>2. /\ Text(b) /\ Len(b) = Len(a) + Len(text)
        /\ \A n \in 1 .. Len(a) : b[n] = a[n]
        /\ \A n \in 1 .. Len(text) : b[Len(a) + n] = text[n]
    BY <2>1, Joined
  <2>3. Len(text) \in Nat
    BY <2>1, WidthOf
  <2> HIDE DEF b
  <2>4. 1 \in 1 .. Len(a) /\ 2 \in 1 .. Len(a)
    BY <1>2
  <2> QED
    BY <2>2, <2>3, <2>4, <1>2
<1>4. \A k \in 0 .. Len(text) : Until(b, 2 + k) = Width(a) + Until(text, k)
  <2>1. Text(a) /\ Text(text)
    BY <1>2
  <2>2. \A k \in 0 .. Len(text) : Until(b, Len(a) + k) = Width(a) + Until(text, k)
    BY <2>1, UntilJoin
  <2> HIDE DEF b
  <2> QED
    BY <2>2, <1>2
<1> HIDE DEF b
<1>5. /\ Text(m) /\ Len(m) = 3 + Len(text) /\ m[3 + Len(text)] = NL
      /\ \A n \in 1 .. 2 + Len(text) : m[n] = b[n]
  <2>1. Text(b) /\ Text(<<NL>>)
    BY <1>3, NLFacts
  <2>2. /\ Text(m) /\ Len(m) = Len(b) + Len(<<NL>>)
        /\ \A n \in 1 .. Len(b) : m[n] = b[n]
        /\ \A n \in 1 .. Len(<<NL>>) : m[Len(b) + n] = <<NL>>[n]
    BY <2>1, Joined
  <2> HIDE DEF m
  <2>3. m[Len(b) + 1] = <<NL>>[1]
    <3>1. 1 \in 1 .. Len(<<NL>>)
      BY NLFacts
    <3> QED
      BY <3>1, <2>2
  <2>4. Len(b) + 1 = 3 + Len(text) /\ Len(b) + Len(<<NL>>) = 3 + Len(text)
    BY <1>3, NLFacts
  <2> QED
    BY <2>2, <2>3, <2>4, <1>3, NLFacts
<1> HIDE DEF m
<1>6. ASSUME NEW k \in 0 .. Len(text), Until(text, k) = h.length, k < Len(text) => text[k + 1] = NL
      PROVE  Replied(m)
  <2>1. 1 \in 1 .. 2 + Len(text) /\ 2 \in 1 .. 2 + Len(text)
    BY <1>3
  <2>2. m[1] = h /\ m[2] = NL /\ Len(m) >= 3
    BY <2>1, <1>3, <1>5
  <2>3. ASSUME NEW n \in 0 .. Len(text) PROVE Until(m, 2 + n) = Width(a) + Until(text, n)
    <3>1. 2 + n \in 0 .. Len(b) /\ Len(b) <= Len(m)
      BY <1>3, <1>5
    <3>2. \A j \in 1 .. Len(b) : m[j] = b[j]
      BY <1>3, <1>5
    <3>3. Text(m) /\ Text(b)
      BY <1>3, <1>5
    <3>4. Until(m, 2 + n) = Until(b, 2 + n)
      <4>1. /\ m \in Seq(ToSet(m) \cup ToSet(b)) /\ Wide(m) /\ b \in Seq(ToSet(m) \cup ToSet(b)) /\ Wide(b)
        BY <3>3, SeqMonotonic DEF Text
      <4>2. Len(b) \in Nat /\ Len(b) <= Len(b)
        BY <1>3
      <4> QED
        BY <3>1, <3>2, <4>1, <4>2, UntilSame
    <3> QED
      BY <3>4, <1>4
  <2>4. Until(text, 0) = 0 /\ 0 \in 0 .. Len(text) /\ 2 + 0 = 2 /\ Width(a) \in Nat
    BY <1>2, <1>3, WidthOf
  <2>5. Until(m, 2 + k) = Until(m, 2) + m[1].length
    BY <2>2, <2>3, <2>4, <1>6
  <2>6. 2 + k \in 2 .. Len(m) - 1 /\ m[2 + k + 1] = NL
    <3>1. 2 + k \in 2 .. Len(m) - 1
      BY <1>3, <1>5
    <3>2. CASE k < Len(text)
      <4>1. 2 + k + 1 = 2 + (k + 1) /\ k + 1 \in 1 .. Len(text) /\ 2 + (k + 1) \in 1 .. 2 + Len(text)
        BY <3>2, <1>3
      <4>2. m[2 + (k + 1)] = b[2 + (k + 1)] /\ b[2 + (k + 1)] = text[k + 1]
        BY <4>1, <1>3, <1>5
      <4> QED
        BY <3>1, <3>2, <4>1, <4>2, <1>6
    <3>3. CASE k = Len(text)
      <4>1. 2 + k + 1 = 3 + Len(text)
        BY <3>3, <1>3
      <4> QED
        BY <3>1, <4>1, <1>5
    <3> QED
      BY <3>2, <3>3, <1>3
  <2> QED
    BY <2>2, <2>5, <2>6, <1>5 DEF Replied
<1> QED
  BY <1>5, <1>6 DEF m, b, a

\* The answer to an update.
LEMMA StatusReply ==
  ASSUME NEW n
  PROVE  LET m == <<Header("!", n, "e", 0), NL, NL>> IN Text(m) /\ Replied(m)
<1> DEFINE h == Header("!", n, "e", 0)
           a == <<h, NL>>
<1>1. h.length = 0 /\ h.length \in Nat /\ h.w = 2 + Digits(h.entry) + Digits(h.length)
  BY DEF Header
<1> HIDE DEF h
<1>2. <<h, NL>> \o <<>> \o <<NL>> = <<h, NL, NL>>
  <2>1. a \in Seq({h, NL}) /\ <<>> \in Seq({h, NL})
    OBVIOUS
  <2>2. a \o <<>> = a
    BY <2>1, ConcatEmptySeq
  <2>3. a \o <<NL>> = <<h, NL, NL>>
    <3> DEFINE x == a \o <<NL>>
               y == <<h, NL, NL>>
    <3>1. a \in Seq({h, NL}) /\ <<NL>> \in Seq({h, NL}) /\ Len(a) = 2 /\ Len(<<NL>>) = 1
      OBVIOUS
    <3>2. /\ x \in Seq({h, NL}) /\ Len(x) = 3
          /\ \A k \in 1 .. 3 : x[k] = IF k <= 2 THEN a[k] ELSE <<NL>>[k - 2]
      BY <3>1, ConcatProperties
    <3>3. y \in Seq({h, NL}) /\ Len(y) = 3 /\ y[1] = h /\ y[2] = NL /\ y[3] = NL
      OBVIOUS
    <3>4. x[1] = h /\ x[2] = NL /\ x[3] = NL
      <4>1. 1 \in 1 .. 3 /\ 2 \in 1 .. 3 /\ 3 \in 1 .. 3 /\ 3 - 2 = 1
        OBVIOUS
      <4>2. x[1] = a[1] /\ x[2] = a[2] /\ x[3] = <<NL>>[1]
        <5> HIDE DEF x, a
        <5> QED
          BY <4>1, <3>2
      <4> QED
        BY <4>2
    <3> HIDE DEF x, y
    <3>5. \A k \in 1 .. 3 : x[k] = y[k]
      <4>1. \A k \in 1 .. 3 : k = 1 \/ k = 2 \/ k = 3
        OBVIOUS
      <4> QED
        BY <4>1, <3>3, <3>4
    <3>6. x = y
      BY <3>2, <3>3, <3>5, SeqEqual
    <3> QED
      BY <3>6 DEF x, y
  <2> QED
    BY <2>2, <2>3
<1>3. Text(<<>>) /\ Len(<<>>) = 0 /\ Until(<<>>, 0) = 0 /\ 0 \in 0 .. 0
  <2>1. Text(<<>>) /\ Len(<<>>) = 0
    BY NLFacts, TextOf
  <2>2. Until(<<>>, 0) = 0
    BY <2>1, WidthOf
  <2> QED
    BY <2>1, <2>2
<1>4. Text(<<h, NL>> \o <<>> \o <<NL>>) /\ Replied(<<h, NL>> \o <<>> \o <<NL>>)
  <2>1. 0 \in 0 .. Len(<<>>) /\ Until(<<>>, 0) = h.length /\ ~ (0 < Len(<<>>))
    BY <1>1, <1>3
  <2> QED
    BY <2>1, <1>1, <1>3, ReplyTo
<1> QED
  BY <1>2, <1>4 DEF h

----------------------------------------------------------------------------
(* What is on the board and on its way to the client *)

\* An entry holds a text and, if texts come in one piece, one as long as it tells.
Holds(e) == e.length \in Nat /\ Text(e.text) /\ (whole => Terminated(e))

LEMMA QueryReply ==
  ASSUME NEW n \in Entries, Holds(board[n])
  PROVE  Text(ReplyOf(n)) /\ (whole => Replied(ReplyOf(n)))
<1> DEFINE e == board[n]
           h == Header("!", n, e.mode, e.length)
<1>1. h.length = e.length /\ h.length \in Nat /\ h.w = 2 + Digits(h.entry) + Digits(h.length) /\ Text(e.text)
  BY DEF Header, Holds
<1>2. ReplyOf(n) = <<h, NL>> \o e.text \o <<NL>>
  BY DEF ReplyOf
<1>3. whole => \E k \in 0 .. Len(e.text) : Until(e.text, k) = e.length /\ (k < Len(e.text) => e.text[k + 1] = NL)
  <2>1. whole => Terminated(e)
    BY DEF Holds
  <2> HIDE DEF e
  <2> QED
    BY <2>1 DEF Terminated
<1> HIDE DEF h, e
<1>4. Text(<<h, NL>> \o e.text \o <<NL>>)
  BY <1>1, ReplyTo
<1>5. ASSUME whole PROVE Replied(<<h, NL>> \o e.text \o <<NL>>)
  <2>1. PICK k \in 0 .. Len(e.text) : Until(e.text, k) = h.length /\ (k < Len(e.text) => e.text[k + 1] = NL)
    BY <1>1, <1>3, <1>5
  <2> QED
    BY <2>1, <1>1, ReplyTo
<1> QED
  BY <1>2, <1>4, <1>5

\* What an update leaves on the board.
LEMMA BoardUpdated ==
  ASSUME RequestInv, NEW tail \in Tails, ReadText(tail)
  PROVE  \E e : /\ Holds(e) /\ board' = [board EXCEPT ![thread.req.entry] = e]
                /\ thread'.pc = "second" /\ Text(thread'.reply) /\ Replied(thread'.reply)
                /\ UNCHANGED <<whole, open, toClient>>
<1>1. /\ thread.pc = "text" /\ made # <<>> /\ thread.req.is = "@" /\ thread.req = made[1][1]
      /\ Text(toServer) /\ Requested(made)
  BY DEF RequestInv, ReadText, TakesText
<1>2. Laid(<<thread.req, NL>> \o toServer, made, 0)
  <2>1. PICK r \in 0 .. Len(Stream) : Stands(r)
    BY <1>1 DEF RequestInv
  <2> QED
    BY <2>1, <1>1 DEF Stands, Stream
<1>3. PICK m : m = made[1]
  OBVIOUS
<1> DEFINE t == SubSeq(m, 3, Len(m))
<1>4. Text(t) /\ Upto(toServer, thread.req.length + 1) = t /\ Width(t) = thread.req.length + 1
  BY <1>1, <1>2, <1>3, TextTaken
<1>5. /\ Len(m) >= 3 /\ m[Len(m)] = NL /\ Len(m) \in Nat /\ Text(m)
      /\ m[1].length \in Nat /\ m[1].length + 1 = Width(t)
  <2>1. Len(made) # 0 /\ Len(made) \in Nat
    BY <1>1, RequestedSeq
  <2>2. Request(m)
    BY <2>1, <1>1, <1>3 DEF Requested
  <2>3. m[1].is = "@"
    BY <1>1, <1>3
  <2> QED
    BY <2>2, <2>3 DEF Request, Text
<1>6. Len(t) \in Nat \ {0} /\ t[Len(t)] = NL
  <2>1. 3 \in Nat \ {0} /\ Len(m) \in 3 - 1 .. Len(m) /\ Text(m)
    BY <1>5
  <2>2. /\ Len(t) = Len(m) - 3 + 1
        /\ \A k \in 1 .. Len(m) - 3 + 1 : t[k] = m[3 + k - 1]
    BY <2>1, TextPart
  <2> HIDE DEF t
  <2>3. Len(t) \in 1 .. Len(m) - 3 + 1 /\ 3 + Len(t) - 1 = Len(m)
    BY <2>2, <1>5
  <2> QED
    BY <2>2, <2>3, <1>5
<1> HIDE DEF t
<1>7. PICK k \in 1 .. Len(t) :
        /\ whole => k = Len(t)
        /\ board' = [board EXCEPT ![thread.req.entry] =
             [mode |-> thread.req.mode, length |-> thread.req.length, text |-> SubSeq(t, 1, k) \o tail]]
        /\ thread' = [thread EXCEPT !.pc = "second", !.text = SubSeq(t, 1, k),
                        !.reply = <<Header("!", thread.req.entry, "e", 0), NL, NL>>]
  <2>1. thread.req.length + 1 \in Nat /\ Upto(toServer, thread.req.length + 1) = t
    BY <1>4, WidthOf
  <2>2. PICK k \in 1 .. Len(t) :
          /\ whole => k = Len(t)
          /\ Updates(SubSeq(t, 1, k), tail)
    BY <1>4, <2>1, PieceRead
  <2> QED
    BY <2>2 DEF Updates
<1> DEFINE x == SubSeq(t, 1, k)
           e == [mode |-> thread.req.mode, length |-> thread.req.length, text |-> x \o tail]
<1>8. e.length \in Nat
  BY <1>1, <1>3, <1>5
<1>9. Text(tail)
  <2>1. tail \in Seq(ToSet(tail)) /\ \A c \in ToSet(tail) : c.w \in Nat \ {0}
    BY TailsAssumption
  <2>2. \A n \in 1 .. Len(tail) : tail[n] \in ToSet(tail)
    BY <2>1 DEF ToSet
  <2> QED
    BY <2>1, <2>2 DEF Text, Wide
<1>10. Text(x)
  <2>1. 1 \in Nat \ {0} /\ k \in 1 - 1 .. Len(t) /\ Text(t)
    BY <1>4, <1>6
  <2> QED
    BY <2>1, TextPart
<1>11. Text(x \o tail)
  BY <1>9, <1>10, Joined
<1>12. ASSUME whole PROVE Terminated(e)
  <2>1. x = t
    <3>1. t \in Seq(ToSet(t)) /\ k = Len(t)
      BY <1>4, <1>7, <1>12 DEF Text
    <3> QED
      BY <3>1, SubSeqFull
  <2> DEFINE y == t \o tail
  <2>2. e.text = y /\ e.length = m[1].length
    BY <2>1, <1>1, <1>3
  <2> HIDE DEF x, e
  <2>3. PICK n \in 0 .. Len(t) : n = Len(t) - 1
    <3>1. Len(t) - 1 \in 0 .. Len(t)
      BY <1>6
    <3> QED
      BY <3>1
  <2>4. n + 1 = Len(t) /\ Len(t) \in 1 .. Len(t)
    BY <2>3, <1>6
  <2>5. Until(t, Len(t)) = Until(t, Len(t) - 1) + t[Len(t)].w
    BY <2>4, <1>4, WidthOf
  <2>6. Until(t, n) \in Nat
    BY <1>4, WidthOf
  <2>7. Until(t, n) = m[1].length
    BY <2>3, <2>5, <2>6, <1>5, <1>6, NLFacts DEF Width
  <2>8. /\ Text(y) /\ Len(y) = Len(t) + Len(tail) /\ \A j \in 1 .. Len(t) : y[j] = t[j]
    BY <1>4, <1>9, Joined
  <2>9. Len(tail) \in Nat
    BY <1>9, WidthOf
  <2> HIDE DEF y
  <2>10. Until(y, n) = Until(t, n)
    <3>1. y \in Seq(ToSet(y) \cup ToSet(t)) /\ Wide(y) /\ t \in Seq(ToSet(y) \cup ToSet(t)) /\ Wide(t)
      BY <2>8, <1>4, SeqMonotonic DEF Text
    <3>2. Len(t) \in Nat /\ Len(t) <= Len(y) /\ Len(t) <= Len(t)
      BY <2>8, <2>9, <1>6
    <3> QED
      BY <3>1, <3>2, <2>8, UntilSame
  <2>11. y[n + 1] = NL /\ n \in 0 .. Len(y)
    BY <2>4, <2>8, <2>9, <1>6
  <2> QED
    BY <2>2, <2>7, <2>10, <2>11 DEF Terminated
<1>13. Holds(e)
  <2>1. e.text = x \o tail
    OBVIOUS
  <2> QED
    BY <2>1, <1>8, <1>11, <1>12 DEF Holds
<1>14. /\ thread'.pc = "second" /\ thread'.reply = <<Header("!", thread.req.entry, "e", 0), NL, NL>>
  <2>1. thread = [pc |-> thread.pc, req |-> thread.req, text |-> thread.text, reply |-> thread.reply]
    BY DEF RequestInv
  <2> QED
    BY <2>1, <1>7
<1>15. UNCHANGED <<whole, open, toClient>>
  BY DEF ReadText, TakesText
<1>16. board' = [board EXCEPT ![thread.req.entry] = e]
  BY <1>7
<1> HIDE DEF e
<1> QED
  BY <1>13, <1>14, <1>15, <1>16, StatusReply

\* One more write, and the writes one read takes.
LEMMA WritesAppend ==
  ASSUME NEW q, q \in Seq(ToSet(q)), NEW m
  PROVE  /\ Append(q, m) \in Seq(ToSet(Append(q, m)))
         /\ Len(Append(q, m)) = Len(q) + 1 /\ Len(q) \in Nat
         /\ \A n \in 1 .. Len(q) : Append(q, m)[n] = q[n]
         /\ Append(q, m)[Len(q) + 1] = m
<1> DEFINE x == Append(q, m)
           S == ToSet(q) \cup {m}
<1>1. q \in Seq(S)
  BY SeqMonotonic
<1> HIDE DEF S
<1>2. m \in S
  BY DEF S
<1>3. x \in Seq(S) /\ Len(x) = Len(q) + 1 /\ Len(q) \in Nat
  BY <1>1, <1>2
<1>4. (\A n \in 1 .. Len(q) : x[n] = q[n]) /\ x[Len(q) + 1] = m
  BY <1>1, <1>2
<1> HIDE DEF x
<1>5. x \in Seq(ToSet(x))
  BY <1>3, SomeSeq
<1> QED
  BY <1>3, <1>4, <1>5 DEF x

LEMMA WritesCut ==
  ASSUME NEW q, q \in Seq(ToSet(q)), NEW k \in 1 .. Len(q)
  PROVE  /\ SubSeq(q, 1, k) \in Seq(ToSet(SubSeq(q, 1, k))) /\ Len(SubSeq(q, 1, k)) = k
         /\ \A n \in 1 .. k : SubSeq(q, 1, k)[n] = q[n]
         /\ SubSeq(q, k + 1, Len(q)) \in Seq(ToSet(SubSeq(q, k + 1, Len(q))))
         /\ Len(SubSeq(q, k + 1, Len(q))) = Len(q) - k /\ Len(q) \in Nat
         /\ \A n \in 1 .. Len(q) - k : SubSeq(q, k + 1, Len(q))[n] = q[k + n]
<1> DEFINE x == SubSeq(q, 1, k)
           y == SubSeq(q, k + 1, Len(q))
<1>1. Len(q) \in Nat /\ k \in Nat /\ k <= Len(q) /\ k >= 1
  OBVIOUS
<1>2. x \in Seq(ToSet(q)) /\ Len(x) = k /\ \A n \in 1 .. k : x[n] = q[n]
  <2>1. Len(x) = k - 1 + 1 /\ \A n \in 1 .. k - 1 + 1 : x[n] = q[1 + n - 1]
    BY <1>1, SubSeqProperties
  <2>2. x \in Seq(ToSet(q))
    BY <1>1, SubSeqProperties
  <2> HIDE DEF x
  <2>3. k - 1 + 1 = k /\ \A n \in 1 .. k : 1 + n - 1 = n
    BY <1>1
  <2> QED
    BY <2>1, <2>2, <2>3
<1>3. y \in Seq(ToSet(q)) /\ Len(y) = Len(q) - k /\ \A n \in 1 .. Len(q) - k : y[n] = q[k + n]
  <2> DEFINE j == k + 1
             l == Len(q)
  <2>1. j \in Nat \ {0} /\ l \in j - 1 .. Len(q)
    BY <1>1
  <2>2. /\ SubSeq(q, j, l) \in Seq(ToSet(q)) /\ Len(SubSeq(q, j, l)) = l - j + 1
        /\ \A n \in 1 .. l - j + 1 : SubSeq(q, j, l)[n] = q[j + n - 1]
    <3> HIDE DEF j, l
    <3> QED
      BY <1>1, <2>1, SubSeqProperties
  <2>3. l - j + 1 = Len(q) - k /\ \A n \in 1 .. Len(q) - k : j + n - 1 = k + n
    BY <1>1
  <2> HIDE DEF y
  <2>4. y = SubSeq(q, j, l)
    BY DEF y
  <2> HIDE DEF j, l
  <2> QED
    BY <2>2, <2>3, <2>4
<1> HIDE DEF x, y
<1>4. x \in Seq(ToSet(x)) /\ y \in Seq(ToSet(y))
  BY <1>2, <1>3, SomeSeq
<1> QED
  BY <1>1, <1>2, <1>3, <1>4 DEF x, y

\* What is on the board.
Entered == DOMAIN board = Entries /\ \A n \in Entries : Holds(board[n])

\* What the thread is about to write.
InHand == thread.pc \in {"first", "second"} => Text(thread.reply) /\ (whole => Replied(thread.reply))

\* What the client has not read: the greeting, and behind it replies only.
Coming ==
  /\ toClient \in Seq(ToSet(toClient))
  /\ \A n \in 1 .. Len(toClient) : Text(toClient[n])
  /\ client = "greeting" =>
       /\ open /\ toServer = <<>> /\ shown = Nothing /\ Len(toClient) <= 1
       /\ \/ thread.pc = "greet" /\ toClient = <<>>
          \/ thread.pc = "header"
  /\ client # "greeting" =>
       /\ thread.pc # "greet"
       /\ whole => \A n \in 1 .. Len(toClient) : Replied(toClient[n])

\* What is in main's buffer: nothing where the answer to an update is added to it.
Buffered == Text(buf) /\ (client = "plain" => buf = <<>>)

ReplyInv == Entered /\ InHand /\ Coming /\ Buffered /\ ShowsWhatCame

LEMMA RepliesInitially == Init => ReplyInv
<1> SUFFICES ASSUME Init PROVE ReplyInv
  OBVIOUS
<1>1. Text(<<>>)
  BY NLFacts, TextOf
<1>2. Entered
  <2>1. board \in Boards /\ DOMAIN board = Entries
    BY BoardsAssumption DEF Init, RequestsInit
  <2>2. ASSUME NEW n \in Entries PROVE Holds(board[n])
    <3>1. /\ board[n].text \in Seq(ToSet(board[n].text)) /\ \A c \in ToSet(board[n].text) : c.w \in Nat \ {0}
          /\ board[n].length \in Nat /\ Terminated(board[n])
      BY <2>1, EntriesTerminated
    <3>2. \A k \in 1 .. Len(board[n].text) : board[n].text[k] \in ToSet(board[n].text)
      BY <3>1 DEF ToSet
    <3>3. Text(board[n].text)
      BY <3>1, <3>2 DEF Text, Wide
    <3> QED
      BY <3>1, <3>3 DEF Holds
  <2> QED
    BY <2>1, <2>2 DEF Entered
<1>3. thread.pc = "greet" /\ open /\ toServer = <<>> /\ toClient = <<>>
  BY DEF Init, RequestsInit, Idle
<1>4. client = "greeting" /\ buf = <<>> /\ shown = Nothing
  BY DEF Init
<1>5. <<>> \in Seq(ToSet(<<>>)) /\ Len(<<>>) = 0
  BY <1>1 DEF Text
<1>6. InHand
  BY <1>3 DEF InHand
<1>7. Coming
  BY <1>3, <1>4, <1>5 DEF Coming
<1>8. Buffered
  BY <1>1, <1>4 DEF Buffered
<1>9. ShowsWhatCame
  BY <1>4 DEF ShowsWhatCame, Nothing
<1> QED
  BY <1>2, <1>6, <1>7, <1>8, <1>9 DEF ReplyInv

\* One more reply for the client.
LEMMA ReplyWritten ==
  ASSUME Coming, client # "greeting", NEW m, Text(m), whole => Replied(m), Writes(m),
         thread'.pc # "greet", UNCHANGED <<whole, client>>
  PROVE  Coming'
<1>1. /\ toClient \in Seq(ToSet(toClient)) /\ \A n \in 1 .. Len(toClient) : Text(toClient[n])
      /\ whole => \A n \in 1 .. Len(toClient) : Replied(toClient[n])
  BY DEF Coming
<1>2. CASE open
  <2>1. toClient' = Append(toClient, m)
    BY <1>2 DEF Writes
  <2>2. /\ toClient' \in Seq(ToSet(toClient')) /\ Len(toClient') = Len(toClient) + 1 /\ Len(toClient) \in Nat
        /\ \A n \in 1 .. Len(toClient) : toClient'[n] = toClient[n]
        /\ toClient'[Len(toClient) + 1] = m
    BY <1>1, <2>1, WritesAppend
  <2>3. \A n \in 1 .. Len(toClient') : n \in 1 .. Len(toClient) \/ n = Len(toClient) + 1
    BY <2>2
  <2>4. \A n \in 1 .. Len(toClient') : Text(toClient'[n])
    BY <1>1, <2>2, <2>3
  <2>5. whole => \A n \in 1 .. Len(toClient') : Replied(toClient'[n])
    BY <1>1, <2>2, <2>3
  <2> QED
    BY <2>2, <2>4, <2>5 DEF Coming
<1>3. CASE ~open
  <2>1. toClient' = toClient
    BY <1>3 DEF Writes
  <2> QED
    BY <1>1, <2>1 DEF Coming
<1> QED
  BY <1>2, <1>3

LEMMA ServeKeepsReplies ==
  ASSUME RequestInv, ReplyInv, Serve, UNCHANGED <<client, buf, shown, came>>
  PROVE  ReplyInv'
<1>1. whole' = whole /\ open' = open
  BY DEF Serve, Greet, ReadQuery, ReadUpdate, IgnoreLine, RunOff, ReadsLine, ReadText, TakesText, Reply, HangUp, HangUpInText
<1>2. Buffered' /\ ShowsWhatCame'
  BY <1>1 DEF ReplyInv, Buffered, ShowsWhatCame
<1>3. Entered /\ InHand /\ Coming
  BY DEF ReplyInv
<1>4. ASSUME UNCHANGED board PROVE Entered'
  BY <1>1, <1>3, <1>4 DEF Entered, Holds
<1>5. ASSUME client # "greeting", thread'.pc # "greet", UNCHANGED toClient PROVE Coming'
  BY <1>1, <1>3, <1>5 DEF Coming
<1>6. client # "greeting" \/ toServer = <<>>
  BY <1>3 DEF Coming
<1>7. CASE Greet
  <2>1. /\ thread.pc = "greet" /\ thread' = Idle
        /\ Writes(<<[is |-> "greeting", w |-> 32 + Digits(WHITEBOARD_SIZE)]>>)
        /\ UNCHANGED <<whole, open, toServer, board>>
    BY <1>7 DEF Greet
  <2>2. client = "greeting" /\ open /\ toClient = <<>> /\ toServer = <<>> /\ shown = Nothing
    BY <1>3, <2>1 DEF Coming
  <2> DEFINE g == [is |-> "greeting", w |-> 32 + Digits(WHITEBOARD_SIZE)]
  <2>3. g.w \in Nat \ {0}
    BY DigitsFacts
  <2>4. toClient' = Append(toClient, <<g>>)
    BY <2>1, <2>2 DEF Writes
  <2> HIDE DEF g
  <2>5. Text(<<g>>)
    BY <2>3, TextOf
  <2>6. /\ toClient' \in Seq(ToSet(toClient')) /\ Len(toClient') = 1 /\ toClient'[1] = <<g>>
    <3>1. toClient \in Seq(ToSet(toClient)) /\ Len(toClient) = 0
      BY <1>3, <2>2 DEF Coming
    <3>2. /\ toClient' \in Seq(ToSet(toClient')) /\ Len(toClient') = Len(toClient) + 1
          /\ toClient'[Len(toClient) + 1] = <<g>>
      BY <2>4, <3>1, WritesAppend
    <3> QED
      BY <3>1, <3>2
  <2>7. \A n \in 1 .. Len(toClient') : Text(toClient'[n])
    <3>1. \A n \in 1 .. 1 : n = 1
      OBVIOUS
    <3> QED
      BY <3>1, <2>5, <2>6
  <2>8. thread'.pc = "header"
    BY <2>1 DEF Idle
  <2>9. Coming'
    BY <2>1, <2>2, <2>6, <2>7, <2>8 DEF Coming
  <2>10. InHand'
    BY <2>8 DEF InHand
  <2> QED
    BY <1>2, <1>4, <2>1, <2>9, <2>10 DEF ReplyInv
<1>8. CASE ReadQuery
  <2>1. /\ thread.pc = "header" /\ Contains(toServer, NL) /\ Fits /\ Line[1].is = "?"
        /\ \E pc \in {"first", "lost"} :
             thread' = [Idle EXCEPT !.pc = pc, !.req = Line[1], !.reply = ReplyOf(Line[1].entry)]
        /\ UNCHANGED <<toClient, board>>
    BY <1>8 DEF ReadQuery, ReadsLine
  <2>2. Line[1].entry \in Entries
    <3>1. Request(made[1]) /\ Line[1] = made[1][1]
      BY <2>1, HeaderTaken
    <3> QED
      BY <3>1 DEF Request
  <2>3. Text(ReplyOf(Line[1].entry)) /\ (whole => Replied(ReplyOf(Line[1].entry)))
    <3>1. Holds(board[Line[1].entry])
      BY <2>2, <1>3 DEF Entered
    <3> QED
      BY <2>2, <3>1, QueryReply
  <2>4. thread'.pc \in {"first", "lost"} /\ thread'.reply = ReplyOf(Line[1].entry)
    BY <2>1 DEF Idle
  <2>5. InHand'
    BY <2>3, <2>4, <1>1 DEF InHand
  <2>6. client # "greeting"
    BY <2>1, <1>6 DEF Contains
  <2>7. Coming'
    BY <2>1, <2>4, <2>6, <1>5
  <2> QED
    BY <1>2, <1>4, <2>1, <2>5, <2>7 DEF ReplyInv
<1>9. CASE ReadUpdate \/ IgnoreLine \/ RunOff
  <2>1. /\ Contains(toServer, NL) /\ thread.pc = "header" /\ UNCHANGED <<toClient, board>>
        /\ thread' \in {[Idle EXCEPT !.pc = "text", !.req = Line[1]], thread, [thread EXCEPT !.pc = "lost"]}
    BY <1>9 DEF ReadUpdate, IgnoreLine, RunOff, ReadsLine
  <2>2. thread'.pc \in {"text", "header", "lost"}
    BY <2>1 DEF Idle, RequestInv
  <2>3. InHand'
    BY <2>2 DEF InHand
  <2>4. client # "greeting"
    BY <2>1, <1>6 DEF Contains
  <2>5. Coming'
    BY <2>1, <2>2, <2>4, <1>5
  <2> QED
    BY <1>2, <1>4, <2>1, <2>3, <2>5 DEF ReplyInv
<1>10. ASSUME NEW tail \in Tails, ReadText(tail) PROVE ReplyInv'
  <2>1. PICK e : /\ Holds(e) /\ board' = [board EXCEPT ![thread.req.entry] = e]
                 /\ thread'.pc = "second" /\ Text(thread'.reply) /\ Replied(thread'.reply)
                 /\ UNCHANGED <<whole, open, toClient>>
    BY <1>10, BoardUpdated
  <2>2. Entered'
    <3>1. DOMAIN board' = DOMAIN board /\ \A n \in DOMAIN board : board'[n] = e \/ board'[n] = board[n]
      BY <2>1
    <3>2. \A x : Holds(x) => Holds(x)'
      BY <1>1 DEF Holds
    <3>3. ASSUME NEW n \in Entries PROVE Holds(board[n])'
      <4>1. PICK x : x = board'[n]
        OBVIOUS
      <4>2. Holds(x)
        BY <4>1, <3>1, <2>1, <1>3 DEF Entered
      <4>3. Holds(x)'
        BY <4>2, <3>2
      <4> QED
        BY <4>1, <4>3 DEF Holds
    <3> QED
      BY <3>1, <3>3, <1>3 DEF Entered
  <2>3. InHand'
    BY <2>1, <1>1 DEF InHand
  <2>4. client # "greeting"
    BY <1>10, <1>6 DEF ReadText, TakesText
  <2>5. Coming'
    BY <2>1, <2>4, <1>5
  <2> QED
    BY <1>2, <2>2, <2>3, <2>5 DEF ReplyInv
<1>11. CASE Reply
  <2>1. /\ thread.pc \in {"first", "second"} /\ Writes(thread.reply) /\ UNCHANGED board
        /\ thread' = IF thread.pc = "first" THEN [thread EXCEPT !.pc = "second"] ELSE Idle
    BY <1>11 DEF Reply
  <2>2. client # "greeting"
    BY <2>1, <1>3 DEF Coming
  <2>3. \/ thread'.pc = "second" /\ thread'.reply = thread.reply
        \/ thread'.pc = "header"
    BY <2>1 DEF Idle, RequestInv
  <2>4. Text(thread.reply) /\ (whole => Replied(thread.reply))
    BY <2>1, <1>3 DEF InHand
  <2>5. InHand'
    BY <2>3, <2>4, <1>1 DEF InHand
  <2>6. Coming'
    <3>1. PICK m : m = thread.reply
      OBVIOUS
    <3>2. Text(m) /\ (whole => Replied(m)) /\ Writes(m) /\ thread'.pc # "greet"
      BY <2>1, <2>3, <2>4, <3>1
    <3> QED
      BY <3>2, <2>2, <1>1, <1>3, ReplyWritten
  <2> QED
    BY <1>2, <1>4, <2>1, <2>5, <2>6 DEF ReplyInv
<1>12. CASE HangUp
  <2>1. /\ thread.pc = "header" /\ ~open /\ thread' = [thread EXCEPT !.pc = "ended"]
        /\ UNCHANGED <<toClient, board>>
    BY <1>12 DEF HangUp
  <2>2. client # "greeting"
    BY <2>1, <1>3 DEF Coming
  <2>3. thread'.pc = "ended"
    BY <2>1 DEF RequestInv
  <2>4. InHand' /\ Coming'
    BY <2>1, <2>2, <2>3, <1>5 DEF InHand
  <2> QED
    BY <1>2, <1>4, <2>1, <2>4 DEF ReplyInv
<1>13. ASSUME NEW tail \in Tails, HangUpInText(tail) PROVE ReplyInv'
  BY <1>13, TextSent DEF HangUpInText
<1> QED
  BY <1>7, <1>8, <1>9, <1>10, <1>11, <1>12, <1>13 DEF Serve

\* What is new in the buffer and what it leaves of the old.
LEMMA OverlayFacts ==
  ASSUME NEW a, Text(a), NEW b, Text(b)
  PROVE  /\ Text(Overlay(a, b)) /\ Len(a) <= Len(Overlay(a, b))
         /\ \A n \in 1 .. Len(a) : Overlay(a, b)[n] = a[n]
         /\ b = <<>> => Overlay(a, b) = a
<1>1. Width(a) \in Nat /\ Len(a) \in Nat
  BY WidthOf
<1> DEFINE r == Beyond(b, Width(a))
           c == a \o r
<1>2. Text(r) /\ (b = <<>> => r = <<>>)
  BY <1>1, BeyondText
<1>3. Overlay(a, b) = c
  BY DEF Overlay
<1> HIDE DEF r
<1>4. Len(r) \in Nat
  BY <1>2, WidthOf
<1>5. Text(c) /\ Len(c) = Len(a) + Len(r) /\ \A n \in 1 .. Len(a) : c[n] = a[n]
  BY <1>2, Joined
<1>6. a \o <<>> = a
  <2>1. a \in Seq(ToSet(a))
    BY DEF Text
  <2> QED
    BY <2>1, ConcatEmptySeq
<1>7. b = <<>> => c = a
  BY <1>2, <1>6
<1>8. Len(a) <= Len(c)
  BY <1>1, <1>4, <1>5
<1> HIDE DEF c
<1> QED
  BY <1>3, <1>5, <1>7, <1>8

\* What one read takes, and what it leaves.
LEMMA ReadTaken ==
  ASSUME Coming, NEW k \in 1 .. Len(toClient), Receives(k), client' # "greeting", thread.pc # "greet"
  PROVE  /\ Coming' /\ Text(Got(k)) /\ Got(k) = FlattenSeq(came')
         /\ came'[1] = toClient[1] /\ Len(toClient[1]) <= Len(Got(k))
         /\ \A n \in 1 .. Len(toClient[1]) : Got(k)[n] = toClient[1][n]
         /\ client # "greeting" /\ whole => Replied(toClient[1])
<1>1. /\ toClient \in Seq(ToSet(toClient)) /\ \A n \in 1 .. Len(toClient) : Text(toClient[n])
      /\ client # "greeting" => (whole => \A n \in 1 .. Len(toClient) : Replied(toClient[n]))
      /\ client = "greeting" => Len(toClient) <= 1
  BY DEF Coming
<1> DEFINE q == SubSeq(toClient, 1, k)
           r == SubSeq(toClient, k + 1, Len(toClient))
<1>2. came' = q /\ toClient' = r /\ UNCHANGED <<whole, open, toServer, thread>>
  BY DEF Receives
<1>3. /\ q \in Seq(ToSet(q)) /\ Len(q) = k /\ \A n \in 1 .. k : q[n] = toClient[n]
      /\ r \in Seq(ToSet(r)) /\ Len(r) = Len(toClient) - k /\ Len(toClient) \in Nat
      /\ \A n \in 1 .. Len(toClient) - k : r[n] = toClient[k + n]
  BY <1>1, WritesCut
<1>4. Got(k) = FlattenSeq(q)
  BY DEF Got
<1> HIDE DEF q, r
<1>5. 1 \in 1 .. Len(toClient) /\ 1 \in 1 .. k /\ Len(q) >= 1
  BY <1>3
<1>6. \A n \in 1 .. Len(q) : Text(q[n])
  <2>1. SUFFICES ASSUME NEW n \in 1 .. Len(q) PROVE Text(q[n])
    OBVIOUS
  <2>2. n \in 1 .. Len(toClient) /\ q[n] = toClient[n]
    BY <1>3
  <2> QED
    BY <2>2, <1>1
<1>7. /\ Text(FlattenSeq(q)) /\ Len(q[1]) <= Len(FlattenSeq(q))
      /\ \A n \in 1 .. Len(q[1]) : FlattenSeq(q)[n] = q[1][n]
  BY <1>3, <1>5, <1>6, FlattenTexts
<1>8. q[1] = toClient[1]
  BY <1>3, <1>5
<1>9. \A n \in 1 .. Len(r) : k + n \in 1 .. Len(toClient) /\ r[n] = toClient[k + n]
  BY <1>3
<1>10. \A n \in 1 .. Len(r) : Text(r[n])
  BY <1>1, <1>9
<1>11. whole => \A n \in 1 .. Len(r) : Replied(r[n])
  <2>1. CASE client = "greeting"
    <3>1. Len(r) = 0
      BY <2>1, <1>1, <1>3
    <3> QED
      BY <3>1
  <2>2. CASE client # "greeting"
    BY <2>2, <1>1, <1>9
  <2> QED
    BY <2>1, <2>2
<1>12. Coming'
  BY <1>2, <1>3, <1>10, <1>11 DEF Coming
<1>13. client # "greeting" /\ whole => Replied(toClient[1])
  BY <1>1, <1>5
<1> QED
  BY <1>2, <1>4, <1>7, <1>8, <1>12, <1>13

LEMMA ReceiveKeepsReplies ==
  ASSUME ReplyInv, Receive
  PROVE  ReplyInv'
<1>1. Entered /\ InHand /\ Coming /\ Buffered /\ ShowsWhatCame
  BY DEF ReplyInv
<1>2. ASSUME UNCHANGED <<whole, board, thread>> PROVE Entered' /\ InHand'
  BY <1>1, <1>2 DEF Entered, InHand, Holds
<1>3. ASSUME NEW k \in 1 .. Len(toClient), Greeted(k) PROVE ReplyInv'
  <2>1. /\ client = "greeting" /\ client' \in {"refused", "menu"} /\ Receives(k) /\ buf' = <<>>
        /\ UNCHANGED shown
    BY <1>3 DEF Greeted
  <2>2. shown = Nothing /\ thread.pc # "greet"
    <3>1. toClient # <<>>
      BY <1>3
    <3> QED
      BY <3>1, <2>1, <1>1 DEF Coming
  <2>3. Coming'
    BY <2>1, <2>2, <1>1, ReadTaken
  <2>4. Buffered'
    <3>1. Text(<<>>)
      BY NLFacts, TextOf
    <3> QED
      BY <3>1, <2>1 DEF Buffered
  <2>5. ShowsWhatCame'
    BY <2>1, <2>2 DEF ShowsWhatCame, Nothing
  <2>6. Entered' /\ InHand'
    BY <2>1, <1>2 DEF Receives
  <2> QED
    BY <2>3, <2>4, <2>5, <2>6 DEF ReplyInv
<1>4. ASSUME NEW k \in 1 .. Len(toClient), Updated(k) PROVE ReplyInv'
  <2>1. /\ client \in {"plain", "cipher"} /\ client' = "menu" /\ Receives(k)
        /\ buf' = Overlay(Got(k), buf) /\ shown' = [by |-> client, text |-> buf']
    BY <1>4 DEF Updated
  <2>2. Coming' /\ Text(Got(k)) /\ Got(k) = FlattenSeq(came')
    <3>1. thread.pc # "greet"
      BY <2>1, <1>1 DEF Coming
    <3> QED
      BY <3>1, <2>1, <1>1, ReadTaken
  <2>3. Text(buf')
    <3>1. Text(buf)
      BY <1>1 DEF Buffered
    <3>2. Text(Overlay(Got(k), buf))
      BY <2>2, <3>1, OverlayFacts
    <3> QED
      BY <2>1, <3>2
  <2>4. Buffered'
    BY <2>1, <2>3 DEF Buffered
  <2>5. client = "plain" => buf' = FlattenSeq(came')
    <3>1. ASSUME client = "plain" PROVE buf' = FlattenSeq(came')
      <4>1. buf = <<>> /\ Text(buf)
        BY <3>1, <1>1 DEF Buffered
      <4>2. Overlay(Got(k), buf) = Got(k)
        BY <2>2, <4>1, OverlayFacts
      <4> QED
        BY <4>2, <2>1, <2>2
    <3> QED
      BY <3>1
  <2>6. shown'.by = client /\ shown'.text = buf'
    BY <2>1
  <2>7. ShowsWhatCame'
    BY <2>1, <2>5, <2>6 DEF ShowsWhatCame
  <2>8. Entered' /\ InHand'
    BY <2>1, <1>2 DEF Receives
  <2> QED
    BY <2>2, <2>4, <2>7, <2>8 DEF ReplyInv
<1>5. ASSUME NEW k \in 1 .. Len(toClient), Viewed(k) PROVE ReplyInv'
  <2>1. /\ client = "view" /\ client' \in {"menu", "decrypt"} /\ Receives(k)
        /\ buf' = Overlay(Got(k), buf)
        /\ shown' = [by |-> "view", text |-> Upto(buf', premessage(buf'))] \/ shown' = Nothing
    BY <1>5 DEF Viewed
  <2>2. /\ Coming' /\ Text(Got(k)) /\ came'[1] = toClient[1] /\ Len(toClient[1]) <= Len(Got(k))
        /\ \A n \in 1 .. Len(toClient[1]) : Got(k)[n] = toClient[1][n]
        /\ whole => Replied(toClient[1])
    <3>1. thread.pc # "greet" /\ client # "greeting" /\ client' # "greeting"
      BY <2>1, <1>1 DEF Coming
    <3> QED
      BY <3>1, <2>1, <1>1, ReadTaken
  <2>3. /\ Text(buf') /\ Len(Got(k)) <= Len(buf') /\ \A n \in 1 .. Len(Got(k)) : buf'[n] = Got(k)[n]
    <3>1. Text(buf)
      BY <1>1 DEF Buffered
    <3>2. PICK b : b = Overlay(Got(k), buf)
      OBVIOUS
    <3>3. Text(b) /\ Len(Got(k)) <= Len(b) /\ \A n \in 1 .. Len(Got(k)) : b[n] = Got(k)[n]
      BY <2>2, <3>1, <3>2, OverlayFacts
    <3> QED
      BY <2>1, <3>2, <3>3
  <2>4. Buffered'
    BY <2>1, <2>3 DEF Buffered
  <2>5. ASSUME whole PROVE Upto(buf', premessage(buf')) = Wanted(came'[1])
    <3>1. PICK m : m = toClient[1]
      OBVIOUS
    <3>2. PICK b : b = buf'
      OBVIOUS
    <3>3. Len(m) \in Nat /\ Len(Got(k)) \in Nat /\ Len(b) \in Nat
      <4>1. Text(m) /\ Text(b)
        BY <2>2, <2>3, <2>5, <3>1, <3>2 DEF Replied
      <4> QED
        BY <2>2, <4>1, WidthOf
    <3>4. Len(m) <= Len(b) /\ \A n \in 1 .. Len(m) : b[n] = m[n]
      <4>1. \A n \in 1 .. Len(m) : n \in 1 .. Len(Got(k))
        BY <3>1, <3>3, <2>2
      <4> QED
        BY <4>1, <3>1, <3>2, <3>3, <2>2, <2>3
    <3>5. Upto(b, premessage(b)) = Wanted(m)
      <4>1. Replied(m) /\ Text(b)
        BY <2>2, <2>3, <2>5, <3>1, <3>2
      <4> QED
        BY <4>1, <3>4, ShownAsWanted
    <3> QED
      BY <3>1, <3>2, <3>5, <2>2
  <2>6. ShowsWhatCame'
    <3>1. whole' = whole
      BY <2>1 DEF Receives
    <3>2. CASE shown' = Nothing
      BY <3>2 DEF ShowsWhatCame, Nothing
    <3>3. CASE shown' = [by |-> "view", text |-> Upto(buf', premessage(buf'))]
      <4>1. shown'.by = "view" /\ shown'.text = Upto(buf', premessage(buf'))
        BY <3>3
      <4> QED
        BY <4>1, <3>1, <2>5 DEF ShowsWhatCame
    <3> QED
      BY <3>2, <3>3, <2>1
  <2>7. Entered' /\ InHand'
    BY <2>1, <1>2 DEF Receives
  <2> QED
    BY <2>2, <2>4, <2>6, <2>7 DEF ReplyInv
<1>6. CASE Decrypts
  <2>1. /\ client = "decrypt" /\ client' = "menu" /\ shown'.by = "decrypt"
        /\ UNCHANGED <<whole, open, toServer, toClient, board, thread, buf>>
    BY <1>6 DEF Decrypts, decrypt, serverVars
  <2>2. Coming'
    BY <2>1, <1>1 DEF Coming
  <2>3. Buffered' /\ ShowsWhatCame'
    BY <2>1, <1>1 DEF Buffered, ShowsWhatCame
  <2> QED
    BY <2>1, <2>2, <2>3, <1>2 DEF ReplyInv
<1> QED
  BY <1>3, <1>4, <1>5, <1>6 DEF Receive

LEMMA ReplyInvariance ==
  ASSUME RequestInv, ReplyInv, [Next]_vars
  PROVE  ReplyInv'
<1>1. Entered /\ InHand /\ Coming /\ Buffered /\ ShowsWhatCame
  BY DEF ReplyInv
<1>2. ASSUME UNCHANGED <<whole, board, thread>> PROVE Entered' /\ InHand'
  BY <1>1, <1>2 DEF Entered, InHand, Holds
<1>3. ASSUME shown' = Nothing PROVE ShowsWhatCame'
  BY <1>3 DEF ShowsWhatCame, Nothing
<1>4. Text(<<>>)
  BY NLFacts, TextOf
<1>5. CASE ServerSteps
  BY <1>5, ServeKeepsReplies DEF ServerSteps
<1>6. CASE Ask
  <2>1. /\ client = "menu" /\ client' \in {"view", "plain", "cipher"} /\ shown' = Nothing
        /\ UNCHANGED <<whole, open, toClient, board, thread>>
    BY <1>6 DEF Ask, View, UpdatePlain, UpdateCipher, Sends, MayAsk
  <2>2. Coming'
    BY <2>1, <1>1 DEF Coming
  <2>3. Buffered'
    <3>1. ASSUME NEW n \in Entries, View(n) PROVE Buffered'
      <4> DEFINE z == [is |-> "zero", w |-> Width(<<Query(n), NL>>) + 1]
      <4>1. buf' = Overlay(<<z>>, buf) /\ client' = "view"
        BY <3>1 DEF View
      <4>2. z.w \in Nat \ {0}
        <5>1. Query(n).w \in Nat \ {0}
          BY DigitsFacts DEF Query
        <5>2. Text(<<Query(n), NL>>)
          BY <5>1, NLFacts, TextOf
        <5>3. Width(<<Query(n), NL>>) \in Nat
          BY <5>2, WidthOf
        <5> QED
          BY <5>3
      <4> HIDE DEF z
      <4>3. Text(<<z>>) /\ Text(buf)
        BY <4>2, <1>1, TextOf DEF Buffered
      <4>4. Text(Overlay(<<z>>, buf))
        BY <4>3, OverlayFacts
      <4>5. Text(buf')
        BY <4>1, <4>4
      <4> QED
        BY <4>1, <4>5 DEF Buffered
    <3>2. ASSUME NEW n \in Entries, NEW typed \in Typed, UpdatePlain(n, typed) \/ UpdateCipher(n, typed)
          PROVE  Buffered'
      <4>1. \/ client' = "plain" /\ buf' = <<>>
            \/ client' = "cipher" /\ buf' \in {buf, <<>>}
        BY <3>2 DEF UpdatePlain, UpdateCipher
      <4>2. Text(buf')
        BY <4>1, <1>1, <1>4 DEF Buffered
      <4> QED
        BY <4>1, <4>2 DEF Buffered
    <3> QED
      BY <3>1, <3>2, <1>6 DEF Ask
  <2> QED
    BY <2>1, <2>2, <2>3, <1>2, <1>3 DEF ReplyInv
<1>7. CASE Receive
  BY <1>7, ReceiveKeepsReplies
<1>8. CASE Exit \/ Dies
  <2>1. /\ client # "greeting" /\ client' \in {"left", "dead"} /\ shown' = Nothing /\ buf' = <<>>
        /\ toClient' = <<>> /\ UNCHANGED <<whole, board, thread>>
    BY <1>8 DEF Exit, Dies, Leaves, MayAsk
  <2>2. <<>> \in Seq(ToSet(<<>>)) /\ Len(<<>>) = 0
    BY <1>4 DEF Text
  <2>3. Coming'
    <3>1. thread.pc # "greet"
      BY <2>1, <1>1 DEF Coming
    <3> QED
      BY <3>1, <2>1, <2>2 DEF Coming
  <2>4. Buffered'
    BY <2>1, <1>4 DEF Buffered
  <2> QED
    BY <2>1, <2>3, <2>4, <1>2, <1>3 DEF ReplyInv
<1>9. CASE UNCHANGED vars
  <2>1. UNCHANGED <<whole, open, toServer, toClient, board, thread, client, buf, shown, came>>
    BY <1>9 DEF vars, serverVars
  <2>2. Coming' /\ Buffered' /\ ShowsWhatCame'
    BY <2>1, <1>1 DEF Coming, Buffered, ShowsWhatCame
  <2> QED
    BY <2>1, <2>2, <1>2 DEF ReplyInv
<1> QED
  BY <1>5, <1>6, <1>7, <1>8, <1>9 DEF Next

\* What Client calls ShowsWhatCame: if texts come in one piece, what the client prints for a
\* view is the reply it has read first, up to the length that tells and no further, whatever
\* its buffer holds, and for an update what has come.
THEOREM ShownCame == Spec => []ShowsWhatCame
<1>1. Init => CutInv /\ (whole => ReplyInv)
  BY RequestsInitially, RepliesInitially DEF CutInv, Init, RequestsInit
<1>2. CutInv /\ (whole => ReplyInv) /\ [Next]_vars => CutInv' /\ (whole' => ReplyInv')
  BY CutInvariance, ReplyInvariance DEF CutInv
<1>3. (whole => ReplyInv) => ShowsWhatCame
  BY DEF ReplyInv, ShowsWhatCame
<1> QED
  BY <1>1, <1>2, <1>3, PTL DEF Spec

=============================================================================
