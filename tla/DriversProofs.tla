--------------------------- MODULE DriversProofs ---------------------------
(***************************************************************************)
(* Proofs about Drivers and the search they share.                         *)
(***************************************************************************)
EXTENDS DriversInvariant, FiniteSetTheorems, WellFoundedInduction, TLAPS

(* Addresses *)

LEMMA Numbers ==
  /\ NumPages \in Nat /\ NumPages > 1 /\ pagesize \in Nat /\ pagesize > 0
  /\ patlength \in Nat /\ patlength > 0
  /\ \A k \in 1 .. patlength : pattern[k] \in Bytes
  BY SpaceAssumption, PatternAssumption DEF patlength

LEMMA PageStarts ==
  ASSUME NEW p \in Nat
  PROVE  First(p) \in Nat /\ First(p + 1) = First(p) + pagesize
<1>1. p * pagesize \in Nat /\ (p + 1) * pagesize = p * pagesize + pagesize
  BY Numbers
<1> QED
  BY <1>1 DEF First

LEMMA PageOrder ==
  ASSUME NEW p \in Nat, NEW q \in Nat, p < q
  PROVE  First(p) + pagesize <= First(q)
<1>1. PICK d \in Nat : q = p + 1 + d
  <2>1. q - (p + 1) \in Nat /\ q = p + 1 + (q - (p + 1))
    OBVIOUS
  <2> QED
    BY <2>1
<1>2. q * pagesize = (p + 1) * pagesize + d * pagesize /\ d * pagesize \in Nat
  BY <1>1, Numbers
<1>3. (p + 1) * pagesize = p * pagesize + pagesize /\ p * pagesize \in Nat
  BY Numbers
<1> QED
  BY <1>2, <1>3, Numbers DEF First

LEMMA Dividing ==
  ASSUME NEW a \in Nat
  PROVE  /\ PageOf(a) \in Nat /\ a % pagesize \in 0 .. pagesize - 1
         /\ a % pagesize = a - First(PageOf(a))
         /\ First(PageOf(a)) <= a /\ a < First(PageOf(a)) + pagesize
<1>1. pagesize \in Nat /\ pagesize > 0
  BY Numbers
<1>2. a \div pagesize \in Nat /\ a % pagesize \in 0 .. pagesize - 1
  BY <1>1
<1>3. a % pagesize = a - pagesize * (a \div pagesize)
  BY <1>1
<1>4. pagesize * (a \div pagesize) = (a \div pagesize) * pagesize /\ (a \div pagesize) * pagesize \in Nat
  BY <1>1, <1>2
<1> DEFINE q == a \div pagesize
           r == a % pagesize
<1>5. q \in Nat /\ r \in 0 .. pagesize - 1 /\ q * pagesize \in Nat /\ r = a - q * pagesize
  BY <1>2, <1>3, <1>4
<1> HIDE DEF q, r
<1>6. q * pagesize <= a /\ a < q * pagesize + pagesize
  BY <1>1, <1>5
<1> QED
  BY <1>5, <1>6, Zenon DEF q, r, PageOf, First

LEMMA OnPage ==
  ASSUME NEW p \in Pages, NEW k \in 0 .. pagesize - 1
  PROVE  First(p) + k \in Addresses /\ PageOf(First(p) + k) = p
<1>1. p \in Nat /\ p < NumPages /\ k \in Nat /\ k < pagesize /\ First(p) \in Nat
  BY Numbers, PageStarts DEF Pages
<1>2. First(p) + pagesize <= First(NumPages)
  BY <1>1, Numbers, PageOrder
<1>3. First(p) + k \in Addresses
  BY <1>1, <1>2, Numbers, PageStarts DEF Addresses, First
<1>4. PageOf(First(p) + k) = p
  BY <1>1, Numbers DEF PageOf, First
<1> QED
  BY <1>3, <1>4

LEMMA PageThere ==
  ASSUME NEW a \in Addresses
  PROVE  PageOf(a) \in Pages
<1>1. a \in Nat /\ a < First(NumPages)
  BY Numbers, PageStarts DEF Addresses, First
<1>2. PageOf(a) \in Nat /\ First(PageOf(a)) \in Nat /\ First(PageOf(a)) <= a
  BY <1>1, Dividing, PageStarts
<1>3. CASE PageOf(a) >= NumPages
  <2>1. PageOf(a) = NumPages \/ First(NumPages) + pagesize <= First(PageOf(a))
    BY <1>2, <1>3, Numbers, PageOrder
  <2>2. First(NumPages) <= First(PageOf(a))
    BY <2>1, <1>2, Numbers, PageStarts
  <2>3. First(NumPages) \in Nat
    BY Numbers, PageStarts
  <2> QED
    BY <2>2, <2>3, <1>1, <1>2
<1>4. CASE PageOf(a) < NumPages
  BY <1>2, <1>4, Numbers DEF Pages
<1> QED
  BY <1>2, <1>3, <1>4, Numbers

LEMMA PageBand ==
  ASSUME NEW p \in Pages, NEW a \in Int, First(p) <= a, a < First(p) + pagesize
  PROVE  a \in Addresses /\ PageOf(a) = p
<1> DEFINE k == a - First(p)
<1>1. First(p) \in Nat
  BY PageStarts DEF Pages
<1>2. k \in 0 .. pagesize - 1 /\ First(p) + k = a
  BY <1>1, Numbers
<1> HIDE DEF k
<1> QED
  BY <1>2, OnPage

LEMMA NextPageIs ==
  ASSUME NEW p \in Pages
  PROVE  /\ p = NumPages - 1 => (p + 1) % NumPages = 0 /\ First(p) + pagesize = AllBytes
         /\ p # NumPages - 1 => (p + 1) % NumPages = p + 1 /\ p + 1 \in Pages
<1>1. p \in Nat /\ p <= NumPages - 1
  BY Numbers DEF Pages
<1>2. CASE p = NumPages - 1
  <2>1. (p + 1) % NumPages = 0
    BY <1>2, Numbers
  <2>2. First(p + 1) = First(p) + pagesize /\ p + 1 = NumPages
    BY <1>1, <1>2, PageStarts, Numbers
  <2> QED
    BY <2>1, <2>2, <1>2 DEF AllBytes, First
<1>3. CASE p # NumPages - 1
  <2>1. p + 1 \in Nat /\ p + 1 < NumPages
    BY <1>1, <1>3, Numbers
  <2>2. (p + 1) % NumPages = p + 1
    BY <2>1, Numbers
  <2> QED
    BY <2>1, <2>2, <1>3, Numbers DEF Pages
<1> QED
  BY <1>2, <1>3

LEMMA UnmappedEnds ==
  ASSUME SearchTypeOK, NEW p \in Pages, perm[p] # "none"
  PROVE  p # 0 /\ p # NumPages - 1
<1>1. p \in Mapped
  BY DEF SearchTypeOK, Space
<1> QED
  BY <1>1, Numbers DEF Mapped

----------------------------------------------------------------------------
(* The steps of the search *)

LEMMA PositionType ==
  ASSUME SearchTypeOK
  PROVE  Position \in Nat /\ First(address) \in Nat /\ AllBytes \in Nat
<1>1. address \in Nat
  BY DEF SearchTypeOK, Pages
<1>2. First(address) \in Nat /\ First(NumPages) \in Nat
  BY <1>1, PageStarts, Numbers
<1>3. i \in Nat
  BY Numbers DEF SearchTypeOK
<1> QED
  BY <1>2, <1>3 DEF Position, AllBytes, First

LEMMA FirstIsThere ==
  ASSUME SearchTypeOK
  PROVE  First(address) \in Addresses /\ PageOf(First(address)) = address
<1>1. address \in Pages /\ 0 \in 0 .. pagesize - 1 /\ First(address) \in Nat
  BY PositionType, Numbers DEF SearchTypeOK
<1>2. First(address) + 0 \in Addresses /\ PageOf(First(address) + 0) = address
  BY <1>1, OnPage
<1> QED
  BY <1>1, <1>2

\* The probe leaves the memory as it was.
LEMMA ProbeKeeps ==
  ASSUME SearchTypeOK, Control, Probe
  PROVE  Kept' = Kept /\ UNCHANGED <<perm, loclength>> /\ mem' \in [Addresses -> Bytes]
<1>1. CASE Fault \/ Load \/ Skip \/ ReadOnly
  BY <1>1 DEF Fault, Load, Skip, ReadOnly, caller, probed, Kept, Control, SearchTypeOK
<1>2. CASE Overwrite
  BY <1>2, FirstIsThere, BytesAssumption DEF Overwrite, probed, Kept, Control, SearchTypeOK
<1>3. CASE PutBack
  BY <1>3, FirstIsThere DEF PutBack, Kept, SearchTypeOK
<1> QED
  BY <1>1, <1>2, <1>3 DEF Probe

LEMMA ProbeTypes ==
  ASSUME SearchTypeOK, Control, Probe
  PROVE  SearchTypeOK' /\ Control'
<1>1. mem' \in [Addresses -> Bytes] /\ UNCHANGED <<perm, loclength>>
  BY ProbeKeeps
<1>2. UNCHANGED matched
  BY DEF Probe, Fault, Load, Skip, Overwrite, PutBack, ReadOnly, caller, probed, matched
<1>3. NextAddress \in Pages
  BY NextPageIs, Numbers DEF NextAddress, SearchTypeOK, Pages
<1>4. 0 \in 0 .. pagesize
  BY Numbers
<1>5. CASE Fault
  BY <1>1, <1>2, <1>5 DEF Fault, caller, SearchTypeOK, Control, matched, Space
<1>6. CASE Load
  BY <1>1, <1>2, <1>6, FirstIsThere DEF Load, caller, SearchTypeOK, Control, matched
<1>7. CASE Skip
  BY <1>1, <1>2, <1>3, <1>7 DEF Skip, caller, SearchTypeOK, Control, matched
<1>8. CASE Overwrite
  BY <1>1, <1>2, <1>8 DEF Overwrite, probed, SearchTypeOK, Control, matched
<1>9. CASE PutBack
  BY <1>1, <1>2, <1>4, <1>9 DEF PutBack, SearchTypeOK, Control, matched
<1>10. CASE ReadOnly
  BY <1>1, <1>2, <1>4, <1>10 DEF ReadOnly, caller, SearchTypeOK, Control, matched
<1> QED
  BY <1>5, <1>6, <1>7, <1>8, <1>9, <1>10 DEF Probe

\* Nothing readable lies on a page that is passed over.
LEMMA NothingOnPage ==
  ASSUME SearchTypeOK, NEW p \in Pages, perm[p] = "none"
  PROVE  \A a \in Readable : ~ (First(p) <= a /\ a < First(p) + pagesize)
<1> SUFFICES ASSUME NEW a \in Readable, First(p) <= a, a < First(p) + pagesize
             PROVE  FALSE
  OBVIOUS
<1>1. a \in Int
  BY Numbers DEF Readable, Addresses
<1>2. PageOf(a) = p
  BY <1>1, PageBand
<1> QED
  BY <1>2 DEF Readable

LEMMA ProbePasses ==
  ASSUME SearchTypeOK, Control, Probe
  PROVE  Passes
<1>1. UNCHANGED matched
  BY DEF Probe, Fault, Load, Skip, Overwrite, PutBack, ReadOnly, caller, probed, matched
<1>2. Position \in Nat /\ First(address) \in Nat /\ address \in Pages
  BY PositionType DEF SearchTypeOK
<1>3. \A a \in Readable : a \in Int
  BY Numbers DEF Readable, Addresses
<1>4. CASE ~ Skip
  <2>1. Position' = Position
    BY <1>2, <1>4 DEF Probe, Fault, Load, Overwrite, PutBack, ReadOnly, caller, probed, matched,
       Position, First, Control
  <2>2. Underway /\ Underway'
    BY <1>4 DEF Probe, Fault, Load, Overwrite, PutBack, ReadOnly, Underway, Control
  <2> QED
    BY <1>1, <1>2, <1>3, <2>1, <2>2 DEF Passes, Nothing
<1>5. CASE Skip
  <2>1. /\ pc = "probe" /\ perm[address] = "none" /\ address' = NextAddress
        /\ pc' = IF NextAddress = 0 THEN "restore" ELSE "probe"
    BY <1>5 DEF Skip, Control
  <2>2. Position = First(address)
    BY <2>1 DEF Position
  <2>3. Position' = First(address) + pagesize
    <3>1. CASE address = NumPages - 1
      BY <3>1, <2>1, <1>2, NextPageIs DEF NextAddress, Position
    <3>2. CASE address # NumPages - 1
      <4>1. NextAddress = address + 1 /\ address + 1 # 0 /\ First(address + 1) = First(address) + pagesize
        BY <3>2, <1>2, NextPageIs, PageStarts, Numbers DEF NextAddress, Pages
      <4> QED
        BY <4>1, <2>1 DEF Position, First
    <3> QED
      BY <3>1, <3>2
  <2>4. Underway /\ Underway'
    BY <2>1 DEF Underway
  <2>5. Position' \in Nat /\ Position <= Position'
    BY <2>2, <2>3, <1>2, Numbers
  <2>6. \A a \in Readable : ~ (Position <= a /\ a < Position')
    BY <2>1, <2>2, <2>3, <1>2, NothingOnPage
  <2> QED
    BY <1>1, <2>4, <2>5, <2>6 DEF Passes, Nothing
<1> QED
  BY <1>4, <1>5

\* The byte under the search.
LEMMA ByteAtHand ==
  ASSUME SearchTypeOK, Control, Scanning
  PROVE  /\ First(address) + i \in Readable /\ Position = First(address) + i
         /\ PageOf(First(address) + i) = address
         /\ Kept = mem /\ count + 1 \in 1 .. patlength
         /\ mode = ModeOf(First(address) + i)
<1>1. address \in Pages /\ i \in 0 .. pagesize - 1 /\ perm[address] # "none"
  BY Numbers DEF SearchTypeOK, Control, Scanning
<1>2. First(address) + i \in Addresses /\ PageOf(First(address) + i) = address
  BY <1>1, OnPage
<1>3. mode = ModeOf(First(address) + i)
  BY <1>2 DEF SearchTypeOK, Control, Scanning, ModeOf
<1>4. count + 1 \in 1 .. patlength
  BY Numbers DEF SearchTypeOK
<1> QED
  BY <1>1, <1>2, <1>3, <1>4 DEF Readable, Position, Scanning, Kept

LEMMA ScanPasses ==
  ASSUME SearchTypeOK, Control, Scan
  PROVE  Passes
<1>1. Underway /\ Underway'
  BY DEF Scan, Advance, Complete, Mismatch, NextPage, Scanning, Underway
<1>2. Position \in Nat /\ First(address) \in Nat /\ i \in Nat
  BY PositionType, Numbers DEF SearchTypeOK
<1>3. CASE Advance \/ Complete \/ Mismatch
  <2> DEFINE a == First(address) + i
  <2>1. a \in Readable /\ Position = a /\ Kept = mem /\ mode = ModeOf(a)
    BY <1>3, ByteAtHand DEF Advance, Complete, Mismatch
  <2>2. Position' = a + 1
    <3>1. pc' = "scan" /\ address' = address /\ i' = i + 1
      BY <1>3 DEF Advance, Complete, Mismatch, Scanning
    <3>2. Position' = First(address) + (i + 1)
      BY <3>1 DEF Position, First
    <3> QED
      BY <3>2, <1>2
  <2>3. Compares(a)
    <3>1. CASE Advance
      BY <2>1, <2>2, <3>1 DEF Compares, Advance, Matches
    <3>2. CASE Complete
      <4>1. /\ mem[a] = pattern[count + 1] /\ count + 1 = patlength
            /\ occurances' = occurances + 1 /\ count' = 0
        BY <3>2 DEF Complete, Matches
      <4>2. locations' = IF occurances <= loclength
                         THEN Append(locations, [location |-> a - patlength, mode |-> mode])
                         ELSE locations
        BY <3>2, <1>2, Numbers DEF Complete
      <4> QED
        BY <2>1, <2>2, <4>1, <4>2 DEF Compares
    <3>3. CASE Mismatch
      <4>1. Kept[a] # pattern[count + 1]
        BY <2>1, <3>3 DEF Mismatch, Matches
      <4> QED
        BY <2>1, <2>2, <3>3, <4>1 DEF Compares, Mismatch
    <3> QED
      BY <1>3, <3>1, <3>2, <3>3
  <2>4. a \in Addresses
    BY <2>1 DEF Readable
  <2> QED
    BY <1>1, <2>3, <2>4 DEF Passes
<1>4. CASE NextPage
  <2>1. pc = "scan" /\ i = pagesize /\ address' = NextAddress /\ pc' = "probe" /\ UNCHANGED matched
    BY <1>4 DEF NextPage
  <2>2. address \in Pages /\ address # NumPages - 1
    BY <2>1, UnmappedEnds DEF SearchTypeOK, Control
  <2>3. NextAddress = address + 1 /\ First(address + 1) = First(address) + pagesize
    BY <2>2, NextPageIs, PageStarts DEF NextAddress, Pages
  <2>4. Position' = Position
    BY <2>1, <2>3 DEF Position, First
  <2>5. \A a \in Readable : a \in Int
    BY Numbers DEF Readable, Addresses
  <2> QED
    BY <1>1, <1>2, <2>1, <2>4, <2>5 DEF Passes, Nothing
<1> QED
  BY <1>3, <1>4 DEF Scan

LEMMA ScanTypes ==
  ASSUME SearchTypeOK, Control, Scan, Len(locations) = Held(occurances)
  PROVE  SearchTypeOK' /\ Control' /\ Kept' = Kept /\ UNCHANGED caller
<1>1. UNCHANGED caller
  BY DEF Scan, Advance, Complete, Mismatch, NextPage
<1>2. Kept' = Kept
  BY <1>1 DEF Scan, Advance, Complete, Mismatch, NextPage, Scanning, Kept, caller
<1>3. NextAddress \in Pages
  BY NextPageIs, Numbers DEF NextAddress, SearchTypeOK, Pages
<1>4. 0 \in 0 .. patlength - 1 /\ patlength \in Nat /\ loclength \in Nat \ {0} /\ pagesize \in Nat
  BY Numbers, LimitsAssumption DEF SearchTypeOK
<1>5. CASE Advance
  <2>1. count' \in 0 .. patlength - 1 /\ i' \in 0 .. pagesize
    BY <1>4, <1>5 DEF Advance, Scanning, SearchTypeOK
  <2>2. UNCHANGED <<mem, perm, loclength, pc, flag, jump, data, mode, handler, address,
                    occurances, locations>>
    BY <1>1, <1>5 DEF Advance, probed, caller
  <2>3. SearchTypeOK'
    BY <2>1, <2>2 DEF SearchTypeOK
  <2>4. Control'
    BY <2>2, Zenon DEF Control, First
  <2> QED
    BY <1>1, <1>2, <2>3, <2>4
<1>6. CASE Complete
  <2>1. count' \in 0 .. patlength - 1 /\ i' \in 0 .. pagesize
    BY <1>4, <1>6 DEF Complete, Scanning, SearchTypeOK
  <2>2. locations' \in Seq(Match) /\ Len(locations') <= loclength + 1
    <3> DEFINE new == [location |-> First(address) + i - patlength, mode |-> mode]
    <3>1. new \in Match
      <4>1. First(address) \in Nat /\ i \in Nat
        BY PositionType, <1>4 DEF SearchTypeOK
      <4>2. First(address) + i - patlength \in Int
        BY <4>1, <1>4
      <4> QED
        BY <4>2 DEF Match, SearchTypeOK
    <3>2. locations' = IF occurances <= loclength THEN Append(locations, new) ELSE locations
      BY <1>6 DEF Complete
    <3> HIDE DEF new
    <3>3. locations \in Seq(Match) /\ Len(locations) <= loclength + 1 /\ occurances \in Nat
      BY DEF SearchTypeOK
    <3>4. CASE occurances <= loclength
      <4>1. Len(locations) <= loclength
        BY <3>4 DEF Held
      <4> QED
        BY <3>1, <3>2, <3>3, <3>4, <4>1, <1>4
    <3>5. CASE ~ (occurances <= loclength)
      BY <3>2, <3>3, <3>5
    <3> QED
      BY <3>4, <3>5
  <2>3. occurances' \in Nat
    BY <1>6 DEF Complete, SearchTypeOK
  <2>4. UNCHANGED <<mem, perm, loclength, pc, flag, jump, data, mode, handler, address>>
    BY <1>1, <1>6 DEF Complete, probed, caller
  <2>5. SearchTypeOK'
    BY <2>1, <2>2, <2>3, <2>4 DEF SearchTypeOK
  <2>6. Control'
    BY <2>4, Zenon DEF Control, First
  <2> QED
    BY <1>1, <1>2, <2>5, <2>6
<1>7. CASE Mismatch
  <2>1. count' \in 0 .. patlength - 1 /\ i' \in 0 .. pagesize
    BY <1>4, <1>7 DEF Mismatch, Scanning, SearchTypeOK
  <2>2. UNCHANGED <<mem, perm, loclength, pc, flag, jump, data, mode, handler, address,
                    occurances, locations>>
    BY <1>1, <1>7 DEF Mismatch, probed, caller
  <2>3. SearchTypeOK'
    BY <2>1, <2>2 DEF SearchTypeOK
  <2>4. Control'
    BY <2>2, Zenon DEF Control, First
  <2> QED
    BY <1>1, <1>2, <2>3, <2>4
<1>8. CASE NextPage
  <2>1. SearchTypeOK'
    BY <1>1, <1>3, <1>8 DEF NextPage, matched, caller, SearchTypeOK
  <2>2. Control'
    BY <1>8 DEF NextPage, Control
  <2> QED
    BY <1>1, <1>2, <2>1, <2>2
<1> QED
  BY <1>1, <1>2, <1>5, <1>6, <1>7, <1>8 DEF Scan

\* Every step of the search begins a pass or goes on with it.
LEMMA SearchSteps ==
  ASSUME SearchTypeOK, Control, Underway => Len(locations) = Held(occurances), Search
  PROVE  /\ SearchTypeOK' /\ Control'
         /\ Kept' = Kept /\ UNCHANGED <<perm, loclength>>
         /\ Begins \/ Passes
<1>1. CASE Begin
  <2>1. /\ address' = 0 /\ mode' = "MEM_RO" /\ i' = 0 /\ count' = 0 /\ occurances' = 0
        /\ locations' = <<>> /\ jump' = "probe" /\ pc' = "probe" /\ handler' = "seg_handler"
        /\ pc = "called" /\ UNCHANGED <<mem, perm, loclength, flag, data>>
    BY <1>1 DEF Begin, caller
  <2>2. 0 \in Pages /\ 0 \in 0 .. pagesize /\ 0 \in 0 .. patlength - 1 /\ 0 <= loclength + 1
    BY Numbers, LimitsAssumption DEF Pages, SearchTypeOK
  <2>3. <<>> \in Seq(Match) /\ Len(<<>>) = 0
    OBVIOUS
  <2>4. SearchTypeOK'
    BY <2>1, <2>2, <2>3 DEF SearchTypeOK
  <2>5. Control' /\ Kept' = Kept
    BY <2>1 DEF Control, Kept
  <2>6. Position' = 0
    BY <2>1, Numbers DEF Position, First
  <2> QED
    BY <2>1, <2>4, <2>5, <2>6 DEF Begins, Underway
<1>2. CASE Probe
  BY <1>2, ProbeKeeps, ProbeTypes, ProbePasses
<1>3. CASE Scan
  <2>1. Underway
    BY <1>3 DEF Scan, Advance, Complete, Mismatch, NextPage, Scanning, Underway
  <2> QED
    BY <1>3, <2>1, ScanTypes, ScanPasses DEF caller
<1>4. CASE Return
  <2>1. /\ pc = "restore" /\ pc' = "returned" /\ handler' = "default"
        /\ UNCHANGED <<mem, perm, loclength, flag, jump, data, mode, address, i,
                       count, occurances, locations>>
    BY <1>4 DEF Return, caller, probed, matched
  <2>2. SearchTypeOK' /\ Control' /\ Kept' = Kept
    BY <2>1 DEF SearchTypeOK, Control, Kept
  <2>3. Position' = Position /\ Position \in Nat
    BY <2>1, PositionType DEF Position, AllBytes
  <2>4. \A a \in Readable : a \in Int
    BY Numbers DEF Readable, Addresses
  <2> QED
    BY <2>1, <2>2, <2>3, <2>4 DEF Passes, Nothing, Underway, matched
<1> QED
  BY <1>1, <1>2, <1>3, <1>4 DEF Search

----------------------------------------------------------------------------
(* What the pass has found *)

LEMMA ReadableNumbers == Readable \subseteq Addresses /\ Readable \subseteq Nat
  BY Numbers DEF Readable, Addresses

LEMMA SameBytes ==
  ASSUME Kept' = Kept, perm' = perm
  PROVE  /\ Readable' = Readable /\ Runs' = Runs /\ FoundEnds' = FoundEnds
         /\ \A n : Runs1(n)' = Runs1(n)
         /\ \A a : ModeOf(a)' = ModeOf(a) /\ ClearAt(a)' = ClearAt(a)
<1>1. Readable' = Readable
  BY DEF Readable
<1>2. Runs' = Runs
  BY <1>1 DEF Runs, Follows
<1>3. \A n : Runs1(n)' = Runs1(n)
  BY <1>1 DEF Runs1, Follows
<1>4. FoundEnds' = FoundEnds
  BY <1>1, <1>2 DEF FoundEnds, Matched, ClearAt, Gap
<1>5. \A a : ModeOf(a)' = ModeOf(a) /\ ClearAt(a)' = ClearAt(a)
  BY <1>1 DEF ModeOf, ClearAt, Gap
<1> QED
  BY <1>1, <1>2, <1>3, <1>4, <1>5

\* A byte that goes on with the pattern makes the match one longer.
LEMMA ByteExtends ==
  ASSUME SearchTypeOK, Partial, NEW a \in Readable, Position = a, Kept[a] = pattern[count + 1]
  PROVE  \E t \in Runs1(count + 1) :
           Matched(t, count + 1) /\ t[count + 1] = a /\ \A k \in 1 .. count + 1 : t[k] < a + 1
<1>1. PICK s \in Runs1(count) :
        /\ Matched(s, count)
        /\ \A k \in 1 .. count : s[k] < Position
        /\ count > 0 => Gap(s[count], Position)
  BY DEF Partial
<1>2. count \in Nat /\ Readable \subseteq Nat /\ s \in [1 .. count -> Readable]
  BY Numbers, ReadableNumbers DEF SearchTypeOK, Runs1
<1> DEFINE t == [k \in 1 .. count + 1 |-> IF k <= count THEN s[k] ELSE a]
<1>3. t \in [1 .. count + 1 -> Readable]
  BY <1>2
<1>4. \A k \in 1 .. count : Follows(t[k], t[k + 1])
  <2> SUFFICES ASSUME NEW k \in 1 .. count PROVE Follows(t[k], t[k + 1])
    OBVIOUS
  <2>1. CASE k < count
    <3>1. t[k] = s[k] /\ t[k + 1] = s[k + 1] /\ k \in 1 .. count - 1
      BY <2>1, <1>2
    <3> QED
      BY <3>1, <1>1 DEF Runs1
  <2>2. CASE k = count
    <3>1. t[k] = s[count] /\ t[k + 1] = a /\ count > 0
      BY <2>2, <1>2
    <3> QED
      BY <3>1, <1>1, <1>2, <2>2 DEF Follows, Gap
  <2> QED
    BY <2>1, <2>2, <1>2
<1>5. \A k \in 1 .. count + 1 : Kept[t[k]] = pattern[k] /\ t[k] < a + 1
  <2> SUFFICES ASSUME NEW k \in 1 .. count + 1
               PROVE  Kept[t[k]] = pattern[k] /\ t[k] < a + 1
    OBVIOUS
  <2>1. CASE k <= count
    <3>1. k \in 1 .. count /\ t[k] = s[k]
      BY <2>1, <1>2
    <3>2. s[k] \in Nat /\ a \in Nat /\ s[k] < a /\ Kept[s[k]] = pattern[k]
      BY <3>1, <1>1, <1>2 DEF Matched
    <3> QED
      BY <3>1, <3>2
  <2>2. CASE k = count + 1
    BY <2>2, <1>2
  <2> QED
    BY <2>1, <2>2, <1>2
<1>6. t[count + 1] = a
  BY <1>2
<1> HIDE DEF t
<1>7. t \in Runs1(count + 1)
  BY <1>3, <1>4, <1>2 DEF Runs1
<1> QED
  BY <1>5, <1>6, <1>7 DEF Matched

LEMMA PartialKept ==
  ASSUME SearchTypeOK, Partial, Kept' = Kept, perm' = perm, Passes
  PROVE  Partial'
<1>1. PICK s \in Runs1(count) :
        /\ Matched(s, count)
        /\ \A k \in 1 .. count : s[k] < Position
        /\ count > 0 => Gap(s[count], Position)
  BY DEF Partial
<1>2. count \in Nat /\ Position \in Nat /\ Readable' = Readable /\ Readable \subseteq Nat
      /\ s \in [1 .. count -> Readable]
  BY Numbers, PositionType, SameBytes, ReadableNumbers DEF SearchTypeOK, Runs1
<1>3. CASE Nothing
  <2>1. count' = count /\ Position' \in Nat /\ Position <= Position'
        /\ \A a \in Readable : ~ (Position <= a /\ a < Position')
    BY <1>3 DEF Nothing, matched
  <2> QED
    <3>1. \A k \in 1 .. count : s[k] \in Nat
      BY <1>2
    <3>2. \A k \in 1 .. count : s[k] < Position'
      BY <3>1, <1>1, <1>2, <2>1
    <3>3. ASSUME count > 0, NEW c \in Readable PROVE ~ (s[count] < c /\ c < Position')
      <4>1. s[count] \in Nat /\ c \in Nat
        BY <3>1, <3>3, <1>2
      <4> QED
        BY <4>1, <3>3, <1>1, <1>2, <2>1 DEF Gap
    <3>4. s \in Runs1(count)'
      BY <2>1, SameBytes
    <3> QED
      BY <3>2, <3>3, <3>4, <1>1, <1>2, <2>1 DEF Partial, Matched, Gap
<1>4. ASSUME NEW a \in Addresses, Compares(a) PROVE Partial'
  <2>1. a \in Readable /\ Position = a /\ Position' = a + 1
    BY <1>4 DEF Compares
  <2>2. CASE Kept[a] = pattern[count + 1] /\ count' = count + 1
    <3>1. PICK t \in Runs1(count + 1) :
            Matched(t, count + 1) /\ t[count + 1] = a /\ \A k \in 1 .. count + 1 : t[k] < a + 1
      BY <2>1, <2>2, ByteExtends
    <3>2. \A c \in Readable : ~ (a < c /\ c < a + 1)
      BY <1>2, <2>1
    <3>3. t \in Runs1(count')
      BY <3>1, <2>2
    <3>4. /\ \A k \in 1 .. count' : Kept'[t[k]] = pattern[k] /\ t[k] < Position'
          /\ \A c \in Readable' : ~ (t[count'] < c /\ c < Position')
      BY <3>1, <3>2, <2>1, <2>2, <1>2 DEF Matched
    <3>5. t \in Runs1(count)'
      BY <3>3, <1>2 DEF Runs1, Follows
    <3> QED
      BY <3>4, <3>5 DEF Partial, Matched, Gap
  <2>3. CASE count' = 0
    <3> DEFINE t == [k \in 1 .. 0 |-> a]
    <3>1. t \in Runs1(0)
      BY DEF Runs1
    <3> QED
      BY <3>1, <2>3, SameBytes DEF Partial, Matched
  <2> QED
    BY <2>2, <2>3, <1>4 DEF Compares
<1> QED
  BY <1>3, <1>4 DEF Passes

\* How a match is recorded.
LEMMA Append1 ==
  ASSUME NEW l \in Seq(Match), NEW m \in Match
  PROVE  /\ Append(l, m) \in Seq(Match) /\ Len(Append(l, m)) = Len(l) + 1
         /\ DOMAIN l = 1 .. Len(l) /\ DOMAIN Append(l, m) = 1 .. Len(l) + 1 /\ Len(l) \in Nat
         /\ Append(l, m)[Len(l) + 1] = m
         /\ \A n \in 1 .. Len(l) : Append(l, m)[n] = l[n] /\ l[n].location \in Int
<1>1. \A n \in 1 .. Len(l) : l[n].location \in Int
  <2> SUFFICES ASSUME NEW n \in 1 .. Len(l) PROVE l[n].location \in Int
    OBVIOUS
  <2>1. l[n] \in Match
    OBVIOUS
  <2> QED
    BY <2>1 DEF Match
<1>2. /\ Append(l, m) \in Seq(Match) /\ Len(Append(l, m)) = Len(l) + 1
      /\ DOMAIN l = 1 .. Len(l) /\ DOMAIN Append(l, m) = 1 .. Len(l) + 1 /\ Len(l) \in Nat
      /\ Append(l, m)[Len(l) + 1] = m
      /\ \A n \in 1 .. Len(l) : Append(l, m)[n] = l[n]
  OBVIOUS
<1> QED
  BY <1>1, <1>2

LEMMA RecordedKept ==
  ASSUME SearchTypeOK, Partial, Recorded, Kept' = Kept, perm' = perm, loclength' = loclength,
         Passes
  PROVE  Recorded'
<1>1. /\ count \in Nat /\ Position \in Nat /\ occurances \in Nat /\ loclength \in Nat
      /\ Readable \subseteq Nat /\ locations \in Seq(Match) /\ patlength \in Nat
      /\ DOMAIN locations = 1 .. Len(locations) /\ Len(locations) \in Nat
      /\ \A n \in DOMAIN locations : locations[n].location \in Int
  <2>1. /\ Position \in Nat /\ Readable \subseteq Nat /\ patlength \in Nat
        /\ loclength \in Nat /\ occurances \in Nat /\ locations \in Seq(Match)
    BY Numbers, PositionType, ReadableNumbers, LimitsAssumption DEF SearchTypeOK
  <2>2. count \in Nat
    BY Numbers DEF SearchTypeOK
  <2>3. DOMAIN locations = 1 .. Len(locations) /\ Len(locations) \in Nat
    BY <2>1
  <2>4. \A n \in DOMAIN locations : locations[n].location \in Int
    <3> SUFFICES ASSUME NEW n \in DOMAIN locations PROVE locations[n].location \in Int
      OBVIOUS
    <3>1. locations[n] \in Match
      BY <2>1, <2>3
    <3> QED
      BY <3>1 DEF Match
  <2> QED
    BY <2>1, <2>2, <2>3, <2>4
<1>2. \A s \in Runs : s[patlength] \in Nat
  <2>1. \A s \in Runs : s \in [1 .. patlength -> Readable]
    BY DEF Runs
  <2>2. patlength \in 1 .. patlength /\ Readable \subseteq Nat
    BY Numbers, ReadableNumbers
  <2> QED
    BY <2>1, <2>2
<1> DEFINE Behind(l, q) == \A n \in DOMAIN l : \E s \in Runs :
             /\ Matched(s, patlength) /\ s[patlength] < q
             /\ l[n] = [location |-> s[patlength] - patlength, mode |-> ModeOf(s[patlength])]
           Before(l, c, q) == \A n \in DOMAIN l : l[n].location + patlength + c < q
           Apart(l) == \A m, n \in DOMAIN l : m < n => l[n].location - l[m].location >= patlength
<1>3. Behind(locations, Position) /\ Before(locations, count, Position) /\ Apart(locations)
      /\ Len(locations) = Held(occurances)
  BY DEF Recorded
<1>4. SUFFICES /\ Behind(locations', Position') /\ Before(locations', count', Position')
               /\ Apart(locations') /\ Len(locations') = Held(occurances')
  <2>1. Held(occurances)' = Held(occurances')
    BY DEF Held
  <2> QED
    BY <2>1, SameBytes DEF Recorded, Matched
<1>5. ASSUME NEW q \in Nat, NEW c \in Nat, locations' = locations, occurances' = occurances,
             Position' = q, count' = c, Position <= q, Position - count <= q - c
      PROVE  /\ Behind(locations', Position') /\ Before(locations', count', Position')
             /\ Apart(locations') /\ Len(locations') = Held(occurances')
  <2>1. Behind(locations', Position')
    BY <1>1, <1>2, <1>3, <1>5, SMTT(20)
  <2>2. Before(locations', count', Position')
    BY <1>1, <1>3, <1>5
  <2> QED
    BY <2>1, <2>2, <1>3, <1>5
<1>6. CASE Nothing
  BY <1>1, <1>5, <1>6 DEF Nothing, matched
<1>7. ASSUME NEW a \in Addresses, Compares(a)
      PROVE  /\ Behind(locations', Position') /\ Before(locations', count', Position')
             /\ Apart(locations') /\ Len(locations') = Held(occurances')
  <2>1. a \in Readable /\ a \in Nat /\ Position = a /\ Position' = a + 1
    BY <1>1, <1>7 DEF Compares
  <2>2. CASE count' = count + 1 /\ UNCHANGED <<occurances, locations>>
    BY <1>1, <1>5, <2>1, <2>2
  <2>3. CASE count' = 0 /\ UNCHANGED <<occurances, locations>>
    BY <1>1, <1>5, <2>1, <2>3
  <2>4. CASE /\ Kept[a] = pattern[count + 1] /\ count + 1 = patlength
             /\ count' = 0 /\ occurances' = occurances + 1 /\ ~ (occurances <= loclength)
             /\ locations' = locations
    <3>1. Behind(locations', Position')
      BY <1>1, <1>2, <1>3, <2>1, <2>4
    <3>2. Before(locations', count', Position')
      BY <1>1, <1>3, <2>1, <2>4
    <3>3. Held(occurances') = Held(occurances)
      BY <1>1, <2>4 DEF Held
    <3> QED
      BY <3>1, <3>2, <3>3, <1>3, <2>4
  <2>5. CASE /\ Kept[a] = pattern[count + 1] /\ count + 1 = patlength
             /\ count' = 0 /\ occurances' = occurances + 1 /\ occurances <= loclength
             /\ locations' = Append(locations, [location |-> a - patlength, mode |-> ModeOf(a)])
    <3> DEFINE new == [location |-> a - patlength, mode |-> ModeOf(a)]
    <3>1. new \in Match /\ new.location = a - patlength
      BY <1>1, <2>1 DEF Match, ModeOf
    <3>2. locations' = Append(locations, new)
      BY <2>5
    <3>3. PICK t \in Runs : Matched(t, patlength) /\ t[patlength] = a
      BY <2>1, <2>5, ByteExtends DEF Runs, Runs1
    <3>4. new = [location |-> t[patlength] - patlength, mode |-> ModeOf(t[patlength])]
      BY <3>3
    <3> HIDE DEF new
    <3>5. /\ DOMAIN locations' = 1 .. Len(locations) + 1 /\ Len(locations') = Len(locations) + 1
          /\ locations'[Len(locations) + 1] = new
          /\ \A n \in 1 .. Len(locations) : locations'[n] = locations[n]
      BY <3>1, <3>2, <1>1, Append1
    <3>6. \A n \in DOMAIN locations' : n \in DOMAIN locations \/ n = Len(locations) + 1
      BY <3>5, <1>1
    <3>7. Behind(locations', Position')
      <4> SUFFICES ASSUME NEW n \in DOMAIN locations'
                   PROVE  \E s \in Runs :
             /\ Matched(s, patlength) /\ s[patlength] < a + 1
             /\ locations'[n] = [location |-> s[patlength] - patlength, mode |-> ModeOf(s[patlength])]
        BY <2>1
      <4>1. CASE n \in DOMAIN locations
        BY <4>1, <3>5, <1>1, <1>2, <1>3, <2>1
      <4>2. CASE n = Len(locations) + 1
        BY <4>2, <3>3, <3>4, <3>5, <2>1
      <4> QED
        BY <4>1, <4>2, <3>6
    <3>8. Before(locations', count', Position')
      <4>1. \A n \in DOMAIN locations : locations[n].location + patlength + 0 < a + 1
        BY <1>1, <1>3, <2>1
      <4>2. (a - patlength) + patlength + 0 < a + 1
        BY <1>1, <2>1
      <4> QED
        BY <4>1, <4>2, <3>1, <3>5, <3>6, <1>1, <2>1, <2>5
    <3>9. Apart(locations')
      <4>1. \A m \in DOMAIN locations : (a - patlength) - locations[m].location >= patlength
        BY <1>1, <1>3, <2>1, <2>5
      <4> QED
        BY <4>1, <3>1, <3>5, <3>6, <1>1, <1>3
    <3>10. Len(locations') = Held(occurances')
      BY <3>5, <1>1, <1>3, <2>5 DEF Held
    <3> QED
      BY <3>7, <3>8, <3>9, <3>10
  <2> QED
    BY <1>7, <2>2, <2>3, <2>4, <2>5 DEF Compares
<1> QED
  BY <1>6, <1>7 DEF Passes

LEMMA RunNumbers ==
  ASSUME NEW s \in Runs
  PROVE  /\ \A k \in 1 .. patlength : s[k] \in Readable /\ s[k] \in Nat
         /\ \A k \in 1 .. patlength - 1 : s[k] < s[k + 1] /\ Gap(s[k], s[k + 1])
<1>1. s \in [1 .. patlength -> Readable] /\ Readable \subseteq Nat
  BY ReadableNumbers DEF Runs
<1>2. \A k \in 1 .. patlength - 1 : Follows(s[k], s[k + 1])
  BY DEF Runs
<1> QED
  BY <1>1, <1>2, Zenon DEF Follows, Gap

\* A byte the pattern goes on with is one it holds.
LEMMA InPattern ==
  ASSUME NEW k \in 1 .. patlength
  PROVE  Contains(pattern, pattern[k])
  BY DEF Contains, patlength

LEMMA InStepKept ==
  ASSUME SearchTypeOK, InStep, Kept' = Kept, perm' = perm, Passes
  PROVE  InStep'
<1>1. /\ count \in Nat /\ count + 1 \in 1 .. patlength
      /\ Position \in Nat /\ Readable \subseteq Nat /\ patlength \in Nat
  BY Numbers, PositionType, ReadableNumbers DEF SearchTypeOK
<1>2. InStepAt(Position, count)
  BY DEF InStep
<1>3. ASSUME NEW q \in Nat, NEW n, Position' = q, count' = n, InStepAt(q, n)
      PROVE  InStep'
  BY <1>3, SameBytes DEF InStep, InStepAt, Matched
<1>4. CASE Nothing
  <2> DEFINE q == Position'
  <2>1. /\ count' = count /\ q \in Nat /\ Position <= q
        /\ \A a \in Readable : ~ (Position <= a /\ a < q)
    BY <1>4 DEF Nothing, matched
  <2> HIDE DEF q
  <2>2. ClearAt(q) => ClearAt(Position)
    <3> SUFFICES ASSUME ClearAt(q), NEW a \in Readable, a < Position, Gap(a, Position)
                 PROVE  ~ Contains(pattern, Kept[a])
      BY DEF ClearAt
    <3>1. a < q
      BY <1>1, <2>1
    <3>2. Gap(a, q)
      BY <1>1, <2>1 DEF Gap
    <3> QED
      BY <3>1, <3>2 DEF ClearAt
  <2>3. ASSUME NEW s \in Runs, NEW j \in 1 .. patlength - 1,
               ClearAt(s[1]), Matched(s, j), s[j] < q, q <= s[j + 1]
        PROVE  count = j
    <3>1. s[j] \in Readable /\ s[j] \in Nat /\ s[j + 1] \in Nat
      BY <1>1, RunNumbers
    <3>2. s[j] < Position /\ Position <= s[j + 1]
      BY <3>1, <2>1, <2>3, <1>1
    <3> QED
      BY <3>2, <2>3, <1>2 DEF InStepAt
  <2>4. InStepAt(q, count)
    BY <2>2, <2>3, <1>2 DEF InStepAt
  <2> QED
    BY <2>1, <2>4, <1>3 DEF q
<1>5. ASSUME NEW a \in Addresses, Compares(a) PROVE InStep'
  <2>1. a \in Readable /\ a \in Nat /\ Position = a /\ Position' = a + 1
    BY <1>1, <1>5 DEF Compares
  <2>2. ClearAt(a + 1) => count' = 0
    <3> SUFFICES ASSUME ClearAt(a + 1) PROVE count' = 0
      OBVIOUS
    <3>1. Gap(a, a + 1)
      BY <2>1, <1>1 DEF Gap
    <3>2. ~ Contains(pattern, Kept[a])
      BY <3>1, <2>1 DEF ClearAt
    <3>3. Kept[a] # pattern[count + 1]
      BY <3>2, <1>1, InPattern
    <3> QED
      BY <3>3, <1>5 DEF Compares
  <2>3. ASSUME NEW s \in Runs, NEW j \in 1 .. patlength - 1,
               ClearAt(s[1]), Matched(s, j), s[j] < a + 1, a + 1 <= s[j + 1]
        PROVE  count' = j
    <3>1. s[j] \in Nat /\ s[j + 1] \in Nat /\ Gap(s[j], s[j + 1])
      BY <1>1, RunNumbers
    <3>2. s[j] = a
      BY <3>1, <2>1, <2>3 DEF Gap
    <3>3. Kept[a] = pattern[j]
      BY <3>2, <2>3 DEF Matched
    <3>4. CASE j = 1
      <4>1. count = 0
        BY <3>2, <3>4, <2>1, <2>3, <1>2 DEF InStepAt
      <4> QED
        BY <4>1, <3>3, <3>4, <1>1, <1>5 DEF Compares
    <3>5. CASE j # 1
      <4>1. j - 1 \in 1 .. patlength - 1 /\ (j - 1) + 1 = j /\ j \in Nat
        BY <3>5, <1>1
      <4>2. s[j - 1] < a /\ a <= s[(j - 1) + 1]
        BY <4>1, <3>2, <2>1, RunNumbers
      <4>3. Matched(s, j - 1)
        BY <4>1, <2>3 DEF Matched
      <4>4. count = j - 1
        BY <4>1, <4>2, <4>3, <2>1, <2>3, <1>2 DEF InStepAt
      <4> QED
        BY <4>1, <4>4, <3>3, <1>1, <1>5 DEF Compares
    <3> QED
      BY <3>4, <3>5
  <2>4. InStepAt(a + 1, count')
    BY <2>2, <2>3 DEF InStepAt
  <2> QED
    BY <2>1, <2>4, <1>3
<1> QED
  BY <1>4, <1>5 DEF Passes

LEMMA PassedFinite ==
  IsFiniteSet(Passed) /\ Cardinality(Passed) \in Nat /\ FoundEnds \subseteq Readable
<1>1. FoundEnds \subseteq Readable
  <2>1. \A s \in Runs : s[patlength] \in Readable
    BY RunNumbers, Numbers
  <2> QED
    BY <2>1, Zenon DEF FoundEnds
<1>2. AllBytes \in Nat /\ AllBytes - 1 \in Int
  BY Numbers DEF AllBytes
<1>3. Addresses = 0 .. AllBytes - 1
  BY DEF Addresses, AllBytes
<1>4. IsFiniteSet(Addresses)
  BY <1>2, <1>3, FS_Interval
<1>5. Passed \in SUBSET Addresses
  BY <1>1, ReadableNumbers DEF Passed
<1> QED
  BY <1>1, <1>4, <1>5, FS_Subset, FS_CardinalityType

\* When the search comes to the end of a match that is to be found, all but its
\* last byte are matched.
LEMMA EndIsMatched ==
  ASSUME SearchTypeOK, InStep, NEW a \in FoundEnds, Position = a
  PROVE  count + 1 = patlength /\ Kept[a] = pattern[patlength]
<1>1. PICK s \in Runs : Matched(s, patlength) /\ ClearAt(s[1]) /\ a = s[patlength]
  BY DEF FoundEnds
<1>2. patlength \in Nat /\ patlength > 0 /\ patlength \in 1 .. patlength
  BY Numbers
<1>3. Kept[a] = pattern[patlength]
  BY <1>1, <1>2 DEF Matched
<1>4. CASE patlength = 1
  <2>1. ClearAt(Position)
    BY <1>1, <1>4
  <2> QED
    BY <2>1, <1>3, <1>4 DEF InStep, InStepAt
<1>5. CASE patlength # 1
  <2>1. patlength - 1 \in 1 .. patlength - 1 /\ (patlength - 1) + 1 = patlength
    BY <1>2, <1>5
  <2>2. s[patlength - 1] < a /\ a <= s[(patlength - 1) + 1]
    <3>1. s[patlength - 1] < s[(patlength - 1) + 1] /\ s[patlength] \in Nat
      BY <2>1, <1>2, RunNumbers
    <3> QED
      BY <3>1, <2>1, <1>1
  <2>3. Matched(s, patlength - 1)
    BY <1>1, <1>2 DEF Matched
  <2>4. count = patlength - 1
    BY <2>1, <2>2, <2>3, <1>1 DEF InStep, InStepAt
  <2> QED
    BY <2>4, <1>2, <1>3
<1> QED
  BY <1>4, <1>5

LEMMA NoneMissedKept ==
  ASSUME SearchTypeOK, InStep, Recorded, NoneMissed, Kept' = Kept, perm' = perm,
         loclength' = loclength, Passes
  PROVE  NoneMissed'
<1>1. /\ Position \in Nat /\ occurances \in Nat /\ loclength \in Nat /\ patlength \in Nat
      /\ locations \in Seq(Match) /\ Len(locations) \in Nat
      /\ Len(locations) = Held(occurances)
  BY Numbers, PositionType, LimitsAssumption DEF SearchTypeOK, Recorded
<1>2. FoundEnds \subseteq Readable /\ FoundEnds \subseteq Nat /\ FoundEnds' = FoundEnds
  BY SameBytes, PassedFinite, ReadableNumbers
<1>3. Passed' = {a \in FoundEnds : a < Position'}
  BY <1>2 DEF Passed
<1>4. CASE Nothing
  <2>1. /\ UNCHANGED matched /\ Position' \in Nat /\ Position <= Position'
        /\ \A a \in Readable : ~ (Position <= a /\ a < Position')
    BY <1>4 DEF Nothing
  <2>2. \A a \in FoundEnds : a < Position' <=> a < Position
    BY <2>1, <1>1, <1>2
  <2>3. Passed' = Passed
    BY <2>2, <1>3 DEF Passed
  <2> QED
    BY <2>1, <2>3 DEF NoneMissed, matched
<1>5. ASSUME NEW a \in Addresses, Compares(a) PROVE NoneMissed'
  <2>1. a \in Readable /\ a \in Nat /\ Position = a /\ Position' = a + 1
    BY <1>5, ReadableNumbers DEF Compares
  <2>2. \A b \in FoundEnds : b < Position' <=> b < Position \/ b = a
    BY <2>1, <1>2
  <2>3. IsFiniteSet(Passed) /\ Cardinality(Passed) \in Nat
    BY PassedFinite
  <2>4. CASE a \notin FoundEnds
    <3>1. Passed' = Passed
      BY <2>2, <2>4, <1>3 DEF Passed
    <3>2. CASE UNCHANGED <<occurances, locations>>
      BY <3>1, <3>2 DEF NoneMissed
    <3>3. CASE ~ UNCHANGED <<occurances, locations>>
      <4> DEFINE new == [location |-> a - patlength, mode |-> ModeOf(a)]
      <4>1. /\ occurances' = occurances + 1
            /\ locations' = IF occurances <= loclength THEN Append(locations, new) ELSE locations
        BY <3>3, <1>5 DEF Compares
      <4>2. new \in Match
        BY <1>1, <2>1 DEF Match, ModeOf
      <4> HIDE DEF new
      <4>3. Cardinality(Passed') <= occurances'
        BY <3>1, <4>1, <2>3, <1>1 DEF NoneMissed
      <4>4. ASSUME occurances' <= Len(locations'), NEW b \in Passed'
            PROVE  \E n \in DOMAIN locations' : locations'[n].location = b - patlength
        <5>1. occurances <= loclength /\ occurances = Len(locations)
          BY <4>1, <4>4, <1>1 DEF Held
        <5>2. PICK n \in DOMAIN locations : locations[n].location = b - patlength
          BY <5>1, <4>4, <3>1, <1>1 DEF NoneMissed
        <5>3. n \in DOMAIN locations' /\ locations'[n] = locations[n]
          BY <4>1, <4>2, <5>1, <1>1, Append1
        <5> QED
          BY <5>2, <5>3
      <4> QED
        BY <4>3, <4>4 DEF NoneMissed
    <3> QED
      BY <3>2, <3>3
  <2>5. CASE a \in FoundEnds
    <3> DEFINE new == [location |-> a - patlength, mode |-> ModeOf(a)]
    <3>1. count + 1 = patlength /\ Kept[a] = pattern[count + 1]
      BY <2>1, <2>5, EndIsMatched
    <3>2. /\ occurances' = occurances + 1
          /\ locations' = IF occurances <= loclength THEN Append(locations, new) ELSE locations
      BY <3>1, <1>1, <1>5 DEF Compares
    <3>3. new \in Match /\ new.location = a - patlength
      BY <1>1, <2>1 DEF Match, ModeOf
    <3> HIDE DEF new
    <3>4. Passed' = Passed \cup {a}
      BY <2>2, <2>5, <1>3 DEF Passed
    <3>5. Cardinality(Passed') <= occurances'
      <4>1. Cardinality(Passed \cup {a}) <= Cardinality(Passed) + 1
        <5>1. Cardinality(Passed \cup {a}) =
                IF a \in Passed THEN Cardinality(Passed) ELSE Cardinality(Passed) + 1
          BY <2>3, FS_AddElement, Zenon
        <5>2. Cardinality(Passed) <= Cardinality(Passed) + 1
          BY <2>3
        <5> QED
          BY <5>1, <5>2, <2>3
      <4>2. Cardinality(Passed \cup {a}) \in Nat
        BY <2>3, FS_AddElement, FS_CardinalityType
      <4> QED
        BY <4>1, <4>2, <3>2, <3>4, <2>3, <1>1 DEF NoneMissed
    <3>6. ASSUME occurances' <= Len(locations'), NEW b \in Passed'
          PROVE  \E n \in DOMAIN locations' : locations'[n].location = b - patlength
      <4>1. occurances <= loclength /\ occurances = Len(locations)
        BY <3>2, <3>6, <1>1 DEF Held
      <4>2. /\ DOMAIN locations = 1 .. Len(locations) /\ DOMAIN locations' = 1 .. Len(locations) + 1
            /\ locations'[Len(locations) + 1] = new
            /\ \A n \in 1 .. Len(locations) : locations'[n] = locations[n]
        BY <3>2, <3>3, <4>1, <1>1, Append1
      <4>3. CASE b = a
        <5>1. Len(locations) + 1 \in DOMAIN locations'
          BY <4>2, <1>1
        <5> QED
          BY <5>1, <4>2, <4>3, <3>3
      <4>4. CASE b \in Passed
        <5>1. PICK n \in DOMAIN locations : locations[n].location = b - patlength
          BY <4>1, <4>4, <1>1 DEF NoneMissed
        <5>2. n \in DOMAIN locations' /\ locations'[n] = locations[n]
          BY <4>2, <1>1
        <5> QED
          BY <5>1, <5>2
      <4> QED
        BY <3>4, <3>6, <4>3, <4>4
    <3> QED
      BY <3>5, <3>6 DEF NoneMissed
  <2> QED
    BY <2>4, <2>5
<1> QED
  BY <1>4, <1>5 DEF Passes

\* A pass that begins has found nothing.
LEMMA PassBegins ==
  ASSUME SearchTypeOK', Begins
  PROVE  (Partial /\ Recorded /\ InStep /\ NoneMissed)'
<1>1. Position' = 0 /\ count' = 0 /\ occurances' = 0 /\ locations' = <<>>
  BY DEF Begins
<1>2. \A a \in Readable' : a \in Nat
  BY Numbers DEF Readable, Addresses
<1>3. Partial'
  <2> DEFINE t == [k \in 1 .. 0 |-> 0]
  <2>1. t \in Runs1(count)'
    BY <1>1 DEF Runs1
  <2> QED
    BY <2>1, <1>1 DEF Partial, Matched
<1>4. Recorded'
  <2>1. Held(occurances)' = 0
    <3>1. loclength' \in Nat
      BY LimitsAssumption DEF SearchTypeOK
    <3> QED
      BY <3>1, <1>1 DEF Held
  <2> QED
    BY <2>1, <1>1 DEF Recorded
<1>5. \A s \in Runs', k \in 1 .. patlength : s[k] \in Readable'
  BY DEF Runs
<1>6. InStep'
  <2>1. \A s \in Runs', j \in 1 .. patlength - 1 : ~ (s[j] < 0)
    <3> SUFFICES ASSUME NEW s \in Runs', NEW j \in 1 .. patlength - 1 PROVE ~ (s[j] < 0)
      OBVIOUS
    <3>1. s[j] \in Nat
      BY <1>2, <1>5, Numbers
    <3> QED
      BY <3>1
  <2> QED
    BY <1>1, <2>1 DEF InStep, InStepAt
<1>7. NoneMissed'
  <2>1. Passed' = {}
    <3>1. FoundEnds' \subseteq Readable'
      BY <1>5, Numbers DEF FoundEnds
    <3> QED
      BY <3>1, <1>1, <1>2 DEF Passed
  <2> QED
    BY <2>1, <1>1, FS_EmptySet DEF NoneMissed
<1> QED
  BY <1>3, <1>4, <1>6, <1>7

\* The invariant of the search, over its own steps.
LEMMA SearchKept ==
  ASSUME SearchInv, Search
  PROVE  /\ SearchInv' /\ Kept' = Kept /\ UNCHANGED <<perm, loclength>>
         /\ Begins \/ Passes
<1>1. SearchTypeOK /\ Control /\ (Underway => Len(locations) = Held(occurances))
  BY DEF SearchInv, Recorded
<1>2. /\ SearchTypeOK' /\ Control' /\ Kept' = Kept /\ UNCHANGED <<perm, loclength>>
      /\ Begins \/ Passes
  BY <1>1, SearchSteps
<1>3. CASE Begins
  BY <1>2, <1>3, PassBegins DEF SearchInv
<1>4. CASE Passes
  <2>1. Underway /\ Partial /\ Recorded /\ InStep /\ NoneMissed
    BY <1>4 DEF Passes, SearchInv
  <2> QED
    BY <1>1, <1>2, <1>4, <2>1, PartialKept, RecordedKept, InStepKept, NoneMissedKept DEF SearchInv
<1> QED
  BY <1>2, <1>3, <1>4

----------------------------------------------------------------------------
(* The drivers *)

LEMMA MinIsIn ==
  ASSUME NEW S \in SUBSET Nat, S # {}
  PROVE  Min(S) \in S
<1>1. PICK x \in S : \A y \in S : <<y, x>> \notin OpToRel(<, Nat)
  BY NatLessThanWellFounded, WFMin, Zenon
<1>2. ASSUME NEW y \in S, y < x PROVE FALSE
  <2>1. <<y, x>> \in Nat \X Nat /\ <<y, x>>[1] < <<y, x>>[2]
    BY <1>2
  <2>2. <<y, x>> \in OpToRel(<, Nat)
    BY <2>1, Zenon DEF OpToRel
  <2> QED
    BY <1>1, <2>2
<1>3. \A y \in S : x <= y
  BY <1>2
<1> QED
  BY <1>3, Zenon DEF Min

LEMMA MinOfTwo ==
  ASSUME NEW m \in Nat, NEW n \in Nat
  PROVE  Min({m, n}) = IF m <= n THEN m ELSE n
<1> DEFINE least == IF m <= n THEN m ELSE n
<1>1. least \in {m, n} /\ \A y \in {m, n} : least <= y
  OBVIOUS
<1>2. \A x \in {m, n} : (\A y \in {m, n} : x <= y) => x = least
  OBVIOUS
<1> HIDE DEF least
<1>3. Min({m, n}) = least
  BY <1>1, <1>2 DEF Min
<1> QED
  BY <1>3 DEF least

\* What the second report prints.
LEMMA PrintedIs ==
  ASSUME SearchTypeOK
  PROVE  \E n \in Nat : /\ n = IF loclength <= Len(locations) THEN loclength ELSE Len(locations)
                        /\ DOMAIN Printed = 1 .. n
                        /\ \A k \in 1 .. n : Printed[k] = locations[k]
<1>1. locations \in Seq(Match) /\ Len(locations) \in Nat /\ loclength \in Nat
  BY LimitsAssumption DEF SearchTypeOK
<1> DEFINE n == IF loclength <= Len(locations) THEN loclength ELSE Len(locations)
<1>2. n \in Nat /\ n <= Len(locations)
  BY <1>1
<1>3. Printed = SubSeq(locations, 1, n)
  BY <1>1, MinOfTwo DEF Printed
<1> HIDE DEF n
<1>4. DOMAIN Printed = 1 .. n /\ \A k \in 1 .. n : Printed[k] = locations[k]
  BY <1>1, <1>2, <1>3
<1> QED
  BY <1>2, <1>4 DEF n

\* A record of a match, told by where it ends.
LEMMA EndIs ==
  ASSUME NEW m \in Match, NEW a \in Nat
  PROVE  EndOf(m) = a <=> m.location = a - patlength
BY Numbers DEF EndOf, Match

\* The block lies on one page, and so does the byte behind what is copied there.
LEMMA BlockBand ==
  ASSUME NEW b \in Addresses, Room(b)
  PROVE  /\ PageOf(b) \in Pages
         /\ \A k \in 0 .. patlength : b + k \in Addresses /\ PageOf(b + k) = PageOf(b)
         /\ b % pagesize > 0 => b - 1 \in Addresses /\ PageOf(b - 1) = PageOf(b)
<1>1. b \in Nat /\ PageOf(b) \in Pages
  BY PageThere DEF Addresses
<1>2. /\ First(PageOf(b)) \in Nat /\ patlength \in Nat /\ pagesize \in Nat
      /\ First(PageOf(b)) <= b /\ b < First(PageOf(b)) + pagesize
      /\ b % pagesize \in Nat /\ b % pagesize = b - First(PageOf(b))
  BY <1>1, Dividing, PageStarts, Numbers
<1>3. (b % pagesize) + patlength < pagesize
  BY DEF Room
<1> HIDE DEF First, PageOf
<1>4. ASSUME NEW k \in 0 .. patlength
      PROVE  b + k \in Addresses /\ PageOf(b + k) = PageOf(b)
  <2>1. b + k \in Int /\ First(PageOf(b)) <= b + k /\ b + k < First(PageOf(b)) + pagesize
    BY <1>1, <1>2, <1>3
  <2> QED
    BY <1>1, <2>1, PageBand
<1>5. ASSUME b % pagesize > 0
      PROVE  b - 1 \in Addresses /\ PageOf(b - 1) = PageOf(b)
  <2>1. b - 1 \in Int /\ First(PageOf(b)) <= b - 1 /\ b - 1 < First(PageOf(b)) + pagesize
    BY <1>1, <1>2, <1>5
  <2> QED
    BY <1>1, <2>1, PageBand
<1> QED
  BY <1>1, <1>4, <1>5

LEMMA InitTypes ==
  ASSUME Init
  PROVE  TypeOK /\ SearchInv /\ Phases
<1> USE DEF Init, SearchInit
<1>1. mem \in [Addresses -> Bytes]
  <2>1. PICK held \in [{p \in Pages : perm[p] # "none"} -> Contents] :
          mem = [a \in Addresses |-> IF perm[PageOf(a)] = "none" THEN W
                                     ELSE held[PageOf(a)][a % pagesize]]
    OBVIOUS
  <2>2. ASSUME NEW a \in Addresses, perm[PageOf(a)] # "none"
        PROVE  held[PageOf(a)][a % pagesize] \in Bytes
    <3>1. PageOf(a) \in Pages /\ a \in Nat
      BY PageThere DEF Addresses
    <3>2. held[PageOf(a)] \in Contents /\ a % pagesize \in 0 .. pagesize - 1
      BY <2>2, <3>1, Dividing
    <3>3. held[PageOf(a)] \in [0 .. pagesize - 1 -> Bytes]
      BY <3>2, BytesAssumption
    <3> QED
      BY <3>2, <3>3
  <2> QED
    BY <2>1, <2>2, BytesAssumption
<1>2. 0 \in Pages /\ 0 \in 0 .. pagesize /\ 0 \in 0 .. patlength - 1 /\ loclength \in Nat
  BY Numbers, LimitsAssumption DEF Pages
<1>3. <<>> \in Seq(Match) /\ Len(<<>>) = 0 /\ <<>> \in Seq({"U", "C", "N"})
  OBVIOUS
<1>4. SearchTypeOK
  BY <1>1, <1>2, <1>3, BytesAssumption DEF SearchTypeOK
<1>5. TypeOK
  BY <1>3, <1>4 DEF TypeOK
<1> QED
  BY <1>4, <1>5 DEF SearchInv, Control, Underway, Phases

\* Between the searches the search stands still.
LEMMA StillInv ==
  ASSUME SearchInv, UNCHANGED searchVars
  PROVE  SearchInv' /\ Kept' = Kept /\ Position' = Position
<1>1. /\ UNCHANGED <<mem, perm, loclength, pc, flag, jump, data, mode, handler, address, i>>
      /\ UNCHANGED matched /\ UNCHANGED <<count, occurances, locations>>
  BY DEF searchVars, caller, probed, matched
<1>2. SearchTypeOK /\ Control
  BY DEF SearchInv
<1>3. SearchTypeOK'
  BY <1>1, <1>2 DEF SearchTypeOK
<1>4. Control'
  BY <1>1, <1>2, Zenon DEF Control, First
<1>5. Kept' = Kept /\ Position' = Position
  BY <1>1 DEF Kept, Position, First
<1>6. Position \in Nat /\ \A a \in Readable : a \in Nat
  BY <1>2, PositionType, ReadableNumbers
<1>7. CASE Underway
  <2>1. Passes
    BY <1>1, <1>5, <1>6, <1>7 DEF Passes, Nothing, Underway
  <2> QED
    BY <1>1, <1>2, <1>3, <1>4, <1>5, <1>7, <2>1, PartialKept, RecordedKept, InStepKept,
       NoneMissedKept DEF SearchInv
<1>8. CASE ~ Underway
  BY <1>1, <1>3, <1>4, <1>5, <1>8 DEF SearchInv, Underway
<1> QED
  BY <1>7, <1>8

\* A driver that calls findpattern again starts a search.
LEMMA CallInv ==
  ASSUME TypeOK, SearchInv, Phases, CallsAgain,
         mem' \in [Addresses -> Bytes], perm' \in Space
  PROVE  TypeOK' /\ SearchInv' /\ Phases'
<1>1. /\ phase' = "second" /\ pc' = "called" /\ pc = "returned"
      /\ UNCHANGED <<loclength, flag, jump, data, mode, handler, address, i,
                     count, occurances, locations, driver, block, stdio, first, flags>>
  BY DEF CallsAgain, Phases, Returned, probed, matched
<1>2. SearchTypeOK'
  BY <1>1 DEF TypeOK, SearchTypeOK
<1>3. TypeOK'
  BY <1>1, <1>2 DEF TypeOK
<1> QED
  BY <1>1, <1>2, <1>3 DEF SearchInv, Control, Underway, Phases

\* What the driver changes, and that the memory it leaves to the search is one.
LEMMA ReportedType ==
  ASSUME TypeOK, NEW m \in Reported
  PROVE  m \in [Addresses -> Bytes] /\ \A a \in Addresses : a \notin stdio => m[a] = mem[a]
BY DEF Reported, TypeOK, SearchTypeOK

LEMMA PlaceWrites ==
  ASSUME TypeOK, SearchInv, Phases, Place
  PROVE  /\ mem' \in [Addresses -> Bytes] /\ perm' = perm
         /\ Kept = mem /\ Kept' = mem'
         /\ \A a \in Addresses : a < block /\ a \notin stdio => mem'[a] = mem[a]
         /\ \A k \in 1 .. patlength : block + k - 1 \in Addresses =>
              mem'[block + k - 1] = pattern[k]
<1>1. block \in Nat /\ patlength \in Nat /\ mem \in [Addresses -> Bytes]
      /\ Addresses \subseteq Nat
  BY Numbers DEF TypeOK, SearchTypeOK, Addresses
<1>7. PICK m \in Reported :
        mem' = [a \in Addresses |->
                  IF a \in block .. block + patlength - 1 THEN pattern[a - block + 1]
                  ELSE IF a = block + patlength THEN Zero ELSE m[a]]
  BY DEF Place
<1>8. m \in [Addresses -> Bytes] /\ \A a \in Addresses : a \notin stdio => m[a] = mem[a]
  BY ReportedType
<1>2. mem' = [a \in Addresses |->
               IF a \in block .. block + patlength - 1 THEN pattern[a - block + 1]
               ELSE IF a = block + patlength THEN Zero ELSE m[a]]
  BY <1>7
<1>3. mem' \in [Addresses -> Bytes]
  <2>1. ASSUME NEW a \in Addresses, a \in block .. block + patlength - 1
        PROVE  pattern[a - block + 1] \in Bytes
    <3>1. a - block + 1 \in 1 .. patlength
      BY <1>1, <2>1
    <3> QED
      BY <3>1, Numbers
  <2> QED
    BY <1>1, <1>2, <1>8, <2>1, ZeroAssumption
<1>4. \A a \in Addresses : a < block /\ a \notin stdio => mem'[a] = mem[a]
  BY <1>1, <1>2, <1>8
<1>5. ASSUME NEW k \in 1 .. patlength, block + k - 1 \in Addresses
      PROVE  mem'[block + k - 1] = pattern[k]
  <2>1. block + k - 1 \in block .. block + patlength - 1 /\ (block + k - 1) - block + 1 = k
    BY <1>1
  <2> QED
    BY <1>2, <1>5, <2>1
<1>6. pc = "returned" /\ pc' = "called" /\ perm' = perm
  BY DEF Place, CallsAgain, Phases, Returned
<1> QED
  BY <1>3, <1>4, <1>5, <1>6 DEF Kept

LEMMA RemapWrites ==
  ASSUME TypeOK, SearchInv, Phases, MappingInv, Remap
  PROVE  /\ mem' \in [Addresses -> Bytes] /\ perm' \in Space
         /\ \A a \in Addresses : a \notin stdio => Kept'[a] = Kept[a]
         /\ perm' = [perm EXCEPT ![PageOf(block)] = "write"]
         /\ perm[PageOf(block)] = "read" /\ PageOf(block) \in Pages
<1>4. mem' \in [Addresses -> Bytes] /\ \A a \in Addresses : a \notin stdio => mem'[a] = mem[a]
  BY ReportedType DEF Remap
<1>1. /\ pc = "returned" /\ pc' = "called" /\ driver = 3 /\ phase = "reported"
      /\ perm' = [perm EXCEPT ![PageOf(block)] = "write"]
  BY DEF Remap, CallsAgain, Phases, Returned
<1>2. perm[PageOf(block)] = "read" /\ PageOf(block) \in Pages /\ perm \in Space
  BY <1>1, PageThere DEF MappingInv, Early, TypeOK, SearchTypeOK
<1>3. PageOf(block) \in Mapped
  BY <1>2 DEF Space
<1> QED
  BY <1>1, <1>2, <1>3, <1>4 DEF Space, Kept

\* Once the pattern has been copied into the block, a search that has come to
\* the end has counted the match there, and recorded it if there was room.
LEMMA BlockIsFound ==
  ASSUME TypeOK, SearchInv, HeapInv, Returned, driver = 1, ~ Early,
         occurances <= loclength
  PROVE  \E n \in 1 .. Len(locations) : IsBlock(locations[n]) /\ n <= loclength
<1> DEFINE s == [k \in 1 .. patlength |-> block + k - 1]
<1>1. /\ block \in Addresses /\ block \in Nat /\ patlength \in Nat /\ patlength > 0
      /\ perm[PageOf(block)] = "write" /\ Room(block) /\ block % pagesize > 0
      /\ Kept[block - 1] = Zero
      /\ \A k \in 1 .. patlength : Kept[block + k - 1] = pattern[k]
  BY Numbers DEF TypeOK, HeapInv, Addresses
<1>2. /\ occurances \in Nat /\ loclength \in Nat /\ Len(locations) \in Nat
      /\ DOMAIN locations = 1 .. Len(locations) /\ Readable \subseteq Nat
  BY ReadableNumbers, LimitsAssumption DEF TypeOK, SearchTypeOK
<1>3. \A k \in 1 .. patlength : s[k] \in Readable
  <2> SUFFICES ASSUME NEW k \in 1 .. patlength PROVE s[k] \in Readable
    OBVIOUS
  <2>1. k - 1 \in 0 .. patlength /\ block + (k - 1) = block + k - 1
    BY <1>1
  <2>2. block + k - 1 \in Addresses /\ PageOf(block + k - 1) = PageOf(block)
    BY <1>1, <2>1, BlockBand
  <2> QED
    BY <1>1, <2>2 DEF Readable
<1>4. \A k \in 1 .. patlength - 1 : Follows(s[k], s[k + 1])
  <2> SUFFICES ASSUME NEW k \in 1 .. patlength - 1 PROVE Follows(s[k], s[k + 1])
    OBVIOUS
  <2>1. s[k] = block + k - 1 /\ s[k + 1] = block + k /\ k \in Nat
    BY <1>1
  <2>2. \A c \in Readable : ~ (block + k - 1 < c /\ c < block + k)
    BY <1>1, <1>2, <2>1
  <2>3. block + k - 1 < block + k
    BY <1>1, <2>1
  <2> QED
    BY <2>1, <2>2, <2>3 DEF Follows
<1>5. s \in Runs
  BY <1>3, <1>4 DEF Runs
<1>6. Matched(s, patlength)
  BY <1>1 DEF Matched
<1>7. s[1] = block /\ s[patlength] = block + patlength - 1
  BY <1>1
<1>8. ClearAt(block)
  <2> SUFFICES ASSUME NEW a \in Readable, a < block, Gap(a, block)
               PROVE  ~ Contains(pattern, Kept[a])
    BY DEF ClearAt
  <2>1. block - 1 \in Addresses /\ PageOf(block - 1) = PageOf(block)
    BY <1>1, BlockBand
  <2>2. block - 1 \in Readable
    BY <1>1, <2>1 DEF Readable
  <2>3. a = block - 1
    BY <1>1, <1>2, <2>2 DEF Gap
  <2> QED
    BY <1>1, <2>3, ZeroAssumption
<1> HIDE DEF s
<1>9. s[patlength] \in FoundEnds
  BY <1>5, <1>6, <1>7, <1>8 DEF FoundEnds
<1>10. s[patlength] < Position
  <2>1. s[patlength] \in Addresses /\ Position = AllBytes /\ AllBytes \in Nat
    BY <1>1, <1>3, Numbers DEF Readable, Returned, Position, AllBytes
  <2>2. Addresses = 0 .. AllBytes - 1
    BY DEF Addresses, AllBytes
  <2> QED
    BY <2>1, <2>2
<1>11. Len(locations) = occurances /\ NoneMissed
  BY <1>2 DEF SearchInv, Recorded, Held, Returned, Underway
<1>12. PICK n \in DOMAIN locations : locations[n].location = s[patlength] - patlength
  BY <1>2, <1>9, <1>10, <1>11 DEF NoneMissed, Passed
<1>13. IsBlock(locations[n])
  BY <1>1, <1>7, <1>12 DEF IsBlock, EndOf
<1> QED
  BY <1>2, <1>11, <1>12, <1>13

\* So the second report flags it.
LEMMA ReportFlagsBlock ==
  ASSUME TypeOK, SearchInv, HeapInv, Compare
  PROVE  HeapMatchIsFound'
<1>1. /\ Returned /\ phase = "second" /\ phase' = "compared"
      /\ UNCHANGED searchVars /\ UNCHANGED <<driver, block, stdio, first>>
      /\ flags' \in [DOMAIN Printed -> {"U", "C", "N"}]
      /\ \A n \in DOMAIN Printed : flags'[n] \in FlagsOf(Printed[n])
  BY DEF Compare
<1>2. UNCHANGED <<occurances, loclength, locations>>
  BY <1>1 DEF searchVars, caller, matched
<1> SUFFICES ASSUME driver = 1, occurances <= loclength
             PROVE  \E n \in DOMAIN flags' :
               /\ IsBlock(locations[n])
               /\ \/ flags'[n] = "N"
                  \/ \E m \in DOMAIN first.locations : IsBlock(first.locations[m])
                  \/ first.occurances > Len(first.locations)
  BY <1>1, <1>2 DEF HeapMatchIsFound, IsBlock, EndOf
<1>3. PICK n \in 1 .. Len(locations) : IsBlock(locations[n]) /\ n <= loclength
  BY <1>1, BlockIsFound DEF Early
<1>4. n \in DOMAIN Printed /\ Printed[n] = locations[n]
  <2>1. Len(locations) \in Nat /\ loclength \in Nat
    BY LimitsAssumption DEF TypeOK, SearchTypeOK
  <2>2. PICK m \in Nat : /\ m = IF loclength <= Len(locations) THEN loclength ELSE Len(locations)
                         /\ DOMAIN Printed = 1 .. m
                         /\ \A k \in 1 .. m : Printed[k] = locations[k]
    BY PrintedIs DEF TypeOK
  <2>3. n \in 1 .. m
    BY <1>3, <2>1, <2>2
  <2> QED
    BY <2>2, <2>3
<1>5. n \in DOMAIN flags' /\ flags'[n] \in FlagsOf(locations[n])
  BY <1>1, <1>4
<1>6. \A m \in DOMAIN first.locations :
        first.locations[m].location = locations[n].location => IsBlock(first.locations[m])
  BY <1>3 DEF IsBlock, EndOf
<1> QED
  BY <1>3, <1>5, <1>6 DEF FlagsOf

LEMMA SearchTypes ==
  ASSUME IInv, Searching
  PROVE  IInv' /\ Kept' = Kept /\ UNCHANGED <<perm, loclength>> /\ (Begins \/ Passes)
<1>1. /\ SearchInv' /\ Kept' = Kept /\ UNCHANGED <<perm, loclength>>
      /\ Begins \/ Passes
  BY SearchKept DEF IInv, Searching
<1>2. UNCHANGED <<driver, block, stdio, phase, first, flags>>
  BY DEF Searching, own
<1>3. TypeOK'
  BY <1>1, <1>2 DEF IInv, TypeOK, SearchInv
<1>4. ~ Returned
  BY DEF Searching, Search, Begin, Probe, Fault, Load, Skip, Overwrite, PutBack, ReadOnly,
         Scan, Advance, Complete, Mismatch, NextPage, Scanning, Return, Returned
<1>5. phase \notin {"reported", "compared"}
  BY <1>4 DEF IInv, Phases
<1>6. Phases' /\ HeapMatchIsFound'
  BY <1>2, <1>5 DEF Phases, HeapMatchIsFound, Compared
<1>7. HeapInv' /\ MappingInv'
  BY <1>1, <1>2 DEF IInv, HeapInv, MappingInv, Early
<1> QED
  BY <1>1, <1>3, <1>6, <1>7 DEF IInv

LEMMA ReportTypes ==
  ASSUME IInv, Report
  PROVE  IInv' /\ Kept' = Kept /\ Position' = Position
<1>1. /\ UNCHANGED searchVars /\ UNCHANGED <<driver, block, stdio, flags>>
      /\ Returned /\ phase = "first" /\ phase' = "reported"
      /\ first' = [occurances |-> occurances,
                   locations |-> [n \in DOMAIN locations |->
                                    IF driver # 3 /\ n <= loclength
                                    THEN [locations[n] EXCEPT !.mode = "MEM_RO"]
                                    ELSE locations[n]]]
  BY DEF Report
<1>2. SearchInv' /\ Kept' = Kept /\ Position' = Position
  BY <1>1, StillInv DEF IInv
<1>3. UNCHANGED perm /\ UNCHANGED pc
  BY <1>1 DEF searchVars, caller
<1>4. first' \in [occurances : Nat, locations : Seq(Match)]
  <2>1. locations \in Seq(Match) /\ occurances \in Nat
    BY DEF IInv, TypeOK, SearchTypeOK
  <2> DEFINE kept == [n \in DOMAIN locations |->
                        IF driver # 3 /\ n <= loclength
                        THEN [locations[n] EXCEPT !.mode = "MEM_RO"]
                        ELSE locations[n]]
  <2>2. ASSUME NEW n \in DOMAIN locations PROVE kept[n] \in Match
    <3>1. locations[n] \in Match
      BY <2>1
    <3> QED
      BY <3>1 DEF Match
  <2>3. kept \in Seq(Match)
    <3>1. Len(locations) \in Nat /\ DOMAIN locations = 1 .. Len(locations)
      BY <2>1
    <3>2. kept \in [1 .. Len(locations) -> Match]
      BY <2>2, <3>1
    <3> HIDE DEF kept
    <3> QED
      BY <3>1, <3>2
  <2> QED
    BY <1>1, <2>1, <2>3
<1>5. TypeOK'
  BY <1>1, <1>2, <1>4 DEF IInv, TypeOK, SearchInv
<1>6. Phases' /\ HeapMatchIsFound'
  BY <1>1, <1>3 DEF Phases, Returned, HeapMatchIsFound, Compared
<1>7. HeapInv' /\ MappingInv'
  BY <1>1, <1>2, <1>3 DEF IInv, HeapInv, MappingInv, Early
<1> QED
  BY <1>2, <1>5, <1>6, <1>7 DEF IInv

LEMMA PlaceTypes ==
  ASSUME IInv, Place
  PROVE  IInv'
<1>1. /\ mem' \in [Addresses -> Bytes] /\ perm' = perm
      /\ Kept = mem /\ Kept' = mem'
      /\ \A a \in Addresses : a < block /\ a \notin stdio => mem'[a] = mem[a]
      /\ \A k \in 1 .. patlength : block + k - 1 \in Addresses =>
           mem'[block + k - 1] = pattern[k]
  BY PlaceWrites DEF IInv
<1>2. /\ CallsAgain /\ phase' = "second" /\ UNCHANGED <<driver, block, stdio>> /\ driver \in {1, 2}
  BY DEF Place, CallsAgain
<1>3. TypeOK' /\ SearchInv' /\ Phases'
  BY <1>1, <1>2, CallInv DEF IInv, TypeOK, SearchTypeOK
<1>4. HeapInv'
  <2> SUFFICES ASSUME driver = 1 PROVE HeapInv'
    BY <1>2 DEF HeapInv
  <2>1. /\ block \in Addresses /\ Room(block) /\ block % pagesize > 0
        /\ perm[PageOf(block)] = "write" /\ mem[block - 1] = Zero /\ block - 1 \notin stdio
    BY <1>1 DEF IInv, TypeOK, HeapInv
  <2>2. block \in Nat /\ block - 1 \in Addresses /\ block - 1 < block
    BY <2>1, BlockBand, Numbers DEF Addresses
  <2>3. ASSUME NEW k \in 1 .. patlength PROVE block + k - 1 \in Addresses
    <3>1. k - 1 \in 0 .. patlength /\ block + (k - 1) = block + k - 1
      BY <2>2, Numbers
    <3> QED
      BY <2>1, <3>1, BlockBand
  <2> QED
    BY <1>1, <1>2, <2>1, <2>2, <2>3 DEF HeapInv, Room
<1>5. MappingInv' /\ HeapMatchIsFound'
  BY <1>2 DEF MappingInv, HeapMatchIsFound, Compared
<1> QED
  BY <1>3, <1>4, <1>5 DEF IInv

LEMMA RemapTypes ==
  ASSUME IInv, Remap
  PROVE  IInv'
<1>1. /\ mem' \in [Addresses -> Bytes] /\ perm' \in Space /\ PageOf(block) \in Pages
      /\ perm' = [perm EXCEPT ![PageOf(block)] = "write"]
  BY RemapWrites DEF IInv
<1>2. CallsAgain /\ phase' = "second" /\ UNCHANGED <<driver, block, stdio>> /\ driver = 3
  BY DEF Remap, CallsAgain
<1>3. TypeOK' /\ SearchInv' /\ Phases'
  BY <1>1, <1>2, CallInv DEF IInv, TypeOK, SearchTypeOK
<1>4. HeapInv' /\ HeapMatchIsFound'
  BY <1>2 DEF HeapInv, HeapMatchIsFound, Compared
<1>5. perm'[PageOf(block)] = "write"
  BY <1>1 DEF IInv, TypeOK, SearchTypeOK, Space
<1>6. MappingInv'
  BY <1>2, <1>5 DEF MappingInv, Early
<1> QED
  BY <1>3, <1>4, <1>6 DEF IInv

LEMMA CompareTypes ==
  ASSUME IInv, Compare
  PROVE  IInv' /\ Kept' = Kept /\ Position' = Position
<1>1. /\ UNCHANGED searchVars /\ UNCHANGED <<driver, block, stdio, first>>
      /\ Returned /\ phase = "second" /\ phase' = "compared"
      /\ flags' \in [DOMAIN Printed -> {"U", "C", "N"}]
  BY DEF Compare
<1>2. SearchInv' /\ Kept' = Kept /\ Position' = Position
  BY <1>1, StillInv DEF IInv
<1>3. UNCHANGED perm /\ UNCHANGED pc
  BY <1>1 DEF searchVars, caller
<1>4. flags' \in Seq({"U", "C", "N"})
  <2>1. PICK n \in Nat : DOMAIN Printed = 1 .. n
    BY PrintedIs DEF IInv, TypeOK
  <2> QED
    BY <1>1, <2>1
<1>5. TypeOK'
  BY <1>1, <1>2, <1>4 DEF IInv, TypeOK, SearchInv
<1>6. Phases'
  BY <1>1, <1>3 DEF Phases, Returned
<1>7. HeapInv' /\ MappingInv'
  BY <1>1, <1>2, <1>3 DEF IInv, HeapInv, MappingInv, Early
<1>8. HeapMatchIsFound'
  BY ReportFlagsBlock DEF IInv
<1> QED
  BY <1>2, <1>5, <1>6, <1>7, <1>8 DEF IInv

LEMMA StutterTypes ==
  ASSUME IInv, UNCHANGED vars
  PROVE  IInv' /\ Kept' = Kept /\ Position' = Position
<1>1. UNCHANGED searchVars /\ UNCHANGED <<driver, block, stdio, phase, first, flags>>
  BY DEF vars, own
<1>2. SearchInv' /\ Kept' = Kept /\ Position' = Position
  BY <1>1, StillInv DEF IInv
<1>3. UNCHANGED <<perm, pc, loclength, occurances, locations>>
  BY <1>1 DEF searchVars, caller, matched
<1>4. TypeOK' /\ Phases'
  BY <1>1, <1>2, <1>3 DEF IInv, TypeOK, SearchInv, Phases, Returned
<1>5. HeapInv' /\ MappingInv'
  BY <1>1, <1>2, <1>3 DEF IInv, HeapInv, MappingInv, Early
<1>6. HeapMatchIsFound'
  BY <1>1, <1>3 DEF IInv, HeapMatchIsFound, Compared, IsBlock, EndOf
<1> QED
  BY <1>2, <1>4, <1>5, <1>6 DEF IInv

\* IInv holds from the beginning, and every step keeps it.
THEOREM Invariance == Spec => []IInv
<1>1. Init => IInv
  <2> SUFFICES ASSUME Init PROVE IInv
    OBVIOUS
  <2>1. TypeOK /\ SearchInv /\ Phases
    BY InitTypes
  <2>2. phase = "first" /\ Kept = mem
    BY DEF Init, SearchInit, Kept
  <2>3. /\ driver = 1 => HeapBlock(block)
        /\ driver = 3 => Mapping(block)
    <3>1. CASE driver = 1
      <4>1. block \in {a \in Addresses : HeapBlock(a)}
        BY <3>1 DEF Init, HeapBlock
      <4> QED
        BY <3>1, <4>1
    <3>2. CASE driver = 3
      <4>1. block \in {a \in Addresses : Mapping(a)}
        BY <3>2 DEF Init
      <4> QED
        BY <3>2, <4>1
    <3> QED
      BY <3>1, <3>2
  <2>4. HeapInv
    <3>1. stdio \in {S \in Buffers : \A a \in S : perm[PageOf(a)] = "write"
                                             /\ a \notin block - 1 .. block + patlength}
      BY DEF Init
    <3>2. block \in Nat /\ block - 1 \in block - 1 .. block + patlength
      BY <2>1, Numbers DEF TypeOK, Addresses
    <3>3. block - 1 \notin stdio
      BY <3>1, <3>2
    <3> QED
      BY <2>2, <2>3, <3>3 DEF HeapInv, HeapBlock, Early
  <2>5. MappingInv /\ HeapMatchIsFound
    BY <2>2, <2>3 DEF MappingInv, HeapMatchIsFound, Mapping, Early, Compared
  <2> QED
    BY <2>1, <2>4, <2>5 DEF IInv
<1>2. IInv /\ [Next]_vars => IInv'
  BY SearchTypes, ReportTypes, PlaceTypes, RemapTypes, CompareTypes, StutterTypes DEF Next
<1> QED
  BY <1>1, <1>2, PTL DEF Spec

\* The variables stay in their types; in particular the matched part stays
\* shorter than the pattern, and no more than loclength + 1 matches are recorded.
THEOREM TypeCorrect == Spec => []TypeOK
<1>1. IInv => TypeOK
  BY DEF IInv
<1> QED
  BY <1>1, Invariance, PTL

\* Every match that is recorded ends where the pattern ends in the readable bytes,
\* is recorded with the mode of the page it ends on, and overlaps none of the others.
THEOREM RecordedAreMatchesHolds == Spec => []RecordedAreMatches
<1>1. ASSUME IInv, Returned PROVE RecordedAreMatches
  <2>1. Recorded /\ Kept = mem
    BY <1>1 DEF IInv, SearchInv, Returned, Underway, Kept
  <2>2. \A s \in Runs : Matched(s, patlength) => s \in Standing
    BY <2>1 DEF Matched, Standing
  <2>3. ASSUME NEW n \in DOMAIN locations
        PROVE  \E s \in Standing :
                 EndOf(locations[n]) = s[patlength] /\ locations[n].mode = ModeOf(s[patlength])
    <3>1. PICK s \in Runs :
            /\ Matched(s, patlength)
            /\ locations[n] = [location |-> s[patlength] - patlength, mode |-> ModeOf(s[patlength])]
      BY <2>1 DEF Recorded
    <3>2. s \in Standing /\ s[patlength] \in Nat
      BY <3>1, <2>2, RunNumbers, Numbers
    <3> QED
      BY <3>1, <3>2, Numbers DEF EndOf
  <2>4. ASSUME NEW n \in 2 .. Len(locations)
        PROVE  EndOf(locations[n]) - EndOf(locations[n - 1]) >= patlength
    <3>1. locations \in Seq(Match)
      BY <1>1 DEF IInv, TypeOK, SearchTypeOK
    <3>4. \A k \in DOMAIN locations : locations[k].location \in Int
      <4>1. \A k \in DOMAIN locations : locations[k] \in Match
        BY <3>1
      <4> QED
        BY <4>1 DEF Match
    <3>2. n \in DOMAIN locations /\ n - 1 \in DOMAIN locations /\ n - 1 < n
      BY <3>1, <2>4
    <3>3. locations[n].location - locations[n - 1].location >= patlength
      BY <2>1, <3>2 DEF Recorded
    <3> QED
      BY <3>2, <3>3, <3>4, Numbers DEF EndOf
  <2> QED
    BY <2>3, <2>4 DEF RecordedAreMatches
<1>2. IInv => RecordedAreMatches
  BY <1>1 DEF RecordedAreMatches
<1> QED
  BY <1>2, Invariance, PTL

\* Every match that begins behind a byte the pattern does not hold, or at the
\* first byte that can be read, is counted, and recorded if there was room.
THEOREM MatchesAreCountedHolds == Spec => []MatchesAreCounted
<1>1. ASSUME IInv, Returned PROVE MatchesAreCounted
  <2>1. NoneMissed /\ Kept = mem /\ Position = AllBytes
    BY <1>1 DEF IInv, SearchInv, Returned, Underway, Kept, Position
  <2> DEFINE Found == {s[patlength] : s \in {t \in Standing : Clear(t)}}
  <2>2. \A s : Clear(s) <=> ClearAt(s[1])
    BY <2>1 DEF Clear, ClearAt, Follows, Gap
  <2>3. \A s \in Runs : s \in Standing <=> Matched(s, patlength)
    BY <2>1 DEF Standing, Matched
  <2>4. {t \in Standing : Clear(t)} = {t \in Runs : Matched(t, patlength) /\ ClearAt(t[1])}
    BY <2>2, <2>3 DEF Standing
  <2>5. Found = FoundEnds
    BY <2>4 DEF FoundEnds
  <2>6. \A a \in FoundEnds : a < AllBytes
    <3>1. FoundEnds \subseteq Readable
      BY PassedFinite
    <3>2. AllBytes \in Nat /\ Addresses = 0 .. AllBytes - 1
      BY Numbers DEF Addresses, AllBytes
    <3> QED
      BY <3>1, <3>2, ReadableNumbers
  <2>7. Found = Passed
    BY <2>1, <2>5, <2>6 DEF Passed
  <2>8. occurances \in Nat /\ Cardinality(Passed) \in Nat
    BY <1>1, PassedFinite DEF IInv, TypeOK, SearchTypeOK
  <2> HIDE DEF Found
  <2>9. /\ occurances >= Cardinality(Found)
        /\ occurances <= Len(locations) =>
             \A a \in Found : \E n \in DOMAIN locations : EndOf(locations[n]) = a
    <3>1. Found \subseteq Nat /\ \A n \in DOMAIN locations : locations[n] \in Match
      BY <1>1, <2>5, PassedFinite, ReadableNumbers DEF IInv, TypeOK, SearchTypeOK
    <3> QED
      BY <2>1, <2>7, <2>8, <3>1, EndIs DEF NoneMissed
  <2> QED
    BY <2>9, Zenon DEF MatchesAreCounted, Found
<1>2. IInv => MatchesAreCounted
  BY <1>1 DEF MatchesAreCounted
<1> QED
  BY <1>2, Invariance, PTL

\* The probes put back what they write: the memory, but for the byte that is in
\* hand, changes only between the searches.
THEOREM MemoryIsKept == Spec => MemoryKept
<1>1. IInv /\ [Next]_vars => (phase' = phase => Kept' = Kept)
  <2> SUFFICES ASSUME IInv, [Next]_vars, phase' = phase PROVE Kept' = Kept
    OBVIOUS
  <2>1. ~ Report /\ ~ Place /\ ~ Remap /\ ~ Compare
    BY DEF Report, Place, Remap, CallsAgain, Compare
  <2>2. CASE Searching
    BY <2>2, SearchTypes
  <2>3. CASE UNCHANGED vars
    BY <2>3, StutterTypes
  <2> QED
    BY <2>1, <2>2, <2>3 DEF Next
<1>2. IInv /\ [Next]_vars => [phase' = phase => Kept' = Kept]_vars
  BY <1>1
<1> QED
  BY <1>2, Invariance, PTL DEF Spec, MemoryKept

\* Driver 1 flags the match it has copied onto the heap, if all matches are
\* printed, and as a new one unless the first search recorded one there or
\* counted more than it recorded.
THEOREM HeapMatchIsFlagged == Spec => []HeapMatchIsFound
<1>1. IInv => HeapMatchIsFound
  BY DEF IInv
<1> QED
  BY <1>1, Invariance, PTL

----------------------------------------------------------------------------
(* The two searches of driver 3 *)

\* What has been recorded, once a search has come to its end.
LEMMA Ended ==
  ASSUME IInv, Returned
  PROVE  /\ Kept = mem /\ Position = AllBytes /\ locations \in Seq(Match)
         /\ \A n \in DOMAIN locations : locations[n].mode = ModeOf(EndOf(locations[n]))
         /\ occurances <= Len(locations) =>
              \A s \in SettledRuns : \E n \in DOMAIN locations :
                EndOf(locations[n]) = s[patlength]
<1>1. /\ Recorded /\ NoneMissed /\ Kept = mem /\ Position = AllBytes
      /\ locations \in Seq(Match) /\ \A n \in DOMAIN locations : locations[n] \in Match
  BY DEF IInv, TypeOK, SearchTypeOK, SearchInv, Returned, Underway, Kept, Position
<1>2. ASSUME NEW n \in DOMAIN locations PROVE locations[n].mode = ModeOf(EndOf(locations[n]))
  <2>1. PICK s \in Runs :
          locations[n] = [location |-> s[patlength] - patlength, mode |-> ModeOf(s[patlength])]
    BY <1>1 DEF Recorded
  <2>2. s[patlength] \in Nat
    BY RunNumbers, Numbers
  <2>3. EndOf(locations[n]) = s[patlength]
    BY <2>1, <2>2, Numbers DEF EndOf
  <2> QED
    BY <2>1, <2>3
<1>3. ASSUME occurances <= Len(locations), NEW s \in SettledRuns
      PROVE  \E n \in DOMAIN locations : EndOf(locations[n]) = s[patlength]
  <2>1. s \in Runs /\ s[patlength] \in FoundEnds
    BY DEF SettledRuns, FoundEnds
  <2>2. s[patlength] \in Nat /\ s[patlength] < AllBytes
    <3>1. s[patlength] \in Readable
      BY <2>1, PassedFinite
    <3>2. AllBytes \in Nat /\ Addresses = 0 .. AllBytes - 1
      BY Numbers DEF Addresses, AllBytes
    <3>3. s[patlength] \in Nat /\ s[patlength] \in Addresses
      BY <3>1, ReadableNumbers
    <3> QED
      BY <3>2, <3>3
  <2>3. PICK n \in DOMAIN locations : locations[n].location = s[patlength] - patlength
    BY <1>1, <1>3, <2>1, <2>2 DEF NoneMissed, Passed
  <2> QED
    BY <1>1, <2>2, <2>3, EndIs
<1> QED
  BY <1>1, <1>2, <1>3

\* While nothing but the search changes, what the first one has found stays.
LEMMA FirstStays ==
  ASSUME FirstFound, Kept' = Kept, UNCHANGED <<perm, driver, block, stdio, first>>,
         phase # "first" <=> phase' # "first"
  PROVE  FirstFound'
<1>1. \A s : s \in SettledRuns <=> s \in SettledRuns'
  BY DEF SettledRuns, Runs, Matched, ClearAt, Gap, Follows, Readable
<1>2. \A a : ModeBefore(a)' = ModeBefore(a)
  BY DEF ModeBefore, ModeOf
<1> QED
  BY <1>1, <1>2 DEF FirstFound, EndOf

LEMMA ReportFirst ==
  ASSUME IInv, Report
  PROVE  FirstFound'
<1>1. /\ UNCHANGED searchVars /\ UNCHANGED <<driver, block, stdio, flags>>
      /\ Returned /\ phase = "first" /\ phase' = "reported"
      /\ first' = [occurances |-> occurances,
                   locations |-> [n \in DOMAIN locations |->
                                    IF driver # 3 /\ n <= loclength
                                    THEN [locations[n] EXCEPT !.mode = "MEM_RO"]
                                    ELSE locations[n]]]
  BY DEF Report
<1> SUFFICES ASSUME driver = 3 PROVE FirstFound'
  BY <1>1 DEF FirstFound
<1>2. UNCHANGED <<mem, perm, locations, occurances>> /\ Kept' = Kept
  BY <1>1, ReportTypes DEF searchVars, caller, matched
<1>3. locations \in Seq(Match)
  BY DEF IInv, TypeOK, SearchTypeOK
<1>4. first'.locations = locations /\ first'.occurances = occurances
  <2>1. [n \in DOMAIN locations |-> locations[n]] = locations
    BY <1>3
  <2> QED
    BY <1>1, <2>1
<1>5. perm[PageOf(block)] = "read"
  BY <1>1 DEF IInv, MappingInv, Early
<1>6. \A a : ModeBefore(a)' = ModeOf(a)
  BY <1>1, <1>2, <1>5 DEF ModeBefore, ModeOf
<1>7. \A s : s \in SettledRuns' <=> s \in SettledRuns
  BY <1>1, <1>2 DEF SettledRuns, Runs, Matched, ClearAt, Gap, Follows, Readable
<1>8. \A n \in DOMAIN locations : locations[n].mode = ModeOf(EndOf(locations[n]))
  BY <1>1, Ended
<1>9. occurances <= Len(locations) =>
        \A s \in SettledRuns : \E n \in DOMAIN locations : EndOf(locations[n]) = s[patlength]
  BY <1>1, Ended
<1> QED
  BY <1>1, <1>4, <1>6, <1>7, <1>8, <1>9 DEF FirstFound, EndOf

\* Neither the mapping nor what is printed touches a settled match.
LEMMA RemapFirst ==
  ASSUME IInv, FirstFound, Remap
  PROVE  FirstFound'
<1>1. /\ perm' \in Space /\ PageOf(block) \in Pages
      /\ perm' = [perm EXCEPT ![PageOf(block)] = "write"]
      /\ perm[PageOf(block)] = "read"
      /\ \A a \in Addresses : a \notin stdio => Kept'[a] = Kept[a]
  BY RemapWrites DEF IInv
<1>2. /\ driver = 3 /\ phase = "reported" /\ phase' = "second"
      /\ UNCHANGED <<driver, block, stdio, first>>
  BY DEF Remap, CallsAgain
<1>3. perm \in [Pages -> {"none", "read", "write"}]
  BY DEF IInv, TypeOK, SearchTypeOK, Space
<1>4. Readable' = Readable /\ Readable \subseteq Addresses
  BY <1>1, <1>3, PageThere DEF Readable
<1>5. \A a : ModeBefore(a)' = ModeBefore(a)
  <2> SUFFICES ASSUME NEW a PROVE ModeBefore(a)' = ModeBefore(a)
    OBVIOUS
  <2>1. CASE PageOf(a) = PageOf(block)
    BY <2>1, <1>2 DEF ModeBefore
  <2>2. CASE PageOf(a) # PageOf(block)
    BY <2>2, <1>1, <1>2, <1>3 DEF ModeBefore, ModeOf
  <2> QED
    BY <2>1, <2>2
<1>6. ASSUME NEW s \in SettledRuns' PROVE s \in SettledRuns
  <2>1. /\ s \in Runs /\ (Matched(s, patlength))' /\ (ClearAt(s[1]))'
        /\ \A a \in stdio : ~ Follows(a, s[1]) /\ \A k \in 1 .. patlength : a # s[k]
    BY <1>2, <1>4 DEF SettledRuns, Runs, Follows
  <2>2. \A k \in 1 .. patlength : s[k] \in Addresses /\ s[k] \notin stdio
    BY <2>1, <1>4 DEF Runs
  <2>3. Matched(s, patlength)
    BY <2>1, <2>2, <1>1 DEF Matched
  <2>4. ClearAt(s[1])
    <3> SUFFICES ASSUME NEW a \in Readable, a < s[1], Gap(a, s[1])
                 PROVE  ~ Contains(pattern, Kept[a])
      BY DEF ClearAt
    <3>1. Follows(a, s[1]) /\ a \in Addresses
      BY <1>4 DEF Follows, Gap
    <3>2. Kept'[a] = Kept[a]
      BY <3>1, <2>1, <1>1
    <3>3. ~ Contains(pattern, Kept'[a])
      BY <2>1, <1>4 DEF ClearAt, Gap
    <3> QED
      BY <3>2, <3>3
  <2> QED
    BY <2>1, <2>3, <2>4 DEF SettledRuns
<1> QED
  BY <1>2, <1>5, <1>6 DEF FirstFound, EndOf

\* What is flagged, from what both searches have found.
LEMMA CompareFlags ==
  ASSUME IInv, FirstFound, Compare
  PROVE  OnlyMappingChanges'
<1>1. /\ Returned /\ phase = "second" /\ phase' = "compared"
      /\ UNCHANGED searchVars /\ UNCHANGED <<driver, block, stdio, first>>
      /\ flags' \in [DOMAIN Printed -> {"U", "C", "N"}]
      /\ \A n \in DOMAIN Printed : flags'[n] \in FlagsOf(Printed[n])
  BY DEF Compare
<1>2. UNCHANGED <<mem, perm, loclength, occurances, locations>>
  BY <1>1 DEF searchVars, caller, matched
<1> SUFFICES ASSUME driver = 3, first.occurances <= Len(first.locations)
             PROVE  /\ \A n \in DOMAIN flags' : flags'[n] = "C" => OnMapping(EndOf(locations[n]))
                    /\ \A s \in Settled', n \in DOMAIN flags' :
                         EndOf(locations[n]) = s[patlength] =>
                           flags'[n] = IF OnMapping(s[patlength]) THEN "C" ELSE "U"
                    /\ occurances <= loclength =>
                         \A s \in Settled' : \E n \in DOMAIN flags' :
                           EndOf(locations[n]) = s[patlength]
  BY <1>1, <1>2 DEF OnlyMappingChanges, OnMapping, EndOf
<1>3. /\ Kept = mem /\ locations \in Seq(Match) /\ Len(locations) \in Nat /\ loclength \in Nat
      /\ DOMAIN locations = 1 .. Len(locations) /\ occurances \in Nat
      /\ \A n \in DOMAIN locations : locations[n].mode = ModeOf(EndOf(locations[n]))
      /\ first.locations \in Seq(Match) /\ Len(locations) = Held(occurances)
  BY <1>1, Ended, LimitsAssumption
     DEF IInv, TypeOK, SearchTypeOK, SearchInv, Recorded, Returned, Underway
<1>4. PICK m \in Nat : /\ m = IF loclength <= Len(locations) THEN loclength ELSE Len(locations)
                       /\ DOMAIN Printed = 1 .. m
                       /\ \A k \in 1 .. m : Printed[k] = locations[k]
  BY PrintedIs DEF IInv, TypeOK
<1>5. m <= Len(locations) /\ (occurances <= loclength => m = Len(locations))
  BY <1>3, <1>4 DEF Held
<1>6. \A n \in DOMAIN flags' :
        n \in DOMAIN locations /\ flags'[n] \in FlagsOf(locations[n])
  BY <1>1, <1>3, <1>4, <1>5
<1>7. ASSUME NEW s \in Settled' PROVE s \in SettledRuns /\ s[patlength] \in Nat
  <2>1. s \in Settled
    BY <1>1, <1>2 DEF Settled, Standing, Runs, Clear, Follows, Readable
  <2>2. s \in Runs /\ Matched(s, patlength) /\ ClearAt(s[1])
    BY <2>1, <1>3 DEF Settled, Standing, Matched, Clear, ClearAt, Follows, Gap
  <2> QED
    BY <2>1, <2>2, RunNumbers, Numbers DEF Settled, SettledRuns
<1>8. perm[PageOf(block)] = "write"
  BY <1>1 DEF IInv, MappingInv, Early
<1>9. ASSUME NEW n \in DOMAIN flags',
             NEW k \in DOMAIN first.locations,
             first.locations[k].location = locations[n].location
      PROVE  flags'[n] = IF OnMapping(EndOf(locations[n])) THEN "C" ELSE "U"
  <2> DEFINE same == {l \in DOMAIN first.locations :
                        first.locations[l].location = locations[n].location}
  <2>1. same # {} /\ same \in SUBSET Nat
    BY <1>3, <1>9
  <2>2. Min(same) \in same
    <3> HIDE DEF same
    <3> QED
      BY <2>1, MinIsIn
  <2>3. first.locations[Min(same)].mode = ModeBefore(EndOf(locations[n]))
    <3>1. /\ Min(same) \in DOMAIN first.locations
          /\ first.locations[Min(same)].location = locations[n].location
      BY <2>2
    <3> HIDE DEF same
    <3>2. EndOf(first.locations[Min(same)]) = EndOf(locations[n])
      BY <3>1 DEF EndOf
    <3> QED
      BY <3>1, <3>2, <1>1 DEF FirstFound
  <2>4. FlagsOf(locations[n])
          = {IF first.locations[Min(same)].mode = locations[n].mode THEN "U" ELSE "C"}
    BY <2>1 DEF FlagsOf
  <2>5. locations[n].mode = ModeOf(EndOf(locations[n]))
    BY <1>3, <1>6
  <2> HIDE DEF same
  <2> QED
    BY <2>3, <2>4, <2>5, <1>6, <1>8 DEF ModeBefore, ModeOf, OnMapping
<1>10. ASSUME NEW n \in DOMAIN flags', flags'[n] = "C"
       PROVE  OnMapping(EndOf(locations[n]))
  <2>1. flags'[n] \in FlagsOf(locations[n]) /\ n \in DOMAIN locations
    BY <1>6
  <2>2. ~ (first.occurances > Len(first.locations))
    <3>1. first.occurances \in Nat /\ Len(first.locations) \in Nat
      BY <1>3 DEF IInv, TypeOK
    <3> QED
      BY <3>1
  <2>3. \E k \in DOMAIN first.locations :
          first.locations[k].location = locations[n].location
    BY <2>1, <2>2, <1>10 DEF FlagsOf
  <2> QED
    BY <2>3, <1>9, <1>10
<1>11. ASSUME NEW s \in Settled', NEW n \in DOMAIN flags', EndOf(locations[n]) = s[patlength]
       PROVE  flags'[n] = IF OnMapping(s[patlength]) THEN "C" ELSE "U"
  <2>1. PICK k \in DOMAIN first.locations : EndOf(first.locations[k]) = s[patlength]
    BY <1>1, <1>7 DEF FirstFound
  <2>2. first.locations[k] \in Match /\ locations[n] \in Match
    BY <1>3, <1>6
  <2>3. first.locations[k].location = locations[n].location
    BY <2>1, <2>2, <1>7, <1>11, EndIs
  <2> QED
    BY <2>3, <1>9, <1>11
<1>12. ASSUME occurances <= loclength, NEW s \in Settled'
       PROVE  \E n \in DOMAIN flags' : EndOf(locations[n]) = s[patlength]
  <2>1. occurances <= Len(locations)
    BY <1>3, <1>12 DEF Held
  <2>2. PICK n \in DOMAIN locations : EndOf(locations[n]) = s[patlength]
    BY <2>1, <1>1, <1>7, Ended
  <2>3. n \in DOMAIN flags'
    BY <1>1, <1>3, <1>4, <1>5, <1>12
  <2> QED
    BY <2>2, <2>3
<1> QED
  BY <1>10, <1>11, <1>12

\* Whatever the driver prints and whatever is in memory: only matches on the page that is
\* mapped again are flagged C, and every match both searches are bound to find is flagged
\* by that page, and printed if there is room.
THEOREM OnlyMappingChangesHolds == Spec => []OnlyMappingChanges
<1>1. Init => SameInv
  BY DEF Init, SameInv, FirstFound, OnlyMappingChanges, Compared
<1>2. ASSUME IInv, SameInv, [Next]_vars PROVE SameInv'
  <2>1. FirstFound /\ OnlyMappingChanges
    BY <1>2 DEF SameInv
  <2>2. CASE Searching
    <3>1. UNCHANGED <<driver, block, stdio, phase, first>> /\ ~ Compared
      BY <1>2, <2>2 DEF Searching, own, Search, Begin, Probe, Fault, Load, Skip, Overwrite,
         PutBack, ReadOnly, Scan, Advance, Complete, Mismatch, NextPage, Scanning, Return,
         IInv, Phases, Returned, Compared
    <3>2. Kept' = Kept /\ perm' = perm
      BY <1>2, <2>2, SearchTypes
    <3> QED
      BY <2>1, <3>1, <3>2, FirstStays DEF SameInv, OnlyMappingChanges, Compared
  <2>3. CASE Report
    <3>1. phase' = "reported"
      BY <2>3 DEF Report
    <3> QED
      BY <1>2, <2>3, <3>1, ReportFirst DEF SameInv, OnlyMappingChanges, Compared
  <2>4. CASE Place
    BY <2>4 DEF Place, CallsAgain, SameInv, FirstFound, OnlyMappingChanges
  <2>5. CASE Remap
    <3>1. phase' = "second"
      BY <2>5 DEF Remap, CallsAgain
    <3> QED
      BY <1>2, <2>1, <2>5, <3>1, RemapFirst DEF SameInv, OnlyMappingChanges, Compared
  <2>6. CASE Compare
    <3>1. /\ UNCHANGED searchVars /\ UNCHANGED <<driver, block, stdio, first>>
          /\ phase = "second" /\ phase' = "compared" /\ Kept' = Kept
      BY <1>2, <2>6, CompareTypes DEF Compare
    <3>2. UNCHANGED perm
      BY <3>1 DEF searchVars, caller
    <3>3. FirstFound'
      BY <2>1, <3>1, <3>2, FirstStays
    <3> QED
      BY <1>2, <2>1, <2>6, <3>3, CompareFlags DEF SameInv
  <2>7. CASE UNCHANGED vars
    <3>1. UNCHANGED <<mem, perm, phase, driver, block, stdio, first, flags, locations,
                      occurances, loclength>>
      BY <2>7 DEF vars, own, searchVars, caller, matched
    <3>2. Kept' = Kept
      BY <1>2, <2>7, StutterTypes
    <3>3. Settled' = Settled
      BY <3>1 DEF Settled, Standing, Runs, Clear, Follows, Readable
    <3>4. FirstFound'
      BY <2>1, <3>1, <3>2, FirstStays
    <3>5. OnlyMappingChanges'
      BY <2>1, <3>1, <3>3 DEF OnlyMappingChanges, Compared, OnMapping, EndOf
    <3> QED
      BY <3>4, <3>5 DEF SameInv
  <2> QED
    BY <1>2, <2>2, <2>3, <2>4, <2>5, <2>6, <2>7 DEF Next
<1>3. SameInv => OnlyMappingChanges
  BY DEF SameInv
<1>4. IInv /\ SameInv /\ [Next]_vars => SameInv'
  BY <1>2
<1> QED
  BY <1>1, <1>3, <1>4, Invariance, PTL DEF Spec
=============================================================================
