-------------------------- MODULE PageTableProofs --------------------------
(***************************************************************************)
(* Proofs about PageTable, for any number of frames, pages and processes:  *)
(* no frame is lost, the counters add up, in the LRU mode the tree leads   *)
(* to the pages in memory, and in both modes every search in it ends.  In  *)
(* the first part the tree plays no part: it only decides which look-ups   *)
(* are faults; the order of the tree is the last part.                     *)
(***************************************************************************)
EXTENDS PageTable, FiniteSetTheorems, WellFoundedInduction, TLAPS

\* What the variables other than the tree hold.
Types ==
  /\ fl_Mode \in {"FIFO", "LRU"}
  /\ list \in Seq(Frames)
  /\ entry \in [Frames -> [PageNumber : Nat, process_id : Processes]]
  /\ free_frame_count \in 0 .. physpages
  /\ pageFaults \in [Processes -> Nat]
  /\ pageOuts \in [Processes -> Nat]

\* tail is the last entry, but for a list of one entry, which it misses.
TailIsLast == Len(list) >= 2 => tail = list[Len(list)]

IInv == Types /\ FramesKept /\ TailIsLast /\ FaultsAccounted

\* The list as a function.
LEMMA ListShape ==
  ASSUME Types, FramesKept
  PROVE  /\ free_frame_count \in Nat
         /\ Len(list) = free_frame_count
         /\ list \in [1 .. free_frame_count -> Used]
         /\ Used \subseteq Frames
         /\ \A f \in Used : \E k \in 1 .. free_frame_count : list[k] = f
<1>1. free_frame_count \in Nat /\ free_frame_count <= physpages
  BY PhyspagesAssumption DEF Types
<1>2. Len(list) = free_frame_count /\ {list[k] : k \in 1 .. free_frame_count} = Used
  BY DEF FramesKept
<1>3. list \in [1 .. free_frame_count -> Frames]
  BY <1>2 DEF Types
<1>4. Used \subseteq Frames
  BY <1>1, PhyspagesAssumption DEF Used, Frames
<1> QED
  BY <1>1, <1>2, <1>3, <1>4

\* No frame is on the list twice: there are as many as the list is long.
LEMMA NoFrameTwice ==
  ASSUME Types, FramesKept
  PROVE  \A j, k \in 1 .. free_frame_count : list[j] = list[k] => j = k
<1>1. /\ free_frame_count \in Nat
      /\ list \in [1 .. free_frame_count -> Used]
      /\ \A f \in Used : \E k \in 1 .. free_frame_count : list[k] = f
  BY ListShape
<1>2. list \in Surjection(1 .. free_frame_count, Used)
  BY <1>1 DEF Surjection
<1>3. /\ IsFiniteSet(1 .. free_frame_count)
      /\ Cardinality(1 .. free_frame_count) = free_frame_count
      /\ Cardinality(Used) = free_frame_count
  <2>1. /\ IsFiniteSet(1 .. free_frame_count)
        /\ Cardinality(1 .. free_frame_count)
             = IF 1 > free_frame_count THEN 0 ELSE free_frame_count - 1 + 1
    BY <1>1, FS_Interval
  <2>2. Cardinality(0 .. free_frame_count - 1)
          = IF 0 > free_frame_count - 1 THEN 0 ELSE free_frame_count - 1 - 0 + 1
    BY <1>1, FS_Interval
  <2> QED
    BY <1>1, <2>1, <2>2 DEF Used
<1>4. list \in Injection(1 .. free_frame_count, Used)
  BY <1>2, <1>3, FS_SurjSameCardinalityImpliesInj
<1> QED
  BY <1>4 DEF Injection, IsInjective

\* A page-out takes an end of a list of two entries or more.
LEMMA VictimOnList ==
  ASSUME Types, FramesKept, TailIsLast, free_frame_count = physpages, ~ OutFollowsNull
  PROVE  /\ free_frame_count >= 2
         /\ Victim \in Used
         /\ fl_Mode = "FIFO" => Victim = list[1]
         /\ fl_Mode = "LRU" => Victim = list[free_frame_count] /\ Position(tail) = free_frame_count
<1>1. /\ free_frame_count \in Nat
      /\ Len(list) = free_frame_count
      /\ list \in [1 .. free_frame_count -> Used]
  BY ListShape
<1>2. free_frame_count >= 2
  BY <1>1, PhyspagesAssumption DEF OutFollowsNull
<1>3. CASE fl_Mode = "FIFO"
  <2>1. Victim = list[1]
    BY <1>3, <1>1, <1>2 DEF Victim, Types
  <2> QED
    BY <2>1, <1>1, <1>2, <1>3
<1>4. CASE fl_Mode = "LRU"
  <2>1. tail = list[free_frame_count]
    BY <1>1, <1>2 DEF TailIsLast
  <2>2. \A k \in 1 .. Len(list) : list[k] = tail <=> k = free_frame_count
    BY <2>1, <1>1, <1>2, NoFrameTwice
  <2>3. Position(tail) = free_frame_count
    BY <2>2, <1>1, <1>2 DEF Position
  <2> QED
    BY <2>1, <2>3, <1>1, <1>2, <1>4 DEF Victim
<1> QED
  BY <1>3, <1>4, <1>2 DEF Types

\* What a page-out and the page that comes in make of the list: the frames move up by
\* one (FIFO) or stay where they are (LRU).
LEMMA ListAfterSwap ==
  ASSUME Types, FramesKept, TailIsLast, free_frame_count = physpages, ~ OutFollowsNull
  PROVE  LET new == Append(Shortened, Victim)
         IN  /\ Shortened # <<>>
             /\ new \in Seq(Frames)
             /\ Len(new) = free_frame_count
             /\ new[free_frame_count] = Victim
             /\ {new[k] : k \in 1 .. Len(new)} = Used
<1> DEFINE n == free_frame_count
           new == Append(Shortened, Victim)
<1>1. /\ n \in Nat /\ Len(list) = n /\ list \in [1 .. n -> Used] /\ Used \subseteq Frames
      /\ \A f \in Used : \E k \in 1 .. n : list[k] = f
      /\ list \in Seq(Frames)
  BY ListShape DEF Types
<1>2. /\ n >= 2
      /\ Victim \in Used
      /\ fl_Mode = "FIFO" => Victim = list[1]
      /\ fl_Mode = "LRU" => Victim = list[n] /\ Position(tail) = n
  BY VictimOnList
<1>3. /\ Shortened \in Seq(Frames) /\ Len(Shortened) = n - 1
      /\ fl_Mode = "FIFO" => \A k \in 1 .. n - 1 : Shortened[k] = list[k + 1]
      /\ fl_Mode = "LRU" => \A k \in 1 .. n - 1 : Shortened[k] = list[k]
  <2>1. CASE fl_Mode = "FIFO"
    <3>1. Shortened = Tail(list) /\ list # <<>>
      BY <2>1, <1>1, <1>2 DEF Shortened
    <3> QED
      BY <3>1, <2>1, <1>1, <1>2
  <2>2. CASE fl_Mode = "LRU"
    <3>1. Shortened = SubSeq(list, 1, n - 1)
      BY <2>2, <1>2 DEF Shortened
    <3> QED
      BY <3>1, <2>2, <1>1, <1>2
  <2> QED
    BY <2>1, <2>2 DEF Types
<1>4. /\ new \in Seq(Frames) /\ Len(new) = n /\ new[n] = Victim
      /\ \A k \in 1 .. n - 1 : new[k] = Shortened[k]
  BY <1>1, <1>2, <1>3
<1> HIDE DEF new
<1>5. {new[k] : k \in 1 .. n} = Used
  <2>1. CASE fl_Mode = "FIFO"
    <3>1. \A k \in 1 .. n : new[k] = list[IF k = n THEN 1 ELSE k + 1]
      BY <2>1, <1>1, <1>2, <1>3, <1>4
    <3>2. \A k \in 1 .. n : new[k] \in Used
      BY <3>1, <1>1, <1>2
    <3>3. \A f \in Used : \E k \in 1 .. n : new[k] = f
      <4>1. SUFFICES ASSUME NEW f \in Used PROVE \E k \in 1 .. n : new[k] = f
        OBVIOUS
      <4>2. PICK j \in 1 .. n : list[j] = f
        BY <1>1
      <4>3. CASE j = 1
        BY <4>2, <4>3, <3>1, <1>1, <1>2
      <4>4. CASE j # 1
        <5>1. j - 1 \in 1 .. n /\ j - 1 # n
          BY <4>4, <1>1
        <5>2. new[j - 1] = list[j]
          BY <5>1, <3>1, <1>1
        <5> QED
          BY <4>2, <5>1, <5>2
      <4> QED
        BY <4>3, <4>4
    <3> QED
      BY <3>2, <3>3
  <2>2. CASE fl_Mode = "LRU"
    <3>1. \A k \in 1 .. n : new[k] = list[k]
      BY <2>2, <1>1, <1>2, <1>3, <1>4
    <3> QED
      BY <3>1, <1>1
  <2> QED
    BY <2>1, <2>2 DEF Types
<1>6. Shortened # <<>>
  BY <1>1, <1>2, <1>3
<1> QED
  BY <1>4, <1>5, <1>6 DEF new

\* The frames that hold pages of process p.
Owned(p) == {f \in Used : entry[f].process_id = p}

LEMMA OwnedFinite ==
  ASSUME Types, NEW p
  PROVE  IsFiniteSet(Owned(p)) /\ Cardinality(Owned(p)) \in Nat
<1>1. free_frame_count \in Nat
  BY PhyspagesAssumption DEF Types
<1>2. IsFiniteSet(Used)
  BY <1>1, FS_Interval DEF Used
<1>3. Owned(p) \in SUBSET Used
  BY DEF Owned
<1>4. IsFiniteSet(Owned(p))
  BY <1>2, <1>3, FS_Subset
<1> QED
  BY <1>4, FS_CardinalityType

LEMMA FramesTypes == Frames \subseteq Nat /\ Used \subseteq Int
  BY DEF Frames, Used

\* The steps of PageIn: the list grows at its end.
LEMMA PageInKeeps ==
  ASSUME IInv, NEW p \in Processes, NEW pn \in Pages, PageIn(p, pn)
  PROVE  IInv'
<1> DEFINE n == free_frame_count
<1> USE DEF IInv
<1>1. /\ n \in Nat /\ n < physpages /\ physpages \in Nat
      /\ Len(list) = n /\ list \in [1 .. n -> Used] /\ Used \subseteq Frames
      /\ list \in Seq(Frames) /\ n \in Frames /\ n \notin Used
      /\ \A f \in Used : \E k \in 1 .. n : list[k] = f
  <2>1. /\ n \in Nat /\ Len(list) = n /\ list \in [1 .. n -> Used] /\ Used \subseteq Frames
        /\ \A f \in Used : \E k \in 1 .. n : list[k] = f
    BY ListShape
  <2>2. n < physpages /\ physpages \in Nat /\ list \in Seq(Frames)
    BY PhyspagesAssumption DEF PageIn, Types
  <2>3. n \in Frames /\ n \notin Used
    BY <2>1, <2>2 DEF Frames, Used
  <2> QED
    BY <2>1, <2>2, <2>3
<1>2. /\ fl_Mode' = fl_Mode /\ pageOuts' = pageOuts
      /\ list' = Append(list, n)
      /\ tail' = IF list = <<>> THEN tail ELSE n
      /\ entry' = [entry EXCEPT ![n] = [PageNumber |-> pn, process_id |-> p]]
      /\ n' = n + 1
      /\ pageFaults' = [pageFaults EXCEPT ![p] = @ + 1]
  BY DEF PageIn, InsertAtTail, Fault
<1>3. Types'
  BY <1>1, <1>2, PagesAssumption DEF Types
<1>4. /\ Used' = Used \cup {n}
      /\ Len(list') = n + 1
      /\ \A k \in 1 .. n : list'[k] = list[k]
      /\ list'[n + 1] = n
  BY <1>1, <1>2 DEF Used
<1>5. FramesKept'
  <2>1. \A k \in 1 .. n + 1 : list'[k] \in Used'
    BY <1>1, <1>4
  <2>2. \A f \in Used' : \E k \in 1 .. n + 1 : list'[k] = f
    BY <1>1, <1>4
  <2> QED
    BY <2>1, <2>2, <1>2, <1>4 DEF FramesKept
<1>6. TailIsLast'
  BY <1>1, <1>2, <1>4 DEF TailIsLast
<1>7. FaultsAccounted'
  <2>1. SUFFICES ASSUME NEW q \in Processes
                 PROVE  pageFaults'[q] - pageOuts'[q] = Cardinality(Owned(q)')
    BY DEF FaultsAccounted, Owned
  <2>2. pageFaults[q] - pageOuts[q] = Cardinality(Owned(q))
    BY DEF FaultsAccounted, Owned
  <2>3. /\ pageFaults[q] \in Nat /\ pageOuts[q] \in Nat
        /\ IsFiniteSet(Owned(q)) /\ Cardinality(Owned(q)) \in Nat
    BY OwnedFinite DEF Types
  <2>4. CASE q = p
    <3>1. Owned(q)' = Owned(q) \cup {n} /\ n \notin Owned(q)
      BY <2>4, <1>1, <1>2, <1>4 DEF Owned, Types
    <3>2. Cardinality(Owned(q)') = Cardinality(Owned(q)) + 1
      BY <3>1, <2>3, FS_AddElement
    <3> QED
      BY <3>2, <2>2, <2>3, <2>4, <1>2 DEF Types
  <2>5. CASE q # p
    <3>1. Owned(q)' = Owned(q)
      BY <2>5, <1>1, <1>2, <1>4 DEF Owned, Types
    <3> QED
      BY <3>1, <2>2, <2>3, <2>5, <1>2 DEF Types
  <2> QED
    BY <2>4, <2>5
<1> QED
  BY <1>3, <1>5, <1>6, <1>7

\* The steps of PageSwap: the frame of the victim changes hands.
LEMMA PageSwapKeeps ==
  ASSUME IInv, NEW p \in Processes, NEW pn \in Pages, PageSwap(p, pn)
  PROVE  IInv'
<1> DEFINE n == free_frame_count
           v == Victim
           o == entry[v].process_id
<1> USE DEF IInv
<1>1. /\ n = physpages /\ ~ OutFollowsNull
      /\ fl_Mode' = fl_Mode /\ n' = n
      /\ pageOuts' = [pageOuts EXCEPT ![o] = @ + 1]
      /\ pageFaults' = [pageFaults EXCEPT ![p] = @ + 1]
      /\ entry' = [entry EXCEPT ![v] = [PageNumber |-> pn, process_id |-> p]]
      /\ list' = Append(Shortened, v)
      /\ tail' = IF Shortened = <<>> THEN tail ELSE v
  BY DEF PageSwap, InsertAtTail, Fault
<1>2. /\ Shortened # <<>> /\ list' \in Seq(Frames) /\ Len(list') = n /\ list'[n] = v
      /\ {list'[k] : k \in 1 .. Len(list')} = Used
  BY <1>1, ListAfterSwap
<1>3. /\ v \in Used /\ v \in Frames /\ o \in Processes /\ n \in Nat
  BY <1>1, VictimOnList, ListShape DEF Types
<1>4. Used' = Used
  BY <1>1 DEF Used
<1> HIDE DEF v, o
<1>5. Types'
  <2>1. entry' \in [Frames -> [PageNumber : Nat, process_id : Processes]]
    BY <1>1, PagesAssumption DEF Types
  <2>2. pageFaults' \in [Processes -> Nat] /\ pageOuts' \in [Processes -> Nat]
    BY <1>1, <1>3 DEF Types
  <2> QED
    BY <2>1, <2>2, <1>1, <1>2 DEF Types
<1>6. FramesKept'
  BY <1>1, <1>2, <1>4 DEF FramesKept
<1>7. TailIsLast'
  BY <1>1, <1>2 DEF TailIsLast
<1>8. FaultsAccounted'
  <2>1. SUFFICES ASSUME NEW q \in Processes
                 PROVE  pageFaults'[q] - pageOuts'[q] = Cardinality(Owned(q)')
    BY DEF FaultsAccounted, Owned
  <2>2. pageFaults[q] - pageOuts[q] = Cardinality(Owned(q))
    BY DEF FaultsAccounted, Owned
  <2>3. /\ pageFaults[q] \in Nat /\ pageOuts[q] \in Nat
        /\ IsFiniteSet(Owned(q)) /\ Cardinality(Owned(q)) \in Nat
    BY OwnedFinite DEF Types
  <2>4. /\ pageFaults'[q] = pageFaults[q] + (IF q = p THEN 1 ELSE 0)
        /\ pageOuts'[q] = pageOuts[q] + (IF q = o THEN 1 ELSE 0)
    BY <1>1, <1>3, <2>3 DEF Types
  <2>5. /\ \A f \in Used \ {v} : entry'[f] = entry[f]
        /\ entry'[v].process_id = p /\ entry[v].process_id = o
    BY <1>1, <1>3, ListShape DEF Types, o
  <2>6. v \in Owned(q) <=> q = o
    BY <1>3, <2>5 DEF Owned
  <2>7. CASE q = p /\ q = o
    <3>1. Owned(q)' = Owned(q)
      BY <2>5, <2>7, <1>4 DEF Owned
    <3> QED
      BY <3>1, <2>2, <2>3, <2>4, <2>7
  <2>8. CASE q = p /\ q # o
    <3>1. Owned(q)' = Owned(q) \cup {v}
      BY <2>5, <2>8, <1>3, <1>4 DEF Owned
    <3>2. Cardinality(Owned(q)') = Cardinality(Owned(q)) + 1
      BY <3>1, <2>3, <2>6, <2>8, FS_AddElement
    <3> QED
      BY <3>2, <2>2, <2>3, <2>4, <2>8
  <2>9. CASE q # p /\ q = o
    <3>1. Owned(q)' = Owned(q) \ {v}
      BY <2>5, <2>9, <1>3, <1>4 DEF Owned
    <3>2. Cardinality(Owned(q)') = Cardinality(Owned(q)) - 1
      BY <3>1, <2>3, <2>6, <2>9, FS_RemoveElement
    <3> QED
      BY <3>2, <2>2, <2>3, <2>4, <2>9
  <2>10. CASE q # p /\ q # o
    <3>1. Owned(q)' = Owned(q)
      BY <2>5, <2>10, <1>4 DEF Owned
    <3> QED
      BY <3>1, <2>2, <2>3, <2>4, <2>10
  <2> QED
    BY <2>7, <2>8, <2>9, <2>10
<1> QED
  BY <1>5, <1>6, <1>7, <1>8

LEMMA Initially == PageTableInit => IInv
<1> SUFFICES ASSUME PageTableInit PROVE IInv
  OBVIOUS
<1>1. Types
  <2>1. NoEntry \in [PageNumber : Nat, process_id : Processes]
    BY ProcessesAssumption DEF NoEntry
  <2> QED
    BY <2>1, PhyspagesAssumption DEF PageTableInit, Types
<1>2. Used = {}
  BY DEF PageTableInit, Used
<1>3. FramesKept /\ TailIsLast
  BY <1>2 DEF PageTableInit, FramesKept, TailIsLast
<1>4. FaultsAccounted
  <2>1. \A q \in Processes : Cardinality({f \in Used : entry[f].process_id = q}) = 0
    <3>1. \A q \in Processes : {f \in Used : entry[f].process_id = q} = {}
      BY <1>2
    <3> QED
      BY <3>1, FS_EmptySet
  <2> QED
    BY <2>1 DEF PageTableInit, FaultsAccounted
<1> QED
  BY <1>1, <1>3, <1>4 DEF IInv

LEMMA StepKeeps == IInv /\ [PageTableNext]_pageTable => IInv'
<1> SUFFICES ASSUME IInv, [PageTableNext]_pageTable PROVE IInv'
  OBVIOUS
<1>1. ASSUME UNCHANGED pageTable PROVE IInv'
  BY <1>1 DEF pageTable, IInv, Types, FramesKept, TailIsLast, FaultsAccounted, Used
<1>2. ASSUME NEW p \in Processes, NEW pn \in Pages, pageTableLookUp(p, pn) PROVE IInv'
  <2>1. CASE Found(pn)
    BY <2>1, <1>1 DEF Found
  <2>2. CASE PageIn(p, pn)
    BY <2>2, PageInKeeps
  <2>3. CASE PageSwap(p, pn)
    BY <2>3, PageSwapKeeps
  <2> QED
    BY <1>2, <2>1, <2>2, <2>3 DEF pageTableLookUp
<1> QED
  BY <1>1, <1>2 DEF PageTableNext

\* The inductive invariant holds in both modes, for any number of frames and however
\* the processes take their turns.
THEOREM PageTableInvariance == PageTableSpec => []IInv
<1>1. PageTableInit => IInv
  BY Initially
<1>2. IInv /\ [PageTableNext]_pageTable => IInv'
  BY StepKeeps
<1> QED
  BY <1>1, <1>2, PTL DEF PageTableSpec

\* deleteEntryFifo, deleteEntryLru and InsertAtTail lose no frame and give none out twice.
THEOREM FramesAreKept == PageTableSpec => []FramesKept
<1>1. IInv => FramesKept
  BY DEF IInv
<1> QED
  BY <1>1, PageTableInvariance, PTL

\* The frames a process holds are its page faults less its page-outs, which is what the
\* report prints as its frames.
THEOREM FaultsAreAccounted == PageTableSpec => []FaultsAccounted
<1>1. IInv => FaultsAccounted
  BY DEF IInv
<1> QED
  BY <1>1, PageTableInvariance, PTL

----------------------------------------------------------------------------
(* Numbers and orders *)

LEMMA LowestOf ==
  ASSUME NEW S \in SUBSET Nat, S # {}
  PROVE  \E x \in S : \A y \in S : x <= y
<1>1. PICK x \in S : \A y \in S : <<y, x>> \notin OpToRel(<, Nat)
  BY NatLessThanWellFounded, WFMin, Zenon
<1>2. ASSUME NEW y \in S, y < x PROVE FALSE
  <2>1. <<y, x>> \in Nat \X Nat /\ <<y, x>>[1] < <<y, x>>[2]
    BY <1>2
  <2>2. <<y, x>> \in OpToRel(<, Nat)
    BY <2>1, Zenon DEF OpToRel
  <2> QED
    BY <1>1, <2>2
<1>3. \A y \in S : x <= y
  BY <1>2
<1> QED
  BY <1>3

LEMMA LowestRank ==
  ASSUME NEW S, S # {}, NEW rank, \A n \in S : rank[n] \in Nat
  PROVE  \E x \in S : \A y \in S : rank[x] <= rank[y]
<1> DEFINE ranks == {rank[n] : n \in S}
<1>1. PICK r \in ranks : \A s \in ranks : r <= s
  <2>1. ranks \in SUBSET Nat /\ ranks # {}
    OBVIOUS
  <2> HIDE DEF ranks
  <2> QED
    BY <2>1, LowestOf
<1> QED
  BY <1>1

\* Where one gets following succ up to a stop.
Way(D, stop, succ) ==
  CHOOSE g : \A n \in D : g[n] = IF n \in stop THEN n ELSE g[succ[n]]

\* There is such a function, even if there are circles.
LEMMA Following ==
  ASSUME NEW D, NEW stop, NEW succ, \A n \in D : n \notin stop => succ[n] \in D
  PROVE  \A n \in D : Way(D, stop, succ)[n] = IF n \in stop THEN n
                                             ELSE Way(D, stop, succ)[succ[n]]
<1> DEFINE Closed(A) == \A m \in A : m \notin stop => succ[m] \in A
           ends(n) == {m \in D \cap stop : \A A \in SUBSET D : Closed(A) /\ n \in A => m \in A}
           g == [n \in D |-> IF n \in stop THEN n ELSE CHOOSE v : v \in ends(n)]
<1>1. ASSUME NEW n \in D, n \notin stop PROVE ends(n) = ends(succ[n])
  <2>1. ASSUME NEW m \in D \cap stop, NEW A \in SUBSET D, Closed(A), succ[n] \in A, m \in ends(n)
        PROVE  m \in A
    <3>1. A \cup {n} \in SUBSET D /\ Closed(A \cup {n}) /\ n \in A \cup {n}
      BY <2>1
    <3>2. m \in A \cup {n}
      BY <3>1, <2>1
    <3> QED
      BY <3>2, <1>1
  <2>2. ASSUME NEW m \in D \cap stop, NEW A \in SUBSET D, Closed(A), n \in A, m \in ends(succ[n])
        PROVE  m \in A
    BY <2>2, <1>1
  <2> QED
    BY <2>1, <2>2
<1>2. ASSUME NEW n \in D, n \in stop PROVE ends(n) = {n}
  <2>1. {n} \in SUBSET D /\ Closed({n}) /\ n \in {n}
    BY <1>2
  <2>2. \A m \in ends(n) : m \in {n}
    BY <2>1
  <2>3. n \in ends(n)
    BY <1>2
  <2> QED
    BY <2>2, <2>3
<1> HIDE DEF ends
<1>3. ASSUME NEW n \in D, n \notin stop PROVE g[n] = g[succ[n]]
  <2>1. succ[n] \in D
    BY <1>3
  <2>2. g[n] = CHOOSE v : v \in ends(succ[n])
    BY <1>1, <1>3
  <2>3. CASE succ[n] \in stop
    <3>1. ends(succ[n]) = {succ[n]}
      BY <1>2, <2>1, <2>3
    <3>2. g[n] = succ[n]
      BY <3>1, <2>2
    <3> QED
      BY <3>2, <2>1, <2>3
  <2>4. CASE succ[n] \notin stop
    <3>1. g[succ[n]] = CHOOSE v : v \in ends(succ[n])
      BY <2>1, <2>4
    <3> HIDE DEF g
    <3> QED
      BY <2>2, <3>1
  <2> QED
    BY <2>3, <2>4
<1>4. \A n \in D : n \in stop => g[n] = n
  OBVIOUS
<1> HIDE DEF g
<1>5. \E h : \A n \in D : h[n] = IF n \in stop THEN n ELSE h[succ[n]]
  BY <1>3, <1>4
<1> QED
  BY <1>5 DEF Way

----------------------------------------------------------------------------
(* Searches *)

LEMMA NilIsNoNode == NIL \notin TreeNodes
  BY DEF NIL, TreeNodes

Trees == [root : TreeNodes \cup {NIL},
          left : [TreeNodes -> TreeNodes \cup {NIL}],
          right : [TreeNodes -> TreeNodes \cup {NIL}],
          PageNumber : [TreeNodes -> Nat],
          match : [TreeNodes -> Nat]]

\* The child of node n on the side of page pn.
Side(t, pn, n) == IF pn < t.PageNumber[n] THEN t.left[n] ELSE t.right[n]

\* g[n] is where a search for page pn that has come to node n ends.
Searches(t, pn, g) ==
  /\ g[NIL] = NIL
  /\ \A n \in TreeNodes : g[n] = IF t.PageNumber[n] = pn THEN n ELSE g[Side(t, pn, n)]

LEMMA SearchEndsSomewhere ==
  ASSUME NEW t \in Trees, NEW pn \in Nat
  PROVE  \E g : Searches(t, pn, g) /\ search(t, pn) = g[t.root]
<1> DEFINE D == TreeNodes \cup {NIL}
           stop == {NIL} \cup {n \in TreeNodes : t.PageNumber[n] = pn}
           succ == [n \in D |-> Side(t, pn, n)]
           Body(g) == [n \in TreeNodes \cup {NIL} |->
                         IF n = NIL THEN NIL
                         ELSE CASE pn < t.PageNumber[n] -> g[t.left[n]]
                                [] pn > t.PageNumber[n] -> g[t.right[n]]
                                [] OTHER                -> n]
<1>1. \A n \in TreeNodes : t.PageNumber[n] \in Nat /\ t.left[n] \in D /\ t.right[n] \in D
  BY DEF Trees
<1>2. \A n \in D : n \notin stop => succ[n] \in D
  BY <1>1 DEF Side
<1> DEFINE h == Way(D, stop, succ)
<1>3. \A n \in D : h[n] = IF n \in stop THEN n ELSE h[succ[n]]
  <2> HIDE DEF D, stop, succ
  <2> QED
    BY <1>2, Following
<1> DEFINE g == [n \in D |-> h[n]]
<1>4. g[NIL] = NIL /\ \A n \in TreeNodes : g[n] = IF t.PageNumber[n] = pn THEN n ELSE g[Side(t, pn, n)]
  <2>1. \A n \in D : n \notin stop => succ[n] \in D
    BY <1>2
  <2>2. \A n \in D : g[n] = IF n \in stop THEN n ELSE g[succ[n]]
    <3> HIDE DEF stop, succ
    <3> QED
      BY <2>1, <1>3
  <2> HIDE DEF g
  <2> QED
    BY <2>2, NilIsNoNode
<1>5. ASSUME NEW e, NEW n \in D
      PROVE  Body(e)[n] = IF n = NIL THEN NIL
                          ELSE IF t.PageNumber[n] = pn THEN n ELSE e[Side(t, pn, n)]
  <2>1. CASE n = NIL
    BY <2>1
  <2>2. CASE n # NIL
    <3>1. n \in TreeNodes /\ t.PageNumber[n] \in Nat
      BY <2>2, <1>1
    <3>2. CASE pn < t.PageNumber[n]
      BY <3>1, <3>2, <2>2 DEF Side
    <3>3. CASE pn > t.PageNumber[n]
      BY <3>1, <3>3, <2>2 DEF Side
    <3>4. CASE pn = t.PageNumber[n]
      BY <3>1, <3>4, <2>2
    <3> QED
      BY <3>1, <3>2, <3>3, <3>4
  <2> QED
    BY <2>1, <2>2
<1>6. g = Body(g)
  <2>1. ASSUME NEW n \in D PROVE Body(g)[n] = g[n]
    <3>1. Body(g)[n] = IF n = NIL THEN NIL
                       ELSE IF t.PageNumber[n] = pn THEN n ELSE g[Side(t, pn, n)]
      BY <1>5
    <3> HIDE DEF Body
    <3> QED
      BY <3>1, <1>4
  <2>2. Body(g) = [n \in D |-> Body(g)[n]] /\ g = [n \in D |-> g[n]]
    OBVIOUS
  <2> HIDE DEF Body
  <2> QED
    BY <2>1, <2>2
<1> DEFINE from == CHOOSE f : f = Body(f)
<1>7. from = Body(from)
  <2> HIDE DEF Body
  <2> QED
    BY <1>6
<1>8. search(t, pn) = from[t.root]
  BY DEF search
<1>9. Searches(t, pn, from)
  <2>1. \A n \in D : from[n] = Body(from)[n]
    BY <1>7
  <2> HIDE DEF from, Body
  <2>2. \A n \in D : from[n] = IF n = NIL THEN NIL
                               ELSE IF t.PageNumber[n] = pn THEN n ELSE from[Side(t, pn, n)]
    BY <2>1, <1>5
  <2> QED
    BY <2>2, NilIsNoNode DEF Searches
<1> HIDE DEF from
<1> QED
  BY <1>8, <1>9

\* p[n] is the last node of the path of page pn that goes through node n.
Parents(t, pn, p) ==
  \A n \in TreeNodes : p[n] = IF Side(t, pn, n) = NIL \/ t.PageNumber[Side(t, pn, n)] = pn
                              THEN n ELSE p[Side(t, pn, n)]

LEMMA ParentSomewhere ==
  ASSUME NEW t \in Trees, NEW pn \in Nat, t.root # NIL, t.PageNumber[t.root] # pn
  PROVE  \E p : Parents(t, pn, p) /\ Parent(t, pn) = p[t.root]
<1> DEFINE stop == {n \in TreeNodes : Side(t, pn, n) = NIL \/ t.PageNumber[Side(t, pn, n)] = pn}
           succ == [n \in TreeNodes |-> Side(t, pn, n)]
           Down(n) == IF pn < t.PageNumber[n] THEN t.left[n] ELSE t.right[n]
           Body(g) == [n \in TreeNodes |->
                         IF Down(n) = NIL \/ t.PageNumber[Down(n)] = pn THEN n ELSE g[Down(n)]]
           h == Way(TreeNodes, stop, succ)
           g == [n \in TreeNodes |-> h[n]]
<1>1. \A n \in TreeNodes : Side(t, pn, n) \in TreeNodes \cup {NIL}
  BY DEF Trees, Side
<1>2. \A n \in TreeNodes : n \notin stop => succ[n] \in TreeNodes
  BY <1>1
<1>3. \A n \in TreeNodes : h[n] = IF n \in stop THEN n ELSE h[succ[n]]
  <2> HIDE DEF stop, succ
  <2> QED
    BY <1>2, Following
<1>4. \A n \in TreeNodes : g[n] = IF Side(t, pn, n) = NIL \/ t.PageNumber[Side(t, pn, n)] = pn
                                  THEN n ELSE g[Side(t, pn, n)]
  <2>1. \A n \in TreeNodes : g[n] = IF n \in stop THEN n ELSE g[succ[n]]
    <3> HIDE DEF stop, succ
    <3> QED
      BY <1>2, <1>3
  <2> HIDE DEF g
  <2> QED
    BY <2>1
<1>5. ASSUME NEW f, NEW n \in TreeNodes
      PROVE  Body(f)[n] = IF Side(t, pn, n) = NIL \/ t.PageNumber[Side(t, pn, n)] = pn
                          THEN n ELSE f[Side(t, pn, n)]
  BY DEF Side
<1>6. g = Body(g)
  <2>1. ASSUME NEW n \in TreeNodes PROVE Body(g)[n] = g[n]
    <3> HIDE DEF Body, g
    <3> QED
      BY <1>4, <1>5
  <2>2. Body(g) = [n \in TreeNodes |-> Body(g)[n]] /\ g = [n \in TreeNodes |-> g[n]]
    OBVIOUS
  <2> HIDE DEF Body, g
  <2> QED
    BY <2>1, <2>2
<1> DEFINE from == CHOOSE f : f = Body(f)
<1>7. from = Body(from)
  <2> HIDE DEF Body
  <2> QED
    BY <1>6
<1>8. Parent(t, pn) = from[t.root]
  BY DEF Parent
<1>9. Parents(t, pn, from)
  <2>1. \A n \in TreeNodes : from[n] = Body(from)[n]
    BY <1>7
  <2> HIDE DEF from, Body
  <2> QED
    BY <2>1, <1>5 DEF Parents
<1> HIDE DEF from
<1> QED
  BY <1>8, <1>9

----------------------------------------------------------------------------
(* Paths *)

\* The nodes can be ranked, each above its children: no path ever ends in a circle.
Ranks(t, rank) ==
  /\ rank \in [TreeNodes -> TreeNodes]
  /\ \A m, n \in TreeNodes : rank[m] = rank[n] => m = n
  /\ \A n \in TreeNodes :
       /\ t.left[n] # NIL => rank[t.left[n]] < rank[n]
       /\ t.right[n] # NIL => rank[t.right[n]] < rank[n]

Ranked(t) == \E rank \in [TreeNodes -> TreeNodes] : Ranks(t, rank)

\* The nodes of S and their children.
Further(t, S) == (UNION {{n, t.left[n], t.right[n]} : n \in S}) \ {NIL}

LEMMA FurtherNodes ==
  ASSUME NEW t, NEW S, NEW x
  PROVE  x \in Further(t, S)
           <=> x # NIL /\ \E n \in S : x = n \/ x = t.left[n] \/ x = t.right[n]
<1>1. \A n : x \in {n, t.left[n], t.right[n]} <=> x = n \/ x = t.left[n] \/ x = t.right[n]
  OBVIOUS
<1>2. x \in UNION {{n, t.left[n], t.right[n]} : n \in S}
        <=> \E n \in S : x \in {n, t.left[n], t.right[n]}
  OBVIOUS
<1>3. x \in Further(t, S)
        <=> x # NIL /\ x \in UNION {{n, t.left[n], t.right[n]} : n \in S}
  <2> DEFINE U == UNION {{n, t.left[n], t.right[n]} : n \in S}
  <2>1. Further(t, S) = U \ {NIL}
    BY DEF Further
  <2> HIDE DEF U
  <2>2. x \in Further(t, S) <=> x # NIL /\ x \in U
    BY <2>1
  <2> QED
    BY <2>2 DEF U
<1>4. (\E n \in S : x \in {n, t.left[n], t.right[n]})
        <=> \E n \in S : x = n \/ x = t.left[n] \/ x = t.right[n]
  BY <1>1
<1> QED
  BY <1>2, <1>3, <1>4, Zenon

\* w[k] are the nodes at most k steps away from the root.
Levels(t, w) ==
  /\ w[0] = {t.root} \ {NIL}
  /\ \A k \in 1 .. MaxTreeNodes : w[k] = Further(t, w[k - 1])

LEMMA LevelsExist ==
  ASSUME NEW t
  PROVE  \E w : Levels(t, w) /\ Reachable(t) = w[MaxTreeNodes]
<1> DEFINE Body(w, N) == [k \in 0 .. N |-> IF k = 0 THEN {t.root} \ {NIL} ELSE Further(t, w[k - 1])]
           none == {N \in Nat : ~ \E w : w = Body(w, N)}
<1>1. none = {}
  <2>1. SUFFICES ASSUME none # {} PROVE FALSE
    OBVIOUS
  <2>2. PICK N \in none : \A y \in none : N <= y
    <3>1. none \in SUBSET Nat
      OBVIOUS
    <3> HIDE DEF none
    <3> QED
      BY <2>1, <3>1, LowestOf
  <2>3. N \in Nat /\ ~ \E w : w = Body(w, N)
    OBVIOUS
  <2>4. CASE N = 0
    <3> DEFINE w == [k \in 0 .. 0 |-> {t.root} \ {NIL}]
    <3>1. w = Body(w, N)
      BY <2>4
    <3> QED
      BY <3>1, <2>3
  <2>5. CASE N # 0
    <3>1. N - 1 \in Nat /\ ~ (N <= N - 1)
      BY <2>3, <2>5
    <3>2. N - 1 \notin none
      BY <2>2, <3>1
    <3>3. PICK v : v = Body(v, N - 1)
      BY <3>1, <3>2
    <3> DEFINE w == [k \in 0 .. N |-> IF k = N THEN Further(t, v[N - 1]) ELSE v[k]]
    <3>4. ASSUME NEW k \in 0 .. N PROVE w[k] = Body(w, N)[k]
      <4>1. CASE k = N
        <5>1. w[N - 1] = v[N - 1]
          BY <2>3, <3>1
        <5> QED
          BY <5>1, <4>1, <2>5
      <4>2. CASE k # N /\ k = 0
        <5>1. v[0] = {t.root} \ {NIL}
          BY <3>1, <3>3
        <5> QED
          BY <5>1, <4>2
      <4>3. CASE k # N /\ k # 0
        <5>1. k \in 0 .. N - 1 /\ k - 1 \in 0 .. N - 1 /\ k - 1 \in 0 .. N /\ k - 1 # N
          BY <4>3, <2>3
        <5>2. v[k] = Further(t, v[k - 1])
          BY <5>1, <4>3, <3>3
        <5>3. w[k] = v[k] /\ w[k - 1] = v[k - 1]
          BY <5>1, <4>3
        <5> HIDE DEF w
        <5> QED
          BY <5>2, <5>3, <4>3
      <4> QED
        BY <4>1, <4>2, <4>3
    <3>5. w = [k \in 0 .. N |-> w[k]] /\ Body(w, N) = [k \in 0 .. N |-> Body(w, N)[k]]
      OBVIOUS
    <3> HIDE DEF w, Body
    <3> QED
      BY <2>3, <3>4, <3>5
  <2> QED
    BY <2>4, <2>5
<1>2. MaxTreeNodes \in Nat
  BY TreeAssumption
<1>3. \E w : w = Body(w, MaxTreeNodes)
  BY <1>1, <1>2
<1> DEFINE within == CHOOSE w : w = Body(w, MaxTreeNodes)
<1>4. within = Body(within, MaxTreeNodes)
  <2> HIDE DEF Body
  <2> QED
    BY <1>3
<1>5. Reachable(t) = within[MaxTreeNodes]
  BY DEF Reachable, Further
<1> HIDE DEF within
<1>6. Levels(t, within)
  <2>1. within[0] = {t.root} \ {NIL}
    BY <1>2, <1>4
  <2>2. ASSUME NEW k \in 1 .. MaxTreeNodes PROVE within[k] = Further(t, within[k - 1])
    <3>1. k \in 0 .. MaxTreeNodes /\ k # 0
      BY <1>2
    <3>2. within[k] = Body(within, MaxTreeNodes)[k]
      BY <1>4
    <3> QED
      BY <3>1, <3>2
  <2> QED
    BY <2>1, <2>2 DEF Levels
<1> QED
  BY <1>5, <1>6

\* The nodes some path leads to are closed: MaxTreeNodes steps are enough.
Paths(t, R) ==
  /\ R \subseteq TreeNodes
  /\ t.root # NIL => t.root \in R
  /\ \A n \in R : t.left[n] \in R \cup {NIL} /\ t.right[n] \in R \cup {NIL}

LEMMA ReachableIsClosed ==
  ASSUME NEW t \in Trees, Ranked(t)
  PROVE  Paths(t, Reachable(t))
<1> DEFINE M == MaxTreeNodes
<1>1. PICK w : Levels(t, w) /\ Reachable(t) = w[M]
  BY LevelsExist
<1>2. PICK rank \in [TreeNodes -> TreeNodes] : Ranks(t, rank)
  BY DEF Ranked
<1>3. M \in Nat /\ M > 0
  BY TreeAssumption
<1>4. \A n \in TreeNodes : rank[n] \in 1 .. M
  BY <1>2 DEF TreeNodes
<1>5. t.root \in TreeNodes \cup {NIL} /\ \A n \in TreeNodes : /\ t.left[n] \in TreeNodes \cup {NIL}
                                                            /\ t.right[n] \in TreeNodes \cup {NIL}
  BY DEF Trees
\* A node at level k has its children there, or there is nothing much below it.
<1> DEFINE Deep(k) == /\ w[k] \subseteq TreeNodes
                      /\ t.root # NIL => t.root \in w[k]
                      /\ \A n \in w[k] : \/ /\ t.left[n] \in w[k] \cup {NIL}
                                            /\ t.right[n] \in w[k] \cup {NIL}
                                         \/ rank[n] <= M - k
           shallow == {k \in 0 .. M : ~ Deep(k)}
<1>6. Deep(0)
  <2>1. w[0] = {t.root} \ {NIL}
    BY <1>1 DEF Levels
  <2> QED
    BY <2>1, <1>3, <1>4, <1>5
<1>7. ASSUME NEW k \in 1 .. M, Deep(k - 1) PROVE Deep(k)
  <2>1. \A x : x \in w[k] <=>
          x # NIL /\ \E n \in w[k - 1] : x = n \/ x = t.left[n] \/ x = t.right[n]
    BY <1>1, FurtherNodes DEF Levels
  <2>2. w[k - 1] \subseteq TreeNodes /\ NIL \notin w[k - 1]
    BY <1>7, NilIsNoNode
  <2>3. w[k - 1] \subseteq w[k] /\ w[k] \subseteq TreeNodes
    BY <2>1, <2>2, <1>5
  <2>4. \A n \in w[k - 1] : t.left[n] \in w[k] \cup {NIL} /\ t.right[n] \in w[k] \cup {NIL}
    BY <2>1, <2>2
  <2>5. ASSUME NEW n \in w[k], n \notin w[k - 1] PROVE rank[n] <= M - k
    <3>1. PICK m \in w[k - 1] : n \in {t.left[m], t.right[m]} /\ n # NIL
      BY <2>1, <2>5
    <3>2. rank[n] < rank[m]
      BY <3>1, <2>2, <1>2 DEF Ranks
    <3>3. rank[m] <= M - (k - 1)
      BY <3>1, <2>5, <2>2, <1>7
    <3>4. rank[n] \in 1 .. M /\ rank[m] \in 1 .. M
      BY <3>1, <2>2, <2>3, <1>4
    <3> QED
      BY <3>2, <3>3, <3>4, <1>3
  <2>6. t.root # NIL => t.root \in w[k]
    BY <2>3, <1>7
  <2> QED
    BY <2>3, <2>4, <2>5, <2>6
<1>8. shallow = {}
  <2> HIDE DEF Deep
  <2>1. SUFFICES ASSUME shallow # {} PROVE FALSE
    OBVIOUS
  <2>2. PICK k \in shallow : \A y \in shallow : k <= y
    <3>1. shallow \in SUBSET Nat
      BY <1>3
    <3> HIDE DEF shallow
    <3> QED
      BY <2>1, <3>1, LowestOf
  <2>3. k # 0
    BY <2>2, <1>6
  <2>4. k \in 1 .. M /\ k - 1 \in 0 .. M /\ ~ (k <= k - 1)
    BY <2>3, <1>3
  <2>5. Deep(k - 1)
    BY <2>2, <2>4
  <2> QED
    BY <2>2, <2>4, <2>5, <1>7
<1>9. Deep(M)
  <2> HIDE DEF Deep
  <2> QED
    BY <1>3, <1>8
<1>10. \A n \in w[M] : ~ (rank[n] <= M - M)
  BY <1>3, <1>4, <1>9
<1> QED
  BY <1>1, <1>9, <1>10 DEF Paths

\* No path leads out of a set that has the root and, with a node, its children.
LEMMA ReachableWithin ==
  ASSUME NEW u, NEW R, u.root \in R \cup {NIL},
         \A n \in R : u.left[n] \in R \cup {NIL} /\ u.right[n] \in R \cup {NIL}
  PROVE  Reachable(u) \subseteq R
<1> DEFINE M == MaxTreeNodes
<1>1. PICK w : Levels(u, w) /\ Reachable(u) = w[M]
  BY LevelsExist
<1>2. M \in Nat
  BY TreeAssumption
<1> DEFINE out == {k \in 0 .. M : ~ (w[k] \subseteq R)}
<1>3. w[0] \subseteq R
  BY <1>1 DEF Levels
<1>4. ASSUME NEW k \in 1 .. M, w[k - 1] \subseteq R PROVE w[k] \subseteq R
  <2>1. \A x : x \in w[k] <=>
          x # NIL /\ \E n \in w[k - 1] : x = n \/ x = u.left[n] \/ x = u.right[n]
    BY <1>1, FurtherNodes DEF Levels
  <2>2. \A n \in w[k - 1] : {n, u.left[n], u.right[n]} \subseteq R \cup {NIL}
    BY <1>4
  <2> QED
    BY <2>1, <2>2
<1>5. out = {}
  <2>1. SUFFICES ASSUME out # {} PROVE FALSE
    OBVIOUS
  <2>2. PICK k \in out : \A y \in out : k <= y
    <3>1. out \in SUBSET Nat
      BY <1>2
    <3> HIDE DEF out
    <3> QED
      BY <2>1, <3>1, LowestOf
  <2>3. k # 0
    BY <2>2, <1>3
  <2>4. k \in 1 .. M /\ k - 1 \in 0 .. M /\ ~ (k <= k - 1)
    BY <2>3, <1>2
  <2> QED
    BY <2>2, <2>4, <1>4
<1> QED
  BY <1>1, <1>2, <1>5

\* A tree that has lost children has lost nodes.
LEMMA ReachableShrinks ==
  ASSUME NEW t \in Trees, NEW u, u.root = t.root,
         \A n \in TreeNodes : u.left[n] \in {t.left[n], NIL} /\ u.right[n] \in {t.right[n], NIL},
         Ranked(t)
  PROVE  Reachable(u) \subseteq Reachable(t)
<1> DEFINE R == Reachable(t)
<1>1. Paths(t, R) /\ t.root \in TreeNodes \cup {NIL}
  BY ReachableIsClosed DEF Trees
<1> HIDE DEF R
<1>2. \A n \in R : u.left[n] \in R \cup {NIL} /\ u.right[n] \in R \cup {NIL}
  BY <1>1 DEF Paths
<1> QED
  BY <1>1, <1>2, ReachableWithin DEF Paths, R

\* Below a node everything is lower in rank.
LEMMA NothingAbove ==
  ASSUME NEW t \in Trees, NEW rank, Ranks(t, rank), NEW n \in TreeNodes,
         NEW c \in {t.left[n], t.right[n]}
  PROVE  n \notin Reachable([t EXCEPT !.root = c])
<1> DEFINE u == [t EXCEPT !.root = c]
           R == {m \in TreeNodes : rank[m] < rank[n]}
<1>1. u.root = c /\ u.left = t.left /\ u.right = t.right
  BY DEF Trees
<1>2. \A m \in TreeNodes : /\ rank[m] \in Nat
                           /\ t.left[m] \in TreeNodes \cup {NIL} /\ t.right[m] \in TreeNodes \cup {NIL}
                           /\ t.left[m] # NIL => rank[t.left[m]] < rank[m]
                           /\ t.right[m] # NIL => rank[t.right[m]] < rank[m]
  <2>1. \A m \in TreeNodes : rank[m] \in Nat
    BY DEF Ranks, TreeNodes
  <2> QED
    BY <2>1 DEF Ranks, Trees
<1>3. c \in R \cup {NIL}
  BY <1>2
<1>4. \A m \in R : t.left[m] \in R \cup {NIL} /\ t.right[m] \in R \cup {NIL}
  <2> SUFFICES ASSUME NEW m \in R PROVE t.left[m] \in R \cup {NIL} /\ t.right[m] \in R \cup {NIL}
    OBVIOUS
  <2>1. \A l \in TreeNodes : rank[l] < rank[m] => l \in R
    BY <1>2
  <2> QED
    BY <2>1, <1>2
<1>5. n \notin R
  BY <1>2
<1> HIDE DEF u, R
<1>6. Reachable(u) \subseteq R
  BY <1>1, <1>3, <1>4, ReachableWithin
<1> QED
  BY <1>5, <1>6 DEF u

\* The last node of a path: its child on the side of the page is what the search finds.
LEMMA ParentFound ==
  ASSUME NEW t \in Trees, NEW pn \in Nat, Ranked(t), t.root # NIL, t.PageNumber[t.root] # pn
  PROVE  LET q == Parent(t, pn)
         IN  /\ q \in Reachable(t) /\ t.PageNumber[q] # pn
             /\ Side(t, pn, q) = NIL \/ t.PageNumber[Side(t, pn, q)] = pn
             /\ search(t, pn) = Side(t, pn, q)
<1> DEFINE R == Reachable(t)
           Right(n, q) == /\ q \in R /\ t.PageNumber[q] # pn
                          /\ Side(t, pn, q) = NIL \/ t.PageNumber[Side(t, pn, q)] = pn
<1>1. PICK g : Searches(t, pn, g) /\ search(t, pn) = g[t.root]
  BY SearchEndsSomewhere
<1>2. PICK p : Parents(t, pn, p) /\ Parent(t, pn) = p[t.root]
  BY ParentSomewhere
<1>3. PICK rank \in [TreeNodes -> TreeNodes] : Ranks(t, rank)
  BY DEF Ranked
<1>4. Paths(t, R)
  BY ReachableIsClosed
<1> HIDE DEF R
<1> DEFINE wrong == {n \in R : /\ t.PageNumber[n] # pn
                               /\ ~ (Right(n, p[n]) /\ g[n] = Side(t, pn, p[n]))}
<1>5. \A n \in R : n \in TreeNodes /\ rank[n] \in Nat
  BY <1>3, <1>4 DEF Paths, TreeNodes
<1>6. wrong = {}
  <2>1. SUFFICES ASSUME wrong # {} PROVE FALSE
    OBVIOUS
  <2>2. PICK n \in wrong : \A m \in wrong : rank[n] <= rank[m]
    <3>1. \A m \in wrong : rank[m] \in Nat
      BY <1>5
    <3> HIDE DEF wrong
    <3> QED
      BY <2>1, <3>1, LowestRank
  <2> DEFINE c == Side(t, pn, n)
  <2>3. /\ n \in R /\ n \in TreeNodes /\ t.PageNumber[n] # pn
        /\ ~ (Right(n, p[n]) /\ g[n] = Side(t, pn, p[n]))
    BY <2>2, <1>5
  <2>4. g[n] = g[c] /\ g[NIL] = NIL /\ \A m \in TreeNodes : t.PageNumber[m] = pn => g[m] = m
    BY <2>3, <1>1 DEF Searches
  <2>5. c \in R \cup {NIL}
    BY <2>3, <1>4 DEF Paths, Side
  <2> HIDE DEF wrong
  <2>6. CASE c = NIL \/ t.PageNumber[c] = pn
    <3>1. p[n] = n
      BY <2>3, <2>6, <1>2 DEF Parents
    <3>2. g[c] = c
      BY <2>4, <2>5, <2>6, <1>5
    <3> QED
      BY <2>3, <2>4, <2>6, <3>1, <3>2
  <2>7. CASE ~ (c = NIL \/ t.PageNumber[c] = pn)
    <3>1. p[n] = p[c]
      BY <2>3, <2>7, <1>2 DEF Parents
    <3>2. rank[c] < rank[n] /\ c \in R
      BY <2>3, <2>5, <2>7, <1>3 DEF Ranks, Side
    <3>3. c \notin wrong
      BY <2>2, <2>3, <3>2, <1>5
    <3>4. Right(c, p[c]) /\ g[c] = Side(t, pn, p[c])
      BY <3>2, <3>3, <2>7 DEF wrong
    <3> QED
      BY <2>3, <2>4, <3>1, <3>4
  <2> QED
    BY <2>6, <2>7
<1>7. t.root \in R
  BY <1>4 DEF Paths
<1>8. Right(t.root, p[t.root]) /\ g[t.root] = Side(t, pn, p[t.root])
  BY <1>6, <1>7
<1> QED
  BY <1>1, <1>2, <1>8 DEF R

----------------------------------------------------------------------------
(* What hangs where the path of a page ends *)

\* Nothing, or a node for page pn without children.
Leaf(t, c, pn) ==
  \/ c = NIL
  \/ c \in TreeNodes /\ t.PageNumber[c] = pn /\ t.left[c] = NIL /\ t.right[c] = NIL

LEMMA LeafSearched ==
  ASSUME NEW t, NEW pn, NEW pm, NEW g, NEW c, Searches(t, pm, g), Leaf(t, c, pn)
  PROVE  g[c] = IF pm = pn THEN c ELSE NIL
<1>1. CASE c = NIL
  BY <1>1 DEF Searches
<1>2. CASE c # NIL
  <2>1. c \in TreeNodes /\ t.PageNumber[c] = pn /\ Side(t, pm, c) = NIL
    BY <1>2 DEF Leaf, Side
  <2> QED
    BY <2>1 DEF Searches
<1> QED
  BY <1>1, <1>2

\* Tree u is tree t with leaf d, in place of what hung there, where the path of page pn ends.
Rehung(t, u, pn, d) ==
  LET q == Parent(t, pn)
  IN  /\ u.root = t.root
      /\ Leaf(t, Side(t, pn, q), pn)
      /\ Leaf(u, d, pn)
      /\ \A n \in Reachable(t) :
           /\ u.PageNumber[n] = t.PageNumber[n]
           /\ u.left[n] = IF n = q /\ pn < t.PageNumber[n] THEN d ELSE t.left[n]
           /\ u.right[n] = IF n = q /\ ~ (pn < t.PageNumber[n]) THEN d ELSE t.right[n]

\* Searches for page pn find that leaf, and searches for other pages what they found.
LEMMA RehungSearch ==
  ASSUME NEW t \in Trees, NEW u \in Trees, NEW pn \in Nat, NEW pm \in Nat, NEW d,
         Ranked(t), t.root # NIL, t.PageNumber[t.root] # pn, Rehung(t, u, pn, d)
  PROVE  search(u, pm) = IF pm = pn THEN d ELSE search(t, pm)
<1> DEFINE R == Reachable(t)
           q == Parent(t, pn)
           c == Side(t, pn, q)
<1>1. PICK g : Searches(t, pm, g) /\ search(t, pm) = g[t.root]
  BY SearchEndsSomewhere
<1>2. PICK h : Searches(u, pm, h) /\ search(u, pm) = h[u.root]
  BY SearchEndsSomewhere
<1>3. PICK p : Parents(t, pn, p) /\ Parent(t, pn) = p[t.root]
  BY ParentSomewhere
<1>4. PICK rank \in [TreeNodes -> TreeNodes] : Ranks(t, rank)
  BY DEF Ranked
<1>5. Paths(t, R)
  BY ReachableIsClosed
<1>6. q \in R /\ (c = NIL \/ t.PageNumber[c] = pn) /\ t.PageNumber[q] # pn
  BY ParentFound
<1>7. /\ u.root = t.root /\ t.root \in R
      /\ g[c] = IF pm = pn THEN c ELSE NIL
      /\ h[d] = IF pm = pn THEN d ELSE NIL
  BY <1>1, <1>2, <1>5, LeafSearched DEF Rehung, Paths
<1>8. \A n \in R : n \in TreeNodes /\ rank[n] \in Nat /\ t.PageNumber[n] \in Nat
  <2>1. \A n \in R : n \in TreeNodes
    BY <1>5 DEF Paths
  <2>2. \A n \in TreeNodes : rank[n] \in TreeNodes /\ t.PageNumber[n] \in Nat
    BY <1>4 DEF Trees
  <2>3. TreeNodes \subseteq Nat
    BY DEF TreeNodes
  <2> QED
    BY <2>1, <2>2, <2>3
<1>9. \A n \in R : /\ u.PageNumber[n] = t.PageNumber[n]
                   /\ n # q => Side(u, pm, n) = Side(t, pm, n)
                   /\ n = q => \/ Side(u, pm, n) = Side(t, pm, n)
                               \/ Side(u, pm, n) = d /\ Side(t, pm, n) = c
                   /\ n = q /\ pm = pn => Side(u, pm, n) = d
  BY DEF Rehung, Side
<1>10. \A n \in R : Side(t, pm, n) \in R \cup {NIL}
                    /\ (Side(t, pm, n) # NIL => rank[Side(t, pm, n)] < rank[n])
  BY <1>4, <1>5, <1>8 DEF Paths, Ranks, Side
<1> HIDE DEF R, q, c
<1>11. CASE pm # pn
  <2> DEFINE wrong == {n \in R : h[n] # g[n]}
  <2>1. SUFFICES ASSUME wrong # {} PROVE FALSE
    BY <1>1, <1>2, <1>7, <1>11
  <2>2. PICK n \in wrong : \A m \in wrong : rank[n] <= rank[m]
    <3>1. \A m \in wrong : rank[m] \in Nat
      BY <1>8
    <3> HIDE DEF wrong
    <3> QED
      BY <2>1, <3>1, LowestRank
  <2>3. n \in R /\ n \in TreeNodes /\ h[n] # g[n] /\ t.PageNumber[n] = u.PageNumber[n]
    BY <1>8, <1>9
  <2>4. t.PageNumber[n] # pm
    BY <2>3, <1>1, <1>2 DEF Searches
  <2>5. g[n] = g[Side(t, pm, n)] /\ h[n] = h[Side(u, pm, n)] /\ g[NIL] = NIL /\ h[NIL] = NIL
    BY <2>3, <2>4, <1>1, <1>2 DEF Searches
  <2>6. CASE Side(u, pm, n) = Side(t, pm, n)
    <3>1. Side(t, pm, n) # NIL
      BY <2>3, <2>5, <2>6
    <3>2. Side(t, pm, n) \in R /\ rank[Side(t, pm, n)] < rank[n]
      BY <2>3, <3>1, <1>10
    <3>3. Side(t, pm, n) \in wrong
      BY <2>3, <2>5, <2>6, <3>2
    <3> QED
      BY <2>2, <2>3, <3>2, <3>3, <1>8
  <2>7. CASE Side(u, pm, n) # Side(t, pm, n)
    <3>1. Side(u, pm, n) = d /\ Side(t, pm, n) = c
      BY <2>3, <2>7, <1>9
    <3> QED
      BY <2>3, <2>5, <3>1, <1>7, <1>11
  <2> QED
    BY <2>6, <2>7
<1>12. CASE pm = pn
  <2> DEFINE wrong == {n \in R : t.PageNumber[n] # pn /\ p[n] = q /\ h[n] # d}
  <2>1. SUFFICES ASSUME wrong # {} PROVE FALSE
    BY <1>2, <1>3, <1>7, <1>12 DEF q
  <2>2. PICK n \in wrong : \A m \in wrong : rank[n] <= rank[m]
    <3>1. \A m \in wrong : rank[m] \in Nat
      BY <1>8
    <3> HIDE DEF wrong
    <3> QED
      BY <2>1, <3>1, LowestRank
  <2>3. /\ n \in R /\ n \in TreeNodes /\ t.PageNumber[n] # pn /\ p[n] = q /\ h[n] # d
        /\ t.PageNumber[n] = u.PageNumber[n]
    BY <1>8, <1>9
  <2>4. h[n] = h[Side(u, pn, n)] /\ h[d] = d
    BY <2>3, <1>2, <1>7, <1>12 DEF Searches
  <2>5. CASE n = q
    BY <2>3, <2>4, <2>5, <1>9, <1>12
  <2>6. CASE n # q
    <3> DEFINE e == Side(t, pn, n)
    <3>1. e # NIL /\ t.PageNumber[e] # pn /\ p[n] = p[e]
      BY <2>3, <2>6, <1>3 DEF Parents
    <3>2. e \in R /\ rank[e] < rank[n] /\ Side(u, pn, n) = e
      BY <2>3, <2>6, <3>1, <1>9, <1>10, <1>12
    <3>3. e \in wrong
      BY <2>3, <2>4, <3>1, <3>2
    <3> QED
      BY <2>2, <2>3, <3>2, <3>3, <1>8
  <2> QED
    BY <2>5, <2>6
<1> QED
  BY <1>11, <1>12

\* del takes a leaf off that is not the root.
LEMMA DelSearch ==
  ASSUME NEW t \in Trees, NEW pn \in Nat, Ranked(t), search(t, pn) # NIL, search(t, pn) # t.root,
         Leaf(t, search(t, pn), pn)
  PROVE  LET u == del(t, pn)
         IN  /\ u \in Trees /\ Ranked(u) /\ u.root = t.root /\ t.root # NIL
             /\ \A n \in TreeNodes : u.left[n] \in {t.left[n], NIL} /\ u.right[n] \in {t.right[n], NIL}
             /\ \A pm \in Nat : search(u, pm) = IF pm = pn THEN NIL ELSE search(t, pm)
<1> DEFINE x == search(t, pn)
           q == Parent(t, pn)
           u == Hang(t, q, pn, NIL)
<1>1. x \in TreeNodes /\ t.PageNumber[x] = pn /\ t.left[x] = NIL /\ t.right[x] = NIL
  BY DEF Leaf
<1>2. PICK g : Searches(t, pn, g) /\ x = g[t.root]
  BY SearchEndsSomewhere
<1>3. t.root # NIL /\ t.root \in TreeNodes /\ t.PageNumber[t.root] # pn
  <2>1. t.root # NIL /\ t.root \in TreeNodes \cup {NIL}
    BY <1>1, <1>2, NilIsNoNode DEF Searches, Trees
  <2> QED
    BY <2>1, <1>2 DEF Searches
<1>4. Paths(t, Reachable(t))
  BY ReachableIsClosed
<1>5. /\ q \in Reachable(t) /\ q \in TreeNodes /\ Side(t, pn, q) = x
  BY <1>3, <1>4, ParentFound DEF Paths
<1>6. del(t, pn) = u
  BY <1>1, NilIsNoNode DEF del
<1>7. /\ u.root = t.root /\ u.PageNumber = t.PageNumber /\ u \in Trees
      /\ u.left = IF pn < t.PageNumber[q] THEN [t.left EXCEPT ![q] = NIL] ELSE t.left
      /\ u.right = IF pn < t.PageNumber[q] THEN t.right ELSE [t.right EXCEPT ![q] = NIL]
  <2>1. CASE pn < t.PageNumber[q]
    <3> DEFINE left == [t.left EXCEPT ![q] = NIL]
    <3>1. u = [t EXCEPT !.left = left] /\ left \in [TreeNodes -> TreeNodes \cup {NIL}]
      BY <2>1, <1>5 DEF Hang, Trees
    <3> HIDE DEF u, left
    <3>2. /\ u \in Trees /\ u.root = t.root /\ u.left = left /\ u.right = t.right
          /\ u.PageNumber = t.PageNumber
      BY <3>1 DEF Trees
    <3> QED
      BY <3>2, <2>1 DEF left
  <2>2. CASE ~ (pn < t.PageNumber[q])
    <3> DEFINE right == [t.right EXCEPT ![q] = NIL]
    <3>1. u = [t EXCEPT !.right = right] /\ right \in [TreeNodes -> TreeNodes \cup {NIL}]
      BY <2>2, <1>5 DEF Hang, Trees
    <3> HIDE DEF u, right
    <3>2. /\ u \in Trees /\ u.root = t.root /\ u.left = t.left /\ u.right = right
          /\ u.PageNumber = t.PageNumber
      BY <3>1 DEF Trees
    <3> QED
      BY <3>2, <2>2 DEF right
  <2> QED
    BY <2>1, <2>2
<1>8. \A n \in TreeNodes :
        /\ u.left[n] = IF n = q /\ pn < t.PageNumber[n] THEN NIL ELSE t.left[n]
        /\ u.right[n] = IF n = q /\ ~ (pn < t.PageNumber[n]) THEN NIL ELSE t.right[n]
  BY <1>7, <1>5 DEF Trees
<1> HIDE DEF u, q
<1>9. Rehung(t, u, pn, NIL)
  <2>1. Leaf(u, NIL, pn) /\ Leaf(t, Side(t, pn, q), pn)
    BY <1>5 DEF Leaf
  <2>2. \A n \in Reachable(t) : n \in TreeNodes
    BY <1>4 DEF Paths
  <2> QED
    BY <2>1, <2>2, <1>7, <1>8 DEF Rehung, q
<1>10. Ranked(u)
  <2>1. PICK rank \in [TreeNodes -> TreeNodes] : Ranks(t, rank)
    BY DEF Ranked
  <2>2. Ranks(u, rank)
    BY <2>1, <1>8 DEF Ranks
  <2> QED
    BY <2>2 DEF Ranked
<1>11. \A pm \in Nat : search(u, pm) = IF pm = pn THEN NIL ELSE search(t, pm)
  BY <1>3, <1>7, <1>9, RehungSearch
<1> QED
  BY <1>3, <1>6, <1>7, <1>8, <1>10, <1>11

LEMMA LowestIsIn ==
  ASSUME NEW S \in SUBSET TreeNodes, S # {}
  PROVE  Min(S) \in S
<1>1. S \in SUBSET Nat
  BY DEF TreeNodes
<1>2. \E x \in S : \A y \in S : x <= y
  BY <1>1, LowestOf
<1> QED
  BY <1>2 DEF Min

\* The new node is made the lowest in rank.
LEMMA NewIsRanked ==
  ASSUME NEW t, Ranked(t), NEW u, NEW n \in TreeNodes,
         u.left[n] = NIL, u.right[n] = NIL,
         \A m \in TreeNodes \ {n} : u.left[m] \in {t.left[m], n} /\ u.right[m] \in {t.right[m], n},
         \A m \in TreeNodes \ {n} : /\ t.left[m] \in TreeNodes \cup {NIL}
                                    /\ t.right[m] \in TreeNodes \cup {NIL}
  PROVE  Ranked(u)
<1>1. PICK rank \in [TreeNodes -> TreeNodes] : Ranks(t, rank)
  BY DEF Ranked
<1> DEFINE new == [m \in TreeNodes |-> IF m = n THEN 1
                                       ELSE IF rank[m] < rank[n] THEN rank[m] + 1 ELSE rank[m]]
<1>2. /\ MaxTreeNodes \in Nat /\ MaxTreeNodes > 0 /\ TreeNodes = 1 .. MaxTreeNodes
      /\ \A m \in TreeNodes : rank[m] \in 1 .. MaxTreeNodes
  BY <1>1, TreeAssumption DEF TreeNodes
<1>3. \A m \in TreeNodes : new[m] \in TreeNodes
  <2>1. ASSUME NEW m \in TreeNodes PROVE new[m] \in 1 .. MaxTreeNodes
    <3>1. rank[m] \in 1 .. MaxTreeNodes /\ rank[n] \in 1 .. MaxTreeNodes
      BY <1>2
    <3>2. new[m] = IF m = n THEN 1 ELSE IF rank[m] < rank[n] THEN rank[m] + 1 ELSE rank[m]
      OBVIOUS
    <3> HIDE DEF new
    <3>3. CASE m = n
      BY <3>2, <3>3, <1>2
    <3>4. CASE m # n /\ rank[m] < rank[n]
      <4>1. MaxTreeNodes \in Nat
        BY <1>2
      <4>2. rank[m] + 1 \in 1 .. MaxTreeNodes
        BY <4>1, <3>1, <3>4
      <4> QED
        BY <4>2, <3>2, <3>4
    <3>5. CASE m # n /\ ~ (rank[m] < rank[n])
      BY <3>1, <3>2, <3>5
    <3> QED
      BY <3>3, <3>4, <3>5
  <2> QED
    BY <2>1, <1>2
<1>4. new \in [TreeNodes -> TreeNodes]
  BY <1>3
<1>5. /\ new[n] = 1
      /\ \A m \in TreeNodes \ {n} : /\ new[m] = IF rank[m] < rank[n] THEN rank[m] + 1 ELSE rank[m]
                                    /\ rank[m] # rank[n] /\ rank[m] \in Nat /\ rank[m] >= 1
      /\ rank[n] \in Nat /\ rank[n] >= 1
  BY <1>1, <1>2 DEF Ranks
<1> HIDE DEF new
<1>5a. \A m \in TreeNodes \ {n} : new[m] > 1
  BY <1>5
<1>6. ASSUME NEW l \in TreeNodes, NEW m \in TreeNodes, new[l] = new[m] PROVE l = m
  <2>1. CASE l = n \/ m = n
    BY <2>1, <1>5, <1>6, <1>5a
  <2>2. CASE l # n /\ m # n
    <3>1. rank[l] = rank[m]
      BY <2>2, <1>5, <1>6
    <3> QED
      BY <3>1, <1>1 DEF Ranks
  <2> QED
    BY <2>1, <2>2
<1>7. ASSUME NEW m \in TreeNodes \ {n}, NEW c \in TreeNodes, c = n \/ rank[c] < rank[m]
      PROVE  new[c] < new[m]
  <2>1. CASE c = n
    BY <2>1, <1>5, <1>5a
  <2>2. CASE c # n
    <3>1. /\ rank[c] < rank[m] /\ rank[c] \in Nat /\ rank[m] \in Nat /\ rank[n] \in Nat
          /\ rank[m] # rank[n]
          /\ new[c] = IF rank[c] < rank[n] THEN rank[c] + 1 ELSE rank[c]
          /\ new[m] = IF rank[m] < rank[n] THEN rank[m] + 1 ELSE rank[m]
      BY <2>2, <1>5, <1>7
    <3> QED
      BY <3>1
  <2> QED
    BY <2>1, <2>2
<1>8. \A m \in TreeNodes : /\ u.left[m] # NIL => new[u.left[m]] < new[m]
                           /\ u.right[m] # NIL => new[u.right[m]] < new[m]
  <2> SUFFICES ASSUME NEW m \in TreeNodes \ {n}
               PROVE  /\ u.left[m] # NIL => new[u.left[m]] < new[m]
                      /\ u.right[m] # NIL => new[u.right[m]] < new[m]
    OBVIOUS
  <2>1. u.left[m] # NIL => u.left[m] \in TreeNodes /\ (u.left[m] = n \/ rank[u.left[m]] < rank[m])
    BY <1>1 DEF Ranks
  <2>2. u.right[m] # NIL => u.right[m] \in TreeNodes /\ (u.right[m] = n \/ rank[u.right[m]] < rank[m])
    BY <1>1 DEF Ranks
  <2> QED
    BY <2>1, <2>2, <1>7
<1>9. Ranks(u, new)
  BY <1>4, <1>6, <1>8 DEF Ranks
<1> QED
  BY <1>4, <1>9 DEF Ranked

\* The fields of a tree with a new node: it is a leaf, below the last node of the path of
\* page pn.
LEMMA InsertFields ==
  ASSUME NEW t \in Trees, NEW pn \in Nat, NEW f \in Nat, Ranked(t), t.root # NIL,
         search(t, pn) = NIL, TreeNodes \ Reachable(t) # {}
  PROVE  LET u == insert(t, pn, f)
             n == Min(TreeNodes \ Reachable(t))
             q == Parent(t, pn)
         IN  /\ u \in Trees /\ u.root = t.root /\ n \in TreeNodes /\ n \notin Reachable(t)
             /\ t.root \in Reachable(t) /\ t.PageNumber[t.root] # pn
             /\ q \in TreeNodes /\ q \in Reachable(t) /\ Side(t, pn, q) = NIL
             /\ u.left[n] = NIL /\ u.right[n] = NIL /\ u.PageNumber[n] = pn
             /\ \A m \in TreeNodes \ {n} :
                  /\ u.left[m] = IF m = q /\ pn < t.PageNumber[m] THEN n ELSE t.left[m]
                  /\ u.right[m] = IF m = q /\ ~ (pn < t.PageNumber[m]) THEN n ELSE t.right[m]
                  /\ u.PageNumber[m] = t.PageNumber[m]
<1> DEFINE n == Min(TreeNodes \ Reachable(t))
           grown == [t EXCEPT !.left[n] = NIL, !.right[n] = NIL,
                              !.PageNumber[n] = pn, !.match[n] = f]
           q == Parent(t, pn)
           u == Hang(grown, q, pn, n)
           nodes(fn, m) == [fn EXCEPT ![n] = m]
<1>1. n \in TreeNodes /\ n \notin Reachable(t)
  <2>1. n \in TreeNodes \ Reachable(t)
    BY LowestIsIn
  <2> QED
    BY <2>1
<1>2. PICK g : Searches(t, pn, g) /\ search(t, pn) = g[t.root]
  BY SearchEndsSomewhere
<1>3. t.root \in TreeNodes /\ t.PageNumber[t.root] # pn
  <2>1. t.root \in TreeNodes
    BY DEF Trees
  <2> QED
    BY <2>1, <1>2 DEF Searches
<1>4. Paths(t, Reachable(t))
  BY ReachableIsClosed
<1>5. /\ q \in Reachable(t) /\ q \in TreeNodes /\ Side(t, pn, q) = NIL
      /\ t.root \in Reachable(t)
  BY <1>3, <1>4, ParentFound DEF Paths
<1>6. insert(t, pn, f) = u
  BY DEF insert
<1> HIDE DEF n, q
<1>7. /\ grown.root = t.root /\ grown \in Trees
      /\ grown.left = nodes(t.left, NIL) /\ grown.right = nodes(t.right, NIL)
      /\ grown.PageNumber = nodes(t.PageNumber, pn)
  <2> DEFINE left == nodes(t.left, NIL)
             right == nodes(t.right, NIL)
             page == nodes(t.PageNumber, pn)
             match == nodes(t.match, f)
  <2>1. grown = [t EXCEPT !.left = left, !.right = right, !.PageNumber = page, !.match = match]
    BY DEF Trees
  <2>2. /\ left \in [TreeNodes -> TreeNodes \cup {NIL}] /\ right \in [TreeNodes -> TreeNodes \cup {NIL}]
        /\ page \in [TreeNodes -> Nat] /\ match \in [TreeNodes -> Nat]
    BY <1>1 DEF Trees
  <2> HIDE DEF left, right, page, match, grown
  <2>3. /\ grown.root = t.root /\ grown \in Trees /\ grown.left = left /\ grown.right = right
        /\ grown.PageNumber = page
    BY <2>1, <2>2 DEF Trees
  <2> QED
    BY <2>3 DEF left, right, page
<1>8. /\ \A m \in TreeNodes : /\ grown.left[m] = IF m = n THEN NIL ELSE t.left[m]
                              /\ grown.right[m] = IF m = n THEN NIL ELSE t.right[m]
                              /\ grown.PageNumber[m] = IF m = n THEN pn ELSE t.PageNumber[m]
  BY <1>7, <1>1 DEF Trees
<1> HIDE DEF grown, nodes
<1>9. q # n /\ grown.PageNumber[q] = t.PageNumber[q]
  BY <1>1, <1>5, <1>8
<1>10. /\ u.root = t.root /\ u.PageNumber = grown.PageNumber /\ u \in Trees
       /\ u.left = IF pn < t.PageNumber[q] THEN [grown.left EXCEPT ![q] = n] ELSE grown.left
       /\ u.right = IF pn < t.PageNumber[q] THEN grown.right ELSE [grown.right EXCEPT ![q] = n]
  <2>1. CASE pn < t.PageNumber[q]
    <3> DEFINE left == [grown.left EXCEPT ![q] = n]
    <3>1. u = [grown EXCEPT !.left = left] /\ left \in [TreeNodes -> TreeNodes \cup {NIL}]
      BY <2>1, <1>1, <1>5, <1>7, <1>9 DEF Hang, Trees
    <3> HIDE DEF u, left
    <3>2. /\ u \in Trees /\ u.root = grown.root /\ u.left = left /\ u.right = grown.right
          /\ u.PageNumber = grown.PageNumber
      BY <3>1, <1>7 DEF Trees
    <3> QED
      BY <3>2, <2>1, <1>7 DEF left
  <2>2. CASE ~ (pn < t.PageNumber[q])
    <3> DEFINE right == [grown.right EXCEPT ![q] = n]
    <3>1. u = [grown EXCEPT !.right = right] /\ right \in [TreeNodes -> TreeNodes \cup {NIL}]
      BY <2>2, <1>1, <1>5, <1>7, <1>9 DEF Hang, Trees
    <3> HIDE DEF u, right
    <3>2. /\ u \in Trees /\ u.root = grown.root /\ u.left = grown.left /\ u.right = right
          /\ u.PageNumber = grown.PageNumber
      BY <3>1, <1>7 DEF Trees
    <3> QED
      BY <3>2, <2>2, <1>7 DEF right
  <2> QED
    BY <2>1, <2>2
<1>11. /\ \A m \in TreeNodes \ {n} :
            /\ u.left[m] = IF m = q /\ pn < t.PageNumber[m] THEN n ELSE t.left[m]
            /\ u.right[m] = IF m = q /\ ~ (pn < t.PageNumber[m]) THEN n ELSE t.right[m]
            /\ u.PageNumber[m] = t.PageNumber[m]
       /\ u.left[n] = NIL /\ u.right[n] = NIL /\ u.PageNumber[n] = pn
  <2>1. \A m \in TreeNodes : /\ u.left[m] = IF m = q /\ pn < t.PageNumber[q] THEN n ELSE grown.left[m]
                             /\ u.right[m] = IF m = q /\ ~ (pn < t.PageNumber[q]) THEN n
                                             ELSE grown.right[m]
                             /\ u.PageNumber[m] = grown.PageNumber[m]
    BY <1>5, <1>7, <1>10 DEF Trees
  <2> HIDE DEF u
  <2> QED
    BY <2>1, <1>1, <1>8, <1>9
<1> QED
  BY <1>1, <1>3, <1>5, <1>6, <1>10, <1>11 DEF n, q

\* A node that search does not come to: with it, the tree grows below the last node of
\* the path of page pn.
LEMMA InsertSearch ==
  ASSUME NEW t \in Trees, NEW pn \in Nat, NEW f \in Nat, Ranked(t), t.root # NIL,
         search(t, pn) = NIL, TreeNodes \ Reachable(t) # {}
  PROVE  LET u == insert(t, pn, f)
             n == Min(TreeNodes \ Reachable(t))
         IN  /\ u \in Trees /\ Ranked(u) /\ u.root = t.root
             /\ n \in TreeNodes /\ n # u.root /\ Leaf(u, n, pn)
             /\ \A pm \in Nat : search(u, pm) = IF pm = pn THEN n ELSE search(t, pm)
<1> DEFINE n == Min(TreeNodes \ Reachable(t))
           q == Parent(t, pn)
           u == insert(t, pn, f)
<1>1. /\ u \in Trees /\ u.root = t.root /\ n \in TreeNodes /\ n \notin Reachable(t)
      /\ t.root \in Reachable(t) /\ t.PageNumber[t.root] # pn
      /\ q \in TreeNodes /\ q \in Reachable(t) /\ Side(t, pn, q) = NIL
      /\ u.left[n] = NIL /\ u.right[n] = NIL /\ u.PageNumber[n] = pn
      /\ \A m \in TreeNodes \ {n} :
           /\ u.left[m] = IF m = q /\ pn < t.PageNumber[m] THEN n ELSE t.left[m]
           /\ u.right[m] = IF m = q /\ ~ (pn < t.PageNumber[m]) THEN n ELSE t.right[m]
           /\ u.PageNumber[m] = t.PageNumber[m]
  BY InsertFields, ZenonT(30)
<1>2. Paths(t, Reachable(t))
  BY ReachableIsClosed
<1> HIDE DEF u, n, q
<1>3. Leaf(u, n, pn) /\ Leaf(t, NIL, pn)
  BY <1>1 DEF Leaf
<1>4. Rehung(t, u, pn, n)
  <2>1. \A m \in Reachable(t) : m \in TreeNodes \ {n}
    BY <1>1, <1>2 DEF Paths
  <2> QED
    BY <2>1, <1>1, <1>3 DEF Rehung, q
<1>5. \A pm \in Nat : search(u, pm) = IF pm = pn THEN n ELSE search(t, pm)
  BY <1>1, <1>4, RehungSearch
<1>6. Ranked(u)
  <2>1. \A m \in TreeNodes \ {n} : t.left[m] \in TreeNodes \cup {NIL} /\ t.right[m] \in TreeNodes \cup {NIL}
    BY DEF Trees
  <2>2. \A m \in TreeNodes \ {n} : u.left[m] \in {t.left[m], n} /\ u.right[m] \in {t.right[m], n}
    BY <1>1
  <2> QED
    BY <2>1, <2>2, <1>1, NewIsRanked
<1>7. n # t.root
  BY <1>1
<1> QED
  BY <1>1, <1>3, <1>5, <1>6, <1>7 DEF n, u

\* The first node is the root.
LEMMA PlantSearch ==
  ASSUME NEW t \in Trees, NEW pn \in Nat, NEW f \in Nat, Ranked(t), t.root = NIL,
         TreeNodes \ Reachable(t) # {}
  PROVE  LET u == insert(t, pn, f)
             n == Min(TreeNodes \ Reachable(t))
         IN  /\ u \in Trees /\ Ranked(u)
             /\ n \in TreeNodes /\ Leaf(u, n, pn)
             /\ \A pm \in Nat : search(u, pm) = (IF pm = pn THEN n ELSE NIL) /\ search(t, pm) = NIL
<1> DEFINE n == Min(TreeNodes \ Reachable(t))
           grown == [t EXCEPT !.left[n] = NIL, !.right[n] = NIL,
                              !.PageNumber[n] = pn, !.match[n] = f]
           left == [t.left EXCEPT ![n] = NIL]
           right == [t.right EXCEPT ![n] = NIL]
           page == [t.PageNumber EXCEPT ![n] = pn]
           match == [t.match EXCEPT ![n] = f]
           u == [t EXCEPT !.left = left, !.right = right, !.PageNumber = page, !.match = match,
                          !.root = n]
<1>1. n \in TreeNodes
  <2>1. n \in TreeNodes \ Reachable(t)
    BY LowestIsIn
  <2> QED
    BY <2>1
<1>2. ASSUME NEW pm \in Nat PROVE search(t, pm) = NIL
  <2>1. PICK g : Searches(t, pm, g) /\ search(t, pm) = g[t.root]
    BY SearchEndsSomewhere
  <2> QED
    BY <2>1 DEF Searches
<1>3. insert(t, pn, f) = [grown EXCEPT !.root = n]
  <2>1. search(t, pn) = NIL
    BY <1>2
  <2> QED
    BY <2>1 DEF insert
<1> HIDE DEF n
<1>4. [grown EXCEPT !.root = n] = u
  BY DEF Trees
<1> HIDE DEF grown
<1>5. /\ left \in [TreeNodes -> TreeNodes \cup {NIL}] /\ right \in [TreeNodes -> TreeNodes \cup {NIL}]
      /\ page \in [TreeNodes -> Nat] /\ match \in [TreeNodes -> Nat]
  BY <1>1 DEF Trees
<1>6. /\ left[n] = NIL /\ right[n] = NIL /\ page[n] = pn
      /\ \A m \in TreeNodes \ {n} : left[m] = t.left[m] /\ right[m] = t.right[m]
  BY <1>1 DEF Trees
<1> HIDE DEF left, right, page, match
<1>7. u \in Trees /\ u.root = n /\ u.left = left /\ u.right = right /\ u.PageNumber = page
  BY <1>1, <1>5 DEF Trees
<1> HIDE DEF u
<1>8. Leaf(u, n, pn)
  BY <1>1, <1>6, <1>7 DEF Leaf
<1>9. Ranked(u)
  <2>1. \A m \in TreeNodes \ {n} : t.left[m] \in TreeNodes \cup {NIL} /\ t.right[m] \in TreeNodes \cup {NIL}
    BY DEF Trees
  <2>2. \A m \in TreeNodes \ {n} : u.left[m] \in {t.left[m], n} /\ u.right[m] \in {t.right[m], n}
    BY <1>6, <1>7
  <2> QED
    BY <2>1, <2>2, <1>1, <1>6, <1>7, NewIsRanked
<1>10. ASSUME NEW pm \in Nat PROVE search(u, pm) = IF pm = pn THEN n ELSE NIL
  <2>1. PICK g : Searches(u, pm, g) /\ search(u, pm) = g[u.root]
    BY <1>7, SearchEndsSomewhere
  <2> QED
    BY <2>1, <1>7, <1>8, LeafSearched
<1> QED
  BY <1>1, <1>2, <1>3, <1>4, <1>7, <1>8, <1>9, <1>10 DEF n
----------------------------------------------------------------------------
(* The LRU mode *)

\* The page brought in last.
LastPage == entry[list[Len(list)]].PageNumber

\* The frames in use hold different pages, the tree leads to those and to no others, and
\* the page that goes next, if one does, hangs below another node and is a leaf.
LruTree ==
  /\ tree \in Trees /\ Ranked(tree)
  /\ \A f \in Used : entry[f].PageNumber \in Pages
  /\ \A e, f \in Used : entry[e].PageNumber = entry[f].PageNumber => e = f
  /\ \A pn \in Pages : search(tree, pn) # NIL <=> InMemory(pn)
  /\ list # <<>> => Leaf(tree, search(tree, LastPage), LastPage)
  /\ Len(list) >= 2 => search(tree, LastPage) # tree.root

LruInv == fl_Mode = "LRU" => LruTree

LEMMA LruInitially == PageTableInit => LruInv
<1> SUFFICES ASSUME PageTableInit PROVE LruTree
  BY DEF LruInv
<1>1. Used = {} /\ list = <<>> /\ tree.root = NIL
  BY DEF PageTableInit, Used
<1>2. tree \in Trees
  BY DEF PageTableInit, Trees
<1>3. Ranked(tree)
  <2> DEFINE rank == [n \in TreeNodes |-> n]
  <2>1. Ranks(tree, rank)
    BY DEF PageTableInit, Ranks
  <2> HIDE DEF rank
  <2>2. rank \in [TreeNodes -> TreeNodes]
    BY <2>1 DEF Ranks
  <2> QED
    BY <2>1, <2>2 DEF Ranked
<1>4. ASSUME NEW pn \in Pages PROVE search(tree, pn) = NIL
  <2>1. PICK g : Searches(tree, pn, g) /\ search(tree, pn) = g[tree.root]
    BY <1>2, PagesAssumption, SearchEndsSomewhere
  <2> QED
    BY <2>1, <1>1 DEF Searches
<1> QED
  BY <1>1, <1>2, <1>3, <1>4 DEF LruTree, InMemory

\* The last page is found, so a tree without a root has an empty list.
LEMMA LastFound ==
  ASSUME IInv, LruTree, list # <<>>
  PROVE  /\ list[Len(list)] \in Used /\ LastPage \in Pages
         /\ search(tree, LastPage) # NIL /\ tree.root # NIL
<1>1. list[Len(list)] \in Used
  <2>1. /\ Len(list) = free_frame_count /\ free_frame_count \in Nat
        /\ list \in [1 .. free_frame_count -> Used] /\ list \in Seq(Frames)
    BY ListShape DEF IInv, Types
  <2>2. Len(list) \in 1 .. free_frame_count
    BY <2>1
  <2> QED
    BY <2>1, <2>2
<1>2. LastPage \in Pages /\ search(tree, LastPage) # NIL
  BY <1>1 DEF LruTree, InMemory, LastPage
<1>3. PICK g : Searches(tree, LastPage, g) /\ search(tree, LastPage) = g[tree.root]
  BY <1>2, PagesAssumption, SearchEndsSomewhere DEF LruTree
<1> QED
  BY <1>1, <1>2, <1>3 DEF Searches

LEMMA PageInKeepsTree ==
  ASSUME IInv, LruTree, NEW p \in Processes, NEW pn \in Pages, PageIn(p, pn)
  PROVE  LruTree'
<1> DEFINE n == free_frame_count
           c == Min(TreeNodes \ Reachable(tree))
<1>1. /\ n \in Nat /\ n \in Frames /\ n \notin Used /\ Used \subseteq Frames
      /\ Len(list) = n /\ list \in Seq(Frames)
      /\ list' = Append(list, n)
      /\ entry' = [entry EXCEPT ![n] = [PageNumber |-> pn, process_id |-> p]]
      /\ n' = n + 1
      /\ tree' = insert(tree, pn, n)
      /\ search(tree, pn) = NIL
      /\ TreeNodes \ Reachable(tree) # {}
  <2>1. n \in Nat /\ n < physpages /\ physpages \in Nat
    BY PhyspagesAssumption DEF PageIn, IInv, Types
  <2> QED
    BY <2>1, ListShape DEF PageIn, InsertAtTail, IInv, Types, Frames, Used, Resident, TreeHasRoom
<1>2. /\ Used' = Used \cup {n}
      /\ Len(list') = n + 1 /\ list'[n + 1] = n
      /\ entry'[n].PageNumber = pn
      /\ \A f \in Used : entry'[f] = entry[f]
  BY <1>1 DEF Used, IInv, Types
<1>3. LastPage' = pn
  BY <1>2 DEF LastPage
<1>4. /\ tree' \in Trees /\ Ranked(tree') /\ c # NIL /\ Leaf(tree', c, pn)
      /\ \A pm \in Pages : search(tree', pm) = IF pm = pn THEN c ELSE search(tree, pm)
      /\ Len(list') >= 2 => c # tree'.root
  <2>1. CASE tree.root = NIL
    <3>1. list = <<>>
      BY <2>1, LastFound
    <3>2. Len(list') = 1
      BY <3>1, <1>1, <1>2
    <3>3. /\ tree' \in Trees /\ Ranked(tree') /\ c \in TreeNodes /\ Leaf(tree', c, pn)
          /\ \A pm \in Nat : search(tree', pm) = (IF pm = pn THEN c ELSE NIL) /\ search(tree, pm) = NIL
      <4> HIDE DEF c
      <4>1. pn \in Nat /\ tree \in Trees /\ Ranked(tree)
        BY PagesAssumption DEF LruTree
      <4> QED
        BY <4>1, <2>1, <1>1, PlantSearch, ZenonT(30) DEF c
    <3> QED
      BY <3>2, <3>3, NilIsNoNode, PagesAssumption
  <2>2. CASE tree.root # NIL
    <3>1. pn \in Nat /\ tree \in Trees /\ Ranked(tree)
      BY PagesAssumption DEF LruTree
    <3>2. /\ tree' \in Trees /\ Ranked(tree') /\ c \in TreeNodes /\ c # tree'.root
          /\ Leaf(tree', c, pn)
          /\ \A pm \in Nat : search(tree', pm) = IF pm = pn THEN c ELSE search(tree, pm)
      <4> HIDE DEF c
      <4>1. n \in Nat /\ search(tree, pn) = NIL /\ TreeNodes \ Reachable(tree) # {}
        BY <1>1
      <4>2. tree' = insert(tree, pn, n)
        BY <1>1
      <4> HIDE DEF n
      <4> QED
        BY <4>1, <4>2, <3>1, <2>2, InsertSearch DEF c
    <3> QED
      BY <3>2, NilIsNoNode, PagesAssumption
  <2> QED
    BY <2>1, <2>2
<1> HIDE DEF c
<1>5. ~ InMemory(pn)
  BY <1>1 DEF LruTree
<1>6. \A pm \in Pages : search(tree', pm) # NIL <=> InMemory(pm)'
  <2>1. \A pm \in Pages : InMemory(pm)' <=> pm = pn \/ InMemory(pm)
    BY <1>2 DEF InMemory
  <2> QED
    BY <2>1, <1>4 DEF LruTree
<1>7. \A f \in Used' : entry'[f].PageNumber \in Pages
  BY <1>2 DEF LruTree
<1>8. \A e, f \in Used' : entry'[e].PageNumber = entry'[f].PageNumber => e = f
  BY <1>2, <1>5 DEF LruTree, InMemory
<1>9. Leaf(tree', search(tree', pn), pn) /\ (Len(list') >= 2 => search(tree', pn) # tree'.root)
  BY <1>4
<1> QED
  BY <1>3, <1>4, <1>6, <1>7, <1>8, <1>9 DEF LruTree

\* The page that goes is the one brought in last.
LEMMA PageSwapKeepsTree ==
  ASSUME IInv, LruTree, fl_Mode = "LRU", NEW p \in Processes, NEW pn \in Pages, PageSwap(p, pn)
  PROVE  LruTree'
<1> DEFINE n == free_frame_count
           v == Victim
           old == LastPage
           cut == del(tree, old)
           c == Min(TreeNodes \ Reachable(cut))
<1>1. /\ n = physpages /\ ~ OutFollowsNull /\ n' = n
      /\ list' = Append(Shortened, v)
      /\ entry' = [entry EXCEPT ![v] = [PageNumber |-> pn, process_id |-> p]]
      /\ tree' = insert(del(tree, entry[v].PageNumber), pn, v)
      /\ search(tree, pn) = NIL
      /\ TreeNodes \ Reachable(tree) # {}
  BY DEF PageSwap, InsertAtTail, Resident, TreeHasRoom
<1>2. n >= 2 /\ v \in Used /\ v = list[n] /\ v \in Frames /\ v \in Nat /\ Len(list) = n /\ n \in Nat
  BY <1>1, VictimOnList, ListShape, FramesTypes DEF IInv
<1>3. Len(list') = n /\ list'[n] = v
  BY <1>1, ListAfterSwap DEF IInv
<1>4. old = entry[v].PageNumber /\ old \in Pages /\ search(tree, old) # NIL /\ tree.root # NIL
  <2>1. list # <<>>
    BY <1>2
  <2> QED
    BY <2>1, <1>2, LastFound DEF LastPage
<1> HIDE DEF v, old
<1>5. /\ Used' = Used
      /\ entry'[v].PageNumber = pn
      /\ \A f \in Used \ {v} : entry'[f] = entry[f]
  <2>1. Used' = Used
    BY <1>1 DEF Used
  <2> QED
    BY <2>1, <1>1, <1>2, ListShape DEF IInv, Types
<1>6. LastPage' = pn
  BY <1>3, <1>5 DEF LastPage
<1>7. pn # old /\ pn \in Nat /\ old \in Nat /\ ~ InMemory(pn)
  BY <1>1, <1>4, PagesAssumption DEF LruTree
<1>8. /\ cut \in Trees /\ Ranked(cut) /\ cut.root = tree.root
      /\ \A m \in TreeNodes : cut.left[m] \in {tree.left[m], NIL} /\ cut.right[m] \in {tree.right[m], NIL}
      /\ \A pm \in Nat : search(cut, pm) = IF pm = old THEN NIL ELSE search(tree, pm)
  <2>1. /\ tree \in Trees /\ Ranked(tree)
        /\ Leaf(tree, search(tree, old), old) /\ search(tree, old) # tree.root
    BY <1>2 DEF LruTree, old
  <2> QED
    BY <2>1, <1>4, <1>7, DelSearch
<1>9. TreeNodes \ Reachable(cut) # {}
  <2> HIDE DEF cut
  <2>1. Reachable(cut) \subseteq Reachable(tree)
    BY <1>8, ReachableShrinks DEF LruTree
  <2> QED
    BY <2>1, <1>1
<1>10. tree' = insert(cut, pn, v)
  BY <1>1, <1>4
<1> HIDE DEF cut
<1>11. /\ tree' \in Trees /\ Ranked(tree') /\ c \in TreeNodes /\ c # tree'.root
       /\ Leaf(tree', c, pn)
       /\ \A pm \in Nat : search(tree', pm) = IF pm = pn THEN c ELSE search(cut, pm)
  <2> HIDE DEF c
  <2>1. cut.root # NIL /\ search(cut, pn) = NIL
    BY <1>1, <1>4, <1>7, <1>8
  <2>2. cut \in Trees /\ Ranked(cut) /\ v \in Nat /\ pn \in Nat
    BY <1>2, <1>7, <1>8
  <2> QED
    BY <2>1, <2>2, <1>9, <1>10, InsertSearch DEF c
<1> HIDE DEF c
<1>12. \A pm \in Pages : search(tree', pm) # NIL <=> InMemory(pm)'
  <2>1. \A pm \in Pages : search(tree', pm) # NIL
                            <=> pm = pn \/ (pm # old /\ search(tree, pm) # NIL)
    BY <1>8, <1>11, NilIsNoNode, PagesAssumption
  <2>2. \A pm \in Pages : InMemory(pm)' <=> pm = pn \/ \E f \in Used \ {v} : entry[f].PageNumber = pm
    BY <1>2, <1>5 DEF InMemory
  <2>3. \A pm \in Pages : (\E f \in Used \ {v} : entry[f].PageNumber = pm)
                            <=> pm # old /\ InMemory(pm)
    BY <1>2, <1>4 DEF LruTree, InMemory
  <2> QED
    BY <2>1, <2>2, <2>3 DEF LruTree
<1>13. \A f \in Used' : entry'[f].PageNumber \in Pages
  BY <1>5 DEF LruTree
<1>14. \A e, f \in Used' : entry'[e].PageNumber = entry'[f].PageNumber => e = f
  BY <1>5, <1>7 DEF LruTree, InMemory
<1>15. Leaf(tree', search(tree', pn), pn) /\ search(tree', pn) # tree'.root
  BY <1>7, <1>11
<1> QED
  BY <1>6, <1>11, <1>12, <1>13, <1>14, <1>15 DEF LruTree

LEMMA LruStep == IInv /\ LruInv /\ [PageTableNext]_pageTable => LruInv'
<1> SUFFICES ASSUME IInv, LruInv, [PageTableNext]_pageTable, fl_Mode' = "LRU" PROVE LruTree'
  BY DEF LruInv
<1>1. fl_Mode' = fl_Mode
  BY DEF PageTableNext, pageTableLookUp, Found, PageIn, PageSwap, pageTable
<1>2. LruTree
  BY <1>1 DEF LruInv
<1>3. ASSUME UNCHANGED pageTable PROVE LruTree'
  BY <1>2, <1>3 DEF pageTable, LruTree, LastPage, InMemory, Used
<1>4. ASSUME NEW p \in Processes, NEW pn \in Pages, pageTableLookUp(p, pn) PROVE LruTree'
  <2>1. CASE Found(pn)
    BY <2>1, <1>3 DEF Found
  <2>2. CASE PageIn(p, pn)
    BY <2>2, <1>2, PageInKeepsTree
  <2>3. CASE PageSwap(p, pn)
    BY <2>3, <1>1, <1>2, PageSwapKeepsTree
  <2> QED
    BY <1>4, <2>1, <2>2, <2>3 DEF pageTableLookUp
<1> QED
  BY <1>3, <1>4 DEF PageTableNext

LEMMA LruInvariance == PageTableSpec => [](IInv /\ LruInv)
<1>1. PageTableInit => LruInv
  BY LruInitially
<1>2. IInv /\ LruInv /\ [PageTableNext]_pageTable => LruInv'
  BY LruStep
<1> QED
  BY <1>1, <1>2, PageTableInvariance, PTL DEF PageTableSpec

\* In the LRU mode the tree leads to the pages in memory and to no others, for any number
\* of frames: del, which gives subtrees up and whose new root nobody keeps, only ever meets
\* a leaf that is not the root.
THEOREM LruIndexIsExact == PageTableSpec => []LruIndexExact
<1>1. LruInv => LruIndexExact
  BY DEF LruInv, LruTree, LruIndexExact, IndexExact, Resident
<1> QED
  BY <1>1, LruInvariance, PTL

----------------------------------------------------------------------------
(***************************************************************************)
(* Why no search in the binary tree of AS3/tvm379.c runs in a circle, in   *)
(* the FIFO mode as in the LRU mode.                                       *)
(***************************************************************************)

----------------------------------------------------------------------------
(* Graphs: E[n] are the nodes the edges of node n lead to *)

Closed(E, S) == \A m \in S : E[m] \subseteq S

\* The nodes that can be come to from node n.
From(E, n) ==
  {m \in TreeNodes : n # NIL /\ \A S \in SUBSET TreeNodes : n \in S /\ Closed(E, S) => m \in S}

LEMMA FromNil ==
  ASSUME NEW E
  PROVE  From(E, NIL) = {}
BY DEF From

LEMMA FromNodes ==
  ASSUME NEW E, NEW n
  PROVE  From(E, n) \subseteq TreeNodes
BY DEF From

LEMMA FromItself ==
  ASSUME NEW E, NEW n \in TreeNodes
  PROVE  n \in From(E, n)
BY NilIsNoNode DEF From

LEMMA FromStep ==
  ASSUME NEW E, NEW n, NEW m \in From(E, n), NEW c \in E[m], c \in TreeNodes
  PROVE  c \in From(E, n)
BY DEF From, Closed

LEMMA FromWithin ==
  ASSUME NEW E, NEW n, NEW S \in SUBSET TreeNodes, n \in S \cup {NIL},
         \A m \in S : E[m] \subseteq S
  PROVE  From(E, n) \subseteq S
BY DEF From, Closed

Graph(E) == \A n \in TreeNodes : E[n] \subseteq TreeNodes

LEMMA FromClosed ==
  ASSUME NEW E, Graph(E), NEW n
  PROVE  \A m \in From(E, n) : E[m] \subseteq From(E, n)
BY FromStep, FromNodes DEF Graph

LEMMA FromFrom ==
  ASSUME NEW E, Graph(E), NEW n, NEW m \in From(E, n)
  PROVE  From(E, m) \subseteq From(E, n)
BY FromClosed, FromNodes, FromWithin

LEMMA FromFirst ==
  ASSUME NEW E, Graph(E), NEW n \in TreeNodes, NEW m \in From(E, n), m # n
  PROVE  \E c \in E[n] : m \in From(E, c)
<1> DEFINE S == {n} \cup {k \in TreeNodes : \E c \in E[n] : k \in From(E, c)}
<1>1. S \in SUBSET TreeNodes /\ n \in S
  OBVIOUS
<1>2. ASSUME NEW k \in S, NEW j \in E[k] PROVE j \in S
  <2>1. j \in TreeNodes
    BY <1>2, <1>1 DEF Graph
  <2>2. CASE k = n
    BY <2>1, <2>2, <1>2, FromItself
  <2>3. CASE k # n
    <3>1. PICK c \in E[n] : k \in From(E, c)
      BY <2>3, <1>2
    <3>2. j \in From(E, c)
      BY <3>1, <1>2, <2>1, FromStep
    <3> QED
      BY <3>2, <2>1
  <2> QED
    BY <2>2, <2>3
<1> HIDE DEF S
<1>3. From(E, n) \subseteq S
  BY <1>1, <1>2, FromWithin
<1> QED
  BY <1>3 DEF S

LEMMA FromMore ==
  ASSUME NEW E, NEW F, Graph(F), NEW n \in TreeNodes \cup {NIL},
         \A k \in TreeNodes : E[k] \subseteq F[k]
  PROVE  From(E, n) \subseteq From(F, n)
<1>1. CASE n = NIL
  BY <1>1, FromNil
<1>2. CASE n # NIL
  <2>1. \A m \in From(F, n) : E[m] \subseteq From(F, n)
    BY FromClosed, FromNodes
  <2>2. n \in From(F, n)
    BY <1>2, FromItself
  <2> QED
    BY <2>1, <2>2, FromNodes, FromWithin
<1> QED
  BY <1>1, <1>2

----------------------------------------------------------------------------
(* The tree as graphs *)

\* What hangs on a node.
Kids(t) == [n \in TreeNodes |-> {t.left[n], t.right[n]} \ {NIL}]

rho(t) == t.PageNumber[t.root]

\* Where searches for pages below that of the root go on from a node, and searches for
\* pages above it: the node of a page that is on the other side turns them all one way.
LowKids(t) ==
  [n \in TreeNodes |->
     {c \in {t.left[n], t.right[n]} : c # NIL /\ (c = t.left[n] \/ t.PageNumber[n] < rho(t))}]
HighKids(t) ==
  [n \in TreeNodes |->
     {c \in {t.left[n], t.right[n]} : c # NIL /\ (c = t.right[n] \/ rho(t) < t.PageNumber[n])}]

Under(t, n)  == From(Kids(t), n)
LowSide(t)   == From(LowKids(t), t.left[t.root])
HighSide(t)  == From(HighKids(t), t.right[t.root])
Lows(t)      == {n \in LowSide(t) : t.PageNumber[n] < rho(t)}
Highs(t)     == {n \in HighSide(t) : rho(t) < t.PageNumber[n]}

\* What hangs on the sides of node n is in order.
Ordered(t, n) ==
  /\ \A m \in Under(t, t.left[n])  : t.PageNumber[m] < t.PageNumber[n]
  /\ \A m \in Under(t, t.right[n]) : t.PageNumber[n] < t.PageNumber[m]

LEMMA TreeTypes ==
  ASSUME NEW t \in Trees
  PROVE  /\ \A n \in TreeNodes : /\ t.left[n] \in TreeNodes \cup {NIL}
                                 /\ t.right[n] \in TreeNodes \cup {NIL}
                                 /\ t.PageNumber[n] \in Nat
         /\ t.root \in TreeNodes \cup {NIL}
BY DEF Trees

LEMMA KidsOf ==
  ASSUME NEW t \in Trees
  PROVE  /\ Graph(Kids(t)) /\ Graph(LowKids(t)) /\ Graph(HighKids(t))
         /\ \A n \in TreeNodes :
              /\ \A c : c \in Kids(t)[n] <=> c # NIL /\ (c = t.left[n] \/ c = t.right[n])
              /\ \A c : c \in LowKids(t)[n] <=>
                          c # NIL /\ (c = t.left[n] \/ (c = t.right[n] /\ t.PageNumber[n] < rho(t)))
              /\ \A c : c \in HighKids(t)[n] <=>
                          c # NIL /\ (c = t.right[n] \/ (c = t.left[n] /\ rho(t) < t.PageNumber[n]))
              /\ LowKids(t)[n] \subseteq Kids(t)[n] /\ HighKids(t)[n] \subseteq Kids(t)[n]
<1>1. \A n \in TreeNodes :
              /\ \A c : c \in Kids(t)[n] <=> c # NIL /\ (c = t.left[n] \/ c = t.right[n])
              /\ \A c : c \in LowKids(t)[n] <=>
                          c # NIL /\ (c = t.left[n] \/ (c = t.right[n] /\ t.PageNumber[n] < rho(t)))
              /\ \A c : c \in HighKids(t)[n] <=>
                          c # NIL /\ (c = t.right[n] \/ (c = t.left[n] /\ rho(t) < t.PageNumber[n]))
  BY DEF Kids, LowKids, HighKids
<1>2. \A n \in TreeNodes : LowKids(t)[n] \subseteq Kids(t)[n] /\ HighKids(t)[n] \subseteq Kids(t)[n]
  BY <1>1
<1>3. Graph(Kids(t))
  BY <1>1, TreeTypes DEF Graph
<1> QED
  BY <1>1, <1>2, <1>3 DEF Graph

LEMMA UnderRanks ==
  ASSUME NEW t \in Trees, NEW rank, Ranks(t, rank), NEW n \in TreeNodes, NEW m \in Under(t, n)
  PROVE  m = n \/ rank[m] < rank[n]
<1> DEFINE S == {k \in TreeNodes : k = n \/ rank[k] < rank[n]}
<1>1. \A k \in TreeNodes : rank[k] \in Nat
  BY DEF Ranks, TreeNodes
<1>2. ASSUME NEW k \in S, NEW j \in Kids(t)[k] PROVE j \in S
  <2>1. j \in TreeNodes /\ (j = t.left[k] \/ j = t.right[k]) /\ j # NIL
    BY <1>2, KidsOf DEF Graph
  <2>2. rank[j] < rank[k]
    BY <2>1, <1>2 DEF Ranks
  <2>3. rank[j] \in Nat /\ rank[k] \in Nat /\ rank[n] \in Nat
    BY <2>1, <1>1, <1>2
  <2> QED
    BY <2>1, <2>2, <2>3
<1>3. n \in S /\ S \in SUBSET TreeNodes
  OBVIOUS
<1> HIDE DEF S
<1>4. Under(t, n) \subseteq S
  BY <1>2, <1>3, FromWithin DEF Under
<1> QED
  BY <1>4 DEF S

\* No node hangs under what hangs on it.
LEMMA NoCircle ==
  ASSUME NEW t \in Trees, Ranked(t), NEW n \in TreeNodes, NEW m \in Under(t, n), n \in Under(t, m)
  PROVE  m = n
<1>1. PICK rank \in [TreeNodes -> TreeNodes] : Ranks(t, rank)
  BY DEF Ranked
<1>2. m \in TreeNodes
  BY FromNodes DEF Under
<1>3. rank[m] \in Nat /\ rank[n] \in Nat
  BY <1>1, <1>2 DEF TreeNodes
<1> QED
  BY <1>1, <1>2, <1>3, UnderRanks

LEMMA NotUnderItsKid ==
  ASSUME NEW t \in Trees, Ranked(t), NEW n \in TreeNodes, NEW c \in {t.left[n], t.right[n]}
  PROVE  n \notin Under(t, c)
<1>1. CASE c = NIL
  BY <1>1, FromNil DEF Under
<1>2. CASE c # NIL
  <2>1. PICK rank \in [TreeNodes -> TreeNodes] : Ranks(t, rank)
    BY DEF Ranked
  <2>2. c \in TreeNodes
    BY <1>2, TreeTypes
  <2>3. rank[c] \in Nat /\ rank[n] \in Nat
    BY <2>1, <2>2 DEF TreeNodes
  <2>4. rank[c] < rank[n]
    BY <2>1, <1>2 DEF Ranks
  <2> QED
    BY <2>1, <2>2, <2>3, <2>4, UnderRanks
<1> QED
  BY <1>1, <1>2

LEMMA LowestUnder ==
  ASSUME NEW t \in Trees, Ranked(t), NEW S \in SUBSET TreeNodes, S # {}
  PROVE  \E m \in S : \A n \in S : n \in Under(t, m) => n = m
<1>1. PICK rank \in [TreeNodes -> TreeNodes] : Ranks(t, rank)
  BY DEF Ranked
<1>2. \A n \in TreeNodes : rank[n] \in Nat
  BY <1>1 DEF TreeNodes
<1>3. PICK m \in S : \A n \in S : rank[m] <= rank[n]
  BY <1>2, LowestRank
<1> QED
  BY <1>1, <1>2, <1>3, UnderRanks

----------------------------------------------------------------------------
(* The invariant of the tree *)

\* From start s, edges E are those of a tree: a node is in order, or leads one way.
Branching(t, E, s) ==
  /\ \A n \in TreeNodes : E[n] \subseteq Kids(t)[n]
  /\ \A d \in From(E, s) : Ordered(t, d) \/ \A b, c \in E[d] : b = c

\* Two nodes of it that have a node below them in common are one below the other.
LEMMA Apart ==
  ASSUME NEW t \in Trees, Ranked(t), NEW E, NEW s \in TreeNodes, Branching(t, E, s),
         NEW a \in From(E, s), NEW b \in From(E, s), NEW v \in Under(t, a), v \in Under(t, b)
  PROVE  a \in From(E, b) \/ b \in From(E, a)
<1>1. Graph(E)
  BY KidsOf DEF Branching, Graph
<1> DEFINE S == {d \in From(E, s) : a \in From(E, d) /\ b \in From(E, d)}
<1>2. s \in S
  BY FromItself
<1>3. PICK d \in S : \A n \in S : n \in Under(t, d) => n = d
  <2>1. S \in SUBSET TreeNodes /\ S # {}
    BY <1>2, FromNodes
  <2> HIDE DEF S
  <2> QED
    BY <2>1, LowestUnder
<1>4. d \in TreeNodes /\ a \in TreeNodes /\ b \in TreeNodes
  BY FromNodes
<1>5. SUFFICES ASSUME a # d, b # d PROVE FALSE
  BY <1>3
<1>6. PICK c1 \in E[d] : a \in From(E, c1)
  BY <1>1, <1>3, <1>4, <1>5, FromFirst
<1>7. PICK c2 \in E[d] : b \in From(E, c2)
  BY <1>1, <1>3, <1>4, <1>5, FromFirst
<1>8. c1 \in Kids(t)[d] /\ c2 \in Kids(t)[d] /\ c1 \in TreeNodes /\ c2 \in TreeNodes
  BY <1>6, <1>7, <1>4, <1>1 DEF Branching, Graph
<1>9. CASE c1 = c2
  <2>1. c1 \in From(E, s)
    BY <1>3, <1>6, <1>8, FromStep
  <2>2. c1 \in S
    BY <2>1, <1>6, <1>7, <1>9
  <2>3. c1 \in {t.left[d], t.right[d]}
    BY <1>8, <1>4, KidsOf
  <2>4. c1 \in Under(t, d)
    BY <1>8, <1>4, FromItself, FromStep DEF Under
  <2>5. c1 = d
    BY <2>2, <2>4, <1>3
  <2>6. d \in Under(t, c1)
    BY <2>5, <1>4, FromItself DEF Under
  <2> QED
    BY <2>3, <2>6, <1>4, NotUnderItsKid
<1>10. CASE c1 # c2
  <2>1. Ordered(t, d)
    BY <1>3, <1>6, <1>7, <1>10 DEF Branching
  <2>2. v \in Under(t, c1) /\ v \in Under(t, c2)
    <3>1. From(E, c1) \subseteq Under(t, c1) /\ From(E, c2) \subseteq Under(t, c2)
      BY <1>8, FromMore, KidsOf DEF Branching, Under
    <3>2. Under(t, a) \subseteq Under(t, c1) /\ Under(t, b) \subseteq Under(t, c2)
      BY <3>1, <1>6, <1>7, FromFrom, KidsOf DEF Under
    <3> QED
      BY <3>2
  <2>3. \/ c1 = t.left[d] /\ c2 = t.right[d]
        \/ c1 = t.right[d] /\ c2 = t.left[d]
    BY <1>8, <1>10, <1>4, KidsOf
  <2>4. v \in TreeNodes /\ t.PageNumber[v] \in Nat /\ t.PageNumber[d] \in Nat
    BY FromNodes, TreeTypes, <1>4 DEF Under
  <2> QED
    BY <2>1, <2>2, <2>3, <2>4 DEF Ordered
<1> QED
  BY <1>9, <1>10

\* What a search for a page above that of the root does not come to, off the low side.
OffKids(t) == [n \in TreeNodes |-> Kids(t)[n] \ LowSide(t)]
Off(t, n)  == IF n \in LowSide(t) THEN {} ELSE From(OffKids(t), n)

\* The order of the nodes that searches find.  The two sides may have nodes in common,
\* which have been unlinked on one of them, but
\*   - what hangs on the inner side of a node that is found on one side is not on the other,
\*   - what a node that is lost for the high side still leads to there has no part of
\*     what hangs on the right of a node without having the node.
InOrderOf(t) == \A n \in Lows(t) \cup Highs(t) : Ordered(t, n)
LowsApart(t) == \A n \in Lows(t) : Under(t, t.left[n]) \cap HighSide(t) = {}
HighsApart(t) == \A n \in Highs(t) : Under(t, t.right[n]) \cap LowSide(t) = {}
LostWhole(t) ==
  \A g \in LowSide(t) \ Lows(t), x \in Highs(t) :
    g # x /\ Off(t, t.right[g]) \cap Under(t, t.right[x]) # {} => x \in Off(t, t.right[g])
RootOnce(t) == \A n \in LowSide(t) \cup HighSide(t) : t.PageNumber[n] # rho(t)

Sorted(t) ==
  /\ t \in Trees /\ t.root # NIL /\ Ranked(t)
  /\ InOrderOf(t) /\ LowsApart(t) /\ HighsApart(t) /\ LostWhole(t) /\ RootOnce(t)

LEMMA SidesBranch ==
  ASSUME NEW t \in Trees, InOrderOf(t)
  PROVE  Branching(t, LowKids(t), t.left[t.root]) /\ Branching(t, HighKids(t), t.right[t.root])
<1>1. ASSUME NEW d \in LowSide(t)
      PROVE  Ordered(t, d) \/ \A b, c \in LowKids(t)[d] : b = c
  <2>1. d \in TreeNodes
    BY FromNodes DEF LowSide
  <2>2. CASE t.PageNumber[d] < rho(t)
    BY <2>2, <1>1 DEF InOrderOf, Lows
  <2>3. CASE ~ (t.PageNumber[d] < rho(t))
    BY <2>1, <2>3, KidsOf
  <2> QED
    BY <2>2, <2>3
<1>2. ASSUME NEW d \in HighSide(t)
      PROVE  Ordered(t, d) \/ \A b, c \in HighKids(t)[d] : b = c
  <2>1. d \in TreeNodes
    BY FromNodes DEF HighSide
  <2>2. CASE rho(t) < t.PageNumber[d]
    BY <2>2, <1>2 DEF InOrderOf, Highs
  <2>3. CASE ~ (rho(t) < t.PageNumber[d])
    BY <2>1, <2>3, KidsOf
  <2> QED
    BY <2>2, <2>3
<1> QED
  BY <1>1, <1>2, KidsOf DEF Branching, LowSide, HighSide

LEMMA UnderTrans ==
  ASSUME NEW t \in Trees, NEW n, NEW m \in Under(t, n)
  PROVE  Under(t, m) \subseteq Under(t, n)
BY FromFrom, KidsOf DEF Under

LEMMA UnderItself ==
  ASSUME NEW t \in Trees, NEW n \in TreeNodes
  PROVE  n \in Under(t, n)
BY FromItself DEF Under

LEMMA UnderNodes ==
  ASSUME NEW t, NEW n
  PROVE  Under(t, n) \subseteq TreeNodes /\ Under(t, NIL) = {}
BY FromNodes, FromNil DEF Under

LEMMA UnderSides ==
  ASSUME NEW t \in Trees, NEW n \in TreeNodes
  PROVE  Under(t, n) = {n} \cup Under(t, t.left[n]) \cup Under(t, t.right[n])
<1>1. ASSUME NEW m \in Under(t, n), m # n
      PROVE  m \in Under(t, t.left[n]) \cup Under(t, t.right[n])
  BY <1>1, FromFirst, KidsOf DEF Under
<1>2. ASSUME NEW c \in {t.left[n], t.right[n]} PROVE Under(t, c) \subseteq Under(t, n)
  <2>1. CASE c = NIL
    BY <2>1, UnderNodes
  <2>2. CASE c # NIL
    <3>1. c \in TreeNodes /\ c \in Kids(t)[n]
      BY <2>2, TreeTypes, KidsOf
    <3>2. c \in Under(t, n)
      BY <3>1, UnderItself, FromStep DEF Under
    <3> QED
      BY <3>2, UnderTrans
  <2> QED
    BY <2>1, <2>2
<1> QED
  BY <1>1, <1>2, UnderItself

LEMMA KidIsUnder ==
  ASSUME NEW t \in Trees, NEW n \in TreeNodes, NEW c \in {t.left[n], t.right[n]}, c # NIL
  PROVE  c \in TreeNodes /\ c \in Under(t, c) /\ c \in Under(t, n)
BY TreeTypes, UnderItself, UnderSides

\* Nothing hangs on both sides of a node in order.
LEMMA OneSide ==
  ASSUME NEW t \in Trees, NEW n \in TreeNodes, Ordered(t, n), NEW m \in Under(t, t.left[n])
  PROVE  m \notin Under(t, t.right[n])
BY UnderNodes, TreeTypes DEF Ordered

LEMMA FromIsUnder ==
  ASSUME NEW t \in Trees, NEW E, \A n \in TreeNodes : E[n] \subseteq Kids(t)[n], NEW n \in TreeNodes
  PROVE  From(E, n) \subseteq Under(t, n)
BY FromMore, KidsOf DEF Under

\* A node has one parent in it, and the start none.
LEMMA OneParent ==
  ASSUME NEW t \in Trees, Ranked(t), NEW E, NEW s \in TreeNodes, Branching(t, E, s),
         NEW u \in From(E, s), NEW q \in From(E, s), NEW x \in E[u], x \in E[q]
  PROVE  u = q
<1>1. Graph(E) /\ u \in TreeNodes /\ q \in TreeNodes /\ s \in TreeNodes
  BY KidsOf, FromNodes DEF Branching, Graph
<1>2. \A k \in TreeNodes : From(E, k) \subseteq Under(t, k)
  BY FromIsUnder DEF Branching
<1>3. /\ x # NIL /\ x \in TreeNodes
      /\ x \in {t.left[u], t.right[u]} /\ x \in {t.left[q], t.right[q]}
  BY <1>1, KidsOf DEF Branching, Graph
<1>4. x \in Under(t, x) /\ x \in Under(t, u) /\ x \in Under(t, q)
  BY <1>1, <1>3, KidIsUnder
<1>5. ASSUME NEW a \in From(E, s), NEW b \in From(E, s), a \in TreeNodes, b \in TreeNodes,
             x \in E[a], x \in E[b], x \in {t.left[a], t.right[a]}, x \in {t.left[b], t.right[b]},
             x \in Under(t, a), a \in From(E, b), a # b
      PROVE  FALSE
  <2>1. PICK c \in E[b] : a \in From(E, c)
    BY <1>1, <1>5, FromFirst
  <2>2. c \in TreeNodes /\ c # NIL /\ c \in {t.left[b], t.right[b]}
    BY <2>1, <1>1, <1>5, KidsOf DEF Branching, Graph
  <2>3. a \in Under(t, c) /\ x \in Under(t, c)
    BY <2>1, <2>2, <1>2, <1>5, UnderTrans
  <2>4. c # x
    BY <2>3, <1>5, NotUnderItsKid
  <2>5. Ordered(t, b)
    BY <2>1, <2>4, <1>5 DEF Branching
  <2> QED
    BY <2>2, <2>3, <2>4, <2>5, <1>4, <1>5, OneSide
<1>6. u \in From(E, q) \/ q \in From(E, u)
  BY <1>4, Apart
<1> QED
  BY <1>1, <1>3, <1>4, <1>5, <1>6

LEMMA StartHasNoParent ==
  ASSUME NEW t \in Trees, Ranked(t), NEW E, NEW s \in TreeNodes, Branching(t, E, s),
         NEW u \in From(E, s)
  PROVE  s \notin E[u]
<1>1. u \in TreeNodes /\ u \in Under(t, s)
  BY FromNodes, FromIsUnder DEF Branching
<1>2. SUFFICES ASSUME s \in E[u] PROVE FALSE
  OBVIOUS
<1>3. s \in {t.left[u], t.right[u]}
  BY <1>1, <1>2, KidsOf DEF Branching
<1> QED
  BY <1>1, <1>3, NotUnderItsKid

\* The path of a page: one step of a search.
PathKids(t, pn) == [n \in TreeNodes |-> {Side(t, pn, n)} \ {NIL}]

\* A page whose path leads under the left of a node in order is smaller, under the right greater.
LEMMA PathInOrder ==
  ASSUME NEW t \in Trees, Ranked(t), NEW E, NEW s \in TreeNodes, Branching(t, E, s),
         NEW pn \in Nat, \A k \in From(E, s) : Side(t, pn, k) \in E[k] \cup {NIL},
         \A k \in From(PathKids(t, pn), s) : t.PageNumber[k] # pn,
         NEW n \in From(E, s), Ordered(t, n), NEW d \in From(PathKids(t, pn), s)
  PROVE  /\ d \in Under(t, t.left[n]) => pn < t.PageNumber[n]
         /\ d \in Under(t, t.right[n]) => t.PageNumber[n] < pn
<1> DEFINE F == From(PathKids(t, pn), s)
           S == {k \in F : /\ k \in From(E, s)
                           /\ k \in Under(t, t.left[n]) => pn < t.PageNumber[n]
                           /\ k \in Under(t, t.right[n]) => t.PageNumber[n] < pn}
<1>1. Graph(E) /\ n \in TreeNodes
  BY KidsOf, FromNodes DEF Branching, Graph
<1>2. \A k \in TreeNodes : From(E, k) \subseteq Under(t, k)
  BY FromIsUnder DEF Branching
<1>3. s \in S
  <2>1. n \in Under(t, s)
    BY <1>2
  <2>2. \A c \in {t.left[n], t.right[n]} : s \notin Under(t, c)
    BY <2>1, <1>1, UnderTrans, NotUnderItsKid
  <2> QED
    BY <2>2, FromItself
<1>4. ASSUME NEW k \in S, NEW c, c = Side(t, pn, k), c # NIL PROVE c \in S
  <2>1. k \in TreeNodes /\ k \in From(E, s) /\ c \in E[k] /\ c \in TreeNodes
    BY <1>1, <1>4, FromNodes DEF Graph
  <2>2. c \in From(E, s) /\ c \in F
    BY <2>1, <1>4, FromStep DEF PathKids
  <2>3. c \in {t.left[k], t.right[k]} /\ c \in Under(t, c) /\ c \in Under(t, k)
    BY <2>1, <1>4, KidIsUnder DEF Side
  <2>4. ASSUME NEW m \in {t.left[n], t.right[n]}, c \in Under(t, m),
               k \notin Under(t, m), k # n
        PROVE  FALSE
    <3>1. c \in Under(t, n) /\ Under(t, m) \subseteq Under(t, n)
      BY <2>4, <1>1, UnderSides
    <3>2. k \in From(E, n) \/ n \in From(E, k)
      BY <3>1, <2>1, <2>3, Apart
    <3>3. CASE k \in From(E, n)
      <4>1. PICK j \in {t.left[n], t.right[n]} : k \in Under(t, j)
        BY <3>3, <2>4, <1>1, <1>2, UnderSides
      <4>2. c \in Under(t, j) /\ j # m
        BY <4>1, <2>3, <2>4, UnderTrans
      <4> QED
        BY <4>1, <4>2, <2>4, <1>1, OneSide
    <3>4. CASE n \in From(E, k)
      <4>1. PICK j \in E[k] : n \in From(E, j)
        BY <3>4, <2>1, <2>4, <1>1, FromFirst
      <4>2. j \in TreeNodes /\ j # NIL /\ j \in {t.left[k], t.right[k]}
        BY <4>1, <2>1, <1>1, KidsOf DEF Branching, Graph
      <4>3. n \in Under(t, j)
        BY <4>1, <4>2, <1>2
      <4>4. j # c
        <5>1. SUFFICES ASSUME j = c PROVE FALSE
          OBVIOUS
        <5>2. n \in Under(t, m)
          BY <5>1, <4>3, <2>4, UnderTrans
        <5> QED
          BY <5>2, <2>4, <1>1, NotUnderItsKid
      <4>5. Ordered(t, k)
        BY <4>1, <4>4, <2>1 DEF Branching
      <4>6. c \in Under(t, j)
        BY <3>1, <4>3, UnderTrans
      <4> QED
        BY <4>2, <4>4, <4>5, <4>6, <2>1, <2>3, OneSide
    <3> QED
      BY <3>2, <3>3, <3>4
  <2>5. ASSUME k = n
        PROVE  /\ c \in Under(t, t.left[n]) => pn < t.PageNumber[n]
               /\ c \in Under(t, t.right[n]) => t.PageNumber[n] < pn
    <3>1. t.PageNumber[n] # pn /\ t.PageNumber[n] \in Nat
      BY <2>5, <1>1, <1>4, TreeTypes
    <3>2. c = IF pn < t.PageNumber[n] THEN t.left[n] ELSE t.right[n]
      BY <2>5, <1>4 DEF Side
    <3> QED
      BY <3>1, <3>2, <2>3, <1>1, OneSide
  <2> QED
    BY <2>2, <2>4, <2>5, <1>4
<1>5. \A k \in S : PathKids(t, pn)[k] \subseteq S
  BY <1>4, FromNodes DEF PathKids
<1>6. S \in SUBSET TreeNodes
  BY FromNodes
<1> HIDE DEF S
<1>7. From(PathKids(t, pn), s) \subseteq S
  BY <1>3, <1>5, <1>6, FromWithin
<1> QED
  BY <1>7 DEF S

LEMMA LowsAreApart ==
  ASSUME NEW t \in Trees, t.root # NIL, Ranked(t), InOrderOf(t),
         NEW a \in LowSide(t), NEW b \in LowSide(t), NEW v \in Under(t, a), v \in Under(t, b)
  PROVE  a \in From(LowKids(t), b) \/ b \in From(LowKids(t), a)
<1>1. t.left[t.root] # NIL
  BY FromNil DEF LowSide
<1>2. t.left[t.root] \in TreeNodes
  BY <1>1, TreeTypes
<1> QED
  BY <1>2, SidesBranch, Apart DEF LowSide

\* What hangs on a node of the low side is on it if it is all smaller than the root.
LEMMA AllLow ==
  ASSUME NEW t \in Trees, NEW l \in LowSide(t), \A m \in Under(t, l) : t.PageNumber[m] < rho(t)
  PROVE  Under(t, l) \subseteq Lows(t)
<1> DEFINE S == {m \in Under(t, l) : m \in LowSide(t)}
<1>1. S \in SUBSET TreeNodes /\ l \in S
  BY UnderNodes, UnderItself, FromNodes DEF LowSide
<1>2. ASSUME NEW m \in S, NEW c \in Kids(t)[m] PROVE c \in S
  <2>1. m \in TreeNodes /\ c \in TreeNodes /\ c \in LowKids(t)[m]
    BY <1>1, <1>2, KidsOf DEF Graph
  <2>2. c \in LowSide(t)
    BY <2>1, <1>2, FromStep DEF LowSide
  <2>3. c \in Under(t, l)
    BY <2>1, <1>2, FromStep DEF Under
  <2> QED
    BY <2>2, <2>3
<1> HIDE DEF S
<1>3. Under(t, l) \subseteq S
  BY <1>1, <1>2, FromWithin DEF Under
<1> QED
  BY <1>3 DEF S, Lows

\* The right edge of what hangs on a node does not hang on the left of a node there.
LEMMA RightEdge ==
  ASSUME NEW t \in Trees, t.root # NIL, Ranked(t), InOrderOf(t), NEW l \in LowSide(t),
         \A m \in Under(t, l) : t.PageNumber[m] < rho(t),
         NEW n \in Under(t, l), NEW s \in From(HighKids(t), l)
  PROVE  s \notin Under(t, t.left[n])
<1>1. Under(t, l) \subseteq Lows(t) /\ Under(t, l) \subseteq TreeNodes /\ l \in TreeNodes
  BY AllLow, UnderNodes, FromNodes DEF LowSide
<1>2. Ordered(t, n) /\ n \in TreeNodes /\ n \in LowSide(t)
  BY <1>1 DEF InOrderOf, Lows
<1> DEFINE S == {m \in Under(t, l) : m \notin Under(t, t.left[n])}
<1>3. l \in S
  <2>1. SUFFICES ASSUME l \in Under(t, t.left[n]) PROVE FALSE
    BY <1>1, UnderItself
  <2>2. n \in Under(t, t.left[n])
    BY <2>1, UnderTrans
  <2> QED
    BY <2>2, <1>2, NotUnderItsKid
<1>4. ASSUME NEW m \in S, NEW c \in HighKids(t)[m] PROVE c \in S
  <2>1. /\ m \in TreeNodes /\ m \in LowSide(t) /\ Ordered(t, m) /\ t.PageNumber[m] < rho(t)
        /\ m \in Under(t, l) /\ m \notin Under(t, t.left[n])
    BY <1>1, <1>4 DEF InOrderOf, Lows
  <2>2. c = t.right[m] /\ c # NIL
    <3>1. ~ (rho(t) < t.PageNumber[m])
      BY <2>1, TreeTypes DEF rho
    <3> QED
      BY <2>1, <3>1, <1>4, KidsOf
  <2>3. c \in TreeNodes /\ c \in Under(t, c) /\ c \in Under(t, m)
    BY <2>1, <2>2, KidIsUnder
  <2>4. c \in Under(t, l)
    BY <2>1, <2>3, UnderTrans
  <2>5. SUFFICES ASSUME c \in Under(t, t.left[n]) PROVE FALSE
    BY <2>4
  <2>6. c \in Under(t, n)
    BY <2>5, <1>2, UnderSides
  <2>7. n \in From(LowKids(t), m) \/ m \in From(LowKids(t), n)
    BY <2>1, <2>3, <2>6, <1>2, LowsAreApart
  <2>8. n \in Under(t, m) \/ m \in Under(t, n)
    BY <2>7, <2>1, <1>2, FromIsUnder, KidsOf
  <2>9. CASE m = n
    BY <2>2, <2>3, <2>5, <2>9, <1>2, OneSide
  <2>10. CASE n \in Under(t, t.left[m])
    <3>1. c \in Under(t, t.left[m])
      BY <2>6, <2>10, UnderTrans
    <3> QED
      BY <3>1, <2>1, <2>2, <2>3, OneSide
  <2>11. CASE n \in Under(t, t.right[m])
    <3>1. n \in Under(t, t.left[n])
      BY <2>2, <2>5, <2>11, UnderTrans
    <3> QED
      BY <3>1, <1>2, NotUnderItsKid
  <2>12. CASE m \in Under(t, t.right[n])
    <3>1. c \in Under(t, t.right[n])
      BY <2>3, <2>12, UnderTrans
    <3> QED
      BY <3>1, <2>5, <1>2, OneSide
  <2> QED
    BY <2>1, <2>8, <2>9, <2>10, <2>11, <2>12, <1>2, UnderSides
<1>5. S \in SUBSET TreeNodes
  BY <1>1
<1> HIDE DEF S
<1>6. From(HighKids(t), l) \subseteq S
  BY <1>3, <1>4, <1>5, FromWithin
<1> QED
  BY <1>6 DEF S

LEMMA HighsAreApart ==
  ASSUME NEW t \in Trees, t.root # NIL, Ranked(t), InOrderOf(t),
         NEW a \in HighSide(t), NEW b \in HighSide(t), NEW v \in Under(t, a), v \in Under(t, b)
  PROVE  a \in From(HighKids(t), b) \/ b \in From(HighKids(t), a)
<1>1. t.right[t.root] # NIL
  BY FromNil DEF HighSide
<1>2. t.right[t.root] \in TreeNodes
  BY <1>1, TreeTypes
<1> QED
  BY <1>2, SidesBranch, Apart DEF HighSide

\* What hangs on a node of the high side is on it if it is all greater than the root.
LEMMA AllHigh ==
  ASSUME NEW t \in Trees, NEW r \in HighSide(t), \A m \in Under(t, r) : rho(t) < t.PageNumber[m]
  PROVE  Under(t, r) \subseteq Highs(t)
<1> DEFINE S == {m \in Under(t, r) : m \in HighSide(t)}
<1>1. S \in SUBSET TreeNodes /\ r \in S
  BY UnderNodes, UnderItself, FromNodes DEF HighSide
<1>2. ASSUME NEW m \in S, NEW c \in Kids(t)[m] PROVE c \in S
  <2>1. m \in TreeNodes /\ c \in TreeNodes /\ c \in HighKids(t)[m]
    BY <1>1, <1>2, KidsOf DEF Graph
  <2>2. c \in HighSide(t)
    BY <2>1, <1>2, FromStep DEF HighSide
  <2>3. c \in Under(t, r)
    BY <2>1, <1>2, FromStep DEF Under
  <2> QED
    BY <2>2, <2>3
<1> HIDE DEF S
<1>3. Under(t, r) \subseteq S
  BY <1>1, <1>2, FromWithin DEF Under
<1> QED
  BY <1>3 DEF S, Highs

\* The left edge of what hangs on a node does not hang on the right of a node there.
LEMMA LeftEdge ==
  ASSUME NEW t \in Trees, t.root # NIL, Ranked(t), InOrderOf(t), NEW r \in HighSide(t),
         \A m \in Under(t, r) : rho(t) < t.PageNumber[m],
         NEW n \in Under(t, r), NEW s \in From(LowKids(t), r)
  PROVE  s \notin Under(t, t.right[n])
<1>1. Under(t, r) \subseteq Highs(t) /\ Under(t, r) \subseteq TreeNodes /\ r \in TreeNodes
  BY AllHigh, UnderNodes, FromNodes DEF HighSide
<1>2. Ordered(t, n) /\ n \in TreeNodes /\ n \in HighSide(t)
  BY <1>1 DEF InOrderOf, Highs
<1> DEFINE S == {m \in Under(t, r) : m \notin Under(t, t.right[n])}
<1>3. r \in S
  <2>1. SUFFICES ASSUME r \in Under(t, t.right[n]) PROVE FALSE
    BY <1>1, UnderItself
  <2>2. n \in Under(t, t.right[n])
    BY <2>1, UnderTrans
  <2> QED
    BY <2>2, <1>2, NotUnderItsKid
<1>4. ASSUME NEW m \in S, NEW c \in LowKids(t)[m] PROVE c \in S
  <2>1. /\ m \in TreeNodes /\ m \in HighSide(t) /\ Ordered(t, m) /\ rho(t) < t.PageNumber[m]
        /\ m \in Under(t, r) /\ m \notin Under(t, t.right[n])
    BY <1>1, <1>4 DEF InOrderOf, Highs
  <2>2. c = t.left[m] /\ c # NIL
    <3>1. ~ (t.PageNumber[m] < rho(t))
      BY <2>1, TreeTypes DEF rho
    <3> QED
      BY <2>1, <3>1, <1>4, KidsOf
  <2>3. c \in TreeNodes /\ c \in Under(t, c) /\ c \in Under(t, m)
    BY <2>1, <2>2, KidIsUnder
  <2>4. c \in Under(t, r)
    BY <2>1, <2>3, UnderTrans
  <2>5. SUFFICES ASSUME c \in Under(t, t.right[n]) PROVE FALSE
    BY <2>4
  <2>6. c \in Under(t, n)
    BY <2>5, <1>2, UnderSides
  <2>7. n \in From(HighKids(t), m) \/ m \in From(HighKids(t), n)
    BY <2>1, <2>3, <2>6, <1>2, HighsAreApart
  <2>8. n \in Under(t, m) \/ m \in Under(t, n)
    BY <2>7, <2>1, <1>2, FromIsUnder, KidsOf
  <2>9. CASE m = n
    BY <2>2, <2>3, <2>5, <2>9, <1>2, OneSide
  <2>10. CASE n \in Under(t, t.right[m])
    <3>1. c \in Under(t, t.right[m])
      BY <2>6, <2>10, UnderTrans
    <3> QED
      BY <3>1, <2>1, <2>2, <2>3, OneSide
  <2>11. CASE n \in Under(t, t.left[m])
    <3>1. n \in Under(t, t.right[n])
      BY <2>2, <2>5, <2>11, UnderTrans
    <3> QED
      BY <3>1, <1>2, NotUnderItsKid
  <2>12. CASE m \in Under(t, t.left[n])
    <3>1. c \in Under(t, t.left[n])
      BY <2>3, <2>12, UnderTrans
    <3> QED
      BY <3>1, <2>5, <1>2, OneSide
  <2> QED
    BY <2>1, <2>8, <2>9, <2>10, <2>11, <2>12, <1>2, UnderSides
<1>5. S \in SUBSET TreeNodes
  BY <1>1
<1> HIDE DEF S
<1>6. From(LowKids(t), r) \subseteq S
  BY <1>3, <1>4, <1>5, FromWithin
<1> QED
  BY <1>6 DEF S

----------------------------------------------------------------------------
(* Taking a node out *)

\* Numbers that go down along the edges make ranks: count the nodes that are not higher.
LEMMA RanksEnough ==
  ASSUME NEW t \in Trees, NEW h, \A n \in TreeNodes : h[n] \in Nat,
         \A n \in TreeNodes : /\ t.left[n] # NIL => h[t.left[n]] < h[n]
                              /\ t.right[n] # NIL => h[t.right[n]] < h[n]
  PROVE  Ranked(t)
<1> DEFINE B(n) == {m \in TreeNodes : h[m] < h[n] \/ (h[m] = h[n] /\ m <= n)}
           rank == [n \in TreeNodes |-> Cardinality(B(n))]
<1>1. IsFiniteSet(TreeNodes) /\ Cardinality(TreeNodes) = MaxTreeNodes /\ TreeNodes \subseteq Nat
      /\ MaxTreeNodes \in Nat
  <2>1. MaxTreeNodes \in Nat /\ MaxTreeNodes > 0
    BY TreeAssumption
  <2> QED
    BY <2>1, FS_Interval DEF TreeNodes
<1>2. \A n \in TreeNodes : B(n) \subseteq TreeNodes /\ n \in B(n)
  BY <1>1
<1>3. ASSUME NEW m \in TreeNodes, NEW n \in TreeNodes, h[m] < h[n] \/ (h[m] = h[n] /\ m < n)
      PROVE  B(m) \subseteq B(n) /\ n \notin B(m)
  <2>1. h[m] \in Nat /\ h[n] \in Nat /\ m \in Nat /\ n \in Nat
    BY <1>1
  <2>2. ASSUME NEW k \in TreeNodes, h[k] < h[m] \/ (h[k] = h[m] /\ k <= m)
        PROVE  h[k] < h[n] \/ (h[k] = h[n] /\ k <= n)
    <3>1. h[k] \in Nat /\ k \in Nat
      BY <1>1
    <3> QED
      BY <3>1, <2>1, <2>2, <1>3
  <2>3. B(m) \subseteq B(n)
    BY <2>2
  <2>4. n \notin B(m)
    BY <2>1, <1>3
  <2> QED
    BY <2>3, <2>4
<1>5. \A m, n \in TreeNodes : m # n => h[m] < h[n] \/ h[n] < h[m] \/ (h[m] = h[n] /\ (m < n \/ n < m))
  BY <1>1
<1> HIDE DEF B
<1>6. \A n \in TreeNodes : IsFiniteSet(B(n)) /\ Cardinality(B(n)) \in 1 .. MaxTreeNodes
  <2> SUFFICES ASSUME NEW n \in TreeNodes
               PROVE  IsFiniteSet(B(n)) /\ Cardinality(B(n)) \in 1 .. MaxTreeNodes
    OBVIOUS
  <2>1. IsFiniteSet(B(n)) /\ Cardinality(B(n)) <= MaxTreeNodes
    BY <1>1, <1>2, FS_Subset
  <2>2. Cardinality(B(n)) \in Nat /\ Cardinality(B(n)) # 0
    BY <2>1, <1>2, FS_CardinalityType, FS_EmptySet
  <2> QED
    BY <2>1, <2>2, <1>1
<1>7. ASSUME NEW m \in TreeNodes, NEW n \in TreeNodes, B(m) \subseteq B(n), n \notin B(m)
      PROVE  Cardinality(B(m)) < Cardinality(B(n))
  <2>1. Cardinality(B(m)) <= Cardinality(B(n)) /\ (Cardinality(B(m)) = Cardinality(B(n)) => B(m) = B(n))
    BY <1>6, <1>7, FS_Subset
  <2>2. Cardinality(B(m)) \in Nat /\ Cardinality(B(n)) \in Nat
    BY <1>6
  <2> QED
    BY <2>1, <2>2, <1>2, <1>7
<1>8. rank \in [TreeNodes -> TreeNodes]
  BY <1>6 DEF TreeNodes
<1>9. \A m, n \in TreeNodes : h[m] < h[n] => rank[m] < rank[n]
  BY <1>3, <1>7
<1>10. \A m, n \in TreeNodes : rank[m] = rank[n] => m = n
  <2> SUFFICES ASSUME NEW m \in TreeNodes, NEW n \in TreeNodes, m # n PROVE rank[m] # rank[n]
    OBVIOUS
  <2>1. rank[m] < rank[n] \/ rank[n] < rank[m]
    BY <1>3, <1>5, <1>7
  <2>2. rank[m] \in Nat /\ rank[n] \in Nat
    BY <1>6
  <2> QED
    BY <2>1, <2>2
<1> HIDE DEF rank
<1>11. \A n \in TreeNodes : /\ t.left[n] # NIL => rank[t.left[n]] < rank[n]
                            /\ t.right[n] # NIL => rank[t.right[n]] < rank[n]
  BY <1>9, TreeTypes
<1> QED
  BY <1>8, <1>10, <1>11 DEF Ranked, Ranks

Heir(t, x) == IF t.right[x] # NIL THEN t.right[x] ELSE t.left[x]

\* In tree u, node x of tree t is unlinked from node q, if that is one; its heir takes its
\* left child.
Spliced(t, u, x, q) ==
  /\ u \in Trees /\ u.root = t.root /\ u.PageNumber = t.PageNumber
  /\ x \in TreeNodes /\ q \in TreeNodes \cup {NIL}
  /\ q # NIL => Side(t, t.PageNumber[x], q) = x
  /\ \A n \in TreeNodes :
       /\ u.left[n] = IF n = q /\ t.PageNumber[x] < t.PageNumber[q] THEN Heir(t, x)
                      ELSE IF n = t.right[x] /\ t.left[x] # NIL THEN t.left[x] ELSE t.left[n]
       /\ u.right[n] = IF n = q /\ ~ (t.PageNumber[x] < t.PageNumber[q]) THEN Heir(t, x)
                       ELSE t.right[n]

\* What an edge to node n gets to because the heir has a new left child.
Extra(t, x, n) == IF t.right[x] \in Under(t, n) THEN Under(t, t.left[x]) ELSE {}

LEMMA HeirIsUnder ==
  ASSUME NEW t \in Trees, NEW x \in TreeNodes
  PROVE  /\ Under(t, Heir(t, x)) \subseteq Under(t, x)
         /\ Under(t, t.left[x]) \subseteq Under(t, x)
         /\ Under(t, t.right[x]) \subseteq Under(t, x)
         /\ Heir(t, x) \in TreeNodes \cup {NIL}
BY UnderSides, TreeTypes DEF Heir

\* The facts about a node in order that go into each of the following.
LEMMA SpliceNodes ==
  ASSUME NEW t \in Trees, Ranked(t), NEW x \in TreeNodes, Ordered(t, x), NEW u, NEW q,
         Spliced(t, u, x, q)
  PROVE  /\ t.right[x] \notin Under(t, t.left[x]) /\ x \notin Under(t, t.left[x])
         /\ x \notin Under(t, t.right[x])
         /\ q # NIL => /\ x \in Under(t, q) /\ q \notin Under(t, x) /\ q # x
                       /\ q # t.right[x] /\ q # t.left[x]
                       /\ t.PageNumber[x] < t.PageNumber[q] => t.left[q] = x
                       /\ ~ (t.PageNumber[x] < t.PageNumber[q]) => t.right[q] = x
<1>1. t.right[x] \notin Under(t, t.left[x])
  <2>1. CASE t.right[x] = NIL
    BY <2>1, UnderNodes, NilIsNoNode
  <2>2. CASE t.right[x] # NIL
    BY <2>2, KidIsUnder, OneSide
  <2> QED
    BY <2>1, <2>2
<1>2. x \notin Under(t, t.left[x]) /\ x \notin Under(t, t.right[x])
  BY NotUnderItsKid
<1>3. ASSUME q # NIL
      PROVE  /\ x \in Under(t, q) /\ q \notin Under(t, x) /\ q # x
             /\ q # t.right[x] /\ q # t.left[x]
             /\ t.PageNumber[x] < t.PageNumber[q] => t.left[q] = x
             /\ ~ (t.PageNumber[x] < t.PageNumber[q]) => t.right[q] = x
  <2>1. q \in TreeNodes /\ Side(t, t.PageNumber[x], q) = x
    BY <1>3 DEF Spliced
  <2>2. x \in {t.left[q], t.right[q]} /\ x # NIL
    BY <2>1, NilIsNoNode DEF Side
  <2>3. x \in Under(t, q)
    BY <2>1, <2>2, KidIsUnder
  <2>4. q \notin Under(t, x)
    BY <2>1, <2>2, NotUnderItsKid
  <2>5. q # x /\ q # t.right[x] /\ q # t.left[x]
    BY <2>1, <2>4, UnderItself, KidIsUnder, NilIsNoNode
  <2> QED
    BY <2>1, <2>3, <2>4, <2>5 DEF Side
<1> QED
  BY <1>1, <1>2, <1>3

\* The children in u: of node q the heir, of the heir the left child of x, and else the old ones.
LEMMA SpliceKids ==
  ASSUME NEW t \in Trees, NEW u, NEW x, NEW q, Spliced(t, u, x, q),
         NEW n \in TreeNodes, NEW c \in Kids(u)[n]
  PROVE  /\ c \in TreeNodes
         /\ \/ n = q /\ c = Heir(t, x)
            \/ n = t.right[x] /\ c = t.left[x]
            \/ c \in Kids(t)[n]
BY KidsOf DEF Spliced, Graph

LEMMA SpliceUnder ==
  ASSUME NEW t \in Trees, Ranked(t), NEW x \in TreeNodes, Ordered(t, x), NEW u, NEW q,
         Spliced(t, u, x, q), NEW n \in TreeNodes \cup {NIL}
  PROVE  Under(u, n) \subseteq Under(t, n) \cup Extra(t, x, n)
<1> DEFINE S == Under(t, n) \cup Extra(t, x, n)
<1>1. S \in SUBSET TreeNodes /\ n \in S \cup {NIL}
  BY UnderNodes, UnderItself DEF Extra
<1>2. ASSUME NEW m \in S, NEW c \in Kids(u)[m] PROVE c \in S
  <2>1. m \in TreeNodes /\ c \in TreeNodes
    BY <1>1, <1>2, SpliceKids
  <2>2. CASE m \in Under(t, t.left[x])
    <3>1. m # t.right[x] /\ m # q
      <4>1. m \in Under(t, x)
        BY <2>2, HeirIsUnder
      <4> QED
        BY <4>1, <2>1, <2>2, SpliceNodes, NilIsNoNode
    <3>2. c \in Kids(t)[m]
      BY <2>1, <3>1, <1>2, SpliceKids
    <3>3. c \in Under(t, t.left[x])
      BY <2>1, <2>2, <3>2, FromStep DEF Under
    <3>4. CASE m \in Under(t, n)
      <4>1. c \in Under(t, n)
        BY <2>1, <3>2, <3>4, FromStep DEF Under
      <4> QED
        BY <4>1
    <3>5. CASE m \notin Under(t, n)
      BY <3>3, <3>5, <1>2 DEF Extra
    <3> QED
      BY <3>4, <3>5
  <2>3. CASE m \in Under(t, n) /\ m \notin Under(t, t.left[x])
    <3>1. CASE c \in Kids(t)[m]
      BY <2>1, <2>3, <3>1, FromStep DEF Under
    <3>2. CASE m = q /\ c = Heir(t, x)
      <4>1. x \in Under(t, m)
        BY <3>2, <2>1, SpliceNodes, NilIsNoNode
      <4>2. Under(t, c) \subseteq Under(t, x) /\ c \in Under(t, c)
        BY <3>2, <2>1, HeirIsUnder, UnderItself
      <4>3. c \in Under(t, n)
        BY <4>1, <4>2, <2>3, UnderTrans
      <4> QED
        BY <4>3
    <3>3. CASE m = t.right[x] /\ c = t.left[x]
      BY <3>3, <2>1, <2>3, UnderItself DEF Extra
    <3> QED
      BY <3>1, <3>2, <3>3, <2>1, <1>2, SpliceKids
  <2>4. m \in Under(t, n) \/ m \in Under(t, t.left[x])
    BY <1>2 DEF Extra
  <2> QED
    BY <2>2, <2>3, <2>4
<1> HIDE DEF S
<1>3. Under(u, n) \subseteq S
  BY <1>1, <1>2, FromWithin DEF Under
<1> QED
  BY <1>3 DEF S

\* Below the sides of a node.
LEMMA SpliceSides ==
  ASSUME NEW t \in Trees, Ranked(t), NEW x \in TreeNodes, Ordered(t, x), NEW u, NEW q,
         Spliced(t, u, x, q), NEW n \in TreeNodes
  PROVE  /\ Under(u, u.right[n]) \subseteq Under(t, t.right[n]) \cup Extra(t, x, t.right[n])
         /\ \/ Under(u, u.left[n]) \subseteq Under(t, t.left[n]) \cup Extra(t, x, t.left[n])
            \/ n = t.right[x] /\ Under(u, u.left[n]) \subseteq Under(t, t.left[x])
<1>1. \A m \in TreeNodes \cup {NIL} : Under(u, m) \subseteq Under(t, m) \cup Extra(t, x, m)
  BY SpliceUnder
<1>2. Under(u, Heir(t, x)) \subseteq Under(t, x)
  <2>1. Under(u, Heir(t, x)) \subseteq Under(t, Heir(t, x)) \cup Extra(t, x, Heir(t, x))
    BY <1>1, HeirIsUnder
  <2> QED
    BY <2>1, HeirIsUnder DEF Extra
<1>3. Under(u, t.left[x]) \subseteq Under(t, t.left[x])
  <2>1. Under(u, t.left[x]) \subseteq Under(t, t.left[x]) \cup Extra(t, x, t.left[x])
    BY <1>1, TreeTypes
  <2> QED
    BY <2>1 DEF Extra
<1>4. n = q => /\ t.PageNumber[x] < t.PageNumber[q] => t.left[q] = x
               /\ ~ (t.PageNumber[x] < t.PageNumber[q]) => t.right[q] = x
  BY SpliceNodes, NilIsNoNode
<1>5. Under(u, u.right[n]) \subseteq Under(t, t.right[n]) \cup Extra(t, x, t.right[n])
  <2>1. CASE n = q /\ ~ (t.PageNumber[x] < t.PageNumber[q])
    BY <2>1, <1>2, <1>4 DEF Spliced
  <2>2. CASE ~ (n = q /\ ~ (t.PageNumber[x] < t.PageNumber[q]))
    <3>1. u.right[n] = t.right[n] /\ t.right[n] \in TreeNodes \cup {NIL}
      BY <2>2, TreeTypes DEF Spliced
    <3> QED
      BY <3>1, <1>1
  <2> QED
    BY <2>1, <2>2
<1>6. \/ Under(u, u.left[n]) \subseteq Under(t, t.left[n]) \cup Extra(t, x, t.left[n])
      \/ n = t.right[x] /\ Under(u, u.left[n]) \subseteq Under(t, t.left[x])
  <2>1. CASE n = q /\ t.PageNumber[x] < t.PageNumber[q]
    BY <2>1, <1>2, <1>4 DEF Spliced
  <2>2. CASE ~ (n = q /\ t.PageNumber[x] < t.PageNumber[q]) /\ n = t.right[x] /\ t.left[x] # NIL
    BY <2>2, <1>3 DEF Spliced
  <2>3. CASE ~ (n = q /\ t.PageNumber[x] < t.PageNumber[q]) /\ ~ (n = t.right[x] /\ t.left[x] # NIL)
    <3>1. u.left[n] = t.left[n] /\ t.left[n] \in TreeNodes \cup {NIL}
      BY <2>3, TreeTypes DEF Spliced
    <3> QED
      BY <3>1, <1>1
  <2> QED
    BY <2>1, <2>2, <2>3
<1> QED
  BY <1>5, <1>6

LEMMA SpliceRanked ==
  ASSUME NEW t \in Trees, Ranked(t), NEW x \in TreeNodes, Ordered(t, x), NEW u, NEW q,
         Spliced(t, u, x, q)
  PROVE  Ranked(u)
<1>1. PICK rank \in [TreeNodes -> TreeNodes] : Ranks(t, rank)
  BY DEF Ranked
<1>2. MaxTreeNodes \in Nat /\ \A n \in TreeNodes : rank[n] \in 1 .. MaxTreeNodes
  BY <1>1, TreeAssumption DEF TreeNodes
\* The nodes that have the right child of x below them are raised above all others.
<1> DEFINE up(n) == t.right[x] \in Under(t, n)
           h == [n \in TreeNodes |-> IF up(n) THEN rank[n] + MaxTreeNodes ELSE rank[n]]
<1>3. u \in Trees
  BY DEF Spliced
<1>4. ASSUME NEW n \in TreeNodes, NEW c \in TreeNodes, rank[c] < rank[n], up(c) => up(n)
      PROVE  h[c] < h[n]
  <2>1. rank[c] \in 1 .. MaxTreeNodes /\ rank[n] \in 1 .. MaxTreeNodes
    BY <1>2
  <2> HIDE DEF up
  <2> QED
    BY <2>1, <1>2, <1>4
<1>5. ASSUME NEW n \in TreeNodes, NEW c \in Kids(t)[n] PROVE rank[c] < rank[n] /\ (up(c) => up(n)) /\ c \in TreeNodes
  <2>1. c \in TreeNodes /\ c # NIL /\ c \in {t.left[n], t.right[n]}
    BY <1>5, KidsOf DEF Graph
  <2>2. Under(t, c) \subseteq Under(t, n)
    BY <2>1, UnderSides
  <2> QED
    BY <2>1, <2>2, <1>1 DEF Ranks
<1>6. ASSUME NEW n \in TreeNodes, NEW c \in Kids(u)[n] PROVE h[c] < h[n]
  <2>1. c \in TreeNodes
    BY <1>6, SpliceKids
  <2>2. CASE c \in Kids(t)[n]
    BY <2>1, <2>2, <1>4, <1>5
  <2>3. CASE n = q /\ c = Heir(t, x)
    <3>1. c \in Kids(t)[x] /\ x \in Kids(t)[n]
      <4>1. c # NIL /\ x # NIL /\ x \in {t.left[q], t.right[q]}
        BY <2>1, <2>3, SpliceNodes, NilIsNoNode
      <4> QED
        BY <4>1, <2>3, KidsOf DEF Heir
    <3>2. /\ rank[c] < rank[x] /\ rank[x] < rank[n] /\ (up(c) => up(n))
      BY <3>1, <1>5
    <3>3. rank[c] \in Nat /\ rank[x] \in Nat /\ rank[n] \in Nat
      BY <2>1, <1>2
    <3>4. rank[c] < rank[n]
      BY <3>2, <3>3
    <3> QED
      BY <2>1, <3>2, <3>4, <1>4
  <2>4. CASE n = t.right[x] /\ c = t.left[x]
    <3>1. up(n) /\ ~ up(c)
      BY <2>4, UnderItself, SpliceNodes
    <3>2. rank[c] \in 1 .. MaxTreeNodes /\ rank[n] \in 1 .. MaxTreeNodes
      BY <2>1, <1>2
    <3> HIDE DEF up
    <3> QED
      BY <3>1, <3>2, <2>1, <1>2
  <2> QED
    BY <2>2, <2>3, <2>4, <1>6, SpliceKids
<1>7. \A n \in TreeNodes : h[n] \in Nat
  BY <1>2
<1> HIDE DEF h
<1>8. \A n \in TreeNodes : /\ u.left[n] # NIL => h[u.left[n]] < h[n]
                           /\ u.right[n] # NIL => h[u.right[n]] < h[n]
  BY <1>3, <1>6, KidsOf
<1> QED
  BY <1>3, <1>7, <1>8, RanksEnough

LEMMA SpliceSideKids ==
  ASSUME NEW t \in Trees, Ranked(t), NEW x \in TreeNodes, Ordered(t, x), NEW u, NEW q,
         Spliced(t, u, x, q), NEW m \in TreeNodes, NEW c
  PROVE  /\ rho(u) = rho(t)
         /\ c \in LowKids(u)[m] =>
              \/ c \in LowKids(t)[m]
              \/ m = q /\ c = Heir(t, x) /\ x \in LowKids(t)[m]
              \/ m = t.right[x] /\ c = t.left[x]
         /\ c \in HighKids(u)[m] =>
              \/ c \in HighKids(t)[m]
              \/ m = q /\ c = Heir(t, x) /\ x \in HighKids(t)[m]
              \/ m = t.right[x] /\ c = t.left[x] /\ rho(t) < t.PageNumber[m]
<1>1. u \in Trees /\ u.PageNumber = t.PageNumber /\ rho(u) = rho(t) /\ x # NIL
  BY NilIsNoNode DEF Spliced, rho
<1>2. m = q => /\ t.PageNumber[x] < t.PageNumber[q] => t.left[m] = x
               /\ ~ (t.PageNumber[x] < t.PageNumber[q]) => t.right[m] = x
  BY SpliceNodes, NilIsNoNode
<1>3. /\ c \in LowKids(u)[m] <=>
           c # NIL /\ (c = u.left[m] \/ (c = u.right[m] /\ t.PageNumber[m] < rho(t)))
      /\ c \in HighKids(u)[m] <=>
           c # NIL /\ (c = u.right[m] \/ (c = u.left[m] /\ rho(t) < t.PageNumber[m]))
  BY <1>1, KidsOf
<1>4. \A b : /\ b \in LowKids(t)[m] <=>
                  b # NIL /\ (b = t.left[m] \/ (b = t.right[m] /\ t.PageNumber[m] < rho(t)))
             /\ b \in HighKids(t)[m] <=>
                  b # NIL /\ (b = t.right[m] \/ (b = t.left[m] /\ rho(t) < t.PageNumber[m]))
  BY KidsOf
<1>5. /\ \/ u.left[m] = Heir(t, x) /\ m = q /\ t.left[m] = x
         \/ m = t.right[x] /\ u.left[m] = t.left[x]
         \/ u.left[m] = t.left[m]
      /\ \/ u.right[m] = Heir(t, x) /\ m = q /\ t.right[m] = x
         \/ u.right[m] = t.right[m]
  BY <1>2 DEF Spliced
<1> QED
  BY <1>1, <1>3, <1>4, <1>5

\* A node that stays in order: what is new below it was below it.
LEMMA SpliceOrdered ==
  ASSUME NEW t \in Trees, Ranked(t), NEW x \in TreeNodes, Ordered(t, x), NEW u, NEW q,
         Spliced(t, u, x, q), NEW n \in TreeNodes, Ordered(t, n), n # x,
         t.right[x] \in Under(t, n) => n \in Under(t, x) \/ x \in Under(t, n)
  PROVE  /\ Under(u, u.right[n]) \subseteq Under(t, t.right[n])
         /\ \/ Under(u, u.left[n]) \subseteq Under(t, t.left[n])
            \/ n = t.right[x] /\ Under(u, u.left[n]) \subseteq Under(t, t.left[x])
         /\ Ordered(u, n)
<1>1. /\ Under(u, u.right[n]) \subseteq Under(t, t.right[n]) \cup Extra(t, x, t.right[n])
      /\ \/ Under(u, u.left[n]) \subseteq Under(t, t.left[n]) \cup Extra(t, x, t.left[n])
         \/ n = t.right[x] /\ Under(u, u.left[n]) \subseteq Under(t, t.left[x])
  BY SpliceSides
<1>2. \A c \in {t.left[n], t.right[n]} : Extra(t, x, c) \subseteq Under(t, c)
  <2> SUFFICES ASSUME NEW c \in {t.left[n], t.right[n]}, t.right[x] \in Under(t, c)
               PROVE  Under(t, t.left[x]) \subseteq Under(t, c)
    BY DEF Extra
  <2>1. t.right[x] \in Under(t, n) /\ t.right[x] \in TreeNodes
    BY UnderSides, UnderNodes
  <2>2. CASE n \in Under(t, x)
    <3>1. n \in Under(t, t.left[x]) \/ n \in Under(t, t.right[x])
      BY <2>2, UnderSides
    <3>2. CASE n \in Under(t, t.left[x])
      <4>1. t.right[x] \in Under(t, t.left[x])
        BY <3>2, <2>1, UnderTrans
      <4> QED
        BY <4>1, SpliceNodes
    <3>3. CASE n \in Under(t, t.right[x])
      <4>1. n = t.right[x]
        BY <3>3, <2>1, NoCircle
      <4> QED
        BY <4>1, NotUnderItsKid
    <3> QED
      BY <3>1, <3>2, <3>3
  <2>3. CASE x \in Under(t, n)
    <3>1. PICK b \in {t.left[n], t.right[n]} : x \in Under(t, b)
      BY <2>3, UnderSides
    <3>2. Under(t, t.left[x]) \subseteq Under(t, b) /\ t.right[x] \in Under(t, b)
      BY <3>1, <2>1, HeirIsUnder, UnderItself, UnderTrans
    <3>3. b = c
      BY <3>1, <3>2, OneSide
    <3> QED
      BY <3>2, <3>3
  <2> QED
    BY <2>1, <2>2, <2>3
<1>3. /\ Under(u, u.right[n]) \subseteq Under(t, t.right[n])
      /\ \/ Under(u, u.left[n]) \subseteq Under(t, t.left[n])
         \/ n = t.right[x] /\ Under(u, u.left[n]) \subseteq Under(t, t.left[x])
  BY <1>1, <1>2
<1>4. Ordered(u, n)
  <2>1. u.PageNumber = t.PageNumber
    BY DEF Spliced
  <2>2. \A m \in Under(u, u.right[n]) : t.PageNumber[n] < t.PageNumber[m]
    BY <1>3 DEF Ordered
  <2>3. ASSUME NEW m \in Under(u, u.left[n]) PROVE t.PageNumber[m] < t.PageNumber[n]
    <3>1. CASE m \in Under(t, t.left[n])
      BY <3>1 DEF Ordered
    <3>2. CASE n = t.right[x] /\ m \in Under(t, t.left[x])
      <4>1. t.PageNumber[m] < t.PageNumber[x] /\ t.PageNumber[x] < t.PageNumber[n]
        BY <3>2, UnderItself DEF Ordered
      <4>2. m \in TreeNodes
        BY <3>2, UnderNodes
      <4> QED
        BY <4>1, <4>2, TreeTypes
    <3> QED
      BY <3>1, <3>2, <2>3, <1>3
  <2> QED
    BY <2>1, <2>2, <2>3 DEF Ordered
<1> QED
  BY <1>3, <1>4

----------------------------------------------------------------------------
(* Taking a node of the low side out *)

TakenLow(t, u, x, q) ==
  /\ Sorted(t) /\ Spliced(t, u, x, q) /\ x \in Lows(t)
  /\ q = t.root \/ q \in LowSide(t)

LEMMA LowSideIsUnder ==
  ASSUME NEW t \in Trees, Ranked(t), t.root # NIL
  PROVE  /\ LowSide(t) \subseteq Under(t, t.left[t.root])
         /\ HighSide(t) \subseteq Under(t, t.right[t.root])
         /\ t.root \notin LowSide(t) /\ t.root \notin HighSide(t) /\ t.root \in TreeNodes
         /\ LowSide(t) \subseteq TreeNodes /\ HighSide(t) \subseteq TreeNodes
<1>1. t.root \in TreeNodes
  BY TreeTypes
<1>2. LowSide(t) \subseteq Under(t, t.left[t.root])
  <2>1. CASE t.left[t.root] = NIL
    BY <2>1, FromNil DEF LowSide
  <2>2. CASE t.left[t.root] # NIL
    BY <2>2, <1>1, TreeTypes, KidsOf, FromIsUnder DEF LowSide
  <2> QED
    BY <2>1, <2>2
<1>3. HighSide(t) \subseteq Under(t, t.right[t.root])
  <2>1. CASE t.right[t.root] = NIL
    BY <2>1, FromNil DEF HighSide
  <2>2. CASE t.right[t.root] # NIL
    BY <2>2, <1>1, TreeTypes, KidsOf, FromIsUnder DEF HighSide
  <2> QED
    BY <2>1, <2>2
<1> QED
  BY <1>1, <1>2, <1>3, NotUnderItsKid, UnderNodes

LEMMA SortedFacts ==
  ASSUME NEW t, Sorted(t)
  PROVE  /\ t \in Trees /\ t.root # NIL /\ Ranked(t)
         /\ InOrderOf(t) /\ LowsApart(t) /\ HighsApart(t) /\ LostWhole(t) /\ RootOnce(t)
         /\ \A n \in Lows(t) : n \in TreeNodes /\ n \in LowSide(t) /\ Ordered(t, n)
                               /\ t.PageNumber[n] < rho(t)
         /\ \A n \in Highs(t) : n \in TreeNodes /\ n \in HighSide(t) /\ Ordered(t, n)
                               /\ rho(t) < t.PageNumber[n]
BY FromNodes DEF Sorted, InOrderOf, Lows, Highs, LowSide, HighSide

LEMMA TakenLowFacts ==
  ASSUME NEW t, NEW u, NEW x, NEW q, TakenLow(t, u, x, q)
  PROVE  /\ u \in Trees /\ u.root = t.root /\ u.PageNumber = t.PageNumber /\ rho(u) = rho(t)
         /\ x \in TreeNodes /\ x # NIL /\ x \in LowSide(t) /\ Ordered(t, x)
         /\ t.PageNumber[x] < rho(t)
         /\ t.left[x] \in LowSide(t) \cup {NIL} /\ t.right[x] \in LowSide(t) \cup {NIL}
         /\ Heir(t, x) \in LowSide(t) \cup {NIL}
         /\ \A m \in Under(t, t.left[x]) : t.PageNumber[m] < rho(t)
         /\ Under(t, t.left[x]) \subseteq Lows(t)
         /\ q # NIL /\ q \in TreeNodes
<1>1. /\ t \in Trees /\ x \in TreeNodes /\ x \in LowSide(t) /\ Ordered(t, x)
      /\ t.PageNumber[x] < rho(t) /\ x # NIL
  BY SortedFacts, NilIsNoNode DEF TakenLow
<1>2. u \in Trees /\ u.root = t.root /\ u.PageNumber = t.PageNumber /\ rho(u) = rho(t)
  BY DEF TakenLow, Spliced, rho
<1>3. t.left[x] \in LowSide(t) \cup {NIL} /\ t.right[x] \in LowSide(t) \cup {NIL}
  <2>1. \A c \in {t.left[x], t.right[x]} : c # NIL => c \in TreeNodes /\ c \in LowKids(t)[x]
    BY <1>1, TreeTypes, KidsOf
  <2> QED
    BY <2>1, <1>1, FromStep DEF LowSide
<1>4. \A m \in Under(t, t.left[x]) : t.PageNumber[m] < rho(t)
  <2>1. \A m \in Under(t, t.left[x]) : t.PageNumber[m] < t.PageNumber[x] /\ m \in TreeNodes
    BY <1>1, UnderNodes DEF Ordered
  <2>2. rho(t) \in Nat /\ \A m \in TreeNodes : t.PageNumber[m] \in Nat
    BY <1>1, SortedFacts, TreeTypes DEF TakenLow, rho
  <2> QED
    BY <2>1, <2>2, <1>1
<1>5. Under(t, t.left[x]) \subseteq Lows(t)
  <2>1. CASE t.left[x] = NIL
    BY <2>1, UnderNodes
  <2>2. CASE t.left[x] # NIL
    BY <2>2, <1>1, <1>3, <1>4, AllLow
  <2> QED
    BY <2>1, <2>2
<1>6. q # NIL /\ q \in TreeNodes
  BY SortedFacts, LowSideIsUnder, NilIsNoNode DEF TakenLow
<1> QED
  BY <1>1, <1>2, <1>3, <1>4, <1>5, <1>6 DEF Heir

\* The edge by which the low side comes to x, and the roots of the sides.
LEMMA TakenLowEdge ==
  ASSUME NEW t, NEW u, NEW x, NEW q, TakenLow(t, u, x, q)
  PROVE  /\ q = t.root => t.left[t.root] = x /\ u.left[t.root] = Heir(t, x)
         /\ q # t.root => x \in LowKids(t)[q] /\ u.left[t.root] = t.left[t.root]
         /\ u.right[t.root] = t.right[t.root]
<1>1. t \in Trees /\ t.root # NIL /\ Ranked(t) /\ Spliced(t, u, x, q)
  BY SortedFacts DEF TakenLow
<1>2. /\ x \in TreeNodes /\ x # NIL /\ Ordered(t, x) /\ t.PageNumber[x] < rho(t)
      /\ q # NIL /\ q \in TreeNodes /\ x \in LowSide(t)
  BY TakenLowFacts
<1>3. /\ t.PageNumber[x] < t.PageNumber[q] => t.left[q] = x
      /\ ~ (t.PageNumber[x] < t.PageNumber[q]) => t.right[q] = x
  BY <1>1, <1>2, SpliceNodes
<1>4. t.root \in TreeNodes /\ t.root # t.right[x]
  <2>1. t.root \in TreeNodes /\ x \in Under(t, t.left[t.root])
    BY <1>1, <1>2, LowSideIsUnder
  <2>2. t.root \notin Under(t, t.left[t.root])
    BY <2>1, <1>1, NotUnderItsKid
  <2>3. t.right[x] # NIL => t.right[x] \in Under(t, x)
    BY <1>1, <1>2, KidIsUnder
  <2> QED
    BY <2>1, <2>2, <2>3, <1>1, UnderTrans, NilIsNoNode
<1>5. q = t.root => t.left[t.root] = x /\ u.left[t.root] = Heir(t, x) /\ u.right[t.root] = t.right[t.root]
  BY <1>1, <1>2, <1>3, <1>4 DEF rho, Spliced
<1>6. q # t.root => x \in LowKids(t)[q]
  <2>1. t.PageNumber[x] \in Nat /\ t.PageNumber[q] \in Nat /\ rho(t) \in Nat
    BY <1>1, <1>2, <1>4, TreeTypes DEF rho
  <2> QED
    BY <2>1, <1>1, <1>2, <1>3, KidsOf
<1>7. q # t.root => u.left[t.root] = t.left[t.root] /\ u.right[t.root] = t.right[t.root]
  BY <1>1, <1>4 DEF Spliced
<1> QED
  BY <1>5, <1>6, <1>7

\* The low side loses x and gains nothing.
LEMMA TakenLowLow ==
  ASSUME NEW t, NEW u, NEW x, NEW q, TakenLow(t, u, x, q)
  PROVE  LowSide(u) \subseteq LowSide(t) \ {x} /\ Lows(u) \subseteq Lows(t) \ {x}
<1> DEFINE S == LowSide(t) \ {x}
           s == t.left[t.root]
<1>1. /\ t \in Trees /\ t.root # NIL /\ Ranked(t) /\ Spliced(t, u, x, q) /\ InOrderOf(t)
      /\ Branching(t, LowKids(t), s)
      /\ \A n \in Lows(t) : Ordered(t, n)
  BY SortedFacts, SidesBranch DEF TakenLow
<1>2. /\ u \in Trees /\ u.root = t.root /\ u.PageNumber = t.PageNumber /\ rho(u) = rho(t)
      /\ x \in TreeNodes /\ x # NIL /\ Ordered(t, x) /\ x \in LowSide(t)
      /\ q # NIL /\ q \in TreeNodes /\ t.PageNumber[x] < rho(t)
      /\ t.left[x] \in LowSide(t) \cup {NIL} /\ Heir(t, x) \in LowSide(t) \cup {NIL}
  BY TakenLowFacts
<1>3. /\ q = t.root => s = x /\ u.left[t.root] = Heir(t, x)
      /\ q # t.root => x \in LowKids(t)[q] /\ u.left[t.root] = s
      /\ q = t.root \/ q \in LowSide(t)
  BY TakenLowEdge DEF TakenLow
<1>4. s \in TreeNodes /\ LowSide(t) \subseteq TreeNodes
  BY <1>1, <1>2, FromNil, TreeTypes, FromNodes DEF LowSide
<1>5. Heir(t, x) # x /\ t.left[x] # x
  BY <1>1, <1>2, KidIsUnder, SpliceNodes DEF Heir
<1>6. u.left[t.root] \in S \cup {NIL}
  <2>1. CASE q = t.root
    BY <2>1, <1>2, <1>3, <1>5
  <2>2. CASE q # t.root
    <3>1. s # x
      BY <2>2, <1>1, <1>3, <1>4, StartHasNoParent DEF LowSide
    <3> QED
      BY <2>2, <3>1, <1>3, <1>4, FromItself DEF LowSide
  <2> QED
    BY <2>1, <2>2
<1>7. q # t.root => x \notin LowKids(u)[q]
  <2>1. SUFFICES ASSUME q # t.root, x \in LowKids(u)[q] PROVE FALSE
    OBVIOUS
  <2>2. q \in LowSide(t) /\ q # t.right[x]
    BY <2>1, <1>1, <1>2, <1>3, SpliceNodes
  <2>3. x = u.left[q] \/ (x = u.right[q] /\ t.PageNumber[q] < rho(t))
    BY <2>1, <1>2, KidsOf
  <2>4. t.left[q] = x /\ t.right[q] = x /\ t.PageNumber[q] < rho(t)
    <3>1. t.PageNumber[x] \in Nat /\ t.PageNumber[q] \in Nat /\ rho(t) \in Nat
      BY <1>1, <1>2, TreeTypes DEF rho
    <3>2. /\ t.PageNumber[x] < t.PageNumber[q] => t.left[q] = x
          /\ ~ (t.PageNumber[x] < t.PageNumber[q]) => t.right[q] = x
      BY <1>1, <1>2, SpliceNodes
    <3> QED
      BY <2>2, <2>3, <3>1, <3>2, <1>1, <1>2, <1>5 DEF Spliced
  <2>5. Ordered(t, q)
    BY <2>2, <2>4, <1>1 DEF Lows
  <2> QED
    BY <2>4, <2>5, <1>1, <1>2, UnderItself, OneSide
<1>8. ASSUME NEW m \in S, NEW c \in LowKids(u)[m] PROVE c \in S
  <2>1. m \in TreeNodes /\ m \in LowSide(t) /\ c \in TreeNodes /\ c # NIL
    BY <1>2, <1>4, <1>8, KidsOf DEF Graph
  <2>2. CASE c \in LowKids(t)[m]
    <3>1. c \in LowSide(t)
      BY <2>1, <2>2, FromStep DEF LowSide
    <3>2. SUFFICES ASSUME c = x PROVE FALSE
      BY <3>1
    <3>3. q # t.root
      BY <2>1, <2>2, <3>2, <1>1, <1>3, <1>4, StartHasNoParent DEF LowSide
    <3>4. m = q
      BY <2>1, <2>2, <3>2, <3>3, <1>1, <1>3, <1>4, OneParent DEF LowSide
    <3> QED
      BY <3>2, <3>3, <3>4, <1>7, <1>8
  <2>3. CASE c = Heir(t, x) \/ c = t.left[x]
    BY <2>1, <2>3, <1>2, <1>5
  <2> QED
    BY <2>1, <2>2, <2>3, <1>1, <1>2, <1>8, SpliceSideKids
<1>9. S \in SUBSET TreeNodes
  BY <1>4
<1> HIDE DEF S
<1>10. LowSide(u) \subseteq S
  BY <1>2, <1>6, <1>8, <1>9, FromWithin DEF LowSide
<1> QED
  BY <1>2, <1>10 DEF S, Lows

\* What hangs on the left of x comes to the high side by the heir of x.
Shown(t, x) ==
  IF t.right[x] \in Highs(t) \/ (x \in HighSide(t) /\ t.right[x] = NIL)
  THEN From(HighKids(t), t.left[x]) ELSE {}

LEMMA ShownIsUnder ==
  ASSUME NEW t \in Trees, NEW x \in TreeNodes
  PROVE  /\ Shown(t, x) \subseteq From(HighKids(t), t.left[x])
         /\ From(HighKids(t), t.left[x]) \subseteq Under(t, t.left[x])
         /\ From(LowKids(t), t.right[x]) \subseteq Under(t, t.right[x])
<1>1. ASSUME NEW E, \A n \in TreeNodes : E[n] \subseteq Kids(t)[n], NEW c \in TreeNodes \cup {NIL}
      PROVE  From(E, c) \subseteq Under(t, c)
  <2>1. CASE c = NIL
    BY <2>1, FromNil
  <2>2. CASE c # NIL
    BY <2>2, <1>1, FromIsUnder
  <2> QED
    BY <2>1, <2>2
<1>2. t.left[x] \in TreeNodes \cup {NIL} /\ t.right[x] \in TreeNodes \cup {NIL}
  BY TreeTypes
<1> QED
  BY <1>1, <1>2, KidsOf DEF Shown

LEMMA TakenLowHigh ==
  ASSUME NEW t, NEW u, NEW x, NEW q, TakenLow(t, u, x, q)
  PROVE  HighSide(u) \subseteq HighSide(t) \cup Shown(t, x) /\ Highs(u) \subseteq Highs(t)
<1> DEFINE S == HighSide(t) \cup Shown(t, x)
<1>1. /\ t \in Trees /\ t.root # NIL /\ Ranked(t) /\ Spliced(t, u, x, q)
      /\ t.right[t.root] \in TreeNodes \cup {NIL}
  BY SortedFacts, TreeTypes, LowSideIsUnder DEF TakenLow
<1>2. /\ u \in Trees /\ u.root = t.root /\ u.PageNumber = t.PageNumber /\ rho(u) = rho(t)
      /\ x \in TreeNodes /\ x # NIL /\ Ordered(t, x)
      /\ q # NIL /\ q \in TreeNodes
      /\ \A m \in Under(t, t.left[x]) : t.PageNumber[m] < rho(t)
      /\ u.right[t.root] = t.right[t.root]
  BY TakenLowFacts, TakenLowEdge
<1>3. /\ Shown(t, x) \subseteq Under(t, t.left[x]) /\ Shown(t, x) \subseteq TreeNodes
      /\ HighSide(t) \subseteq TreeNodes
      /\ q \notin Under(t, t.left[x]) /\ t.right[x] \notin Under(t, t.left[x])
  BY <1>1, <1>2, ShownIsUnder, SpliceNodes, HeirIsUnder, UnderNodes, FromNodes DEF HighSide
<1>4. ASSUME NEW m \in S, NEW c \in HighKids(u)[m] PROVE c \in S
  <2>1. m \in TreeNodes /\ c \in TreeNodes /\ c # NIL
    BY <1>2, <1>3, <1>4, KidsOf DEF Graph
  <2>2. CASE c \in HighKids(t)[m]
    <3>1. m \in HighSide(t) => c \in HighSide(t)
      BY <2>1, <2>2, FromStep DEF HighSide
    <3>2. m \in Shown(t, x) => c \in Shown(t, x)
      BY <2>1, <2>2, FromStep DEF Shown
    <3> QED
      BY <3>1, <3>2, <1>4
  <2>3. CASE m = q /\ c = Heir(t, x) /\ x \in HighKids(t)[m]
    <3>1. m \in HighSide(t)
      BY <2>3, <1>3, <1>4
    <3>2. x \in HighSide(t)
      BY <2>3, <3>1, <1>2, FromStep DEF HighSide
    <3>3. CASE t.right[x] = NIL
      BY <2>1, <2>3, <3>2, <3>3, FromItself DEF Heir, Shown
    <3>4. CASE t.right[x] # NIL
      <4>1. c \in HighKids(t)[x]
        BY <2>3, <3>4, <1>1, <1>2, KidsOf DEF Heir
      <4> QED
        BY <2>1, <3>2, <4>1, FromStep DEF HighSide
    <3> QED
      BY <3>3, <3>4
  <2>4. CASE m = t.right[x] /\ c = t.left[x] /\ rho(t) < t.PageNumber[m]
    <3>1. m \in Highs(t)
      BY <2>4, <1>3, <1>4 DEF Highs
    <3> QED
      BY <2>1, <2>4, <3>1, FromItself DEF Shown
  <2> QED
    BY <2>1, <2>2, <2>3, <2>4, <1>1, <1>2, <1>4, SpliceSideKids
<1>5. S \in SUBSET TreeNodes /\ u.right[t.root] \in S \cup {NIL}
  BY <1>1, <1>2, <1>3, FromItself DEF HighSide
<1> HIDE DEF S
<1>6. HighSide(u) \subseteq S
  <2>1. HighSide(u) = From(HighKids(u), t.right[t.root])
    BY <1>2 DEF HighSide
  <2>2. From(HighKids(u), t.right[t.root]) \subseteq S
    BY <1>2, <1>4, <1>5, FromWithin, ZenonT(30)
  <2> QED
    BY <2>1, <2>2
<1>7. ASSUME NEW n \in Highs(u) PROVE n \in Highs(t)
  <2>1. n \in HighSide(u) /\ rho(t) < t.PageNumber[n]
    BY <1>7, <1>2 DEF Highs
  <2>2. n \notin Shown(t, x)
    <3>1. n \in Under(t, t.left[x]) => t.PageNumber[n] < rho(t) /\ n \in TreeNodes
      BY <1>2, UnderNodes
    <3>2. t.root \in TreeNodes
      BY <1>1, LowSideIsUnder
    <3> QED
      BY <2>1, <3>1, <3>2, <1>1, <1>3, TreeTypes DEF rho
  <2> QED
    BY <2>1, <2>2, <1>6 DEF S, Highs
<1> QED
  BY <1>6, <1>7 DEF S

LEMMA TakenLowOrder ==
  ASSUME NEW t, NEW u, NEW x, NEW q, TakenLow(t, u, x, q)
  PROVE  /\ \A n \in Lows(u) :
              /\ Under(u, u.right[n]) \subseteq Under(t, t.right[n])
              /\ \/ Under(u, u.left[n]) \subseteq Under(t, t.left[n])
                 \/ n = t.right[x] /\ Under(u, u.left[n]) \subseteq Under(t, t.left[x])
         /\ \A n \in Highs(u) : Under(u, u.right[n]) \subseteq Under(t, t.right[n])
         /\ InOrderOf(u)
<1>1. /\ t \in Trees /\ t.root # NIL /\ Ranked(t) /\ Spliced(t, u, x, q) /\ InOrderOf(t)
      /\ HighsApart(t)
      /\ \A n \in Lows(t) : n \in TreeNodes /\ n \in LowSide(t) /\ Ordered(t, n)
                            /\ t.PageNumber[n] < rho(t)
      /\ \A n \in Highs(t) : n \in TreeNodes /\ n \in HighSide(t) /\ Ordered(t, n)
                            /\ rho(t) < t.PageNumber[n]
  BY SortedFacts DEF TakenLow
<1>2. /\ u \in Trees /\ u.root = t.root /\ u.PageNumber = t.PageNumber /\ rho(u) = rho(t)
      /\ x \in TreeNodes /\ x # NIL /\ Ordered(t, x) /\ x \in LowSide(t)
      /\ \A m \in Under(t, t.left[x]) : t.PageNumber[m] < rho(t)
      /\ t.PageNumber[x] < rho(t) /\ t.right[x] \in LowSide(t) \cup {NIL}
  BY TakenLowFacts
<1>3. Lows(u) \subseteq Lows(t) \ {x} /\ Highs(u) \subseteq Highs(t)
  BY TakenLowLow, TakenLowHigh
<1>4. ASSUME NEW n \in Lows(u)
      PROVE  /\ Under(u, u.right[n]) \subseteq Under(t, t.right[n])
             /\ \/ Under(u, u.left[n]) \subseteq Under(t, t.left[n])
                \/ n = t.right[x] /\ Under(u, u.left[n]) \subseteq Under(t, t.left[x])
             /\ Ordered(u, n)
  <2>1. n \in TreeNodes /\ n \in LowSide(t) /\ Ordered(t, n) /\ n # x
    BY <1>1, <1>3
  <2>2. ASSUME t.right[x] \in Under(t, n) PROVE n \in Under(t, x) \/ x \in Under(t, n)
    <3>1. t.right[x] \in Under(t, x)
      BY <2>2, <1>1, <1>2, UnderNodes, KidIsUnder, NilIsNoNode
    <3>2. n \in From(LowKids(t), x) \/ x \in From(LowKids(t), n)
      BY <2>1, <2>2, <3>1, <1>1, <1>2, LowsAreApart
    <3> QED
      BY <3>2, <2>1, <1>1, <1>2, FromIsUnder, KidsOf
  <2> QED
    BY <2>1, <2>2, <1>1, <1>2, SpliceOrdered
<1>5. ASSUME NEW n \in Highs(u)
      PROVE  Under(u, u.right[n]) \subseteq Under(t, t.right[n]) /\ Ordered(u, n)
  <2>1. n \in TreeNodes /\ n \in HighSide(t) /\ Ordered(t, n) /\ rho(t) < t.PageNumber[n]
        /\ n \in Highs(t)
    BY <1>1, <1>3
  <2>2. t.right[x] \notin Under(t, t.right[n])
    BY <2>1, <1>1, <1>2, UnderNodes, NilIsNoNode DEF HighsApart
  <2>3. /\ Under(u, u.right[n]) \subseteq Under(t, t.right[n]) \cup Extra(t, x, t.right[n])
        /\ \/ Under(u, u.left[n]) \subseteq Under(t, t.left[n]) \cup Extra(t, x, t.left[n])
           \/ n = t.right[x] /\ Under(u, u.left[n]) \subseteq Under(t, t.left[x])
    BY <2>1, <1>1, <1>2, SpliceSides
  <2>4. Under(u, u.right[n]) \subseteq Under(t, t.right[n])
    BY <2>2, <2>3 DEF Extra
  <2>5. Under(u, u.left[n]) \subseteq Under(t, t.left[n]) \cup Under(t, t.left[x])
    BY <2>3 DEF Extra
  <2>6. ASSUME NEW m \in Under(t, t.left[x]) PROVE t.PageNumber[m] < t.PageNumber[n]
    <3>1. m \in TreeNodes /\ t.PageNumber[m] < rho(t) /\ t.root \in TreeNodes
      BY <1>1, <1>2, UnderNodes, LowSideIsUnder
    <3> QED
      BY <3>1, <2>1, <1>1, TreeTypes DEF rho
  <2> QED
    BY <2>1, <2>4, <2>5, <2>6, <1>2 DEF Ordered
<1> QED
  BY <1>4, <1>5 DEF InOrderOf

LEMMA TakenLowApart ==
  ASSUME NEW t, NEW u, NEW x, NEW q, TakenLow(t, u, x, q)
  PROVE  LowsApart(u) /\ HighsApart(u)
<1>1. /\ t \in Trees /\ t.root # NIL /\ Ranked(t) /\ Spliced(t, u, x, q) /\ InOrderOf(t)
      /\ HighsApart(t) /\ LowsApart(t) /\ x \in Lows(t)
      /\ \A n \in Lows(t) : n \in TreeNodes /\ n \in LowSide(t) /\ Ordered(t, n)
                            /\ t.PageNumber[n] < rho(t)
  BY SortedFacts DEF TakenLow
<1>2. /\ x \in TreeNodes /\ x # NIL /\ Ordered(t, x) /\ x \in LowSide(t)
      /\ \A m \in Under(t, t.left[x]) : t.PageNumber[m] < rho(t)
      /\ t.right[x] \in LowSide(t) \cup {NIL} /\ t.left[x] \in LowSide(t) \cup {NIL}
      /\ Under(t, t.left[x]) \subseteq Lows(t)
  BY TakenLowFacts
<1>3. Lows(u) \subseteq Lows(t) \ {x} /\ Highs(u) \subseteq Highs(t) /\ LowSide(u) \subseteq LowSide(t)
      /\ HighSide(u) \subseteq HighSide(t) \cup Shown(t, x)
  BY TakenLowLow, TakenLowHigh
<1>4. HighsApart(u)
  BY <1>1, <1>3, TakenLowOrder DEF HighsApart
<1>5. ASSUME NEW n \in Lows(u), NEW s \in Under(u, u.left[n]), s \in HighSide(u) PROVE FALSE
  <2>1. /\ n \in Lows(t) /\ n # x /\ n \in TreeNodes /\ n \in LowSide(t) /\ Ordered(t, n)
        /\ t.PageNumber[n] < rho(t)
    BY <1>1, <1>3
  <2>2. s \in Under(t, t.left[n]) \/ (n = t.right[x] /\ s \in Under(t, t.left[x]))
    BY <1>5, TakenLowOrder
  <2>3. CASE s \in HighSide(t)
    BY <2>1, <2>2, <2>3, <1>1 DEF LowsApart
  <2>4. CASE s \in Shown(t, x)
    <3>1. /\ s \in From(HighKids(t), t.left[x]) /\ s \in Under(t, t.left[x])
          /\ t.right[x] \in Highs(t) \/ (x \in HighSide(t) /\ t.right[x] = NIL)
      BY <2>4, <1>1, <1>2, ShownIsUnder DEF Shown
    <3>2. \A k \in TreeNodes : ~ (k \in Highs(t) /\ t.PageNumber[k] < rho(t))
      <4>1. t.root \in TreeNodes
        BY <1>1, TreeTypes
      <4> QED
        BY <4>1, <1>1, TreeTypes DEF Highs, rho
    <3>3. n # t.right[x]
      BY <3>1, <3>2, <2>1, NilIsNoNode
    <3>4. s \in Under(t, t.left[n]) /\ s \in Under(t, n)
      BY <2>1, <2>2, <3>3, <1>1, UnderSides
    <3>5. s \in Under(t, x)
      BY <3>1, <1>1, <1>2, UnderSides
    <3>6. t.left[x] \in LowSide(t)
      BY <3>1, <1>2, UnderNodes
    <3>7. n \in From(LowKids(t), x) \/ x \in From(LowKids(t), n)
      BY <2>1, <3>4, <3>5, <1>1, <1>2, LowsAreApart
    <3>8. n \in Under(t, x) \/ x \in Under(t, n)
      BY <3>7, <2>1, <1>1, <1>2, FromIsUnder, KidsOf
    <3>9. CASE x \in Under(t, t.left[n])
      <4>1. x \notin HighSide(t)
        BY <3>9, <2>1, <1>1 DEF LowsApart
      <4>2. t.right[x] \in Highs(t) /\ t.right[x] # NIL
        BY <3>1, <4>1, <1>1, FromNodes, NilIsNoNode DEF Highs, HighSide
      <4>3. t.right[x] \in Under(t, t.left[n])
        BY <4>2, <3>9, <1>1, <1>2, KidIsUnder, UnderTrans
      <4>4. t.right[x] \in HighSide(t)
        BY <4>2 DEF Highs
      <4> QED
        BY <4>3, <4>4, <2>1, <1>1 DEF LowsApart
    <3>10. CASE x \in Under(t, t.right[n])
      <4>1. s \in Under(t, t.right[n])
        BY <3>5, <3>10, <1>1, UnderTrans
      <4> QED
        BY <4>1, <3>4, <2>1, <1>1, OneSide
    <3>11. CASE n \in Under(t, t.left[x])
      BY <3>1, <3>4, <3>6, <3>11, <1>1, <1>2, RightEdge
    <3>12. CASE n \in Under(t, t.right[x])
      <4>1. s \in Under(t, t.right[x])
        BY <3>4, <3>12, <1>1, UnderTrans
      <4> QED
        BY <4>1, <3>1, <1>1, <1>2, OneSide
    <3> QED
      BY <3>8, <3>9, <3>10, <3>11, <3>12, <2>1, <1>1, <1>2, UnderSides
  <2> QED
    BY <2>3, <2>4, <1>3, <1>5
<1> QED
  BY <1>4, <1>5 DEF LowsApart

\* A path either avoids a set V of nodes or has a last node in it.
LEMMA LastIn ==
  ASSUME NEW E, Graph(E), NEW V, NEW w \in TreeNodes, NEW v \in From(E, w),
         NEW F, F = [n \in TreeNodes |-> E[n] \ V]
  PROVE  \/ w \notin V /\ v \in From(F, w)
         \/ \E a \in V : a \in From(E, w) /\ (v = a \/ \E c \in F[a] : v \in From(F, c))
<1> DEFINE S == {k \in From(E, w) :
                   \/ w \notin V /\ k \in From(F, w)
                   \/ \E a \in V : a \in From(E, w) /\ (k = a \/ \E c \in F[a] : k \in From(F, c))}
<1>1. S \in SUBSET TreeNodes /\ Graph(F)
  BY FromNodes DEF Graph
<1>2. w \in S
  BY FromItself
<1>3. ASSUME NEW k \in S, NEW j \in E[k] PROVE j \in S
  <2>1. k \in TreeNodes /\ j \in TreeNodes /\ j \in From(E, w)
    <3>1. k \in TreeNodes /\ k \in From(E, w)
      BY <1>1
    <3> QED
      BY <3>1, <1>3, FromStep DEF Graph
  <2>2. CASE j \in V
    BY <2>1, <2>2
  <2>3. CASE j \notin V
    <3>1. j \in F[k]
      BY <2>1, <2>3, <1>3
    <3>2. CASE w \notin V /\ k \in From(F, w)
      BY <2>1, <3>1, <3>2, FromStep
    <3>3. CASE \E a \in V : a \in From(E, w) /\ (k = a \/ \E c \in F[a] : k \in From(F, c))
      <4>1. PICK a \in V : a \in From(E, w) /\ (k = a \/ \E c \in F[a] : k \in From(F, c))
        BY <3>3
      <4>2. CASE k = a
        BY <2>1, <3>1, <4>1, <4>2, FromItself
      <4>3. CASE k # a
        BY <2>1, <3>1, <4>1, <4>3, FromStep
      <4> QED
        BY <4>2, <4>3
    <3> QED
      BY <3>2, <3>3, <1>3
  <2> QED
    BY <2>2, <2>3
<1> HIDE DEF S
<1>4. From(E, w) \subseteq S
  BY <1>1, <1>2, <1>3, FromWithin
<1> QED
  BY <1>4 DEF S

LEMMA OffNodes ==
  ASSUME NEW t \in Trees
  PROVE  /\ Graph(OffKids(t))
         /\ \A n \in TreeNodes : OffKids(t)[n] = Kids(t)[n] \ LowSide(t)
         /\ \A n \in TreeNodes : \A c \in OffKids(t)[n] :
              n \in LowSide(t) => c = t.right[n] /\ ~ (t.PageNumber[n] < rho(t))
         /\ \A n : Off(t, n) \subseteq From(OffKids(t), n) /\ Off(t, n) \subseteq TreeNodes
         /\ \A n \in TreeNodes \cup {NIL} : Off(t, n) \subseteq Under(t, n)
<1>1. \A n \in TreeNodes : OffKids(t)[n] = Kids(t)[n] \ LowSide(t)
  BY DEF OffKids
<1>2. Graph(OffKids(t))
  BY <1>1, KidsOf DEF Graph
<1>3. ASSUME NEW n \in TreeNodes, NEW c \in OffKids(t)[n], n \in LowSide(t)
      PROVE  c = t.right[n] /\ ~ (t.PageNumber[n] < rho(t))
  <2>1. c \in Kids(t)[n] /\ c \notin LowSide(t) /\ c \in TreeNodes
    BY <1>1, <1>2, <1>3 DEF Graph
  <2>2. c \notin LowKids(t)[n]
    BY <2>1, <1>3, FromStep DEF LowSide
  <2> QED
    BY <2>1, <2>2, KidsOf
<1>4. \A n : Off(t, n) \subseteq From(OffKids(t), n) /\ Off(t, n) \subseteq TreeNodes
  BY FromNodes DEF Off
<1>5. \A n \in TreeNodes \cup {NIL} : From(OffKids(t), n) \subseteq Under(t, n)
  BY <1>1, FromMore, KidsOf DEF Under
<1> QED
  BY <1>1, <1>2, <1>3, <1>4, <1>5

\* A change to edges that only lead to the low side, which gains nothing by it, leaves
\* whole what is lost for the high side.
LEMMA LostStays ==
  ASSUME NEW t, Sorted(t), NEW u \in Trees, LowSide(u) \subseteq LowSide(t),
         \A n \in TreeNodes : Kids(u)[n] \ LowSide(t) = Kids(t)[n] \ LowSide(t),
         NEW y \in Highs(t), NEW w \in TreeNodes \cup {NIL}, NEW v \in Off(u, w),
         v \in Under(t, t.right[y]),
         w \in LowSide(t) \/ \E g \in LowSide(t) \ Lows(t) : g # y /\ w = t.right[g]
  PROVE  y \in Off(u, w)
<1>1. t \in Trees /\ HighsApart(t) /\ LostWhole(t)
  BY SortedFacts
<1>2. w \notin LowSide(u) /\ v \in From(OffKids(u), w) /\ w \in TreeNodes
  BY FromNil DEF Off
<1>3. \A n \in TreeNodes : OffKids(t)[n] \subseteq OffKids(u)[n] /\ OffKids(t)[n] = OffKids(u)[n] \ LowSide(t)
  BY <1>1, OffNodes
<1>4. OffKids(t) = [n \in TreeNodes |-> OffKids(u)[n] \ LowSide(t)]
  BY <1>3 DEF OffKids
<1>5. \A n \in TreeNodes \cup {NIL} : From(OffKids(t), n) \subseteq From(OffKids(u), n)
  BY <1>3, OffNodes, FromMore
<1>6. Graph(OffKids(u)) /\ Graph(OffKids(t))
  BY <1>1, OffNodes
<1>7. y \in From(OffKids(u), w)
  <2>1. CASE w \notin LowSide(t) /\ v \in From(OffKids(t), w)
    <3>1. PICK g \in LowSide(t) \ Lows(t) : g # y /\ w = t.right[g]
      BY <2>1
    <3>2. v \in Off(t, w)
      BY <2>1 DEF Off
    <3>3. y \in Off(t, w)
      BY <3>1, <3>2, <1>1 DEF LostWhole
    <3> QED
      BY <3>3, <1>1, <1>5, OffNodes
  <2>2. CASE \E a \in LowSide(t) : a \in From(OffKids(u), w)
                /\ (v = a \/ \E c \in OffKids(t)[a] : v \in From(OffKids(t), c))
    <3>1. PICK a \in LowSide(t) : a \in From(OffKids(u), w)
                /\ (v = a \/ \E c \in OffKids(t)[a] : v \in From(OffKids(t), c))
      BY <2>2
    <3>2. v # a
      BY <1>1 DEF HighsApart
    <3>3. PICK c \in OffKids(t)[a] : v \in From(OffKids(t), c)
      BY <3>1, <3>2
    <3>4. a \in TreeNodes /\ c \in TreeNodes /\ c \notin LowSide(t) /\ c = t.right[a]
          /\ ~ (t.PageNumber[a] < rho(t))
      <4>1. a \in TreeNodes
        BY FromNodes DEF LowSide
      <4> QED
        BY <4>1, <3>3, <1>1, <1>6, OffNodes DEF Graph
    <3>5. CASE a = y
      BY <3>1, <3>5
    <3>6. CASE a # y
      <4>1. v \in Off(t, t.right[a]) /\ a \in LowSide(t) \ Lows(t)
        BY <3>3, <3>4 DEF Off, Lows
      <4>2. y \in Off(t, t.right[a])
        BY <4>1, <3>6, <1>1 DEF LostWhole
      <4>3. y \in From(OffKids(u), c)
        BY <4>2, <3>4, <1>1, <1>5, OffNodes
      <4>4. c \in From(OffKids(u), w)
        BY <3>1, <3>3, <3>4, <1>3, FromStep
      <4> QED
        BY <4>3, <4>4, <1>6, FromFrom
    <3> QED
      BY <3>5, <3>6
  <2> QED
    BY <2>1, <2>2, <1>2, <1>4, <1>6, LastIn
<1> QED
  BY <1>2, <1>7 DEF Off

LEMMA TakenLowLost ==
  ASSUME NEW t, NEW u, NEW x, NEW q, TakenLow(t, u, x, q)
  PROVE  LostWhole(u)
<1>1. /\ t \in Trees /\ t.root # NIL /\ Ranked(t) /\ Spliced(t, u, x, q) /\ x \in Lows(t)
      /\ Sorted(t)
  BY SortedFacts DEF TakenLow
<1>2. /\ x \in TreeNodes /\ x # NIL /\ Ordered(t, x) /\ x \in LowSide(t)
      /\ t.PageNumber[x] < rho(t)
      /\ t.right[x] \in LowSide(t) \cup {NIL} /\ t.left[x] \in LowSide(t) \cup {NIL}
      /\ Heir(t, x) \in LowSide(t) \cup {NIL}
      /\ u \in Trees /\ u.PageNumber = t.PageNumber /\ rho(u) = rho(t)
      /\ q \in TreeNodes
  BY TakenLowFacts
<1>3. LowSide(u) \subseteq LowSide(t) /\ Highs(u) \subseteq Highs(t)
  BY TakenLowLow, TakenLowHigh
<1>4. ASSUME NEW n \in TreeNodes PROVE Kids(u)[n] \ LowSide(t) = Kids(t)[n] \ LowSide(t)
  <2>1. ASSUME NEW c \in Kids(u)[n], c \notin LowSide(t) PROVE c \in Kids(t)[n]
    <3>1. c \in TreeNodes /\ c # NIL
      BY <2>1, <1>1, SpliceKids, NilIsNoNode
    <3> QED
      BY <2>1, <3>1, <1>1, <1>2, SpliceKids
  <2>2. ASSUME NEW c \in Kids(t)[n], c \notin LowSide(t) PROVE c \in Kids(u)[n]
    <3>1. c \in TreeNodes /\ c # NIL /\ (c = t.left[n] \/ c = t.right[n])
      BY <2>2, <1>1, KidsOf DEF Graph
    <3>2. c # x
      BY <2>2, <1>2
    <3>3. c = t.left[n] => n # t.right[x]
      <4>1. SUFFICES ASSUME c = t.left[n], n = t.right[x] PROVE c \in LowSide(t)
        BY <2>2
      <4>2. n \in LowSide(t) /\ c \in LowKids(t)[n]
        BY <4>1, <3>1, <1>1, <1>2, KidsOf, NilIsNoNode
      <4> QED
        BY <4>2, <3>1, FromStep DEF LowSide
    <3>4. n = q => /\ t.PageNumber[x] < t.PageNumber[q] => t.left[q] = x
                   /\ ~ (t.PageNumber[x] < t.PageNumber[q]) => t.right[q] = x
      BY <1>1, <1>2, SpliceNodes, NilIsNoNode
    <3>5. c = u.left[n] \/ c = u.right[n]
      BY <3>1, <3>2, <3>3, <3>4, <1>1 DEF Spliced
    <3> QED
      BY <3>1, <3>5, <1>2, KidsOf
  <2> QED
    BY <2>1, <2>2
<1>5. SUFFICES ASSUME NEW g \in LowSide(u) \ Lows(u), NEW y \in Highs(u), g # y,
                      NEW v \in Off(u, u.right[g]), v \in Under(u, u.right[y])
               PROVE  y \in Off(u, u.right[g])
  BY DEF LostWhole
<1>6. y \in Highs(t) /\ v \in Under(t, t.right[y])
  BY <1>3, <1>5, TakenLowOrder
<1>7. g \in TreeNodes /\ g \in LowSide(t) /\ g \notin Lows(t)
  <2>1. g \in LowSide(t) /\ ~ (t.PageNumber[g] < rho(t))
    BY <1>2, <1>3, <1>5 DEF Lows
  <2> QED
    BY <2>1, FromNodes DEF LowSide, Lows
<1>8. u.right[g] = t.right[g] /\ t.right[g] \in TreeNodes \cup {NIL}
  <2>1. ~ (t.PageNumber[g] < rho(t))
    BY <1>7 DEF Lows
  <2>2. t.PageNumber[x] < t.PageNumber[g]
    <3>1. t.PageNumber[x] \in Nat /\ t.PageNumber[g] \in Nat /\ rho(t) \in Nat
      BY <1>1, <1>2, <1>7, LowSideIsUnder, TreeTypes DEF rho
    <3> QED
      BY <3>1, <2>1, <1>2
  <2> QED
    BY <2>2, <1>1, <1>7, TreeTypes DEF Spliced
<1> QED
  BY <1>1, <1>2, <1>3, <1>4, <1>5, <1>6, <1>7, <1>8, LostStays

LEMMA TakenLowSorted ==
  ASSUME NEW t, NEW u, NEW x, NEW q, TakenLow(t, u, x, q)
  PROVE  Sorted(u)
<1>1. u \in Trees /\ u.root # NIL
  BY TakenLowFacts, SortedFacts DEF TakenLow
<1>2. Ranked(u)
  BY TakenLowFacts, SortedFacts, SpliceRanked DEF TakenLow
<1>3. RootOnce(u)
  <2>1. /\ RootOnce(t) /\ rho(u) = rho(t) /\ u.PageNumber = t.PageNumber /\ t \in Trees
        /\ t.root \in TreeNodes /\ x \in TreeNodes
        /\ \A m \in Under(t, t.left[x]) : t.PageNumber[m] < rho(t)
    BY TakenLowFacts, SortedFacts, LowSideIsUnder DEF TakenLow
  <2>2. ASSUME NEW n \in Shown(t, x) PROVE t.PageNumber[n] # rho(t)
    <3>1. n \in TreeNodes /\ t.PageNumber[n] < rho(t)
      BY <2>1, <2>2, ShownIsUnder, UnderNodes
    <3> QED
      BY <3>1, <2>1, TreeTypes DEF rho
  <2> QED
    BY <2>1, <2>2, TakenLowLow, TakenLowHigh DEF RootOnce
<1> QED
  BY <1>1, <1>2, <1>3, TakenLowOrder, TakenLowApart, TakenLowLost DEF Sorted

----------------------------------------------------------------------------
(* Taking a node of the high side out *)

TakenHigh(t, u, x, q) ==
  /\ Sorted(t) /\ Spliced(t, u, x, q) /\ x \in Highs(t)
  /\ q = t.root \/ q \in HighSide(t)

LEMMA TakenHighFacts ==
  ASSUME NEW t, NEW u, NEW x, NEW q, TakenHigh(t, u, x, q)
  PROVE  /\ u \in Trees /\ u.root = t.root /\ u.PageNumber = t.PageNumber /\ rho(u) = rho(t)
         /\ x \in TreeNodes /\ x # NIL /\ x \in HighSide(t) /\ Ordered(t, x)
         /\ rho(t) < t.PageNumber[x]
         /\ t.left[x] \in HighSide(t) \cup {NIL} /\ t.right[x] \in HighSide(t) \cup {NIL}
         /\ Heir(t, x) \in HighSide(t) \cup {NIL}
         /\ \A m \in Under(t, t.right[x]) : rho(t) < t.PageNumber[m]
         /\ Under(t, t.right[x]) \subseteq Highs(t)
         /\ Under(t, t.right[x]) \cap LowSide(t) = {}
         /\ q # NIL /\ q \in TreeNodes
<1>1. /\ t \in Trees /\ x \in TreeNodes /\ x \in HighSide(t) /\ Ordered(t, x)
      /\ rho(t) < t.PageNumber[x] /\ x # NIL
  BY SortedFacts, NilIsNoNode DEF TakenHigh
<1>2. u \in Trees /\ u.root = t.root /\ u.PageNumber = t.PageNumber /\ rho(u) = rho(t)
  BY DEF TakenHigh, Spliced, rho
<1>3. t.left[x] \in HighSide(t) \cup {NIL} /\ t.right[x] \in HighSide(t) \cup {NIL}
  <2>1. \A c \in {t.left[x], t.right[x]} : c # NIL => c \in TreeNodes /\ c \in HighKids(t)[x]
    BY <1>1, TreeTypes, KidsOf
  <2> QED
    BY <2>1, <1>1, FromStep DEF HighSide
<1>4. \A m \in Under(t, t.right[x]) : rho(t) < t.PageNumber[m]
  <2>1. \A m \in Under(t, t.right[x]) : t.PageNumber[x] < t.PageNumber[m] /\ m \in TreeNodes
    BY <1>1, UnderNodes DEF Ordered
  <2>2. rho(t) \in Nat /\ \A m \in TreeNodes : t.PageNumber[m] \in Nat
    BY <1>1, SortedFacts, TreeTypes DEF TakenHigh, rho
  <2> QED
    BY <2>1, <2>2, <1>1
<1>5. Under(t, t.right[x]) \subseteq Highs(t)
  <2>1. CASE t.right[x] = NIL
    BY <2>1, UnderNodes
  <2>2. CASE t.right[x] # NIL
    BY <2>2, <1>1, <1>3, <1>4, AllHigh
  <2> QED
    BY <2>1, <2>2
<1>6. q # NIL /\ q \in TreeNodes
  BY SortedFacts, LowSideIsUnder, NilIsNoNode DEF TakenHigh
<1>7. Under(t, t.right[x]) \cap LowSide(t) = {}
  BY SortedFacts DEF TakenHigh, HighsApart
<1> QED
  BY <1>1, <1>2, <1>3, <1>4, <1>5, <1>6, <1>7 DEF Heir

LEMMA TakenHighEdge ==
  ASSUME NEW t, NEW u, NEW x, NEW q, TakenHigh(t, u, x, q)
  PROVE  /\ q = t.root => t.right[t.root] = x /\ u.right[t.root] = Heir(t, x)
         /\ q # t.root => x \in HighKids(t)[q] /\ u.right[t.root] = t.right[t.root]
         /\ u.left[t.root] = t.left[t.root]
<1>1. t \in Trees /\ t.root # NIL /\ Ranked(t) /\ Spliced(t, u, x, q)
  BY SortedFacts DEF TakenHigh
<1>2. /\ x \in TreeNodes /\ x # NIL /\ Ordered(t, x) /\ rho(t) < t.PageNumber[x]
      /\ q # NIL /\ q \in TreeNodes /\ x \in HighSide(t)
  BY TakenHighFacts
<1>3. /\ t.PageNumber[x] < t.PageNumber[q] => t.left[q] = x
      /\ ~ (t.PageNumber[x] < t.PageNumber[q]) => t.right[q] = x
  BY <1>1, <1>2, SpliceNodes
<1>4. t.root \in TreeNodes /\ t.root # t.right[x]
  <2>1. t.root \in TreeNodes /\ x \in Under(t, t.right[t.root])
    BY <1>1, <1>2, LowSideIsUnder
  <2>2. t.root \notin Under(t, t.right[t.root])
    BY <2>1, <1>1, NotUnderItsKid
  <2>3. t.right[x] # NIL => t.right[x] \in Under(t, x)
    BY <1>1, <1>2, KidIsUnder
  <2> QED
    BY <2>1, <2>2, <2>3, <1>1, UnderTrans, NilIsNoNode
<1>5. t.PageNumber[x] \in Nat /\ t.PageNumber[q] \in Nat /\ rho(t) \in Nat
  BY <1>1, <1>2, <1>4, TreeTypes DEF rho
<1>6. q = t.root => ~ (t.PageNumber[x] < t.PageNumber[q])
  BY <1>2, <1>5 DEF rho
<1>7. q = t.root => t.right[t.root] = x /\ u.right[t.root] = Heir(t, x) /\ u.left[t.root] = t.left[t.root]
  BY <1>1, <1>2, <1>3, <1>4, <1>6 DEF Spliced
<1>8. q # t.root => x \in HighKids(t)[q]
  BY <1>5, <1>1, <1>2, <1>3, KidsOf
<1>9. q # t.root => u.left[t.root] = t.left[t.root] /\ u.right[t.root] = t.right[t.root]
  BY <1>1, <1>4 DEF Spliced
<1> QED
  BY <1>7, <1>8, <1>9

\* Nodes of the high side other than the ones with the page of the root are in order.
LEMMA HighInOrder ==
  ASSUME NEW t, Sorted(t), NEW n \in LowSide(t) \cup HighSide(t)
  PROVE  /\ n \in LowSide(t) => n \in Lows(t) \/ rho(t) < t.PageNumber[n]
         /\ n \in HighSide(t) => n \in Highs(t) \/ t.PageNumber[n] < rho(t)
         /\ n \in LowSide(t) /\ n \in HighSide(t) => Ordered(t, n)
<1>1. n \in TreeNodes /\ t \in Trees /\ t.root \in TreeNodes
  BY SortedFacts, LowSideIsUnder
<1>2. t.PageNumber[n] # rho(t) /\ t.PageNumber[n] \in Nat /\ rho(t) \in Nat
  BY <1>1, SortedFacts, TreeTypes DEF RootOnce, rho
<1> QED
  BY <1>2, SortedFacts DEF Lows, Highs

\* The high side loses x and gains nothing.
LEMMA TakenHighHigh ==
  ASSUME NEW t, NEW u, NEW x, NEW q, TakenHigh(t, u, x, q)
  PROVE  HighSide(u) \subseteq HighSide(t) \ {x} /\ Highs(u) \subseteq Highs(t) \ {x}
<1> DEFINE S == HighSide(t) \ {x}
           s == t.right[t.root]
<1>1. /\ t \in Trees /\ t.root # NIL /\ Ranked(t) /\ Spliced(t, u, x, q) /\ InOrderOf(t)
      /\ Branching(t, HighKids(t), s)
      /\ \A n \in Highs(t) : Ordered(t, n)
  BY SortedFacts, SidesBranch DEF TakenHigh
<1>2. /\ u \in Trees /\ u.root = t.root /\ u.PageNumber = t.PageNumber /\ rho(u) = rho(t)
      /\ x \in TreeNodes /\ x # NIL /\ Ordered(t, x) /\ x \in HighSide(t)
      /\ q # NIL /\ q \in TreeNodes /\ rho(t) < t.PageNumber[x]
      /\ t.left[x] \in HighSide(t) \cup {NIL} /\ Heir(t, x) \in HighSide(t) \cup {NIL}
  BY TakenHighFacts
<1>3. /\ q = t.root => s = x /\ u.right[t.root] = Heir(t, x)
      /\ q # t.root => x \in HighKids(t)[q] /\ u.right[t.root] = s
      /\ q = t.root \/ q \in HighSide(t)
  BY TakenHighEdge DEF TakenHigh
<1>4. s \in TreeNodes /\ HighSide(t) \subseteq TreeNodes
  BY <1>1, <1>2, FromNil, TreeTypes, FromNodes DEF HighSide
<1>5. Heir(t, x) # x /\ t.left[x] # x
  BY <1>1, <1>2, KidIsUnder, SpliceNodes DEF Heir
<1>6. u.right[t.root] \in S \cup {NIL}
  <2>1. CASE q = t.root
    BY <2>1, <1>2, <1>3, <1>5
  <2>2. CASE q # t.root
    <3>1. s # x
      BY <2>2, <1>1, <1>3, <1>4, StartHasNoParent DEF HighSide
    <3> QED
      BY <2>2, <3>1, <1>3, <1>4, FromItself DEF HighSide
  <2> QED
    BY <2>1, <2>2
<1>7. q # t.root => x \notin HighKids(u)[q]
  <2>1. SUFFICES ASSUME q # t.root, x \in HighKids(u)[q] PROVE FALSE
    OBVIOUS
  <2>2. q \in HighSide(t) /\ q # t.right[x]
    BY <2>1, <1>1, <1>2, <1>3, SpliceNodes
  <2>3. x = u.right[q] \/ (x = u.left[q] /\ rho(t) < t.PageNumber[q])
    BY <2>1, <1>2, KidsOf
  <2>4. t.left[q] = x /\ t.right[q] = x /\ rho(t) < t.PageNumber[q]
    <3>1. t.PageNumber[x] \in Nat /\ t.PageNumber[q] \in Nat /\ rho(t) \in Nat
      BY <1>1, <1>2, TreeTypes DEF rho
    <3>2. /\ t.PageNumber[x] < t.PageNumber[q] => t.left[q] = x
          /\ ~ (t.PageNumber[x] < t.PageNumber[q]) => t.right[q] = x
      BY <1>1, <1>2, SpliceNodes
    <3> QED
      BY <2>2, <2>3, <3>1, <3>2, <1>1, <1>2, <1>5 DEF Spliced
  <2>5. Ordered(t, q)
    BY <2>2, <2>4, <1>1 DEF Highs
  <2> QED
    BY <2>4, <2>5, <1>1, <1>2, UnderItself, OneSide
<1>8. ASSUME NEW m \in S, NEW c \in HighKids(u)[m] PROVE c \in S
  <2>1. m \in TreeNodes /\ m \in HighSide(t) /\ c \in TreeNodes /\ c # NIL
    BY <1>2, <1>4, <1>8, KidsOf DEF Graph
  <2>2. CASE c \in HighKids(t)[m]
    <3>1. c \in HighSide(t)
      BY <2>1, <2>2, FromStep DEF HighSide
    <3>2. SUFFICES ASSUME c = x PROVE FALSE
      BY <3>1
    <3>3. q # t.root
      BY <2>1, <2>2, <3>2, <1>1, <1>3, <1>4, StartHasNoParent DEF HighSide
    <3>4. m = q
      BY <2>1, <2>2, <3>2, <3>3, <1>1, <1>3, <1>4, OneParent DEF HighSide
    <3> QED
      BY <3>2, <3>3, <3>4, <1>7, <1>8
  <2>3. CASE c = Heir(t, x) \/ c = t.left[x]
    BY <2>1, <2>3, <1>2, <1>5
  <2> QED
    BY <2>1, <2>2, <2>3, <1>1, <1>2, <1>8, SpliceSideKids
<1>9. S \in SUBSET TreeNodes
  BY <1>4
<1> HIDE DEF S
<1>10. HighSide(u) \subseteq S
  <2>1. HighSide(u) = From(HighKids(u), u.right[t.root])
    BY <1>2 DEF HighSide
  <2>2. From(HighKids(u), u.right[t.root]) \subseteq S
    BY <1>6, <1>8, <1>9, FromWithin
  <2> QED
    BY <2>1, <2>2
<1> QED
  BY <1>2, <1>10 DEF S, Highs

\* It keeps what does not hang on x, and the heir.
LEMMA HighStays ==
  ASSUME NEW t, NEW u, NEW x, NEW q, TakenHigh(t, u, x, q)
  PROVE  /\ \A n \in HighSide(t) : n \in HighSide(u) \/ n \in Under(t, x)
         /\ q = t.root \/ q \in HighSide(u)
         /\ t.right[x] \in HighSide(u) \cup {NIL}
<1> DEFINE S == {n \in HighSide(t) : n \in HighSide(u) \/ n \in Under(t, x)}
           s == t.right[t.root]
<1>1. /\ t \in Trees /\ t.root # NIL /\ Ranked(t) /\ Spliced(t, u, x, q)
  BY SortedFacts DEF TakenHigh
<1>2. /\ u \in Trees /\ u.root = t.root /\ u.PageNumber = t.PageNumber /\ rho(u) = rho(t)
      /\ x \in TreeNodes /\ x # NIL /\ Ordered(t, x) /\ x \in HighSide(t)
      /\ rho(t) < t.PageNumber[x] /\ q # NIL /\ q \in TreeNodes
  BY TakenHighFacts
<1>3. /\ q = t.root => s = x /\ u.right[t.root] = Heir(t, x)
      /\ q # t.root => x \in HighKids(t)[q] /\ u.right[t.root] = s
      /\ q = t.root \/ q \in HighSide(t)
  BY TakenHighEdge DEF TakenHigh
<1>4. s \in TreeNodes /\ HighSide(t) \subseteq TreeNodes /\ x \in Under(t, x)
  BY <1>1, <1>2, FromNil, TreeTypes, FromNodes, UnderItself DEF HighSide
<1>5. s \in S
  <2>1. s \in HighSide(t)
    BY <1>4, FromItself DEF HighSide
  <2>2. q # t.root => s \in HighSide(u)
    BY <1>2, <1>3, <1>4, FromItself DEF HighSide
  <2> QED
    BY <2>1, <2>2, <1>3, <1>4
<1>6. ASSUME NEW m \in S, NEW c \in HighKids(t)[m] PROVE c \in S
  <2>1. m \in TreeNodes /\ c \in TreeNodes /\ c # NIL /\ c \in {t.left[m], t.right[m]}
    BY <1>1, <1>4, <1>6, KidsOf DEF Graph
  <2>2. c \in HighSide(t)
    BY <2>1, <1>6, FromStep DEF HighSide
  <2>3. CASE m \in Under(t, x)
    BY <2>1, <2>2, <2>3, <1>1, KidIsUnder, UnderTrans
  <2>4. CASE c = x
    BY <2>2, <2>4, <1>4
  <2>5. CASE m \notin Under(t, x) /\ c # x
    <3>1. m \in HighSide(u)
      BY <2>5, <1>6
    <3>2. m # t.right[x]
      BY <2>1, <2>5, <1>1, <1>2, KidIsUnder, NilIsNoNode
    <3>3. m = q => /\ t.PageNumber[x] < t.PageNumber[q] => t.left[q] = x
                   /\ ~ (t.PageNumber[x] < t.PageNumber[q]) => t.right[q] = x
      BY <1>1, <1>2, SpliceNodes
    <3>4. (c = t.left[m] => c = u.left[m]) /\ (c = t.right[m] => c = u.right[m])
      BY <2>1, <2>5, <3>2, <3>3, <1>1 DEF Spliced
    <3>5. c \in HighKids(u)[m]
      BY <2>1, <3>4, <1>1, <1>2, <1>6, KidsOf
    <3> QED
      BY <2>1, <2>2, <3>1, <3>5, FromStep DEF HighSide
  <2> QED
    BY <2>3, <2>4, <2>5
<1>7. S \in SUBSET TreeNodes
  BY <1>4
<1> HIDE DEF S
<1>8. HighSide(t) \subseteq S
  BY <1>5, <1>6, <1>7, FromWithin DEF HighSide
<1> USE DEF S
<1>9. q = t.root \/ q \in HighSide(u)
  BY <1>1, <1>2, <1>3, <1>8, SpliceNodes
<1>10. ASSUME t.right[x] # NIL PROVE t.right[x] \in HighSide(u)
  <2>1. Heir(t, x) = t.right[x] /\ t.right[x] \in TreeNodes
    BY <1>1, <1>2, <1>10, TreeTypes DEF Heir
  <2>2. CASE q = t.root
    BY <2>1, <2>2, <1>2, <1>3, FromItself DEF HighSide
  <2>3. CASE q # t.root
    <3>1. /\ t.PageNumber[x] \in Nat /\ t.PageNumber[q] \in Nat /\ rho(t) \in Nat
      BY <1>1, <1>2, LowSideIsUnder, TreeTypes DEF rho
    <3>2. /\ t.PageNumber[x] < t.PageNumber[q] => u.left[q] = t.right[x]
          /\ ~ (t.PageNumber[x] < t.PageNumber[q]) => u.right[q] = t.right[x]
      BY <2>1, <1>1, <1>2 DEF Spliced
    <3>3. t.right[x] \in HighKids(u)[q]
      BY <3>1, <3>2, <1>2, <1>10, KidsOf
    <3> QED
      BY <2>1, <2>3, <3>3, <1>9, FromStep DEF HighSide
  <2> QED
    BY <2>2, <2>3
<1> QED
  BY <1>8, <1>9, <1>10

\* The left child of the heir, which is given up for that of x, is lost for the high side
\* with what hangs on it.
LEMMA HighGivenUp ==
  ASSUME NEW t, NEW u, NEW x, NEW q, TakenHigh(t, u, x, q), t.left[x] # NIL, t.right[x] # NIL
  PROVE  HighSide(u) \cap Under(t, t.left[t.right[x]]) = {}
<1> DEFINE r  == t.right[x]
           m0 == t.left[r]
           S  == {n \in HighSide(t) : n \notin Under(t, m0)}
           s  == t.right[t.root]
<1>1. /\ t \in Trees /\ t.root # NIL /\ Ranked(t) /\ Spliced(t, u, x, q) /\ InOrderOf(t)
      /\ Branching(t, HighKids(t), s)
      /\ \A n \in Highs(t) : Ordered(t, n) /\ n \in HighSide(t) /\ rho(t) < t.PageNumber[n]
  BY SortedFacts, SidesBranch DEF TakenHigh
<1>2. /\ u \in Trees /\ u.root = t.root /\ u.PageNumber = t.PageNumber /\ rho(u) = rho(t)
      /\ x \in TreeNodes /\ x # NIL /\ Ordered(t, x) /\ x \in HighSide(t)
      /\ q # NIL /\ q \in TreeNodes /\ rho(t) < t.PageNumber[x]
      /\ Under(t, r) \subseteq Highs(t)
  BY TakenHighFacts
<1>3. /\ q = t.root => u.right[t.root] = r
      /\ q # t.root => u.right[t.root] = s
  BY TakenHighEdge DEF Heir
<1>4. /\ s \in TreeNodes /\ HighSide(t) \subseteq TreeNodes
      /\ HighSide(t) \subseteq Under(t, s) /\ r \in TreeNodes /\ r \in Under(t, r)
  BY <1>1, <1>2, FromNil, TreeTypes, LowSideIsUnder, KidIsUnder DEF HighSide
<1>5. /\ r \in Highs(t) /\ Ordered(t, r) /\ r \in HighSide(t) /\ rho(t) < t.PageNumber[r]
      /\ r \notin Under(t, m0) /\ Under(t, m0) \subseteq Under(t, r)
      /\ Under(t, r) \subseteq Under(t, x) /\ x \notin Under(t, r)
      /\ m0 \in TreeNodes \cup {NIL}
  BY <1>1, <1>2, <1>4, NotUnderItsKid, HeirIsUnder, TreeTypes
<1>6. s \notin Under(t, m0)
  <2>1. SUFFICES ASSUME s \in Under(t, m0) PROVE FALSE
    OBVIOUS
  <2>2. x \in Under(t, m0)
    BY <2>1, <1>1, <1>2, <1>4, UnderTrans
  <2> QED
    BY <2>2, <1>5
<1>7. u.right[t.root] \in S
  BY <1>3, <1>4, <1>5, <1>6, FromItself DEF HighSide
<1>8. ASSUME NEW m \in S, NEW c \in HighKids(u)[m], c \in Under(t, m0) PROVE FALSE
  <2>1. m \in TreeNodes /\ c \in TreeNodes /\ c # NIL /\ m \in HighSide(t) /\ m \notin Under(t, m0)
    BY <1>2, <1>4, <1>8, KidsOf DEF Graph
  <2>2. m0 \in TreeNodes /\ m0 # NIL /\ m0 \in Under(t, m0)
    BY <1>5, <1>8, UnderNodes, UnderItself, NilIsNoNode, <1>1
  <2>3. m0 \in HighKids(t)[r]
    BY <2>2, <1>1, <1>4, <1>5, KidsOf
  <2>4. m0 \in HighSide(t)
    BY <2>2, <2>3, <1>5, FromStep DEF HighSide
  <2>5. CASE c \in HighKids(t)[m]
    <3>1. c \in {t.left[m], t.right[m]} /\ c \in Under(t, m) /\ c \in Under(t, c)
      BY <2>1, <2>5, <1>1, KidsOf, KidIsUnder
    <3>2. m0 \in From(HighKids(t), m)
      <4>1. m \in From(HighKids(t), m0) \/ m0 \in From(HighKids(t), m)
        BY <2>1, <2>4, <3>1, <1>1, <1>8, HighsAreApart
      <4> QED
        BY <4>1, <2>1, <2>2, <1>1, FromIsUnder, KidsOf
    <3>3. PICK k \in HighKids(t)[m] : m0 \in From(HighKids(t), k)
      BY <2>1, <2>2, <3>2, <1>1, FromFirst, KidsOf
    <3>4. k \in TreeNodes /\ k # NIL /\ k \in {t.left[m], t.right[m]} /\ m0 \in Under(t, k)
      BY <2>1, <3>3, <1>1, KidsOf, FromIsUnder DEF Graph
    <3>5. CASE k = c
      <4>1. c = m0
        BY <2>1, <2>2, <3>4, <3>5, <1>1, <1>8, NoCircle
      <4>2. m = r
        BY <2>1, <2>3, <2>5, <4>1, <1>1, <1>4, <1>5, OneParent DEF HighSide
      <4>3. c = u.left[r] \/ c = u.right[r]
        BY <2>1, <4>2, <1>2, <1>8, KidsOf
      <4>4. u.left[r] = t.left[x] /\ u.right[r] = t.right[r]
        BY <1>1, <1>2, <1>4, SpliceNodes DEF Spliced
      <4>5. CASE c = t.left[x]
        <5>1. c \in Under(t, t.left[x]) /\ c \in Under(t, r)
          BY <2>1, <4>5, <1>1, <1>5, <1>8, UnderItself
        <5> QED
          BY <5>1, <1>1, <1>2, OneSide
      <4>6. CASE c = t.right[r]
        BY <4>1, <4>6, <2>2, <1>1, <1>4, <1>5, OneSide
      <4> QED
        BY <4>3, <4>4, <4>5, <4>6
    <3>6. CASE k # c
      <4>1. Ordered(t, m)
        BY <2>1, <2>5, <3>3, <3>6, <1>1 DEF Branching, HighSide
      <4>2. c \in Under(t, k)
        BY <3>4, <1>1, <1>8, UnderTrans
      <4> QED
        BY <2>1, <3>1, <3>4, <3>6, <4>1, <4>2, <1>1, OneSide
    <3> QED
      BY <3>5, <3>6
  <2>6. CASE c = Heir(t, x)
    BY <2>6, <1>5, <1>8 DEF Heir
  <2>7. CASE c = t.left[x]
    <3>1. c \in Under(t, t.left[x]) /\ c \in Under(t, r)
      BY <2>1, <2>7, <1>1, <1>5, <1>8, UnderItself
    <3> QED
      BY <3>1, <1>1, <1>2, OneSide
  <2> QED
    BY <2>1, <2>5, <2>6, <2>7, <1>1, <1>2, <1>8, SpliceSideKids
<1>9. \A m \in S : HighKids(u)[m] \subseteq S
  <2> SUFFICES ASSUME NEW m \in S, NEW c \in HighKids(u)[m] PROVE c \in S
    OBVIOUS
  <2>1. m \in HighSide(t) /\ m \in TreeNodes /\ c \in TreeNodes
    BY <1>2, <1>4, KidsOf DEF Graph
  <2>2. c \in HighSide(t)
    <3>1. c \in HighKids(t)[m] => c \in HighSide(t)
      BY <2>1, FromStep DEF HighSide
    <3>2. t.left[x] \in HighSide(t) \cup {NIL} /\ Heir(t, x) \in HighSide(t) \cup {NIL} /\ c # NIL
      BY <2>1, TakenHighFacts, NilIsNoNode
    <3> QED
      BY <2>1, <3>1, <3>2, <1>1, <1>2, SpliceSideKids
  <2> QED
    BY <2>2, <1>8
<1>10. S \in SUBSET TreeNodes
  BY <1>4
<1> HIDE DEF S
<1>11. HighSide(u) \subseteq S
  <2>1. HighSide(u) = From(HighKids(u), u.right[t.root])
    BY <1>2 DEF HighSide
  <2>2. From(HighKids(u), u.right[t.root]) \subseteq S
    BY <1>7, <1>9, <1>10, FromWithin
  <2> QED
    BY <2>1, <2>2
<1> QED
  BY <1>11 DEF S

\* Whether the edge to x is one of the low side, too.
LowEdge(t, x, q) == q \in LowSide(t) /\ x \in LowKids(t)[q]

\* The low side loses at most x.
LEMMA LowStays ==
  ASSUME NEW t, NEW u, NEW x, NEW q, TakenHigh(t, u, x, q)
  PROVE  /\ LowSide(t) \ {x} \subseteq LowSide(u)
         /\ ~ LowEdge(t, x, q) => LowSide(u) = LowSide(t)
<1> DEFINE s == t.left[t.root]
           S == {n \in LowSide(t) : /\ n # x \/ ~ LowEdge(t, x, q) => n \in LowSide(u)
                                    /\ n = x => t.left[x] \in LowSide(u) \cup {NIL}}
<1>1. /\ t \in Trees /\ t.root # NIL /\ Ranked(t) /\ Spliced(t, u, x, q)
  BY SortedFacts DEF TakenHigh
<1>2. /\ u \in Trees /\ u.root = t.root /\ u.PageNumber = t.PageNumber /\ rho(u) = rho(t)
      /\ x \in TreeNodes /\ x # NIL /\ Ordered(t, x)
      /\ rho(t) < t.PageNumber[x] /\ q # NIL /\ q \in TreeNodes
      /\ Under(t, t.right[x]) \cap LowSide(t) = {}
  BY TakenHighFacts
<1>3. LowSide(t) \subseteq TreeNodes /\ u.left[t.root] = s /\ LowSide(u) = From(LowKids(u), s)
  BY <1>1, <1>2, LowSideIsUnder, TakenHighEdge DEF LowSide
<1>4. ASSUME t.right[x] # NIL PROVE t.right[x] \notin LowSide(t) /\ t.right[x] \in TreeNodes
  BY <1>1, <1>2, <1>4, KidIsUnder
<1>5. /\ x # q /\ x # t.right[x] /\ q # t.right[x]
      /\ t.PageNumber[x] < t.PageNumber[q] => t.left[q] = x
      /\ ~ (t.PageNumber[x] < t.PageNumber[q]) => t.right[q] = x
  BY <1>1, <1>2, SpliceNodes, KidIsUnder
<1>6. /\ u.left[x] = t.left[x] /\ u.right[x] = t.right[x]
      /\ t.left[x] # NIL /\ t.right[x] # NIL => u.left[t.right[x]] = t.left[x]
  BY <1>1, <1>2, <1>4, <1>5 DEF Spliced
<1>7. ASSUME NEW m \in LowSide(u), NEW c \in LowKids(u)[m] PROVE c \in LowSide(u)
  BY <1>2, <1>7, FromClosed, KidsOf DEF LowSide
<1>8. ASSUME x \in LowSide(u) PROVE t.left[x] \in LowSide(u) \cup {NIL}
  <2>1. t.left[x] # NIL => t.left[x] \in LowKids(u)[x]
    BY <1>2, <1>6, KidsOf
  <2> QED
    BY <2>1, <1>7, <1>8
<1>9. s \in S \cup {NIL}
  <2>1. SUFFICES ASSUME s # NIL PROVE s \in S
    OBVIOUS
  <2>2. s \in TreeNodes
    BY <2>1, <1>1, TreeTypes
  <2>3. s \in LowSide(t) /\ s \in LowSide(u)
    BY <2>2, <1>3, FromItself DEF LowSide
  <2> QED
    BY <2>3, <1>8
<1>10. ASSUME NEW m \in S, NEW c \in LowKids(t)[m] PROVE c \in S
  <2>1. m \in LowSide(t) /\ m \in TreeNodes /\ c \in TreeNodes /\ c # NIL
    BY <1>1, <1>3, <1>10, KidsOf DEF Graph
  <2>2. c \in LowSide(t)
    BY <2>1, <1>10, FromStep DEF LowSide
  <2>3. m # t.right[x]
    BY <2>1, <1>4, NilIsNoNode
  <2>4. c = t.left[m] \/ (c = t.right[m] /\ t.PageNumber[m] < rho(t))
    BY <2>1, <1>1, <1>10, KidsOf
  <2>5. CASE m = x
    <3>1. c = t.left[x]
      <4>1. t.PageNumber[x] \in Nat /\ rho(t) \in Nat
        BY <1>1, <1>2, LowSideIsUnder, TreeTypes DEF rho
      <4> QED
        BY <4>1, <2>4, <2>5, <1>2
    <3>2. c \in LowSide(u) /\ c # x
      BY <3>1, <2>1, <2>5, <1>1, <1>2, <1>10, KidIsUnder, SpliceNodes
    <3> QED
      BY <2>2, <3>2
  <2>6. CASE m # x /\ c # x
    <3>1. c \in LowKids(u)[m]
      <4>1. (c = t.left[m] => c = u.left[m]) /\ (c = t.right[m] => c = u.right[m])
        BY <2>1, <2>3, <2>6, <1>1, <1>5 DEF Spliced
      <4> QED
        BY <4>1, <2>1, <2>4, <1>2, KidsOf
    <3>2. m \in LowSide(u)
      BY <2>6, <1>10
    <3> QED
      BY <2>2, <2>6, <3>1, <3>2, <1>7
  <2>7. CASE m # x /\ c = x
    <3>1. m \in LowSide(u)
      BY <2>7, <1>10
    <3>2. CASE x \in LowKids(u)[m]
      <4>1. x \in LowSide(u)
        BY <3>1, <3>2, <1>7
      <4> QED
        BY <4>1, <2>2, <2>7, <1>8
    <3>3. CASE x \notin LowKids(u)[m]
      <4>1. /\ m = q
            /\ Heir(t, x) = u.left[q] \/ (Heir(t, x) = u.right[q] /\ t.PageNumber[q] < rho(t))
        <5>1. ~ (x = u.left[m] \/ (x = u.right[m] /\ t.PageNumber[m] < rho(t)))
          BY <3>3, <2>1, <1>2, KidsOf
        <5>2. (m # q => t.left[m] = u.left[m] /\ t.right[m] = u.right[m])
          BY <2>1, <2>3, <1>1 DEF Spliced
        <5>3. m = q
          BY <5>1, <5>2, <2>4, <2>7
        <5>4. /\ t.PageNumber[x] < t.PageNumber[q] => u.left[q] = Heir(t, x) /\ u.right[q] = t.right[q]
              /\ ~ (t.PageNumber[x] < t.PageNumber[q]) => u.right[q] = Heir(t, x) /\ u.left[q] = t.left[q]
          BY <1>1, <1>2, <1>5 DEF Spliced
        <5> QED
          BY <5>1, <5>3, <5>4, <2>4, <2>7
      <4>2. LowEdge(t, x, q)
        BY <4>1, <2>1, <2>7, <1>10 DEF LowEdge
      <4>3. Heir(t, x) # NIL => Heir(t, x) \in LowSide(u)
        <5>1. Heir(t, x) # NIL => Heir(t, x) \in LowKids(u)[q]
          BY <4>1, <1>2, KidsOf
        <5> QED
          BY <5>1, <4>1, <3>1, <1>7
      <4>4. t.left[x] \in LowSide(u) \cup {NIL}
        <5>1. CASE t.right[x] = NIL
          BY <5>1, <4>3 DEF Heir
        <5>2. CASE t.right[x] # NIL /\ t.left[x] # NIL
          <6>1. t.right[x] \in LowSide(u)
            BY <5>2, <4>3 DEF Heir
          <6>2. t.left[x] \in LowKids(u)[t.right[x]]
            BY <5>2, <1>2, <1>4, <1>6, KidsOf
          <6> QED
            BY <6>1, <6>2, <1>7
        <5> QED
          BY <5>1, <5>2
      <4> QED
        BY <4>2, <4>4, <2>2, <2>7
    <3> QED
      BY <3>2, <3>3
  <2> QED
    BY <2>5, <2>6, <2>7
<1>11. S \in SUBSET TreeNodes
  BY <1>3
<1> HIDE DEF S
<1>12. LowSide(t) \subseteq S
  BY <1>9, <1>10, <1>11, FromWithin, ZenonT(30) DEF LowSide
<1> USE DEF S
<1>13. ASSUME ~ LowEdge(t, x, q) PROVE LowSide(u) \subseteq LowSide(t)
  <2>1. ASSUME NEW m \in LowSide(t), NEW c \in LowKids(u)[m] PROVE c \in LowSide(t)
    <3>1. m \in TreeNodes /\ c \in TreeNodes /\ c # NIL
      BY <2>1, <1>2, <1>3, KidsOf DEF Graph
    <3>2. c \in LowKids(t)[m]
      BY <2>1, <3>1, <1>1, <1>2, <1>4, <1>13, SpliceSideKids, NilIsNoNode DEF LowEdge
    <3> QED
      BY <2>1, <3>1, <3>2, FromStep DEF LowSide
  <2>2. s \in LowSide(t) \cup {NIL}
    BY <1>1, LowSideIsUnder, TreeTypes, FromItself DEF LowSide
  <2>3. LowSide(t) \in SUBSET TreeNodes
    BY <1>3
  <2> DEFINE L == LowSide(t)
  <2>4. L \in SUBSET TreeNodes /\ s \in L \cup {NIL} /\ \A m \in L : LowKids(u)[m] \subseteq L
    BY <2>1, <2>2, <2>3
  <2> HIDE DEF L, S
  <2>5. From(LowKids(u), s) \subseteq L
    BY <2>4, FromWithin, ZenonT(30)
  <2> QED
    BY <2>5, <1>3 DEF L
<1> QED
  BY <1>12, <1>13

\* If the edge is, the low side loses x and gains a left edge of the heir.
LEMMA LowEdgeMoves ==
  ASSUME NEW t, NEW u, NEW x, NEW q, TakenHigh(t, u, x, q), LowEdge(t, x, q)
  PROVE  /\ x \in LowSide(t) /\ x \notin LowSide(u)
         /\ t.right[x] \in LowSide(u) \cup {NIL}
         /\ LowSide(u) \subseteq
              (LowSide(t) \ {x}) \cup (From(LowKids(t), t.right[x]) \cap HighSide(u))
<1> DEFINE s == t.left[t.root]
           r == t.right[x]
           N == From(LowKids(t), r) \cap HighSide(u)
           S == (LowSide(t) \ {x}) \cup N
<1>1. /\ t \in Trees /\ t.root # NIL /\ Ranked(t) /\ Spliced(t, u, x, q) /\ Sorted(t)
      /\ Branching(t, LowKids(t), s)
  BY SortedFacts, SidesBranch DEF TakenHigh
<1>2. /\ u \in Trees /\ u.root = t.root /\ u.PageNumber = t.PageNumber /\ rho(u) = rho(t)
      /\ x \in TreeNodes /\ x # NIL /\ Ordered(t, x)
      /\ rho(t) < t.PageNumber[x] /\ q # NIL /\ q \in TreeNodes
      /\ Under(t, r) \cap LowSide(t) = {} /\ Under(t, r) \subseteq Highs(t)
  BY TakenHighFacts
<1>3. /\ LowSide(t) \subseteq TreeNodes /\ u.left[t.root] = s /\ LowSide(u) = From(LowKids(u), s)
      /\ s \in TreeNodes /\ q \in LowSide(t) /\ x \in LowKids(t)[q]
  BY <1>1, <1>2, LowSideIsUnder, TakenHighEdge, FromNil, TreeTypes DEF LowSide, LowEdge
<1>4. /\ x # q /\ x # r /\ q # r /\ q \notin Under(t, x)
      /\ t.PageNumber[x] < t.PageNumber[q] => t.left[q] = x
      /\ ~ (t.PageNumber[x] < t.PageNumber[q]) => t.right[q] = x
      /\ t.left[x] # x /\ Heir(t, x) # x
  BY <1>1, <1>2, SpliceNodes, KidIsUnder DEF Heir
<1>5. q \in HighSide(t) /\ Ordered(t, q)
  BY <1>1, <1>3, LowSideIsUnder, HighInOrder DEF TakenHigh
<1>6. t.left[q] # t.right[q] /\ x \in LowSide(t)
  BY <1>1, <1>2, <1>3, <1>4, <1>5, UnderItself, OneSide, FromStep DEF LowSide
<1>7. t.left[x] \in LowSide(t) \cup {NIL}
  <2>1. t.left[x] # NIL => t.left[x] \in LowKids(t)[x] /\ t.left[x] \in TreeNodes
    BY <1>1, <1>2, KidsOf, TreeTypes
  <2> QED
    BY <2>1, <1>6, FromStep DEF LowSide
<1>8. ASSUME NEW m \in LowSide(t), x \in LowKids(u)[m] PROVE FALSE
  <2>1. m \in TreeNodes
    BY <1>3, <1>8
  <2>2. x \in LowKids(t)[m]
    BY <2>1, <1>1, <1>2, <1>4, <1>8, SpliceSideKids
  <2>3. m = q
    BY <2>2, <1>1, <1>3, <1>8, OneParent DEF LowSide
  <2>4. x = u.left[q] \/ (x = u.right[q] /\ t.PageNumber[q] < rho(t))
    BY <2>3, <1>2, <1>8, KidsOf
  <2>5. /\ t.PageNumber[x] < t.PageNumber[q] => u.left[q] = Heir(t, x) /\ u.right[q] = t.right[q]
        /\ ~ (t.PageNumber[x] < t.PageNumber[q]) => u.right[q] = Heir(t, x) /\ u.left[q] = t.left[q]
    BY <1>1, <1>2, <1>4 DEF Spliced
  <2> QED
    BY <2>4, <2>5, <1>4, <1>6
<1>9. ASSUME r # NIL PROVE r \in LowSide(u) /\ r \in N /\ r \in TreeNodes
  <2>1. r \in TreeNodes /\ Heir(t, x) = r
    BY <1>1, <1>2, <1>9, TreeTypes DEF Heir
  <2>2. q \in LowSide(u)
    BY <1>3, <1>4, LowStays
  <2>3. r \in LowKids(u)[q]
    <3>1. x = t.left[q] \/ (x = t.right[q] /\ t.PageNumber[q] < rho(t))
      BY <1>1, <1>2, <1>3, KidsOf
    <3>2. /\ t.PageNumber[x] < t.PageNumber[q] => u.left[q] = r
          /\ ~ (t.PageNumber[x] < t.PageNumber[q]) => u.right[q] = r
      BY <2>1, <1>1, <1>2, <1>4 DEF Spliced
    <3> QED
      BY <3>1, <3>2, <1>2, <1>4, <1>6, <1>9, KidsOf
  <2>4. r \in LowSide(u)
    BY <2>1, <2>2, <2>3, FromStep DEF LowSide
  <2>5. r \in N
    BY <2>1, <1>9, HighStays, FromItself
  <2> QED
    BY <2>1, <2>4, <2>5
<1>10. s # x
  BY <1>1, <1>3, StartHasNoParent DEF LowSide
<1>11. s \in S
  BY <1>3, <1>10, FromItself DEF LowSide
<1>12. /\ From(LowKids(t), r) \subseteq Under(t, r) /\ Under(t, r) \subseteq Under(t, x)
       /\ x \notin Under(t, r) /\ Under(t, r) \subseteq TreeNodes
  BY <1>1, <1>2, ShownIsUnder, HeirIsUnder, SpliceNodes, UnderNodes
<1>13. ASSUME NEW m \in S, NEW c \in LowKids(u)[m] PROVE c \in S
  <2>1. m \in TreeNodes /\ c \in TreeNodes /\ c # NIL
    BY <1>2, <1>3, <1>12, <1>13, KidsOf DEF Graph
  <2>2. CASE m \in LowSide(t)
    <3>1. c # x
      BY <2>2, <1>8, <1>13
    <3>2. CASE c \in LowKids(t)[m]
      BY <2>1, <2>2, <3>1, <3>2, FromStep DEF LowSide
    <3>3. CASE c = Heir(t, x) \/ c = t.left[x]
      BY <2>1, <3>1, <3>3, <1>7, <1>9 DEF Heir
    <3> QED
      BY <2>1, <3>2, <3>3, <1>1, <1>2, <1>13, SpliceSideKids
  <2>3. CASE m \in N
    <3>1. m # q /\ rho(t) < t.PageNumber[m] /\ m \in HighSide(u)
      BY <2>3, <1>2, <1>4, <1>12 DEF Highs
    <3>2. c \in HighSide(u)
      <4>1. c \in HighKids(u)[m]
        BY <2>1, <3>1, <1>2, <1>13, KidsOf
      <4> QED
        BY <2>1, <3>1, <4>1, FromStep DEF HighSide
    <3>3. CASE c \in LowKids(t)[m]
      BY <2>1, <2>3, <3>2, <3>3, FromStep
    <3>4. CASE c = t.left[x]
      BY <2>1, <3>4, <1>4, <1>7
    <3> QED
      BY <2>1, <3>1, <3>3, <3>4, <1>1, <1>2, <1>13, SpliceSideKids
  <2> QED
    BY <2>2, <2>3, <1>13
<1>14. S \in SUBSET TreeNodes
  BY <1>3, <1>12
<1>15. x \notin S
  BY <1>12
<1> HIDE DEF S
<1>16. LowSide(u) \subseteq S
  <2>1. \A m \in S : LowKids(u)[m] \subseteq S
    BY <1>13
  <2>2. From(LowKids(u), s) \subseteq S
    BY <2>1, <1>11, <1>14, FromWithin
  <2> QED
    BY <2>2, <1>3
<1> QED
  BY <1>6, <1>9, <1>15, <1>16 DEF S

\* What hangs on a node of the low side has no part of what hangs on the right of x
\* without having x.
LEMMA LowMeets ==
  ASSUME NEW t, Sorted(t), NEW y \in LowSide(t), NEW x \in Highs(t),
         NEW v \in Under(t, y), v \in Under(t, t.right[x])
  PROVE  x \in Under(t, y)
<1>1. /\ t \in Trees /\ HighsApart(t) /\ LostWhole(t) /\ y \in TreeNodes
      /\ LowSide(t) \subseteq TreeNodes /\ Graph(Kids(t)) /\ Graph(OffKids(t))
  BY SortedFacts, LowSideIsUnder, KidsOf, OffNodes
<1>2. OffKids(t) = [n \in TreeNodes |-> Kids(t)[n] \ LowSide(t)]
  BY DEF OffKids
<1>3. v \in From(Kids(t), y)
  BY DEF Under
<1>4. PICK a \in LowSide(t) : a \in From(Kids(t), y)
               /\ (v = a \/ \E c \in OffKids(t)[a] : v \in From(OffKids(t), c))
  <2>1. ~ (y \notin LowSide(t) /\ v \in From(OffKids(t), y))
    OBVIOUS
  <2> QED
    BY <2>1, <1>1, <1>2, <1>3, LastIn
<1>5. v # a
  BY <1>1 DEF HighsApart
<1>6. PICK c \in OffKids(t)[a] : v \in From(OffKids(t), c)
  BY <1>4, <1>5
<1>7. a \in TreeNodes /\ c \in TreeNodes /\ c \in Kids(t)[a] /\ c \notin LowSide(t)
      /\ c = t.right[a] /\ ~ (t.PageNumber[a] < rho(t)) /\ a \in Under(t, y)
  <2>1. a \in TreeNodes /\ a \in Under(t, y)
    BY <1>1, <1>4 DEF Under
  <2> QED
    BY <2>1, <1>1, <1>6, OffNodes DEF Graph
<1>8. CASE a = x
  BY <1>7, <1>8
<1>9. CASE a # x
  <2>1. v \in Off(t, t.right[a]) /\ a \in LowSide(t) \ Lows(t)
    BY <1>6, <1>7 DEF Off, Lows
  <2>2. x \in Off(t, t.right[a])
    BY <2>1, <1>9, <1>1 DEF LostWhole
  <2>3. x \in Under(t, c)
    BY <2>2, <1>1, <1>7, OffNodes
  <2>4. c \in Under(t, a)
    BY <1>1, <1>7, KidsOf, KidIsUnder
  <2> QED
    BY <2>3, <2>4, <1>1, <1>7, UnderTrans
<1> QED
  BY <1>8, <1>9

LEMMA TakenHighOrder ==
  ASSUME NEW t, NEW u, NEW x, NEW q, TakenHigh(t, u, x, q)
  PROVE  /\ \A n \in Lows(u) : n \in Lows(t) /\ Under(u, u.left[n]) \subseteq Under(t, t.left[n])
         /\ \A n \in Highs(u) : Under(u, u.right[n]) \subseteq Under(t, t.right[n])
         /\ InOrderOf(u)
<1>1. /\ t \in Trees /\ t.root # NIL /\ Ranked(t) /\ Spliced(t, u, x, q) /\ InOrderOf(t)
      /\ Sorted(t) /\ x \in Highs(t) /\ t.root \in TreeNodes
      /\ \A n \in Lows(t) : n \in TreeNodes /\ n \in LowSide(t) /\ Ordered(t, n)
                            /\ t.PageNumber[n] < rho(t)
      /\ \A n \in Highs(t) : n \in TreeNodes /\ n \in HighSide(t) /\ Ordered(t, n)
                            /\ rho(t) < t.PageNumber[n]
  BY SortedFacts, LowSideIsUnder DEF TakenHigh
<1>2. /\ u \in Trees /\ u.root = t.root /\ u.PageNumber = t.PageNumber /\ rho(u) = rho(t)
      /\ x \in TreeNodes /\ x # NIL /\ Ordered(t, x) /\ x \in HighSide(t)
      /\ \A m \in Under(t, t.right[x]) : rho(t) < t.PageNumber[m]
      /\ rho(t) < t.PageNumber[x] /\ Under(t, t.right[x]) \subseteq Highs(t)
  BY TakenHighFacts
<1>3. /\ \A n \in TreeNodes : t.PageNumber[n] \in Nat
      /\ rho(t) \in Nat
  BY <1>1, TreeTypes DEF rho
<1>4. ASSUME NEW n \in Lows(u) PROVE n \in Lows(t)
  <2>1. n \in LowSide(u) /\ t.PageNumber[n] < rho(t)
    BY <1>2, <1>4 DEF Lows
  <2>2. n \notin Under(t, t.right[x])
    BY <2>1, <1>1, <1>2, <1>3
  <2>3. n \in LowSide(t)
    <3>1. From(LowKids(t), t.right[x]) \subseteq Under(t, t.right[x])
      BY <1>1, <1>2, ShownIsUnder
    <3> QED
      BY <2>1, <2>2, <3>1, LowStays, LowEdgeMoves
  <2> QED
    BY <2>1, <2>3 DEF Lows
<1>5. ASSUME t.right[x] # NIL
      PROVE  t.right[x] \in Under(t, t.right[x]) /\ t.right[x] \in TreeNodes
             /\ t.right[x] \in Under(t, x)
  BY <1>1, <1>2, <1>5, KidIsUnder
<1>6. ASSUME NEW n \in Lows(u)
      PROVE  Under(u, u.left[n]) \subseteq Under(t, t.left[n]) /\ Ordered(u, n)
  <2>1. n \in TreeNodes /\ n \in LowSide(t) /\ Ordered(t, n) /\ t.PageNumber[n] < rho(t)
    BY <1>1, <1>4, <1>6
  <2>2. n # x /\ n # t.right[x]
    BY <2>1, <1>1, <1>2, <1>3, <1>5, NilIsNoNode
  <2>3. ASSUME t.right[x] \in Under(t, n) PROVE x \in Under(t, n)
    BY <2>1, <2>3, <1>1, <1>5, UnderNodes, NilIsNoNode, LowMeets
  <2> QED
    BY <2>1, <2>2, <2>3, <1>1, <1>2, SpliceOrdered
<1>7. ASSUME NEW n \in Highs(u)
      PROVE  Under(u, u.right[n]) \subseteq Under(t, t.right[n]) /\ Ordered(u, n)
  <2>1. n \in TreeNodes /\ n \in HighSide(t) /\ Ordered(t, n) /\ n # x
    BY <1>1, <1>7, TakenHighHigh
  <2>2. ASSUME t.right[x] \in Under(t, n) PROVE n \in Under(t, x) \/ x \in Under(t, n)
    <3>1. t.right[x] \in Under(t, x)
      BY <2>2, <1>5, UnderNodes, NilIsNoNode
    <3>2. n \in From(HighKids(t), x) \/ x \in From(HighKids(t), n)
      BY <2>1, <2>2, <3>1, <1>1, <1>2, HighsAreApart
    <3> QED
      BY <3>2, <2>1, <1>1, <1>2, FromIsUnder, KidsOf
  <2> QED
    BY <2>1, <2>2, <1>1, <1>2, SpliceOrdered
<1> QED
  BY <1>4, <1>6, <1>7 DEF InOrderOf

LEMMA TakenHighApart ==
  ASSUME NEW t, NEW u, NEW x, NEW q, TakenHigh(t, u, x, q)
  PROVE  LowsApart(u) /\ HighsApart(u)
<1>1. /\ t \in Trees /\ t.root # NIL /\ Ranked(t) /\ InOrderOf(t)
      /\ LowsApart(t) /\ HighsApart(t) /\ x \in Highs(t)
      /\ \A n \in Highs(t) : n \in TreeNodes /\ n \in HighSide(t) /\ Ordered(t, n)
                            /\ rho(t) < t.PageNumber[n]
  BY SortedFacts DEF TakenHigh
<1>2. /\ x \in TreeNodes /\ Ordered(t, x) /\ x \in HighSide(t)
      /\ \A m \in Under(t, t.right[x]) : rho(t) < t.PageNumber[m]
      /\ t.right[x] \in HighSide(t) \cup {NIL}
  BY TakenHighFacts
<1>3. HighSide(u) \subseteq HighSide(t) /\ Highs(u) \subseteq Highs(t) \ {x}
  BY TakenHighHigh
<1>4. LowsApart(u)
  BY <1>1, <1>3, TakenHighOrder DEF LowsApart
<1>5. ASSUME NEW g \in Highs(u), NEW s \in Under(u, u.right[g]), s \in LowSide(u) PROVE FALSE
  <2>1. g \in Highs(t) /\ g # x /\ g \in TreeNodes /\ g \in HighSide(t) /\ Ordered(t, g)
    BY <1>1, <1>3
  <2>2. s \in Under(t, t.right[g])
    BY <1>5, TakenHighOrder
  <2>3. s \notin LowSide(t)
    BY <2>1, <2>2, <1>1 DEF HighsApart
  <2>4. LowEdge(t, x, q)
    BY <2>3, <1>5, LowStays
  <2>5. s \in From(LowKids(t), t.right[x]) /\ x \in LowSide(t)
    BY <2>3, <2>4, <1>5, LowEdgeMoves
  <2>6. s \in Under(t, t.right[x]) /\ t.right[x] \in HighSide(t)
    BY <2>5, <1>1, <1>2, ShownIsUnder, UnderNodes
  <2>7. s \in Under(t, x) /\ s \in Under(t, g)
    BY <2>1, <2>2, <2>6, <1>1, <1>2, UnderSides
  <2>8. g \in From(HighKids(t), x) \/ x \in From(HighKids(t), g)
    BY <2>1, <2>7, <1>1, <1>2, HighsAreApart
  <2>9. g \in Under(t, x) \/ x \in Under(t, g)
    BY <2>8, <2>1, <1>1, <1>2, FromIsUnder, KidsOf
  <2>10. CASE x \in Under(t, t.right[g])
    BY <2>1, <2>5, <2>10, <1>1 DEF HighsApart
  <2>11. CASE x \in Under(t, t.left[g])
    <3>1. s \in Under(t, t.left[g])
      BY <2>7, <2>11, <1>1, UnderTrans
    <3> QED
      BY <3>1, <2>1, <2>2, <1>1, OneSide
  <2>12. CASE g \in Under(t, t.right[x])
    BY <2>2, <2>5, <2>6, <2>12, <1>1, <1>2, LeftEdge
  <2>13. CASE g \in Under(t, t.left[x])
    <3>1. s \in Under(t, t.left[x])
      BY <2>7, <2>13, <1>1, UnderTrans
    <3> QED
      BY <3>1, <2>6, <1>1, <1>2, OneSide
  <2> QED
    BY <2>1, <2>9, <2>10, <2>11, <2>12, <2>13, <1>1, <1>2, UnderSides
<1> QED
  BY <1>4, <1>5 DEF HighsApart

\* A node of both sides loses nothing in part.
LEMMA BothWhole ==
  ASSUME NEW t \in Trees, t.root # NIL, Ranked(t), InOrderOf(t), HighsApart(t),
         NEW g \in Highs(t), NEW y \in Highs(t), g # y, g \in LowSide(t),
         NEW v \in Off(t, t.right[g]), v \in Under(t, t.right[y])
  PROVE  y \in Off(t, t.right[g])
<1>1. /\ g \in TreeNodes /\ g \in HighSide(t) /\ Ordered(t, g)
      /\ y \in TreeNodes /\ y \in HighSide(t) /\ Ordered(t, y)
  BY FromNodes DEF InOrderOf, Highs, HighSide
<1>2. v \in Under(t, t.right[g])
  BY <1>1, TreeTypes, OffNodes
<1>3. v \in Under(t, g) /\ v \in Under(t, y)
  BY <1>1, <1>2, UnderSides
<1>4. g \in From(HighKids(t), y) \/ y \in From(HighKids(t), g)
  BY <1>1, <1>3, HighsAreApart
<1>5. g \in Under(t, y) \/ y \in Under(t, g)
  BY <1>1, <1>4, FromIsUnder, KidsOf
<1>6. g \notin Under(t, t.right[y])
  BY DEF HighsApart
<1>7. g \notin Under(t, t.left[y])
  <2>1. SUFFICES ASSUME g \in Under(t, t.left[y]) PROVE FALSE
    OBVIOUS
  <2>2. v \in Under(t, t.left[y])
    BY <2>1, <1>3, UnderTrans
  <2> QED
    BY <2>2, <1>1, OneSide
<1>8. y \notin Under(t, t.left[g])
  <2>1. SUFFICES ASSUME y \in Under(t, t.left[g]) PROVE FALSE
    OBVIOUS
  <2>2. v \in Under(t, t.left[g])
    BY <2>1, <1>3, UnderTrans
  <2> QED
    BY <2>2, <1>1, <1>2, OneSide
<1>9. y \in Under(t, t.right[g])
  BY <1>1, <1>5, <1>6, <1>7, <1>8, UnderSides
<1>10. Under(t, t.right[g]) \cap LowSide(t) = {}
  BY DEF HighsApart
<1>11. t.right[g] \in TreeNodes
  BY <1>1, <1>2, TreeTypes, UnderNodes
<1> DEFINE D == From(OffKids(t), t.right[g])
<1>12. D \in SUBSET TreeNodes /\ t.right[g] \in D /\ D \subseteq Under(t, t.right[g])
  BY <1>11, FromNodes, FromItself, OffNodes, FromMore, KidsOf DEF Under
<1>13. ASSUME NEW m \in D, NEW c \in Kids(t)[m] PROVE c \in D
  <2>1. m \in TreeNodes /\ c \in TreeNodes
    BY <1>12, <1>13, KidsOf DEF Graph
  <2>2. c \in Under(t, t.right[g])
    BY <2>1, <1>12, <1>13, FromStep DEF Under
  <2>3. c \in OffKids(t)[m]
    BY <2>1, <2>2, <1>10, <1>13, OffNodes
  <2> QED
    BY <2>1, <2>3, FromStep
<1> HIDE DEF D
<1>14. Under(t, t.right[g]) \subseteq D
  BY <1>12, <1>13, FromWithin DEF Under
<1>15. t.right[g] \notin LowSide(t)
  BY <1>10, <1>11, UnderItself
<1> QED
  BY <1>9, <1>14, <1>15 DEF D, Off

\* What stays lost for the high side but for what is given up.
LEMMA OffPersists ==
  ASSUME NEW t, NEW u, NEW x, NEW q, TakenHigh(t, u, x, q), NEW w \in TreeNodes,
         From(OffKids(t), w) \cap LowSide(u) = {},
         NEW y \in HighSide(u), y \in From(OffKids(t), w)
  PROVE  y \in From(OffKids(u), w)
<1> DEFINE l  == t.left[x]
           r  == t.right[x]
           m0 == t.left[r]
           W  == From(OffKids(u), w)
           Z  == From(OffKids(t), w)
           S  == {d \in Z : \/ d \in W
                            \/ d = x /\ l \in W \cup LowSide(u) \cup {NIL} /\ r \in W \cup LowSide(u) \cup {NIL}
                            \/ l # NIL /\ r # NIL /\ d \in Under(t, m0)}
<1>1. /\ t \in Trees /\ t.root # NIL /\ Ranked(t) /\ Spliced(t, u, x, q)
  BY SortedFacts DEF TakenHigh
<1>2. /\ u \in Trees /\ u.root = t.root /\ u.PageNumber = t.PageNumber /\ rho(u) = rho(t)
      /\ x \in TreeNodes /\ x # NIL /\ Ordered(t, x) /\ q # NIL /\ q \in TreeNodes
  BY TakenHighFacts
<1>3. /\ Graph(OffKids(t)) /\ Graph(OffKids(u)) /\ Z \subseteq TreeNodes
      /\ \A n \in TreeNodes : OffKids(t)[n] = Kids(t)[n] \ LowSide(t)
      /\ \A n \in TreeNodes : OffKids(u)[n] = Kids(u)[n] \ LowSide(u)
  BY <1>1, <1>2, OffNodes, FromNodes
<1>4. /\ x # q /\ x # r /\ q # r
      /\ t.PageNumber[x] < t.PageNumber[q] => t.left[q] = x
      /\ ~ (t.PageNumber[x] < t.PageNumber[q]) => t.right[q] = x
      /\ l \in TreeNodes \cup {NIL} /\ r \in TreeNodes \cup {NIL}
  BY <1>1, <1>2, SpliceNodes, KidIsUnder, TreeTypes
<1>5. ASSUME NEW m \in W, NEW c \in Kids(u)[m] PROVE c \in W \cup LowSide(u)
  <2>1. m \in TreeNodes /\ c \in TreeNodes
    BY <1>2, <1>5, FromNodes, KidsOf DEF Graph
  <2> QED
    BY <2>1, <1>3, <1>5, FromStep
<1>6. l # NIL /\ r # NIL => u.left[r] = l
  BY <1>1, <1>4 DEF Spliced
<1>7. w \in S
  BY FromItself
<1>8. ASSUME NEW m \in S, NEW c \in OffKids(t)[m] PROVE c \in S
  <2>1. m \in TreeNodes /\ m \in Z /\ c \in TreeNodes /\ c \in Kids(t)[m] /\ c # NIL
    BY <1>1, <1>3, <1>8, KidsOf DEF Graph
  <2>2. c \in Z
    BY <2>1, <1>8, FromStep
  <2>3. c \notin LowSide(u)
    BY <2>2
  <2>4. CASE m \in W /\ c \in Kids(u)[m]
    <3>1. c \in W
      BY <2>3, <2>4, <1>5
    <3> QED
      BY <2>2, <3>1
  <2>5. CASE m \in W /\ c \notin Kids(u)[m]
    <3>1. (c = t.left[m] \/ c = t.right[m]) /\ c # u.left[m] /\ c # u.right[m]
      BY <2>1, <2>5, <1>1, <1>2, KidsOf
    <3>2. (m = q /\ c = x) \/ (m = r /\ l # NIL /\ r # NIL /\ c = m0)
      BY <2>1, <3>1, <1>1, <1>4, NilIsNoNode DEF Spliced
    <3>3. CASE m = q /\ c = x
      <4>1. Heir(t, x) # NIL => Heir(t, x) \in Kids(u)[m]
        BY <3>3, <1>1, <1>2, KidsOf DEF Spliced
      <4>2. Heir(t, x) \in W \cup LowSide(u) \cup {NIL}
        BY <4>1, <2>5, <1>5
      <4>3. CASE r = NIL
        BY <2>2, <3>3, <4>2, <4>3 DEF Heir
      <4>4. CASE r # NIL /\ l = NIL
        BY <2>2, <3>3, <4>2, <4>4 DEF Heir
      <4>5. CASE r # NIL /\ l # NIL
        <5>1. r \in W \cup LowSide(u) /\ r \in TreeNodes
          BY <4>2, <4>5, <1>4 DEF Heir
        <5>2. l \in Kids(u)[r] /\ l \in LowKids(u)[r] /\ l \in TreeNodes
          BY <4>5, <5>1, <1>2, <1>4, <1>6, KidsOf
        <5>3. l \in W \cup LowSide(u)
          <6>1. r \in LowSide(u) => l \in LowSide(u)
            BY <5>2, FromStep DEF LowSide
          <6> QED
            BY <6>1, <5>1, <5>2, <1>5
        <5> QED
          BY <2>2, <3>3, <5>1, <5>3
      <4> QED
        BY <4>3, <4>4, <4>5
    <3>4. CASE m = r /\ l # NIL /\ r # NIL /\ c = m0
      <4>1. c \in Under(t, m0)
        BY <2>1, <3>4, <1>1, UnderItself
      <4> QED
        BY <2>2, <3>4, <4>1
    <3> QED
      BY <3>2, <3>3, <3>4
  <2>6. CASE m = x /\ l \in W \cup LowSide(u) \cup {NIL} /\ r \in W \cup LowSide(u) \cup {NIL}
    BY <2>1, <2>2, <2>3, <2>6, <1>1, KidsOf
  <2>7. CASE l # NIL /\ r # NIL /\ m \in Under(t, m0)
    <3>1. c \in Under(t, m0)
      BY <2>1, <2>7, FromStep DEF Under
    <3> QED
      BY <2>2, <2>7, <3>1
  <2> QED
    BY <2>4, <2>5, <2>6, <2>7, <1>8
<1>9. S \in SUBSET TreeNodes
  BY <1>3
<1> HIDE DEF S
<1>10. Z \subseteq S
  BY <1>7, <1>8, <1>9, FromWithin
<1>11. y # x /\ (l # NIL /\ r # NIL => y \notin Under(t, m0))
  BY TakenHighHigh, HighGivenUp
<1> QED
  BY <1>10, <1>11 DEF S

\* What the heir leads to if the edge to it is not one of the low side.
LEMMA BehindHeir ==
  ASSUME NEW t, NEW u, NEW x, NEW q, TakenHigh(t, u, x, q), ~ LowEdge(t, x, q), x \in LowSide(t),
         t.right[x] # NIL, NEW v \in From(OffKids(u), t.right[x]),
         NEW y \in Highs(u), v \in Under(t, t.right[y])
  PROVE  y \in From(OffKids(u), t.right[x])
<1> DEFINE l   == t.left[x]
           r   == t.right[x]
           top == IF l = NIL THEN r ELSE t.right[r]
           Y   == {r} \cup Under(t, top)
           D   == From(OffKids(u), r)
<1>1. /\ t \in Trees /\ t.root # NIL /\ Ranked(t) /\ Spliced(t, u, x, q) /\ InOrderOf(t)
      /\ HighsApart(t)
      /\ \A n \in Highs(t) : n \in TreeNodes /\ n \in HighSide(t) /\ Ordered(t, n)
  BY SortedFacts DEF TakenHigh
<1>2. /\ u \in Trees /\ u.root = t.root /\ u.PageNumber = t.PageNumber /\ rho(u) = rho(t)
      /\ x \in TreeNodes /\ x # NIL /\ Ordered(t, x) /\ q # NIL /\ q \in TreeNodes
      /\ rho(t) < t.PageNumber[x] /\ x \in HighSide(t)
      /\ Under(t, r) \cap LowSide(t) = {} /\ r \in HighSide(t)
  BY TakenHighFacts
<1>3. /\ LowSide(u) = LowSide(t) /\ y \in Highs(t) /\ y # x /\ y \in HighSide(u)
  BY LowStays, TakenHighHigh DEF Highs
<1>4. /\ r \in TreeNodes /\ r \in Under(t, r) /\ Under(t, t.right[r]) \subseteq Under(t, r)
      /\ top \in TreeNodes \cup {NIL} /\ Under(t, top) \subseteq Under(t, r)
      /\ Under(t, r) \subseteq Under(t, x) /\ Under(t, r) \subseteq TreeNodes
      /\ r \notin Under(t, t.right[r]) /\ r \notin Under(t, l)
  <2>1. r \in TreeNodes /\ r \in Under(t, r)
    BY <1>1, <1>2, KidIsUnder
  <2> QED
    BY <2>1, <1>1, <1>2, UnderSides, HeirIsUnder, UnderNodes, TreeTypes, NotUnderItsKid, SpliceNodes
<1>5. q \notin Under(t, x) /\ q # r
  BY <1>1, <1>2, SpliceNodes
<1>6. l \in LowSide(t) \cup {NIL}
  <2>1. l # NIL => l \in LowKids(t)[x] /\ l \in TreeNodes
    BY <1>1, <1>2, KidsOf, TreeTypes
  <2> QED
    BY <2>1, FromStep DEF LowSide
<1>7. /\ Graph(OffKids(u)) /\ D \subseteq TreeNodes
      /\ \A n \in TreeNodes : OffKids(u)[n] = Kids(u)[n] \ LowSide(t)
  BY <1>2, <1>3, OffNodes, FromNodes
<1>8. u.right[r] = t.right[r] /\ (l # NIL => u.left[r] = l)
  BY <1>1, <1>4, <1>5 DEF Spliced
<1>9. D \subseteq Y
  <2>1. Y \in SUBSET TreeNodes /\ r \in Y
    BY <1>4
  <2>2. ASSUME NEW m \in Y, NEW c \in OffKids(u)[m] PROVE c \in Y
    <3>1. /\ m \in TreeNodes /\ c \in TreeNodes /\ c \in Kids(u)[m] /\ c \notin LowSide(t) /\ c # NIL
          /\ m \in Under(t, r)
      BY <2>1, <2>2, <1>2, <1>4, <1>7, KidsOf, NilIsNoNode DEF Graph
    <3>2. m # q /\ c # l
      BY <3>1, <1>4, <1>5, <1>6
    <3>3. CASE m = r /\ l # NIL
      <4>1. c = t.right[r]
        BY <3>1, <3>2, <3>3, <1>2, <1>8, KidsOf
      <4> QED
        BY <3>1, <3>3, <4>1, <1>1, UnderItself
    <3>4. CASE m \in Under(t, top)
      <4>1. c \in Kids(t)[m]
        BY <3>1, <3>2, <1>1, SpliceKids
      <4> QED
        BY <3>1, <3>4, <4>1, FromStep DEF Under
    <3>5. CASE m = r /\ l = NIL
      <4>1. m \in Under(t, top)
        BY <3>5, <1>4
      <4> QED
        BY <3>4, <4>1
    <3> QED
      BY <2>2, <3>3, <3>4, <3>5
  <2> HIDE DEF Y
  <2> QED
    BY <2>1, <2>2, FromWithin
<1>10. y \in Under(t, r)
  <2>1. v \in Under(t, r) /\ v \in Under(t, y) /\ y \in TreeNodes /\ y \in HighSide(t) /\ Ordered(t, y)
    BY <1>1, <1>3, <1>4, <1>9, UnderSides
  <2>2. y \in From(HighKids(t), r) \/ r \in From(HighKids(t), y)
    BY <2>1, <1>1, <1>2, HighsAreApart
  <2>3. y \in Under(t, r) \/ r \in Under(t, y)
    BY <2>1, <2>2, <1>1, <1>4, FromIsUnder, KidsOf
  <2>4. r \notin Under(t, t.left[y])
    <3>1. SUFFICES ASSUME r \in Under(t, t.left[y]) PROVE FALSE
      OBVIOUS
    <3>2. v \in Under(t, t.left[y])
      BY <2>1, <3>1, <1>1, UnderTrans
    <3> QED
      BY <3>2, <2>1, <1>1, OneSide
  <2>5. CASE r \in Under(t, t.right[y])
    <3>1. r \in Under(t, x) /\ r \in Under(t, y)
      BY <2>1, <2>5, <1>1, <1>4, UnderSides
    <3>2. x \in From(HighKids(t), y) \/ y \in From(HighKids(t), x)
      BY <2>1, <3>1, <1>1, <1>2, HighsAreApart
    <3>3. x \in Under(t, y) \/ y \in Under(t, x)
      BY <2>1, <3>2, <1>1, <1>2, FromIsUnder, KidsOf
    <3>4. x \notin Under(t, t.right[y])
      BY <1>1, <1>3 DEF HighsApart
    <3>5. x \notin Under(t, t.left[y])
      BY <2>4, <3>1, <1>1, UnderTrans
    <3>6. y \in Under(t, x)
      BY <2>1, <3>3, <3>4, <3>5, <1>1, <1>3, UnderSides
    <3>7. y \notin Under(t, l)
      <4>1. SUFFICES ASSUME y \in Under(t, l) PROVE FALSE
        OBVIOUS
      <4>2. r \in Under(t, l)
        BY <3>1, <4>1, <1>1, UnderTrans
      <4> QED
        BY <4>2, <1>4
    <3> QED
      BY <3>6, <3>7, <1>1, <1>2, <1>3, UnderSides
  <2>6. CASE y = r
    BY <2>6, <1>4
  <2> QED
    BY <2>1, <2>3, <2>4, <2>5, <2>6, <1>1, UnderSides
<1>11. y \in Y
  <2>1. CASE l = NIL
    BY <2>1, <1>10
  <2>2. CASE l # NIL
    <3>1. y \notin Under(t, t.left[r])
      BY <2>2, <1>3, HighGivenUp
    <3> QED
      BY <2>2, <3>1, <1>1, <1>4, <1>10, UnderSides
  <2> QED
    BY <2>1, <2>2
<1>12. r \in D
  BY <1>4, FromItself
<1>13. ASSUME NEW m \in D, NEW c \in Kids(u)[m], c \notin LowSide(t) PROVE c \in D
  <2>1. m \in TreeNodes /\ c \in TreeNodes
    BY <1>2, <1>7, <1>13, KidsOf DEF Graph
  <2> QED
    BY <2>1, <1>7, <1>13, FromStep
<1>14. top \in D \cup {NIL}
  <2>1. CASE l = NIL
    BY <2>1, <1>12
  <2>2. CASE l # NIL /\ top # NIL
    <3>1. top \in Kids(u)[r] /\ top \in Under(t, r)
      BY <2>2, <1>1, <1>2, <1>4, <1>8, KidsOf, KidIsUnder
    <3> QED
      BY <3>1, <1>2, <1>12, <1>13
  <2> QED
    BY <2>1, <2>2
<1>15. Under(t, top) \subseteq D
  <2> DEFINE T == {m \in Under(t, top) : m \in D}
  <2>1. T \in SUBSET TreeNodes
    BY <1>4
  <2>2. top \in T \cup {NIL}
    BY <1>1, <1>4, <1>14, UnderItself
  <2>3. ASSUME NEW m \in T, NEW c \in Kids(t)[m] PROVE c \in T
    <3>1. m \in TreeNodes /\ c \in TreeNodes /\ m \in D /\ m \in Under(t, r)
      BY <2>1, <2>3, <1>1, <1>4, KidsOf DEF Graph
    <3>2. c \in Under(t, top)
      BY <3>1, <2>3, FromStep DEF Under
    <3>3. m # q /\ (m = r => l = NIL)
      BY <3>1, <2>3, <1>4, <1>5
    <3>4. u.left[m] = t.left[m] /\ u.right[m] = t.right[m]
      BY <3>1, <3>3, <1>1 DEF Spliced
    <3>5. c \in Kids(u)[m] /\ c \notin LowSide(t)
      BY <3>1, <3>2, <3>4, <2>3, <1>1, <1>2, <1>4, KidsOf
    <3> QED
      BY <3>1, <3>2, <3>5, <1>13
  <2> HIDE DEF T, top, D
  <2>4. Under(t, top) \subseteq T
    BY <2>1, <2>2, <2>3, FromWithin DEF Under
  <2> QED
    BY <2>4 DEF T
<1> QED
  BY <1>11, <1>12, <1>15

LEMMA TakenHighLost ==
  ASSUME NEW t, NEW u, NEW x, NEW q, TakenHigh(t, u, x, q)
  PROVE  LostWhole(u)
<1>1. /\ t \in Trees /\ t.root # NIL /\ Ranked(t) /\ Spliced(t, u, x, q) /\ Sorted(t)
      /\ LostWhole(t) /\ HighsApart(t) /\ x \in Highs(t) /\ RootOnce(t)
      /\ q = t.root \/ q \in HighSide(t)
  BY SortedFacts DEF TakenHigh
<1>2. /\ u \in Trees /\ u.root = t.root /\ u.PageNumber = t.PageNumber /\ rho(u) = rho(t)
      /\ x \in TreeNodes /\ x # NIL /\ Ordered(t, x)
      /\ Under(t, t.right[x]) \cap LowSide(t) = {}
      /\ rho(t) < t.PageNumber[x] /\ q # NIL /\ q \in TreeNodes
  BY TakenHighFacts
<1>3. /\ x # q /\ x # t.right[x] /\ q # t.right[x]
      /\ t.PageNumber[x] < t.PageNumber[q] => t.left[q] = x
      /\ ~ (t.PageNumber[x] < t.PageNumber[q]) => t.right[q] = x
  BY <1>1, <1>2, SpliceNodes, KidIsUnder
<1>4. HighSide(u) \subseteq HighSide(t) \ {x} /\ Highs(u) \subseteq Highs(t) \ {x}
  BY TakenHighHigh
<1>5. SUFFICES ASSUME NEW g \in LowSide(u) \ Lows(u), NEW y \in Highs(u), g # y,
                      NEW v \in Off(u, u.right[g]), v \in Under(u, u.right[y])
               PROVE  y \in Off(u, u.right[g])
  BY DEF LostWhole
<1>6. y \in Highs(t) /\ y # x /\ v \in Under(t, t.right[y]) /\ y \in HighSide(u)
  BY <1>4, <1>5, TakenHighOrder DEF Highs
<1>7. CASE g \in Highs(u)
  <2>1. Ranked(u) /\ u.root # NIL
    BY <1>1, <1>2, SpliceRanked
  <2>2. InOrderOf(u) /\ HighsApart(u)
    BY TakenHighOrder, TakenHighApart
  <2> QED
    BY <2>1, <2>2, <1>2, <1>5, <1>7, BothWhole
<1>8. CASE g \notin Highs(u)
  <2> DEFINE w == t.right[g]
             W == From(OffKids(u), w)
             Z == From(OffKids(t), w)
  <2>1. g \in LowSide(t) /\ ~ (t.PageNumber[g] < rho(t)) /\ g \in TreeNodes
        /\ (LowEdge(t, x, q) => g # x)
    <3>1. ~ (t.PageNumber[g] < rho(t))
      BY <1>2, <1>5 DEF Lows
    <3>2. g \in TreeNodes
      BY <1>5, FromNodes DEF LowSide
    <3>3. g \in HighSide(u) => g \in Highs(u)
      <4>1. t.PageNumber[g] \in Nat /\ rho(t) \in Nat
        BY <1>1, <3>2, LowSideIsUnder, TreeTypes DEF rho
      <4> QED
        BY <3>1, <4>1, <1>1, <1>2, <1>4 DEF RootOnce, Highs
    <3> QED
      BY <3>1, <3>2, <3>3, <1>5, <1>8, LowStays, LowEdgeMoves
  <2>2. g # q
    <3>1. g \in HighSide(u) => g \in Highs(u)
      <4>1. t.PageNumber[g] \in Nat /\ rho(t) \in Nat
        BY <1>1, <2>1, LowSideIsUnder, TreeTypes DEF rho
      <4> QED
        BY <2>1, <4>1, <1>1, <1>2, <1>4 DEF RootOnce, Highs
    <3> QED
      BY <2>1, <3>1, <1>1, <1>8, HighStays, LowSideIsUnder
  <2>3. u.right[g] = w /\ w \in TreeNodes \cup {NIL}
    BY <2>1, <2>2, <1>1, TreeTypes DEF Spliced
  <2>4. w \notin LowSide(u) /\ v \in W /\ w \in TreeNodes
    BY <2>3, <1>5, FromNil DEF Off
  <2>5. SUFFICES y \in W
    BY <2>3, <2>4 DEF Off
  <2>6. g \in LowSide(t) \ Lows(t)
    BY <2>1 DEF Lows
  <2>7. ASSUME w \notin LowSide(t), v \in Z PROVE y \in Z
    <3>1. v \in Off(t, w)
      BY <2>7 DEF Off
    <3>2. y \in Off(t, w)
      BY <2>1, <2>6, <3>1, <1>1, <1>5, <1>6 DEF LostWhole
    <3> QED
      BY <3>2, <1>1, OffNodes
  <2>8. ASSUME w \notin LowSide(t), g # x, NEW d \in Z, d \in Under(t, t.right[x]) PROVE x \in Z
    <3>1. d \in Off(t, w)
      BY <2>8 DEF Off
    <3>2. x \in Off(t, w)
      BY <2>6, <2>8, <3>1, <1>1 DEF LostWhole
    <3> QED
      BY <3>2, <1>1, OffNodes
  <2>9. /\ Graph(OffKids(t)) /\ Graph(OffKids(u)) /\ Z \subseteq TreeNodes /\ W \subseteq TreeNodes
        /\ \A n \in TreeNodes : OffKids(t)[n] = Kids(t)[n] \ LowSide(t)
        /\ \A n \in TreeNodes : OffKids(u)[n] = Kids(u)[n] \ LowSide(u)
    BY <1>1, <1>2, OffNodes, FromNodes
  <2>10. w \notin LowSide(t) => Z \cap LowSide(t) = {}
    <3> SUFFICES ASSUME w \notin LowSide(t) PROVE Z \cap LowSide(t) = {}
      OBVIOUS
    <3> DEFINE T == TreeNodes \ LowSide(t)
    <3>1. T \in SUBSET TreeNodes /\ w \in T
      BY <2>4
    <3>2. \A m \in T : OffKids(t)[m] \subseteq T
      BY <2>9 DEF Graph
    <3> HIDE DEF T
    <3>3. Z \subseteq T
      BY <3>1, <3>2, FromWithin
    <3> QED
      BY <3>3 DEF T
  <2>11. t.right[x] # NIL => t.right[x] \in Under(t, t.right[x]) /\ t.right[x] \in TreeNodes
    BY <1>1, <1>2, KidIsUnder
  <2>12. CASE ~ LowEdge(t, x, q) /\ x \notin LowSide(t)
    <3>1. LowSide(u) = LowSide(t) /\ g # x /\ w \notin LowSide(t)
      BY <2>1, <2>4, <2>12, LowStays
    <3>2. ASSUME NEW m \in Z, NEW c \in OffKids(u)[m] PROVE c \in Z
      <4>1. m \in TreeNodes /\ c \in TreeNodes /\ c \in Kids(u)[m] /\ c \notin LowSide(t) /\ c # NIL
        BY <2>9, <3>1, <3>2, NilIsNoNode DEF Graph
      <4>2. ASSUME NEW b \in Z, c \in Kids(t)[b] PROVE c \in Z
        <5>1. b \in TreeNodes /\ c \in OffKids(t)[b]
          BY <2>9, <4>1, <4>2
        <5> QED
          BY <4>1, <5>1, FromStep
      <4>3. CASE m = q /\ c = Heir(t, x)
        <5>1. x \in Kids(t)[q] /\ x \in OffKids(t)[q]
          BY <2>9, <2>12, <1>1, <1>2, <1>3, KidsOf
        <5>2. x \in Z
          BY <4>3, <5>1, <1>2, FromStep
        <5>3. c \in Kids(t)[x]
          BY <4>1, <4>3, <1>1, <1>2, KidsOf DEF Heir
        <5> QED
          BY <4>2, <5>2, <5>3
      <4>4. CASE m = t.right[x] /\ c = t.left[x]
        <5>1. m \in Under(t, t.right[x])
          BY <4>1, <4>4, <2>11, NilIsNoNode
        <5>2. x \in Z
          BY <5>1, <3>1, <2>8
        <5>3. c \in Kids(t)[x]
          BY <4>1, <4>4, <1>1, <1>2, KidsOf
        <5> QED
          BY <4>2, <5>2, <5>3
      <4> QED
        BY <4>1, <4>2, <4>3, <4>4, <1>1, SpliceKids
    <3>3. W \subseteq Z
      <4>1. Z \in SUBSET TreeNodes /\ w \in Z
        BY <2>4, <2>9, FromItself
      <4> HIDE DEF Z
      <4> QED
        BY <3>2, <4>1, FromWithin
    <3>4. y \in Z
      BY <2>4, <2>7, <3>1, <3>3
    <3> QED
      BY <2>4, <2>10, <3>1, <3>4, <1>6, OffPersists
  <2>13. CASE ~ LowEdge(t, x, q) /\ x \in LowSide(t)
    <3>1. LowSide(u) = LowSide(t) /\ w \notin LowSide(t)
      BY <2>4, <2>13, LowStays
    <3>2. t.left[x] \in LowSide(t) \cup {NIL}
      <4>1. t.left[x] # NIL => t.left[x] \in LowKids(t)[x] /\ t.left[x] \in TreeNodes
        BY <1>1, <1>2, KidsOf, TreeTypes
      <4> QED
        BY <4>1, <2>13, FromStep DEF LowSide
    <3>3. CASE g = x
      BY <2>4, <2>13, <3>3, <1>5, <1>6, NilIsNoNode, BehindHeir
    <3>4. CASE g # x
      <4> DEFINE T == {d \in W : d \in Z \/ (t.right[x] \in W /\ d \in From(OffKids(u), t.right[x]))}
      <4>1. T \in SUBSET TreeNodes /\ w \in T
        BY <2>4, <2>9, FromItself
      <4>2. ASSUME NEW m \in T, NEW c \in OffKids(u)[m] PROVE c \in T
        <5>1. m \in TreeNodes /\ c \in TreeNodes /\ c \in Kids(u)[m] /\ c \notin LowSide(t) /\ c # NIL
          BY <2>9, <3>1, <4>1, <4>2, NilIsNoNode DEF Graph
        <5>2. c \in W
          BY <5>1, <4>2, FromStep
        <5>3. CASE t.right[x] \in W /\ m \in From(OffKids(u), t.right[x])
          BY <5>1, <5>2, <5>3, <4>2, FromStep
        <5>4. CASE m \in Z
          <6>1. CASE c \in Kids(t)[m]
            <7>1. c \in OffKids(t)[m]
              BY <5>1, <6>1, <2>9
            <7> QED
              BY <5>1, <5>2, <5>4, <7>1, FromStep
          <6>2. CASE c = Heir(t, x)
            <7>1. c = t.right[x]
              BY <5>1, <6>2, <3>2 DEF Heir
            <7> QED
              BY <5>1, <5>2, <7>1, FromItself
          <6>3. CASE c = t.left[x]
            BY <5>1, <6>3, <3>2
          <6> QED
            BY <5>1, <6>1, <6>2, <6>3, <1>1, SpliceKids
        <5> QED
          BY <4>2, <5>3, <5>4
      <4> HIDE DEF T
      <4>3. W \subseteq T
        BY <4>1, <4>2, FromWithin
      <4> USE DEF T
      <4>4. CASE v \in Z
        <5>1. y \in Z
          BY <2>7, <3>1, <4>4
        <5> QED
          BY <2>4, <2>10, <3>1, <5>1, <1>6, OffPersists
      <4>5. CASE t.right[x] \in W /\ v \in From(OffKids(u), t.right[x])
        <5>1. t.right[x] # NIL
          BY <4>5, <2>9, NilIsNoNode
        <5>2. y \in From(OffKids(u), t.right[x])
          BY <4>5, <5>1, <2>13, <1>5, <1>6, BehindHeir
        <5> QED
          BY <4>5, <5>2, <2>9, FromFrom
      <4> QED
        BY <2>4, <4>3, <4>4, <4>5
    <3> QED
      BY <3>3, <3>4
  <2>14. CASE LowEdge(t, x, q)
    <3>1. /\ x \in LowSide(t) /\ x \notin LowSide(u) /\ LowSide(t) \ {x} \subseteq LowSide(u)
          /\ t.right[x] \in LowSide(u) \cup {NIL}
          /\ LowSide(u) \subseteq LowSide(t) \cup Under(t, t.right[x])
          /\ g # x
      <4>1. From(LowKids(t), t.right[x]) \subseteq Under(t, t.right[x])
        BY <1>1, <1>2, ShownIsUnder
      <4> QED
        BY <4>1, <2>1, <2>14, LowStays, LowEdgeMoves
    <3>2. t.left[x] \in LowSide(u) \cup {NIL}
      <4>1. t.left[x] # NIL => t.left[x] \in LowKids(t)[x] /\ t.left[x] \in TreeNodes /\ t.left[x] # x
        BY <1>1, <1>2, KidsOf, KidIsUnder, SpliceNodes
      <4>2. t.left[x] # NIL => t.left[x] \in LowSide(t)
        BY <4>1, <3>1, FromStep DEF LowSide
      <4> QED
        BY <4>1, <4>2, <3>1
    <3>3. v # x
      BY <3>1, <1>1, <1>6 DEF HighsApart
    <3>4. ASSUME NEW m \in W, m = x, NEW c \in OffKids(u)[m] PROVE FALSE
      <4>1. c \in Kids(u)[m] /\ c \notin LowSide(u) /\ c # NIL /\ m \in TreeNodes
        BY <3>4, <2>9, <1>2, NilIsNoNode DEF Graph
      <4>2. u.left[x] = t.left[x] /\ u.right[x] = t.right[x]
        BY <1>1, <1>2, <1>3 DEF Spliced
      <4>3. c = t.left[x] \/ c = t.right[x]
        BY <3>4, <4>1, <4>2, <1>2, KidsOf
      <4> QED
        BY <4>1, <4>3, <3>1, <3>2
    <3>5. w # x
      <4>1. SUFFICES ASSUME w = x PROVE FALSE
        OBVIOUS
      <4>2. {x} \in SUBSET TreeNodes /\ w \in {x} /\ \A m \in {x} : OffKids(u)[m] \subseteq {x}
        BY <4>1, <2>4, <3>4, <1>2, FromItself
      <4>3. W \subseteq {x}
        BY <4>2, FromWithin
      <4> QED
        BY <4>3, <2>4, <3>3
    <3>6. w \notin LowSide(t)
      BY <2>4, <3>1, <3>5
    <3> DEFINE T == {d \in W : d \in Z \cup {x}}
    <3>7. T \in SUBSET TreeNodes /\ w \in T
      BY <2>4, <2>9, FromItself
    <3>8. ASSUME NEW m \in T, NEW c \in OffKids(u)[m] PROVE c \in T
      <4>1. m \in TreeNodes /\ c \in TreeNodes /\ c \in Kids(u)[m] /\ c \notin LowSide(u) /\ c # NIL
        BY <2>9, <3>7, <3>8, NilIsNoNode DEF Graph
      <4>2. c \in W
        BY <4>1, <3>8, FromStep
      <4>3. m \in Z
        BY <3>4, <3>8
      <4>4. CASE c \in Kids(t)[m]
        <5>1. CASE c \in LowSide(t)
          BY <4>1, <4>2, <5>1, <3>1
        <5>2. CASE c \notin LowSide(t)
          <6>1. c \in OffKids(t)[m]
            BY <4>1, <4>4, <5>2, <2>9
          <6> QED
            BY <4>1, <4>2, <4>3, <6>1, FromStep
        <5> QED
          BY <5>1, <5>2
      <4>5. CASE c = Heir(t, x) \/ c = t.left[x]
        BY <4>1, <4>5, <3>1, <3>2 DEF Heir
      <4> QED
        BY <4>1, <4>4, <4>5, <1>1, SpliceKids
    <3> HIDE DEF T
    <3>9. W \subseteq T
      BY <3>7, <3>8, FromWithin
    <3>10. v \in Z
      BY <2>4, <3>3, <3>9 DEF T
    <3>11. y \in Z
      BY <2>7, <3>6, <3>10
    <3>12. Z \cap LowSide(u) = {}
      BY <2>8, <2>10, <3>1, <3>6
    <3> QED
      BY <2>4, <3>11, <3>12, <1>6, OffPersists
  <2> QED
    BY <2>12, <2>13, <2>14
<1> QED
  BY <1>7, <1>8

LEMMA TakenHighSorted ==
  ASSUME NEW t, NEW u, NEW x, NEW q, TakenHigh(t, u, x, q)
  PROVE  Sorted(u)
<1>1. u \in Trees /\ u.root # NIL
  BY TakenHighFacts, SortedFacts DEF TakenHigh
<1>2. Ranked(u)
  BY TakenHighFacts, SortedFacts, SpliceRanked DEF TakenHigh
<1>3. RootOnce(u)
  <2>1. /\ RootOnce(t) /\ rho(u) = rho(t) /\ u.PageNumber = t.PageNumber /\ t \in Trees
        /\ t.root \in TreeNodes /\ x \in TreeNodes
        /\ \A m \in Under(t, t.right[x]) : rho(t) < t.PageNumber[m]
    BY TakenHighFacts, SortedFacts, LowSideIsUnder DEF TakenHigh
  <2>2. ASSUME NEW n \in LowSide(u) PROVE t.PageNumber[n] # rho(t)
    <3>1. n \in LowSide(t) \/ n \in Under(t, t.right[x])
      BY <2>1, <2>2, LowStays, LowEdgeMoves, ShownIsUnder
    <3>2. t.PageNumber[n] \in Nat /\ rho(t) \in Nat
      BY <2>1, <2>2, FromNodes, TreeTypes DEF LowSide, rho
    <3> QED
      BY <2>1, <3>1, <3>2 DEF RootOnce
  <2> QED
    BY <2>1, <2>2, TakenHighHigh DEF RootOnce
<1> QED
  BY <1>1, <1>2, <1>3, TakenHighOrder, TakenHighApart, TakenHighLost DEF Sorted

----------------------------------------------------------------------------
(* Taking the page of the root out: once *)

TakenRoot(t, u) == Sorted(t) /\ Ordered(t, t.root) /\ Spliced(t, u, t.root, NIL)

LEMMA RootsSides ==
  ASSUME NEW t, Sorted(t), Ordered(t, t.root)
  PROVE  /\ LowSide(t) \subseteq Lows(t) /\ HighSide(t) \subseteq Highs(t)
         /\ \A n \in Under(t, t.left[t.root]) : t.PageNumber[n] < rho(t)
<1>1. /\ t \in Trees /\ t.root # NIL /\ Ranked(t)
      /\ LowSide(t) \subseteq Under(t, t.left[t.root])
      /\ HighSide(t) \subseteq Under(t, t.right[t.root])
  BY SortedFacts, LowSideIsUnder
<1> QED
  BY <1>1 DEF Ordered, Lows, Highs, rho

LEMMA TakenRootSorted ==
  ASSUME NEW t, NEW u, TakenRoot(t, u)
  PROVE  Sorted(u) /\ rho(u) = rho(t)
<1> DEFINE x == t.root
           l == t.left[x]
           r == t.right[x]
           N == From(HighKids(t), l)
<1>1. /\ t \in Trees /\ t.root # NIL /\ Ranked(t) /\ Spliced(t, u, x, NIL) /\ InOrderOf(t)
      /\ Sorted(t) /\ Ordered(t, x) /\ x \in TreeNodes
      /\ LowSide(t) \subseteq TreeNodes /\ HighSide(t) \subseteq TreeNodes
      /\ LowSide(t) \subseteq Under(t, l) /\ HighSide(t) \subseteq Under(t, r)
      /\ LowSide(t) \subseteq Lows(t) /\ HighSide(t) \subseteq Highs(t)
      /\ \A n \in Under(t, l) : t.PageNumber[n] < rho(t)
      /\ \A n \in Lows(t) : Ordered(t, n) /\ t.PageNumber[n] < rho(t)
      /\ \A n \in Highs(t) : Ordered(t, n) /\ rho(t) < t.PageNumber[n]
  BY SortedFacts, LowSideIsUnder, RootsSides DEF TakenRoot
<1>2. /\ u \in Trees /\ u.root = x /\ u.PageNumber = t.PageNumber /\ rho(u) = rho(t)
  BY <1>1 DEF Spliced, rho
<1>3. /\ x # NIL /\ x # r /\ x # l /\ l \in TreeNodes \cup {NIL} /\ r \in TreeNodes \cup {NIL}
      /\ r \notin Under(t, l) /\ x \notin Under(t, l) /\ x \notin Under(t, r)
      /\ N \subseteq Under(t, l) /\ Under(t, l) \subseteq TreeNodes
      /\ Under(t, l) \subseteq Under(t, x) /\ Under(t, r) \subseteq Under(t, x)
  BY <1>1, TreeTypes, KidIsUnder, SpliceNodes, ShownIsUnder, UnderNodes, HeirIsUnder
<1>4. u.left[x] = l /\ u.right[x] = r
  BY <1>1, <1>3, NilIsNoNode DEF Spliced
<1>5. \A n \in TreeNodes : t.PageNumber[n] \in Nat /\ rho(t) \in Nat
  BY <1>1, TreeTypes DEF rho
<1>6. LowSide(u) \subseteq LowSide(t)
  <2> DEFINE L == LowSide(t)
  <2>1. l \in L \cup {NIL}
    BY <1>3, FromItself DEF LowSide
  <2>2. ASSUME NEW m \in L, NEW c \in LowKids(u)[m] PROVE c \in L
    <3>1. m \in TreeNodes /\ c \in TreeNodes /\ m # r
      BY <2>2, <1>1, <1>2, <1>3, KidsOf DEF Graph
    <3>2. c \in LowKids(t)[m]
      BY <2>2, <3>1, <1>1, SpliceSideKids, NilIsNoNode
    <3> QED
      BY <2>2, <3>1, <3>2, FromStep DEF LowSide
  <2>3. L \in SUBSET TreeNodes
    BY <1>1
  <2> HIDE DEF L
  <2>4. From(LowKids(u), l) \subseteq L
    BY <2>1, <2>2, <2>3, FromWithin, ZenonT(30)
  <2> QED
    BY <2>4, <1>2, <1>4 DEF L, LowSide
<1>7. HighSide(u) \subseteq HighSide(t) \cup N
  <2> DEFINE S == HighSide(t) \cup N
  <2>1. S \in SUBSET TreeNodes /\ r \in S \cup {NIL}
    BY <1>1, <1>3, FromItself DEF HighSide
  <2>2. ASSUME NEW m \in S, NEW c \in HighKids(u)[m] PROVE c \in S
    <3>1. m \in TreeNodes /\ c \in TreeNodes
      BY <2>1, <2>2, <1>2, KidsOf DEF Graph
    <3>2. CASE c \in HighKids(t)[m]
      <4>1. m \in HighSide(t) => c \in HighSide(t)
        BY <3>1, <3>2, FromStep DEF HighSide
      <4>2. m \in N => c \in N
        BY <3>1, <3>2, FromStep
      <4> QED
        BY <2>2, <4>1, <4>2
    <3>3. CASE c = l
      BY <3>1, <3>3, FromItself
    <3> QED
      BY <2>2, <3>1, <3>2, <3>3, <1>1, SpliceSideKids, NilIsNoNode
  <2> HIDE DEF S
  <2>3. From(HighKids(u), r) \subseteq S
    BY <2>1, <2>2, FromWithin, ZenonT(30)
  <2> QED
    BY <2>3, <1>2, <1>4 DEF S, HighSide
<1>8. Lows(u) \subseteq Lows(t) /\ Highs(u) \subseteq Highs(t) /\ LowSide(u) \subseteq Lows(u)
  <2>1. ASSUME NEW n \in Highs(u) PROVE n \in Highs(t)
    <3>1. n \in HighSide(t) \cup N /\ rho(t) < t.PageNumber[n]
      BY <2>1, <1>2, <1>7 DEF Highs
    <3>2. n \notin N
      BY <3>1, <1>1, <1>3, <1>5
    <3> QED
      BY <3>1, <3>2 DEF Highs
  <2> QED
    BY <2>1, <1>1, <1>2, <1>6 DEF Lows
<1>9. ASSUME NEW n \in Lows(u) \cup Highs(u)
      PROVE  /\ Under(u, u.right[n]) \subseteq Under(t, t.right[n])
             /\ n \in Lows(u) => Under(u, u.left[n]) \subseteq Under(t, t.left[n])
             /\ Ordered(u, n)
  <2>1. n \in TreeNodes /\ n # x /\ Ordered(t, n) /\ n \in Under(t, x)
    BY <1>1, <1>3, <1>8 DEF Lows, Highs
  <2>2. n \in Lows(u) => n # r
    BY <1>1, <1>3, <1>8 DEF Lows
  <2> QED
    BY <2>1, <2>2, <1>1, SpliceOrdered
<1>10. LowsApart(u)
  <2> SUFFICES ASSUME NEW n \in Lows(u), NEW s \in Under(u, u.left[n]), s \in HighSide(u)
               PROVE  FALSE
    BY DEF LowsApart
  <2>1. s \in Under(t, t.left[n]) /\ n \in LowSide(t) /\ Ordered(t, n) /\ t.PageNumber[n] < rho(t)
        /\ n \in Under(t, l) /\ n \in TreeNodes
    BY <1>1, <1>8, <1>9 DEF Lows
  <2>2. s \in TreeNodes /\ t.PageNumber[s] < rho(t)
    <3>1. s \in TreeNodes /\ t.PageNumber[s] < t.PageNumber[n]
      BY <2>1, UnderNodes DEF Ordered
    <3> QED
      BY <3>1, <2>1, <1>5
  <2>3. s \notin HighSide(t)
    BY <2>2, <1>1, <1>5
  <2>4. s \in N
    BY <2>3, <1>7
  <2>5. l \in LowSide(t)
    <3>1. l \in TreeNodes
      BY <2>1, <1>3, UnderNodes
    <3> QED
      BY <3>1, FromItself DEF LowSide
  <2> QED
    BY <2>1, <2>4, <2>5, <1>1, RightEdge
<1>11. HighsApart(u)
  <2> SUFFICES ASSUME NEW n \in Highs(u), NEW s \in Under(u, u.right[n]), s \in LowSide(u)
               PROVE  FALSE
    BY DEF HighsApart
  <2>1. s \in Under(t, t.right[n]) /\ Ordered(t, n) /\ rho(t) < t.PageNumber[n] /\ n \in TreeNodes
    BY <1>1, <1>8, <1>9 DEF Highs
  <2>2. s \in TreeNodes /\ t.PageNumber[n] < t.PageNumber[s]
    BY <2>1, UnderNodes DEF Ordered
  <2>3. t.PageNumber[s] < rho(t)
    BY <1>1, <1>6
  <2> QED
    BY <2>1, <2>2, <2>3, <1>5
<1>12. LostWhole(u)
  BY <1>8 DEF LostWhole
<1>13. RootOnce(u)
  <2> SUFFICES ASSUME NEW n \in LowSide(u) \cup HighSide(u) PROVE t.PageNumber[n] # rho(t)
    BY <1>2 DEF RootOnce
  <2>1. n \in TreeNodes /\ (t.PageNumber[n] < rho(t) \/ rho(t) < t.PageNumber[n])
    BY <1>1, <1>3, <1>6, <1>7
  <2> QED
    BY <2>1, <1>5
<1>14. Ranked(u)
  BY <1>1, SpliceRanked
<1> QED
  BY <1>1, <1>2, <1>9, <1>10, <1>11, <1>12, <1>13, <1>14 DEF Sorted, InOrderOf

\* As long as the page of the root is in memory nothing is lost on the sides of the root.
LEMMA RootStaysOrdered ==
  ASSUME NEW t, NEW u, NEW x, NEW q, Sorted(t), Ordered(t, t.root),
         Spliced(t, u, x, q), x \in Lows(t) \cup Highs(t)
  PROVE  Ordered(u, u.root)
<1>1. /\ t \in Trees /\ t.root # NIL /\ Ranked(t) /\ t.root \in TreeNodes
      /\ x \in TreeNodes /\ Ordered(t, x) /\ x \in LowSide(t) \cup HighSide(t)
      /\ LowSide(t) \subseteq Under(t, t.left[t.root])
      /\ HighSide(t) \subseteq Under(t, t.right[t.root])
      /\ t.root \notin LowSide(t) /\ t.root \notin HighSide(t)
  BY SortedFacts, LowSideIsUnder
<1>2. x \in Under(t, t.root) /\ x # t.root
  BY <1>1, UnderSides
<1> QED
  BY <1>1, <1>2, SpliceOrdered DEF Spliced

----------------------------------------------------------------------------
(* Paths and searches *)

LEMMA PathKidsOf ==
  ASSUME NEW t \in Trees, NEW pn \in Nat, t.root # NIL
  PROVE  /\ Graph(PathKids(t, pn))
         /\ \A n \in TreeNodes :
              /\ PathKids(t, pn)[n] = {Side(t, pn, n)} \ {NIL}
              /\ pn < rho(t) => PathKids(t, pn)[n] \subseteq LowKids(t)[n]
              /\ rho(t) < pn => PathKids(t, pn)[n] \subseteq HighKids(t)[n]
<1>1. \A n \in TreeNodes : PathKids(t, pn)[n] = {Side(t, pn, n)} \ {NIL}
  BY DEF PathKids
<1>2. ASSUME NEW n \in TreeNodes
      PROVE  /\ Side(t, pn, n) \in TreeNodes \cup {NIL}
             /\ pn < rho(t) => PathKids(t, pn)[n] \subseteq LowKids(t)[n]
             /\ rho(t) < pn => PathKids(t, pn)[n] \subseteq HighKids(t)[n]
  <2>1. t.PageNumber[n] \in Nat /\ rho(t) \in Nat
    BY TreeTypes DEF rho
  <2>2. pn < rho(t) /\ ~ (pn < t.PageNumber[n]) => t.PageNumber[n] < rho(t)
    BY <2>1
  <2>3. rho(t) < pn /\ pn < t.PageNumber[n] => rho(t) < t.PageNumber[n]
    BY <2>1
  <2>4. /\ pn < rho(t) /\ Side(t, pn, n) # NIL => Side(t, pn, n) \in LowKids(t)[n]
        /\ rho(t) < pn /\ Side(t, pn, n) # NIL => Side(t, pn, n) \in HighKids(t)[n]
    BY <2>2, <2>3, KidsOf DEF Side
  <2> QED
    BY <1>1, <2>4, TreeTypes DEF Side
<1> QED
  BY <1>1, <1>2 DEF Graph

\* The path of a page that is not the root's goes to one side of the root.
LEMMA PathSides ==
  ASSUME NEW t \in Trees, NEW pn \in Nat, t.root # NIL
  PROVE  /\ pn < rho(t) => From(PathKids(t, pn), t.left[t.root]) \subseteq LowSide(t)
         /\ rho(t) < pn => From(PathKids(t, pn), t.right[t.root]) \subseteq HighSide(t)
<1>1. t.left[t.root] \in TreeNodes \cup {NIL} /\ t.right[t.root] \in TreeNodes \cup {NIL}
  BY TreeTypes
<1> QED
  BY <1>1, PathKidsOf, KidsOf, FromMore DEF LowSide, HighSide

LEMMA SearchRoot ==
  ASSUME NEW t \in Trees, NEW pn \in Nat
  PROVE  /\ t.root # NIL => (pn = rho(t) => search(t, pn) = t.root)
         /\ t.root = NIL => search(t, pn) = NIL
<1>1. PICK g : Searches(t, pn, g) /\ search(t, pn) = g[t.root]
  BY SearchEndsSomewhere
<1> QED
  BY <1>1, TreeTypes DEF Searches, rho

\* The last node of a path is on it.
LEMMA ParentOnPath ==
  ASSUME NEW t \in Trees, Ranked(t), t.root # NIL, NEW pn \in Nat, pn # rho(t)
  PROVE  LET q == Parent(t, pn)
         IN  /\ q \in TreeNodes /\ t.PageNumber[q] # pn
             /\ search(t, pn) = Side(t, pn, q)
             /\ search(t, pn) # NIL => t.PageNumber[search(t, pn)] = pn
             /\ \/ q = t.root
                \/ pn < rho(t) /\ q \in From(PathKids(t, pn), t.left[t.root])
                \/ rho(t) < pn /\ q \in From(PathKids(t, pn), t.right[t.root])
<1> DEFINE q == Parent(t, pn)
           R == From(PathKids(t, pn), t.root)
<1>1. PICK p : Parents(t, pn, p) /\ Parent(t, pn) = p[t.root]
  BY ParentSomewhere DEF rho
<1>2. PICK rank \in [TreeNodes -> TreeNodes] : Ranks(t, rank)
  BY DEF Ranked
<1>3. R \subseteq TreeNodes /\ t.root \in R /\ t.root \in TreeNodes
  BY TreeTypes, FromItself, FromNodes
<1> DEFINE wrong == {n \in R : t.PageNumber[n] # pn /\ p[n] \notin R}
<1>4. \A n \in R : n \in TreeNodes /\ rank[n] \in Nat
  BY <1>2, <1>3 DEF TreeNodes
<1>5. wrong = {}
  <2>1. SUFFICES ASSUME wrong # {} PROVE FALSE
    OBVIOUS
  <2>2. PICK n \in wrong : \A m \in wrong : rank[n] <= rank[m]
    <3>1. \A m \in wrong : rank[m] \in Nat
      BY <1>4
    <3> HIDE DEF wrong
    <3> QED
      BY <2>1, <3>1, LowestRank
  <2> DEFINE c == Side(t, pn, n)
  <2>3. n \in R /\ n \in TreeNodes /\ t.PageNumber[n] # pn /\ p[n] \notin R
    BY <2>2, <1>4
  <2>4. c # NIL /\ t.PageNumber[c] # pn /\ p[n] = p[c]
    BY <2>3, <1>1 DEF Parents
  <2>5. c \in PathKids(t, pn)[n] /\ c \in TreeNodes
    BY <2>3, <2>4, PathKidsOf DEF Graph
  <2>6. c \in R
    BY <2>3, <2>5, FromStep
  <2>7. rank[c] < rank[n]
    BY <2>3, <2>4, <1>2 DEF Ranks, Side
  <2>8. c \in wrong
    BY <2>3, <2>4, <2>6
  <2> QED
    BY <2>2, <2>3, <2>6, <2>7, <2>8, <1>4
<1>6. q \in R
  BY <1>1, <1>3, <1>5 DEF rho
<1>7. /\ t.PageNumber[q] # pn /\ search(t, pn) = Side(t, pn, q)
      /\ search(t, pn) # NIL => t.PageNumber[search(t, pn)] = pn
  BY ParentFound DEF rho
<1> HIDE DEF q
<1>8. ASSUME q # t.root
      PROVE  \/ pn < rho(t) /\ q \in From(PathKids(t, pn), t.left[t.root])
             \/ rho(t) < pn /\ q \in From(PathKids(t, pn), t.right[t.root])
  <2>1. PICK c \in PathKids(t, pn)[t.root] : q \in From(PathKids(t, pn), c)
    BY <1>3, <1>6, <1>8, PathKidsOf, FromFirst
  <2>2. c = Side(t, pn, t.root)
    BY <2>1, <1>3, PathKidsOf
  <2>3. rho(t) \in Nat
    BY <1>3, TreeTypes DEF rho
  <2> QED
    BY <2>1, <2>2, <2>3 DEF Side, rho
<1> QED
  BY <1>3, <1>6, <1>7, <1>8 DEF q

\* A page that a search does not find is on no node of its path.
LEMMA NotOnPath ==
  ASSUME NEW t \in Trees, t.root # NIL, NEW pn \in Nat, search(t, pn) = NIL
  PROVE  /\ pn # rho(t)
         /\ \A k \in From(PathKids(t, pn), Side(t, pn, t.root)) : t.PageNumber[k] # pn
<1>1. PICK g : Searches(t, pn, g) /\ search(t, pn) = g[t.root]
  BY SearchEndsSomewhere
<1> DEFINE E == PathKids(t, pn)
           c == Side(t, pn, t.root)
           S == {k \in TreeNodes : t.PageNumber[k] # pn /\ g[k] = NIL}
<1>2. t.root \in TreeNodes
  BY TreeTypes
<1>3. pn # rho(t) /\ t.root \in S
  BY <1>1, <1>2 DEF rho, Searches
<1>4. ASSUME NEW k \in S PROVE Side(t, pn, k) \in S \cup {NIL}
  <2>1. Side(t, pn, k) \in TreeNodes \cup {NIL} /\ g[Side(t, pn, k)] = NIL
    BY <1>1, TreeTypes DEF Searches, Side
  <2> QED
    BY <2>1, <1>1 DEF Searches
<1>5. \A k \in S : E[k] \subseteq S
  BY <1>4, PathKidsOf
<1>6. c \in S \cup {NIL}
  BY <1>3, <1>4
<1>7. S \in SUBSET TreeNodes
  OBVIOUS
<1> HIDE DEF S, E, c
<1>8. From(E, c) \subseteq S
  BY <1>5, <1>6, <1>7, FromWithin
<1> QED
  BY <1>3, <1>8 DEF S, E, c

----------------------------------------------------------------------------
(* del *)

\* What a search finds is on the side of its page, but for the root.
LEMMA FoundSides ==
  ASSUME NEW t, Sorted(t), NEW pn \in Nat, search(t, pn) # NIL, search(t, pn) # t.root
  PROVE  LET x == search(t, pn)
             q == Parent(t, pn)
         IN  /\ pn # rho(t) /\ x \in TreeNodes /\ t.PageNumber[x] = pn
             /\ q \in TreeNodes /\ Side(t, pn, q) = x
             /\ \/ x \in Lows(t) /\ (q = t.root \/ q \in LowSide(t))
                \/ x \in Highs(t) /\ (q = t.root \/ q \in HighSide(t))
<1> DEFINE x == search(t, pn)
           q == Parent(t, pn)
           lo == t.left[t.root]
           hi == t.right[t.root]
<1>1. t \in Trees /\ t.root # NIL /\ Ranked(t) /\ t.root \in TreeNodes /\ rho(t) \in Nat
  BY SortedFacts, LowSideIsUnder, TreeTypes DEF rho
<1>2. pn # rho(t)
  BY <1>1, SearchRoot
<1>3. /\ q \in TreeNodes /\ x = Side(t, pn, q) /\ t.PageNumber[x] = pn
      /\ \/ q = t.root
         \/ pn < rho(t) /\ q \in From(PathKids(t, pn), lo)
         \/ rho(t) < pn /\ q \in From(PathKids(t, pn), hi)
  BY <1>1, <1>2, ParentOnPath
<1>4. x \in TreeNodes
  BY <1>1, <1>3, TreeTypes DEF Side
<1>5. x \in PathKids(t, pn)[q]
  BY <1>1, <1>3, PathKidsOf
<1> HIDE DEF x, q
<1>6. CASE pn < rho(t)
  <2>1. x \in LowKids(t)[q]
    BY <1>1, <1>3, <1>5, <1>6, PathKidsOf
  <2>2. CASE q = t.root
    <3>1. x = lo
      BY <2>2, <1>3, <1>6 DEF Side, rho
    <3>2. x \in LowSide(t)
      BY <3>1, <1>4, FromItself DEF LowSide
    <3> QED
      BY <3>2, <2>2, <1>2, <1>3, <1>4, <1>6 DEF Lows, x, q
  <2>3. CASE q # t.root
    <3>1. q \in LowSide(t)
      BY <2>3, <1>1, <1>3, <1>6, PathSides
    <3>2. x \in LowSide(t)
      BY <3>1, <2>1, <1>4, FromStep DEF LowSide
    <3> QED
      BY <3>1, <3>2, <1>2, <1>3, <1>4, <1>6 DEF Lows, x, q
  <2> QED
    BY <2>2, <2>3
<1>7. CASE rho(t) < pn
  <2>1. x \in HighKids(t)[q]
    BY <1>1, <1>3, <1>5, <1>7, PathKidsOf
  <2>2. CASE q = t.root
    <3>1. x = hi
      BY <2>2, <1>1, <1>3, <1>7 DEF Side, rho
    <3>2. x \in HighSide(t)
      BY <3>1, <1>4, FromItself DEF HighSide
    <3> QED
      BY <3>2, <2>2, <1>2, <1>3, <1>4, <1>7 DEF Highs, x, q
  <2>3. CASE q # t.root
    <3>1. q \in HighSide(t)
      BY <2>3, <1>1, <1>3, <1>7, PathSides
    <3>2. x \in HighSide(t)
      BY <3>1, <2>1, <1>4, FromStep DEF HighSide
    <3> QED
      BY <3>1, <3>2, <1>2, <1>3, <1>4, <1>7 DEF Highs, x, q
  <2> QED
    BY <2>2, <2>3
<1> QED
  BY <1>1, <1>2, <1>6, <1>7

\* What hanging the heir on its new parent leaves of the fields.
LEMMA Hung ==
  ASSUME NEW t \in Trees, NEW q \in TreeNodes, NEW pn, NEW n \in TreeNodes \cup {NIL}
  PROVE  LET u == Hang(t, q, pn, n)
         IN  /\ u \in Trees /\ u.root = t.root /\ u.PageNumber = t.PageNumber
             /\ \A m \in TreeNodes :
                  /\ u.left[m] = IF m = q /\ pn < t.PageNumber[q] THEN n ELSE t.left[m]
                  /\ u.right[m] = IF m = q /\ ~ (pn < t.PageNumber[q]) THEN n ELSE t.right[m]
<1> DEFINE u == Hang(t, q, pn, n)
<1>1. CASE pn < t.PageNumber[q]
  <2> DEFINE left == [t.left EXCEPT ![q] = n]
  <2>1. u = [t EXCEPT !.left = left] /\ left \in [TreeNodes -> TreeNodes \cup {NIL}]
    BY <1>1 DEF Hang, Trees
  <2>2. \A m \in TreeNodes : left[m] = IF m = q THEN n ELSE t.left[m]
    BY DEF Trees
  <2> HIDE DEF u, left
  <2>3. /\ u \in Trees /\ u.root = t.root /\ u.left = left /\ u.right = t.right
        /\ u.PageNumber = t.PageNumber
    BY <2>1 DEF Trees
  <2> QED
    BY <2>2, <2>3, <1>1 DEF u
<1>2. CASE ~ (pn < t.PageNumber[q])
  <2> DEFINE right == [t.right EXCEPT ![q] = n]
  <2>1. u = [t EXCEPT !.right = right] /\ right \in [TreeNodes -> TreeNodes \cup {NIL}]
    BY <1>2 DEF Hang, Trees
  <2>2. \A m \in TreeNodes : right[m] = IF m = q THEN n ELSE t.right[m]
    BY DEF Trees
  <2> HIDE DEF u, right
  <2>3. /\ u \in Trees /\ u.root = t.root /\ u.left = t.left /\ u.right = right
        /\ u.PageNumber = t.PageNumber
    BY <2>1 DEF Trees
  <2> QED
    BY <2>2, <2>3, <1>2 DEF u
<1> QED
  BY <1>1, <1>2

LEMMA DelSplices ==
  ASSUME NEW t \in Trees, NEW pn \in Nat, search(t, pn) \in TreeNodes,
         t.PageNumber[search(t, pn)] = pn
  PROVE  /\ search(t, pn) = t.root => Spliced(t, del(t, pn), search(t, pn), NIL)
         /\ search(t, pn) # t.root /\ Parent(t, pn) \in TreeNodes
              /\ Side(t, pn, Parent(t, pn)) = search(t, pn)
              => Spliced(t, del(t, pn), search(t, pn), Parent(t, pn))
<1> DEFINE x == search(t, pn)
           q == Parent(t, pn)
           l == t.left[x]
           r == t.right[x]
           moved == IF l # NIL /\ r # NIL THEN [t EXCEPT !.left[r] = l] ELSE t
           u == del(t, pn)
<1>1. l \in TreeNodes \cup {NIL} /\ r \in TreeNodes \cup {NIL} /\ x # NIL
  BY TreeTypes, NilIsNoNode
<1>2. u = IF x = t.root THEN moved ELSE Hang(moved, q, pn, Heir(t, x))
  BY <1>1 DEF del, Heir
<1> HIDE DEF x, q, u
<1>3. /\ moved \in Trees /\ moved.root = t.root /\ moved.PageNumber = t.PageNumber
      /\ \A m \in TreeNodes : /\ moved.left[m] = IF m = r /\ l # NIL THEN l ELSE t.left[m]
                              /\ moved.right[m] = t.right[m]
  <2>1. CASE l # NIL /\ r # NIL
    <3> DEFINE left == [t.left EXCEPT ![r] = l]
    <3>1. moved = [t EXCEPT !.left = left] /\ left \in [TreeNodes -> TreeNodes \cup {NIL}]
      BY <2>1, <1>1 DEF Trees
    <3>2. \A m \in TreeNodes : left[m] = IF m = r THEN l ELSE t.left[m]
      BY <2>1, <1>1 DEF Trees
    <3> HIDE DEF left, moved, l, r
    <3>3. /\ moved \in Trees /\ moved.root = t.root /\ moved.left = left /\ moved.right = t.right
          /\ moved.PageNumber = t.PageNumber
      BY <3>1 DEF Trees
    <3> QED
      BY <3>2, <3>3, <2>1
  <2>2. CASE ~ (l # NIL /\ r # NIL)
    BY <2>2, NilIsNoNode
  <2> QED
    BY <2>1, <2>2
<1> HIDE DEF moved
<1>4. CASE x = t.root
  <2>1. u = moved
    BY <1>2, <1>4
  <2> QED
    BY <2>1, <1>3, <1>4, NilIsNoNode DEF Spliced, x, u
<1>5. ASSUME x # t.root, q \in TreeNodes, Side(t, pn, q) = x PROVE Spliced(t, u, x, q)
  <2>1. Heir(t, x) \in TreeNodes \cup {NIL}
    BY <1>1 DEF Heir
  <2>2. u = Hang(moved, q, pn, Heir(t, x))
    BY <1>2, <1>5
  <2>3. /\ u \in Trees /\ u.root = t.root /\ u.PageNumber = t.PageNumber
        /\ \A m \in TreeNodes :
             /\ u.left[m] = IF m = q /\ pn < t.PageNumber[q] THEN Heir(t, x) ELSE moved.left[m]
             /\ u.right[m] = IF m = q /\ ~ (pn < t.PageNumber[q]) THEN Heir(t, x) ELSE moved.right[m]
    BY <2>1, <2>2, <1>3, <1>5, Hung
  <2>4. x \in TreeNodes /\ t.PageNumber[x] = pn
    BY DEF x
  <2> QED
    BY <2>3, <2>4, <1>3, <1>5 DEF Spliced
<1> QED
  BY <1>4, <1>5 DEF x, q, u

\* del keeps the order, and leads to nothing new.
LEMMA DelKeepsSorted ==
  ASSUME NEW t, Sorted(t), NEW pn \in Nat, pn = rho(t) => Ordered(t, t.root)
  PROVE  LET u == del(t, pn)
         IN  /\ Sorted(u) /\ u.root = t.root /\ rho(u) = rho(t)
             /\ pn # rho(t) /\ Ordered(t, t.root) => Ordered(u, u.root)
             /\ Reachable(u) \subseteq Reachable(t)
<1> DEFINE x == search(t, pn)
           q == Parent(t, pn)
           u == del(t, pn)
<1>1. t \in Trees /\ t.root # NIL /\ Ranked(t) /\ t.root \in TreeNodes /\ InOrderOf(t)
  BY SortedFacts, LowSideIsUnder
<1>2. Paths(t, Reachable(t)) /\ t.root \in Reachable(t)
  BY <1>1, ReachableIsClosed DEF Paths
\* Splicing a node that the root leads to keeps paths among the nodes it leads to.
<1>3. ASSUME NEW v, NEW k, Spliced(t, v, x, k), x \in Reachable(t)
      PROVE  Reachable(v) \subseteq Reachable(t)
  <2> DEFINE R == Reachable(t)
  <2>1. \A n \in R : n \in TreeNodes /\ t.left[n] \in R \cup {NIL} /\ t.right[n] \in R \cup {NIL}
    BY <1>2 DEF Paths
  <2>2. Heir(t, x) \in R \cup {NIL} /\ t.left[x] \in R \cup {NIL} /\ v.root \in R \cup {NIL}
    BY <2>1, <1>2, <1>3 DEF Heir, Spliced
  <2> HIDE DEF R
  <2>3. \A n \in R : v.left[n] \in R \cup {NIL} /\ v.right[n] \in R \cup {NIL}
    BY <2>1, <2>2, <1>3 DEF Spliced
  <2>4. Reachable(v) \subseteq R
    BY <2>2, <2>3, ReachableWithin
  <2> QED
    BY <2>4 DEF R
<1>4. CASE x = NIL
  <2>1. u = t
    BY <1>1, <1>4 DEF del
  <2> QED
    BY <2>1
<1>5. CASE x = t.root
  <2>1. pn = rho(t)
    <3>1. pn # rho(t) => t.PageNumber[x] = pn
      BY <1>1, <1>5, ParentOnPath
    <3> QED
      BY <3>1, <1>5 DEF rho
  <2>2. Spliced(t, u, t.root, NIL)
    BY <2>1, <1>1, <1>5, DelSplices DEF rho
  <2>3. TakenRoot(t, u)
    BY <2>1, <2>2 DEF TakenRoot
  <2>4. Sorted(u) /\ rho(u) = rho(t) /\ u.root = t.root
    BY <2>2, <2>3, TakenRootSorted DEF Spliced
  <2>5. Reachable(u) \subseteq Reachable(t)
    BY <2>2, <1>2, <1>3, <1>5
  <2> QED
    BY <2>1, <2>4, <2>5
<1>6. CASE x # NIL /\ x # t.root
  <2>1. /\ pn # rho(t) /\ x \in TreeNodes /\ t.PageNumber[x] = pn
        /\ q \in TreeNodes /\ Side(t, pn, q) = x
        /\ \/ x \in Lows(t) /\ (q = t.root \/ q \in LowSide(t))
           \/ x \in Highs(t) /\ (q = t.root \/ q \in HighSide(t))
    BY <1>6, FoundSides
  <2>2. Spliced(t, u, x, q)
    BY <2>1, <1>1, <1>6, DelSplices
  <2> HIDE DEF u, q
  <2>3. u.root = t.root /\ rho(u) = rho(t)
    BY <2>2 DEF Spliced, rho
  <2>4. x \in Reachable(t)
    <3>1. q \in Reachable(t)
      BY <2>1, <1>1, ParentFound DEF rho, q
    <3> QED
      BY <3>1, <2>1, <1>2, <1>6 DEF Paths, Side
  <2>5. Reachable(u) \subseteq Reachable(t)
    BY <2>2, <2>4, <1>3
  <2> HIDE DEF x
  <2>6. Sorted(u)
    <3>1. TakenLow(t, u, x, q) \/ TakenHigh(t, u, x, q)
      BY <2>1, <2>2 DEF TakenLow, TakenHigh
    <3> QED
      BY <3>1, TakenLowSorted, TakenHighSorted
  <2>7. Ordered(t, t.root) => Ordered(u, u.root)
    BY <2>1, <2>2, RootStaysOrdered
  <2> QED
    BY <2>1, <2>3, <2>5, <2>6, <2>7 DEF u
<1> QED
  BY <1>4, <1>5, <1>6

----------------------------------------------------------------------------
(* Hanging a new node *)

\* Where the path of a page ends, the page is in order with the nodes of its side.
InPlace(t, pn, q) ==
  \A n \in TreeNodes :
    Ordered(t, n) /\ ((pn < rho(t) /\ n \in LowSide(t)) \/ (rho(t) < pn /\ n \in HighSide(t)))
      => /\ q \in Under(t, t.left[n]) => pn < t.PageNumber[n]
         /\ q \in Under(t, t.right[n]) => t.PageNumber[n] < pn

\* Tree u is tree t with node z for page pn hung on node q.
Grown(t, u, pn, z, q) ==
  /\ Sorted(t) /\ u \in Trees /\ Ranked(u) /\ u.root = t.root
  /\ pn \in Nat /\ pn # rho(t)
  /\ z \in TreeNodes /\ z \notin Under(t, t.root)
  /\ q \in TreeNodes /\ Side(t, pn, q) = NIL /\ InPlace(t, pn, q)
  /\ q = t.root \/ (pn < rho(t) /\ q \in LowSide(t)) \/ (rho(t) < pn /\ q \in HighSide(t))
  /\ u.left[z] = NIL /\ u.right[z] = NIL /\ u.PageNumber[z] = pn
  /\ \A m \in TreeNodes \ {z} :
       /\ u.left[m] = IF m = q /\ pn < t.PageNumber[m] THEN z ELSE t.left[m]
       /\ u.right[m] = IF m = q /\ ~ (pn < t.PageNumber[m]) THEN z ELSE t.right[m]
       /\ u.PageNumber[m] = t.PageNumber[m]

LEMMA GrownFacts ==
  ASSUME NEW t, NEW u, NEW pn, NEW z, NEW q, Grown(t, u, pn, z, q)
  PROVE  /\ t \in Trees /\ t.root # NIL /\ Ranked(t) /\ t.root \in TreeNodes
         /\ u \in Trees /\ Ranked(u) /\ u.root = t.root /\ rho(u) = rho(t)
         /\ rho(t) \in Nat /\ pn \in Nat /\ pn # rho(t)
         /\ LowSide(t) \subseteq Under(t, t.root) /\ HighSide(t) \subseteq Under(t, t.root)
         /\ t.root \notin LowSide(t) /\ t.root \notin HighSide(t)
         /\ z \in TreeNodes /\ z # NIL /\ q \in TreeNodes
         /\ q \in Under(t, t.root) /\ z \notin Under(t, t.root) /\ q # z
         /\ u.PageNumber[z] = pn /\ u.left[z] = NIL /\ u.right[z] = NIL
         /\ \A m \in Under(t, t.root) :
              /\ m \in TreeNodes /\ m # z /\ u.PageNumber[m] = t.PageNumber[m]
              /\ t.left[m] \in Under(t, t.root) \cup {NIL} /\ t.right[m] \in Under(t, t.root) \cup {NIL}
              /\ \/ u.left[m] = t.left[m]
                 \/ m = q /\ pn < t.PageNumber[q] /\ u.left[m] = z /\ t.left[m] = NIL
              /\ \/ u.right[m] = t.right[m]
                 \/ m = q /\ ~ (pn < t.PageNumber[q]) /\ u.right[m] = z /\ t.right[m] = NIL
         /\ pn < t.PageNumber[q] => u.left[q] = z
         /\ ~ (pn < t.PageNumber[q]) => u.right[q] = z
<1> DEFINE R == Under(t, t.root)
<1>1. /\ t \in Trees /\ t.root # NIL /\ Ranked(t) /\ t.root \in TreeNodes
      /\ LowSide(t) \subseteq R /\ HighSide(t) \subseteq R
      /\ t.root \notin LowSide(t) /\ t.root \notin HighSide(t)
  <2>1. t \in Trees /\ t.root # NIL /\ Ranked(t)
    BY SortedFacts DEF Grown
  <2>2. /\ t.root \in TreeNodes
        /\ LowSide(t) \subseteq Under(t, t.left[t.root]) /\ HighSide(t) \subseteq Under(t, t.right[t.root])
        /\ t.root \notin LowSide(t) /\ t.root \notin HighSide(t)
    BY <2>1, LowSideIsUnder
  <2> QED
    BY <2>1, <2>2, UnderSides
<1>2. t.root \in R /\ R \subseteq TreeNodes
  BY <1>1, UnderItself, UnderNodes
<1>3. q \in R /\ z \notin R /\ z # NIL
  BY <1>1, <1>2, NilIsNoNode DEF Grown
<1>4. rho(u) = rho(t) /\ rho(t) \in Nat
  BY <1>1, <1>2, <1>3, TreeTypes DEF Grown, rho
<1>5. ASSUME NEW m \in R
      PROVE  /\ m \in TreeNodes /\ m # z
             /\ t.left[m] \in R \cup {NIL} /\ t.right[m] \in R \cup {NIL}
  <2>1. m \in TreeNodes /\ m # z
    BY <1>2, <1>3
  <2>2. \A c \in {t.left[m], t.right[m]} : c # NIL => c \in Under(t, m)
    BY <2>1, <1>1, KidIsUnder
  <2> QED
    BY <2>1, <2>2, <1>1, UnderTrans
<1>6. ASSUME NEW m \in R
      PROVE  /\ u.PageNumber[m] = t.PageNumber[m]
             /\ \/ u.left[m] = t.left[m]
                \/ m = q /\ pn < t.PageNumber[q] /\ u.left[m] = z /\ t.left[m] = NIL
             /\ \/ u.right[m] = t.right[m]
                \/ m = q /\ ~ (pn < t.PageNumber[q]) /\ u.right[m] = z /\ t.right[m] = NIL
  BY <1>5 DEF Grown, Side
<1>7. /\ pn < t.PageNumber[q] => u.left[q] = z
      /\ ~ (pn < t.PageNumber[q]) => u.right[q] = z
  BY <1>3, <1>5 DEF Grown
<1> QED
  BY <1>1, <1>3, <1>4, <1>5, <1>6, <1>7 DEF Grown

\* The graphs have one edge more.
LEMMA GrownKids ==
  ASSUME NEW t, NEW u, NEW pn, NEW z, NEW q, Grown(t, u, pn, z, q)
  PROVE  /\ Kids(u)[z] = {} /\ LowKids(u)[z] = {} /\ HighKids(u)[z] = {}
         /\ \A m \in Under(t, t.root) : \A c :
              /\ c \in Kids(u)[m] <=> c \in Kids(t)[m] \/ (m = q /\ c = z)
              /\ c \in LowKids(t)[m] => c \in LowKids(u)[m]
              /\ c \in LowKids(u)[m] => c \in LowKids(t)[m] \/ (m = q /\ c = z)
              /\ c \in HighKids(u)[m] => c \in HighKids(t)[m] \/ (m = q /\ c = z)
         /\ z \in LowKids(u)[q] => pn < t.PageNumber[q] \/ t.PageNumber[q] < rho(t)
         /\ z \in HighKids(u)[q] => ~ (pn < t.PageNumber[q]) \/ rho(t) < t.PageNumber[q]
<1>1. /\ t \in Trees /\ u \in Trees /\ rho(u) = rho(t) /\ rho(t) \in Nat /\ pn \in Nat
      /\ z \in TreeNodes /\ z # NIL /\ q \in TreeNodes
      /\ q \in Under(t, t.root) /\ z \notin Under(t, t.root) /\ q # z
      /\ u.left[z] = NIL /\ u.right[z] = NIL
      /\ pn < t.PageNumber[q] => u.left[q] = z
      /\ ~ (pn < t.PageNumber[q]) => u.right[q] = z
      /\ t.PageNumber[q] \in Nat
  BY GrownFacts, TreeTypes
<1>2. \A m \in Under(t, t.root) :
              /\ m \in TreeNodes /\ u.PageNumber[m] = t.PageNumber[m]
              /\ t.left[m] # z /\ t.right[m] # z
              /\ \/ u.left[m] = t.left[m]
                 \/ m = q /\ pn < t.PageNumber[q] /\ u.left[m] = z /\ t.left[m] = NIL
              /\ \/ u.right[m] = t.right[m]
                 \/ m = q /\ ~ (pn < t.PageNumber[q]) /\ u.right[m] = z /\ t.right[m] = NIL
  BY <1>1, GrownFacts
<1>3. Kids(u)[z] = {} /\ LowKids(u)[z] = {} /\ HighKids(u)[z] = {}
  BY <1>1, KidsOf
<1>4. ASSUME NEW m \in Under(t, t.root), NEW c
      PROVE  /\ c \in Kids(u)[m] <=> c \in Kids(t)[m] \/ (m = q /\ c = z)
             /\ c \in LowKids(t)[m] => c \in LowKids(u)[m]
             /\ c \in LowKids(u)[m] => c \in LowKids(t)[m] \/ (m = q /\ c = z)
             /\ c \in HighKids(u)[m] => c \in HighKids(t)[m] \/ (m = q /\ c = z)
  <2>1. m \in TreeNodes /\ u.PageNumber[m] = t.PageNumber[m]
    BY <1>2
  <2>2. /\ c \in Kids(u)[m] <=> c # NIL /\ (c = u.left[m] \/ c = u.right[m])
        /\ c \in LowKids(u)[m] <=>
             c # NIL /\ (c = u.left[m] \/ (c = u.right[m] /\ t.PageNumber[m] < rho(t)))
        /\ c \in HighKids(u)[m] <=>
             c # NIL /\ (c = u.right[m] \/ (c = u.left[m] /\ rho(t) < t.PageNumber[m]))
    BY <2>1, <1>1, KidsOf
  <2>3. /\ c \in Kids(t)[m] <=> c # NIL /\ (c = t.left[m] \/ c = t.right[m])
        /\ c \in LowKids(t)[m] <=>
             c # NIL /\ (c = t.left[m] \/ (c = t.right[m] /\ t.PageNumber[m] < rho(t)))
        /\ c \in HighKids(t)[m] <=>
             c # NIL /\ (c = t.right[m] \/ (c = t.left[m] /\ rho(t) < t.PageNumber[m]))
    BY <2>1, <1>1, KidsOf
  <2> QED
    BY <2>2, <2>3, <1>1, <1>2
<1>5. /\ z \in LowKids(u)[q] => pn < t.PageNumber[q] \/ t.PageNumber[q] < rho(t)
      /\ z \in HighKids(u)[q] => ~ (pn < t.PageNumber[q]) \/ rho(t) < t.PageNumber[q]
  <2>1. /\ u.PageNumber[q] = t.PageNumber[q]
        /\ z = u.left[q] <=> pn < t.PageNumber[q]
        /\ z = u.right[q] <=> ~ (pn < t.PageNumber[q])
    BY <1>1, <1>2
  <2>2. /\ z \in LowKids(u)[q] <=>
             z # NIL /\ (z = u.left[q] \/ (z = u.right[q] /\ t.PageNumber[q] < rho(t)))
        /\ z \in HighKids(u)[q] <=>
             z # NIL /\ (z = u.right[q] \/ (z = u.left[q] /\ rho(t) < t.PageNumber[q]))
    BY <2>1, <1>1, KidsOf
  <2> QED
    BY <2>1, <2>2, <1>1
<1> QED
  BY <1>3, <1>4, <1>5

\* What hangs on a node, with the new one.
LEMMA GrownUnder ==
  ASSUME NEW t, NEW u, NEW pn, NEW z, NEW q, Grown(t, u, pn, z, q)
  PROVE  /\ \A c \in Under(t, t.root) : \A m \in Under(u, c) :
              m \in Under(t, c) \/ (m = z /\ q \in Under(t, c))
         /\ \A m \in Under(u, z) : m = z
<1> DEFINE R == Under(t, t.root)
<1>1. /\ t \in Trees /\ u \in Trees /\ z \in TreeNodes /\ Kids(u)[z] = {}
      /\ \A m \in R : \A c : c \in Kids(u)[m] <=> c \in Kids(t)[m] \/ (m = q /\ c = z)
  BY GrownFacts, GrownKids
<1>2. R \subseteq TreeNodes
  BY UnderNodes
<1>3. ASSUME NEW c \in R, NEW m \in Under(u, c)
      PROVE  m \in Under(t, c) \/ (m = z /\ q \in Under(t, c))
  <2> DEFINE S == Under(t, c) \cup {k \in {z} : q \in Under(t, c)}
  <2>1. Under(t, c) \subseteq R /\ c \in Under(t, c)
    BY <1>1, <1>2, <1>3, UnderTrans, UnderItself
  <2>2. S \in SUBSET TreeNodes /\ c \in S \cup {NIL}
    BY <1>1, <1>2, <2>1
  <2>3. ASSUME NEW k \in S, NEW d \in Kids(u)[k] PROVE d \in S
    <3>1. k \in Under(t, c)
      BY <2>3, <1>1
    <3>2. d \in Kids(t)[k] \/ (k = q /\ d = z)
      BY <3>1, <2>1, <2>3, <1>1
    <3>3. CASE d \in Kids(t)[k]
      <4>1. d \in TreeNodes /\ k \in TreeNodes
        BY <3>1, <3>3, <2>1, <1>1, <1>2, KidsOf DEF Graph
      <4>2. d \in Under(t, c)
        BY <4>1, <3>1, <3>3, FromStep DEF Under
      <4> QED
        BY <4>2
    <3> QED
      BY <3>1, <3>2, <3>3
  <2> HIDE DEF S
  <2>4. Under(u, c) \subseteq S
    BY <2>2, <2>3, FromWithin DEF Under
  <2> QED
    BY <2>4, <1>3 DEF S
<1>4. Under(u, z) \subseteq {z}
  <2> DEFINE S == {z}
  <2>1. S \in SUBSET TreeNodes /\ z \in S \cup {NIL} /\ \A m \in S : Kids(u)[m] \subseteq S
    BY <1>1
  <2> HIDE DEF S
  <2>2. Under(u, z) \subseteq S
    BY <2>1, FromWithin DEF Under
  <2> QED
    BY <2>2 DEF S
<1> QED
  BY <1>3, <1>4

\* The sides of the root, with the new node.
LEMMA GrownLow ==
  ASSUME NEW t, NEW u, NEW pn, NEW z, NEW q, Grown(t, u, pn, z, q)
  PROVE  /\ LowSide(t) \subseteq LowSide(u)
         /\ \A m \in LowSide(u) :
              m \in LowSide(t)
              \/ (m = z /\ ((q = t.root /\ pn < rho(t)) \/ (q \in LowSide(t) /\ z \in LowKids(u)[q])))
<1> DEFINE R == Under(t, t.root)
           L == LowSide(t)
           s == t.left[t.root]
           v == u.left[t.root]
<1>1. /\ t \in Trees /\ u \in Trees /\ t.root \in TreeNodes /\ u.root = t.root /\ rho(u) = rho(t)
      /\ z \in TreeNodes /\ z # NIL /\ z \notin R
      /\ L \subseteq R /\ t.root \notin L /\ q \in TreeNodes
      /\ \/ v = s
         \/ t.root = q /\ pn < t.PageNumber[q] /\ v = z /\ s = NIL
      /\ pn < t.PageNumber[q] => u.left[q] = z
      /\ q = t.root \/ (pn < rho(t) /\ q \in L) \/ (rho(t) < pn /\ q \in HighSide(t))
      /\ rho(t) \in Nat /\ pn \in Nat
  <2>1. t.root \in R
    BY GrownFacts, UnderItself
  <2> QED
    BY <2>1, GrownFacts DEF Grown
<1>2. /\ LowKids(u)[z] = {}
      /\ \A m \in R : \A c :
           /\ c \in LowKids(t)[m] => c \in LowKids(u)[m]
           /\ c \in LowKids(u)[m] => c \in LowKids(t)[m] \/ (m = q /\ c = z)
  BY GrownKids
<1>3. R \subseteq TreeNodes
  BY UnderNodes
<1>4. s \in L \cup {NIL} /\ Graph(LowKids(t)) /\ Graph(LowKids(u))
  BY <1>1, TreeTypes, FromItself, KidsOf DEF LowSide
<1>5. v \in TreeNodes \cup {NIL} /\ LowSide(u) = From(LowKids(u), v)
  BY <1>1, TreeTypes DEF LowSide
<1>6. L \subseteq LowSide(u)
  <2>1. CASE s = NIL
    BY <2>1, FromNil DEF LowSide
  <2>2. CASE s # NIL
    <3> DEFINE S == {m \in L : m \in LowSide(u)}
    <3>1. v = s /\ s \in TreeNodes
      BY <2>2, <1>1, <1>3, <1>4
    <3>2. s \in S \cup {NIL} /\ S \in SUBSET TreeNodes
      BY <3>1, <2>2, <1>1, <1>3, <1>4, <1>5, FromItself
    <3>3. ASSUME NEW k \in S, NEW c \in LowKids(t)[k] PROVE c \in S
      <4>1. k \in TreeNodes /\ c \in TreeNodes /\ c \in LowKids(u)[k]
        BY <3>3, <1>1, <1>2, <1>3, <1>4 DEF Graph
      <4>2. c \in L
        BY <4>1, <3>3, FromStep DEF LowSide
      <4>3. c \in LowSide(u)
        BY <4>1, <3>3, FromStep DEF LowSide
      <4> QED
        BY <4>2, <4>3
    <3> HIDE DEF S, s
    <3>4. From(LowKids(t), s) \subseteq S
      BY <3>2, <3>3, FromWithin
    <3> QED
      BY <3>4 DEF S, s, LowSide
  <2> QED
    BY <2>1, <2>2
<1>7. ASSUME NEW m \in LowSide(u)
      PROVE  m \in L \/ (m = z /\ ((q = t.root /\ pn < rho(t)) \/ (q \in L /\ z \in LowKids(u)[q])))
  <2> DEFINE mine == (q = t.root /\ pn < rho(t)) \/ (q \in L /\ z \in LowKids(u)[q])
             S == L \cup {k \in {z} : mine}
  <2>1. S \in SUBSET TreeNodes
    BY <1>1, <1>3
  <2>2. v \in S \cup {NIL}
    BY <1>1, <1>4 DEF rho
  <2>3. ASSUME NEW k \in S, NEW d \in LowKids(u)[k] PROVE d \in S
    <3>1. k \in L
      BY <2>3, <1>2
    <3>2. d \in LowKids(t)[k] \/ (k = q /\ d = z)
      BY <3>1, <2>3, <1>1, <1>2
    <3>3. CASE d \in LowKids(t)[k]
      <4>1. d \in TreeNodes /\ k \in TreeNodes
        BY <3>1, <3>3, <1>1, <1>3, <1>4 DEF Graph
      <4>2. d \in L
        BY <4>1, <3>1, <3>3, FromStep DEF LowSide
      <4> QED
        BY <4>2
    <3> QED
      BY <3>1, <3>2, <3>3, <2>3
  <2> HIDE DEF S, v
  <2>4. From(LowKids(u), v) \subseteq S
    BY <2>1, <2>2, <2>3, FromWithin
  <2>5. m \in S
    BY <2>4, <1>5, <1>7
  <2> QED
    BY <2>5 DEF S
<1> QED
  BY <1>6, <1>7

LEMMA GrownHigh ==
  ASSUME NEW t, NEW u, NEW pn, NEW z, NEW q, Grown(t, u, pn, z, q)
  PROVE  \A m \in HighSide(u) :
           m \in HighSide(t)
           \/ (m = z /\ ((q = t.root /\ rho(t) < pn) \/ (q \in HighSide(t) /\ z \in HighKids(u)[q])))
<1> DEFINE R == Under(t, t.root)
           H == HighSide(t)
           s == t.right[t.root]
           v == u.right[t.root]
<1>1. /\ t \in Trees /\ u \in Trees /\ t.root \in TreeNodes /\ u.root = t.root /\ rho(u) = rho(t)
      /\ z \in TreeNodes /\ z # NIL /\ z \notin R
      /\ H \subseteq R /\ q \in TreeNodes
      /\ \/ v = s
         \/ t.root = q /\ ~ (pn < t.PageNumber[q]) /\ v = z /\ s = NIL
      /\ rho(t) \in Nat /\ pn \in Nat /\ pn # rho(t)
  <2>1. t.root \in R
    BY GrownFacts, UnderItself
  <2> QED
    BY <2>1, GrownFacts
<1>2. /\ HighKids(u)[z] = {}
      /\ \A m \in R : \A c : c \in HighKids(u)[m] => c \in HighKids(t)[m] \/ (m = q /\ c = z)
  BY GrownKids
<1>3. R \subseteq TreeNodes
  BY UnderNodes
<1>4. s \in H \cup {NIL} /\ Graph(HighKids(t))
  BY <1>1, TreeTypes, FromItself, KidsOf DEF HighSide
<1>5. HighSide(u) = From(HighKids(u), v)
  BY <1>1 DEF HighSide
<1> SUFFICES ASSUME NEW m \in HighSide(u)
             PROVE  m \in H \/ (m = z /\ ((q = t.root /\ rho(t) < pn) \/ (q \in H /\ z \in HighKids(u)[q])))
  OBVIOUS
<1> DEFINE mine == (q = t.root /\ rho(t) < pn) \/ (q \in H /\ z \in HighKids(u)[q])
           S == H \cup {k \in {z} : mine}
<1>6. S \in SUBSET TreeNodes
  BY <1>1, <1>3
<1>7. v \in S \cup {NIL}
  BY <1>1, <1>4 DEF rho
<1>8. ASSUME NEW k \in S, NEW d \in HighKids(u)[k] PROVE d \in S
  <2>1. k \in H
    BY <1>8, <1>2
  <2>2. d \in HighKids(t)[k] \/ (k = q /\ d = z)
    BY <2>1, <1>8, <1>1, <1>2
  <2>3. CASE d \in HighKids(t)[k]
    <3>1. d \in TreeNodes /\ k \in TreeNodes
      BY <2>1, <2>3, <1>1, <1>3, <1>4 DEF Graph
    <3>2. d \in H
      BY <3>1, <2>1, <2>3, FromStep DEF HighSide
    <3> QED
      BY <3>2
  <2> QED
    BY <2>1, <2>2, <2>3, <1>8
<1> HIDE DEF S, v
<1>9. From(HighKids(u), v) \subseteq S
  BY <1>6, <1>7, <1>8, FromWithin
<1>10. m \in S
  BY <1>9, <1>5
<1> QED
  BY <1>10 DEF S

\* What the sides of an old node have below them.
LEMMA GrownSides ==
  ASSUME NEW t, NEW u, NEW pn, NEW z, NEW q, Grown(t, u, pn, z, q), NEW n \in Under(t, t.root)
  PROVE  /\ \A m \in Under(u, u.left[n]) :
              \/ m \in Under(t, t.left[n])
              \/ m = z /\ q \in Under(t, t.left[n])
              \/ m = z /\ n = q /\ pn < t.PageNumber[q]
         /\ \A m \in Under(u, u.right[n]) :
              \/ m \in Under(t, t.right[n])
              \/ m = z /\ q \in Under(t, t.right[n])
              \/ m = z /\ n = q /\ ~ (pn < t.PageNumber[q])
<1>1. \A c \in Under(t, t.root) \cup {NIL} : \A m \in Under(u, c) :
        m \in Under(t, c) \/ (m = z /\ q \in Under(t, c))
  BY GrownUnder, UnderNodes
<1>2. \A m \in Under(u, z) : m = z
  BY GrownUnder
<1>3. /\ t.left[n] \in Under(t, t.root) \cup {NIL} /\ t.right[n] \in Under(t, t.root) \cup {NIL}
      /\ \/ u.left[n] = t.left[n]
         \/ n = q /\ pn < t.PageNumber[q] /\ u.left[n] = z
      /\ \/ u.right[n] = t.right[n]
         \/ n = q /\ ~ (pn < t.PageNumber[q]) /\ u.right[n] = z
  BY GrownFacts
<1> QED
  BY <1>1, <1>2, <1>3

\* The nodes that count for the order, with the new one.
LEMMA GrownNodes ==
  ASSUME NEW t, NEW u, NEW pn, NEW z, NEW q, Grown(t, u, pn, z, q), NEW n \in TreeNodes, n # z
  PROVE  /\ n \in LowSide(u) => n \in LowSide(t) /\ n \in Under(t, t.root)
         /\ n \in HighSide(u) => n \in HighSide(t) /\ n \in Under(t, t.root)
         /\ n \in Lows(u) => n \in Lows(t) /\ n \in Under(t, t.root) /\ Ordered(t, n)
                             /\ t.PageNumber[n] < rho(t) /\ n \in LowSide(t)
         /\ n \in Highs(u) => n \in Highs(t) /\ n \in Under(t, t.root) /\ Ordered(t, n)
                             /\ rho(t) < t.PageNumber[n] /\ n \in HighSide(t)
         /\ n \in LowSide(u) /\ n \notin Lows(u) => n \notin Lows(t) /\ ~ (t.PageNumber[n] < rho(t))
<1>1. /\ n \in LowSide(u) => n \in LowSide(t)
      /\ n \in HighSide(u) => n \in HighSide(t)
  BY GrownLow, GrownHigh
<1>2. /\ LowSide(t) \subseteq Under(t, t.root) /\ HighSide(t) \subseteq Under(t, t.root)
      /\ rho(u) = rho(t)
      /\ \A m \in Under(t, t.root) : u.PageNumber[m] = t.PageNumber[m]
  BY GrownFacts
<1>3. \A m \in Lows(t) \cup Highs(t) : Ordered(t, m)
  BY SortedFacts DEF Grown
<1>4. n \in Lows(u) => n \in Lows(t) /\ t.PageNumber[n] < rho(t) /\ n \in LowSide(t)
  BY <1>1, <1>2 DEF Lows
<1>5. n \in Highs(u) => n \in Highs(t) /\ rho(t) < t.PageNumber[n] /\ n \in HighSide(t)
  BY <1>1, <1>2 DEF Highs
<1>6. n \in LowSide(u) /\ n \notin Lows(u) => n \notin Lows(t) /\ ~ (t.PageNumber[n] < rho(t))
  BY <1>1, <1>2 DEF Lows
<1> QED
  BY <1>1, <1>2, <1>3, <1>4, <1>5, <1>6

\* An old node in order stays so.
LEMMA GrownOrdered ==
  ASSUME NEW t, NEW u, NEW pn, NEW z, NEW q, Grown(t, u, pn, z, q),
         NEW n \in Under(t, t.root), Ordered(t, n),
         q \in Under(t, t.left[n]) => pn < t.PageNumber[n],
         q \in Under(t, t.right[n]) => t.PageNumber[n] < pn,
         n = q => t.PageNumber[n] # pn
  PROVE  Ordered(u, n)
<1>1. /\ t \in Trees /\ n \in TreeNodes /\ u.PageNumber[n] = t.PageNumber[n] /\ pn \in Nat
      /\ u.PageNumber[z] = pn /\ t.PageNumber[n] \in Nat
      /\ \A c \in {t.left[n], t.right[n]} : Under(t, c) \subseteq Under(t, t.root)
      /\ \A m \in Under(t, t.root) : u.PageNumber[m] = t.PageNumber[m]
  <2>1. t \in Trees /\ n \in TreeNodes
    BY GrownFacts
  <2>2. \A c \in {t.left[n], t.right[n]} : Under(t, c) \subseteq Under(t, t.root)
    BY <2>1, UnderSides, UnderTrans
  <2> QED
    BY <2>1, <2>2, GrownFacts, TreeTypes
<1>2. ASSUME NEW m \in Under(u, u.left[n]) PROVE u.PageNumber[m] < u.PageNumber[n]
  <2>1. CASE m \in Under(t, t.left[n])
    BY <2>1, <1>1 DEF Ordered
  <2> QED
    BY <2>1, <1>1, <1>2, GrownSides
<1>3. ASSUME NEW m \in Under(u, u.right[n]) PROVE u.PageNumber[n] < u.PageNumber[m]
  <2>1. CASE m \in Under(t, t.right[n])
    BY <2>1, <1>1 DEF Ordered
  <2>2. CASE m = z /\ n = q /\ ~ (pn < t.PageNumber[q])
    BY <2>2, <1>1
  <2> QED
    BY <2>1, <2>2, <1>1, <1>3, GrownSides
<1> QED
  BY <1>2, <1>3 DEF Ordered

LEMMA GrownInOrder ==
  ASSUME NEW t, NEW u, NEW pn, NEW z, NEW q, Grown(t, u, pn, z, q), t.PageNumber[q] # pn
  PROVE  InOrderOf(u) /\ (Ordered(t, t.root) => Ordered(u, u.root))
<1>1. /\ t \in Trees /\ Ranked(t) /\ u.left[z] = NIL /\ u.right[z] = NIL /\ t.root \in TreeNodes
      /\ LowsApart(t) /\ HighsApart(t) /\ u.root = t.root /\ rho(t) \in Nat /\ pn \in Nat
      /\ pn # rho(t)
  <2>1. Sorted(t)
    BY DEF Grown
  <2> QED
    BY <2>1, GrownFacts, SortedFacts
<1>2. Ordered(u, z)
  BY <1>1, UnderNodes DEF Ordered
<1>3. InPlace(t, pn, q) /\ (q = t.root \/ (pn < rho(t) /\ q \in LowSide(t)) \/ (rho(t) < pn /\ q \in HighSide(t)))
  BY DEF Grown
<1>4. ASSUME NEW n \in Under(t, t.root), n # t.root, NEW c \in {t.left[n], t.right[n]}, q \in Under(t, c)
      PROVE  q # t.root
  <2>1. n \in TreeNodes
    BY <1>4, UnderNodes
  <2>2. q \in Under(t, n)
    BY <2>1, <1>1, <1>4, UnderSides
  <2> QED
    BY <2>2, <1>1, <1>4, NoCircle
<1>5. ASSUME NEW n \in Lows(t) \cup Highs(t), n \in Under(t, t.root), Ordered(t, n)
      PROVE  /\ q \in Under(t, t.left[n]) => pn < t.PageNumber[n]
             /\ q \in Under(t, t.right[n]) => t.PageNumber[n] < pn
  <2>1. n \in TreeNodes /\ t.PageNumber[n] \in Nat /\ n # t.root
    BY <1>1, <1>5, UnderNodes, TreeTypes, GrownFacts DEF Lows, Highs
  <2>2. CASE (pn < rho(t) /\ n \in LowSide(t)) \/ (rho(t) < pn /\ n \in HighSide(t))
    BY <2>1, <2>2, <1>3, <1>5 DEF InPlace
  <2>3. CASE pn < rho(t) /\ n \notin LowSide(t)
    <3>1. n \in Highs(t) /\ rho(t) < t.PageNumber[n]
      BY <2>3, <1>5 DEF Lows, Highs
    <3>2. ASSUME q \in Under(t, t.right[n]) PROVE FALSE
      <4>1. q \in LowSide(t)
        BY <3>2, <2>1, <2>3, <1>1, <1>3, <1>4, <1>5
      <4> QED
        BY <4>1, <3>1, <3>2, <1>1 DEF HighsApart
    <3>3. pn < t.PageNumber[n]
      BY <3>1, <2>1, <2>3, <1>1
    <3> QED
      BY <3>2, <3>3
  <2>4. CASE rho(t) < pn /\ n \notin HighSide(t)
    <3>1. n \in Lows(t) /\ t.PageNumber[n] < rho(t)
      BY <2>4, <1>5 DEF Lows, Highs
    <3>2. ASSUME q \in Under(t, t.left[n]) PROVE FALSE
      <4>1. q \in HighSide(t)
        BY <3>2, <2>1, <2>4, <1>1, <1>3, <1>4, <1>5
      <4> QED
        BY <4>1, <3>1, <3>2, <1>1 DEF LowsApart
    <3>3. t.PageNumber[n] < pn
      BY <3>1, <2>1, <2>4, <1>1
    <3> QED
      BY <3>2, <3>3
  <2> QED
    BY <2>2, <2>3, <2>4, <1>1
<1>6. InOrderOf(u)
  <2> SUFFICES ASSUME NEW n \in Lows(u) \cup Highs(u), n # z PROVE Ordered(u, n)
    BY <1>2 DEF InOrderOf
  <2>1. n \in TreeNodes
    BY FromNodes DEF Lows, Highs, LowSide, HighSide
  <2>2. n \in Lows(t) \cup Highs(t) /\ n \in Under(t, t.root) /\ Ordered(t, n)
    BY <2>1, GrownNodes
  <2> QED
    BY <2>2, <1>5, GrownOrdered
<1>7. ASSUME Ordered(t, t.root) PROVE Ordered(u, t.root)
  <2>1. /\ LowSide(t) \subseteq Under(t, t.left[t.root])
        /\ HighSide(t) \subseteq Under(t, t.right[t.root])
        /\ t.root \in Under(t, t.root)
    BY <1>1, GrownFacts, LowSideIsUnder, UnderItself
  <2>2. t.root \notin Under(t, t.left[t.root]) /\ t.root \notin Under(t, t.right[t.root])
    BY <1>1, NotUnderItsKid
  <2>3. /\ q \in Under(t, t.left[t.root]) => pn < t.PageNumber[t.root]
        /\ q \in Under(t, t.right[t.root]) => t.PageNumber[t.root] < pn
    BY <2>1, <2>2, <1>1, <1>3, <1>7, OneSide DEF rho
  <2> QED
    BY <2>1, <2>3, <1>7, GrownOrdered
<1> QED
  BY <1>1, <1>6, <1>7

LEMMA GrownApart ==
  ASSUME NEW t, NEW u, NEW pn, NEW z, NEW q, Grown(t, u, pn, z, q)
  PROVE  LowsApart(u) /\ HighsApart(u)
<1>1. Sorted(t)
  BY DEF Grown
<1>2. /\ t \in Trees /\ Ranked(t) /\ u.left[z] = NIL /\ u.right[z] = NIL /\ t.root \in TreeNodes
      /\ LowsApart(t) /\ HighsApart(t) /\ rho(t) \in Nat /\ pn \in Nat
      /\ pn # rho(t) /\ z \notin Under(t, t.root) /\ q \in TreeNodes /\ t.PageNumber[q] \in Nat
      /\ t.root \notin LowSide(t) /\ t.root \notin HighSide(t)
      /\ LowSide(t) \subseteq Under(t, t.root) /\ HighSide(t) \subseteq Under(t, t.root)
  BY <1>1, GrownFacts, SortedFacts, TreeTypes
<1>3. \A n \in Under(t, t.root) : \A c \in {t.left[n], t.right[n]} : Under(t, c) \subseteq Under(t, t.root)
  BY <1>2, UnderNodes, UnderSides, UnderTrans
\* The root hangs on nothing.
<1>4. ASSUME NEW n \in Under(t, t.root), n # t.root, NEW c \in {t.left[n], t.right[n]}, q \in Under(t, c)
      PROVE  q # t.root
  <2>1. n \in TreeNodes
    BY <1>4, UnderNodes
  <2>2. q \in Under(t, n)
    BY <2>1, <1>2, <1>4, UnderSides
  <2> QED
    BY <2>2, <1>2, <1>4, NoCircle
<1>5. LowsApart(u)
  <2> SUFFICES ASSUME NEW n \in Lows(u), NEW m \in Under(u, u.left[n]), m \in HighSide(u)
               PROVE  FALSE
    BY DEF LowsApart
  <2>1. n \in TreeNodes /\ n # z
    BY <1>2, UnderNodes, FromNodes DEF Lows, LowSide
  <2>2. n \in Lows(t) /\ n \in Under(t, t.root) /\ t.PageNumber[n] < rho(t) /\ n \in LowSide(t)
    BY <2>1, GrownNodes
  <2>3. \/ m \in Under(t, t.left[n])
        \/ m = z /\ q \in Under(t, t.left[n])
        \/ m = z /\ n = q /\ pn < t.PageNumber[q]
    BY <2>2, GrownSides
  <2>4. \/ m \in HighSide(t)
        \/ m = z /\ ((q = t.root /\ rho(t) < pn) \/ (q \in HighSide(t) /\ z \in HighKids(u)[q]))
    BY GrownHigh
  <2>5. ~ (m \in Under(t, t.left[n]) /\ m \in HighSide(t)) /\ ~ (q \in Under(t, t.left[n]) /\ q \in HighSide(t))
    BY <2>2, <1>2 DEF LowsApart
  <2>6. q \in Under(t, t.left[n]) => q # t.root
    BY <2>2, <1>2, <1>4
  <2>7. ~ (n = q /\ pn < t.PageNumber[q] /\ z \in HighKids(u)[q])
    <3>1. z \in HighKids(u)[q] => ~ (pn < t.PageNumber[q]) \/ rho(t) < t.PageNumber[q]
      BY GrownKids
    <3> QED
      BY <3>1, <2>2, <1>2
  <2>8. ~ (n = q /\ q = t.root)
    BY <2>2, <1>2
  <2>9. m = z => m \notin Under(t, t.left[n]) /\ m \notin HighSide(t)
    BY <2>2, <1>2, <1>3
  <2> QED
    BY <2>3, <2>4, <2>5, <2>6, <2>7, <2>8, <2>9
<1>6. HighsApart(u)
  <2> SUFFICES ASSUME NEW n \in Highs(u), NEW m \in Under(u, u.right[n]), m \in LowSide(u)
               PROVE  FALSE
    BY DEF HighsApart
  <2>1. n \in TreeNodes /\ n # z
    BY <1>2, UnderNodes, FromNodes DEF Highs, HighSide
  <2>2. n \in Highs(t) /\ n \in Under(t, t.root) /\ rho(t) < t.PageNumber[n] /\ n \in HighSide(t)
    BY <2>1, GrownNodes
  <2>3. \/ m \in Under(t, t.right[n])
        \/ m = z /\ q \in Under(t, t.right[n])
        \/ m = z /\ n = q /\ ~ (pn < t.PageNumber[q])
    BY <2>2, GrownSides
  <2>4. \/ m \in LowSide(t)
        \/ m = z /\ ((q = t.root /\ pn < rho(t)) \/ (q \in LowSide(t) /\ z \in LowKids(u)[q]))
    BY GrownLow
  <2>5. ~ (m \in Under(t, t.right[n]) /\ m \in LowSide(t)) /\ ~ (q \in Under(t, t.right[n]) /\ q \in LowSide(t))
    BY <2>2, <1>2 DEF HighsApart
  <2>6. q \in Under(t, t.right[n]) => q # t.root
    BY <2>2, <1>2, <1>4
  <2>7. ~ (n = q /\ ~ (pn < t.PageNumber[q]) /\ z \in LowKids(u)[q])
    <3>1. z \in LowKids(u)[q] => pn < t.PageNumber[q] \/ t.PageNumber[q] < rho(t)
      BY GrownKids
    <3> QED
      BY <3>1, <2>2, <1>2
  <2>8. ~ (n = q /\ q = t.root)
    BY <2>2, <1>2
  <2>9. m = z => m \notin Under(t, t.right[n]) /\ m \notin LowSide(t)
    BY <2>2, <1>2, <1>3
  <2> QED
    BY <2>3, <2>4, <2>5, <2>6, <2>7, <2>8, <2>9
<1> QED
  BY <1>5, <1>6

\* What is off the low side, with the new node.
LEMMA GrownOff ==
  ASSUME NEW t, NEW u, NEW pn, NEW z, NEW q, Grown(t, u, pn, z, q),
         NEW c \in Under(t, t.root) \cup {NIL}
  PROVE  /\ Off(t, c) \subseteq Off(u, c)
         /\ \A m \in Off(u, c) : m \in Off(t, c) \/ (m = z /\ q \in Off(t, c))
<1> DEFINE R == Under(t, t.root)
<1>1. /\ t \in Trees /\ u \in Trees /\ t.root \in TreeNodes /\ z \in TreeNodes /\ z \notin R
      /\ LowSide(t) \subseteq R /\ z # NIL /\ NIL \notin TreeNodes
  BY GrownFacts, NilIsNoNode
<1>2. \A m \in R : m \in LowSide(u) <=> m \in LowSide(t)
  BY <1>1, GrownLow
<1>3. R \subseteq TreeNodes
  BY UnderNodes
<1>4. /\ Graph(OffKids(t)) /\ Graph(OffKids(u))
      /\ \A n \in TreeNodes : /\ OffKids(t)[n] = Kids(t)[n] \ LowSide(t)
                              /\ OffKids(u)[n] = Kids(u)[n] \ LowSide(u)
  BY <1>1, OffNodes
<1>5. /\ Kids(u)[z] = {}
      /\ \A m \in R : \A d : d \in Kids(u)[m] <=> d \in Kids(t)[m] \/ (m = q /\ d = z)
  BY GrownKids
<1>6. \A m \in R : \A d \in Kids(t)[m] : d \in R
  <2> SUFFICES ASSUME NEW m \in R, NEW d \in Kids(t)[m] PROVE d \in R
    OBVIOUS
  <2>1. m \in TreeNodes /\ d \in TreeNodes
    BY <1>1, <1>3, KidsOf DEF Graph
  <2> QED
    BY <2>1, FromStep DEF Under
<1>7. CASE c = NIL
  <2>1. c \notin LowSide(t) /\ c \notin LowSide(u)
    BY <1>1, <1>7, FromNodes DEF LowSide
  <2> QED
    BY <2>1, <1>7, FromNil DEF Off
<1>8. CASE c \in LowSide(t)
  BY <1>1, <1>2, <1>8 DEF Off
<1>9. CASE c # NIL /\ c \notin LowSide(t)
  <2>1. c \in R /\ c \in TreeNodes
    BY <1>3, <1>9
  <2>2. /\ Off(t, c) = From(OffKids(t), c) /\ Off(u, c) = From(OffKids(u), c)
    BY <2>1, <1>2, <1>9 DEF Off
  <2>3. From(OffKids(t), c) \subseteq R
    <3>1. \A m \in R : OffKids(t)[m] \subseteq R
      BY <1>3, <1>4, <1>6
    <3>2. R \in SUBSET TreeNodes /\ c \in R \cup {NIL}
      BY <2>1, <1>3
    <3> HIDE DEF R
    <3> QED
      BY <3>1, <3>2, FromWithin
  <2>4. From(OffKids(t), c) \subseteq From(OffKids(u), c)
    <3> DEFINE S == {m \in R : m \in From(OffKids(u), c)}
    <3>1. S \in SUBSET TreeNodes /\ c \in S
      BY <2>1, <1>3, FromItself
    <3>2. ASSUME NEW k \in S, NEW d \in OffKids(t)[k] PROVE d \in S
      <4>1. d \in R /\ d \in TreeNodes /\ d \in OffKids(u)[k]
        BY <3>2, <1>2, <1>3, <1>4, <1>5, <1>6
      <4> QED
        BY <4>1, <3>2, FromStep
    <3> HIDE DEF S
    <3>3. From(OffKids(t), c) \subseteq S
      BY <3>1, <3>2, FromWithin
    <3> QED
      BY <3>3 DEF S
  <2>5. ASSUME NEW m \in From(OffKids(u), c)
        PROVE  m \in From(OffKids(t), c) \/ (m = z /\ q \in From(OffKids(t), c))
    <3> DEFINE T == From(OffKids(t), c)
               S == T \cup {k \in {z} : q \in T}
    <3>1. S \in SUBSET TreeNodes /\ c \in S
      BY <2>1, <1>1, FromItself, FromNodes
    <3>2. ASSUME NEW k \in S, NEW d \in OffKids(u)[k] PROVE d \in S
      <4>1. k \in TreeNodes /\ d \in Kids(u)[k] /\ d \notin LowSide(u)
        BY <3>1, <3>2, <1>4
      <4>2. k \in T /\ k \in R
        BY <4>1, <3>2, <2>3, <1>5
      <4>3. d \in Kids(t)[k] \/ (k = q /\ d = z)
        BY <4>1, <4>2, <1>5
      <4>4. CASE d \in Kids(t)[k]
        <5>1. d \in R /\ d \in TreeNodes
          BY <4>2, <4>4, <1>3, <1>6
        <5>2. d \in OffKids(t)[k]
          BY <5>1, <4>1, <4>4, <1>2, <1>4
        <5>3. d \in T
          BY <5>1, <5>2, <4>2, FromStep
        <5> QED
          BY <5>3
      <4> QED
        BY <4>2, <4>3, <4>4
    <3> HIDE DEF S
    <3>3. From(OffKids(u), c) \subseteq S
      BY <3>1, <3>2, FromWithin
    <3>4. m \in S
      BY <3>3, <2>5
    <3> QED
      BY <3>4 DEF S
  <2> QED
    BY <2>2, <2>4, <2>5
<1> QED
  BY <1>7, <1>8, <1>9

LEMMA GrownLost ==
  ASSUME NEW t, NEW u, NEW pn, NEW z, NEW q, Grown(t, u, pn, z, q)
  PROVE  LostWhole(u)
<1> DEFINE R == Under(t, t.root)
<1> SUFFICES ASSUME NEW g \in LowSide(u) \ Lows(u), NEW x \in Highs(u), g # x,
                    NEW v \in Off(u, u.right[g]), v \in Under(u, u.right[x])
             PROVE  x \in Off(u, u.right[g])
  BY DEF LostWhole
<1>1. Sorted(t)
  BY DEF Grown
<1>2. /\ t \in Trees /\ u \in Trees /\ u.right[z] = NIL /\ z \in TreeNodes /\ z \notin R
      /\ HighsApart(t) /\ LostWhole(t)
  BY <1>1, GrownFacts, SortedFacts
<1>3. g \in TreeNodes /\ x \in TreeNodes
  BY FromNodes DEF LowSide, HighSide, Highs
<1>4. Off(u, NIL) = {} /\ Under(u, NIL) = {}
  BY <1>2, OffNodes, UnderNodes
<1>5. g # z /\ x # z
  BY <1>2, <1>4
<1>6. /\ g \in LowSide(t) /\ g \in R /\ g \notin Lows(t)
      /\ x \in Highs(t) /\ x \in R /\ x \in HighSide(t)
  BY <1>3, <1>5, GrownNodes
<1>7. /\ t.right[g] \in R \cup {NIL} /\ t.right[x] \in R \cup {NIL}
      /\ \/ u.right[g] = t.right[g]
         \/ g = q /\ ~ (pn < t.PageNumber[q]) /\ u.right[g] = z /\ t.right[g] = NIL
  BY <1>6, GrownFacts
<1>8. /\ Off(t, t.right[g]) \subseteq Off(u, t.right[g])
      /\ \A m \in Off(u, t.right[g]) : m \in Off(t, t.right[g]) \/ (m = z /\ q \in Off(t, t.right[g]))
      /\ Off(t, t.right[g]) \subseteq R
  <2>1. Off(t, t.right[g]) \subseteq Under(t, t.right[g])
    BY <1>2, <1>6, UnderNodes, TreeTypes, OffNodes
  <2>2. Under(t, t.right[g]) \subseteq R
    BY <1>2, <1>7, UnderNodes, UnderTrans
  <2> QED
    BY <2>1, <2>2, <1>7, GrownOff
<1>9. \A m \in Off(u, z) : m = z
  <2>1. Off(u, z) \subseteq Under(u, z)
    BY <1>2, OffNodes
  <2> QED
    BY <2>1, GrownUnder
<1>10. \/ v \in Off(t, t.right[g])
       \/ v = z /\ q \in Off(t, t.right[g])
       \/ v = z /\ g = q
  BY <1>7, <1>8, <1>9
<1>11. x \in Off(t, t.right[g]) => x \in Off(u, u.right[g])
  <2>1. Off(t, NIL) = {}
    BY <1>2, OffNodes, UnderNodes
  <2> QED
    BY <2>1, <1>7, <1>8
<1>12. \/ v \in Under(t, t.right[x])
       \/ v = z /\ q \in Under(t, t.right[x])
       \/ v = z /\ x = q
  BY <1>6, GrownSides
<1>13. v \in Under(t, t.right[x]) => v # z
  <2>1. Under(t, t.right[x]) \subseteq R
    BY <1>2, <1>7, UnderNodes, UnderTrans
  <2> QED
    BY <2>1, <1>2
<1>14. \A m \in Off(t, t.right[g]) : m \in Under(t, t.right[x]) => x \in Off(t, t.right[g])
  BY <1>2, <1>6 DEF LostWhole
<1>15. CASE v \in Off(t, t.right[g])
  <2>1. v # z
    BY <1>15, <1>8, <1>2
  <2> QED
    BY <2>1, <1>11, <1>12, <1>14, <1>15
<1>16. CASE v = z /\ q \in Off(t, t.right[g])
  BY <1>11, <1>12, <1>13, <1>14, <1>16
<1>17. CASE v = z /\ g = q
  <2>1. q \notin Under(t, t.right[x])
    BY <1>2, <1>6, <1>17 DEF HighsApart
  <2> QED
    BY <2>1, <1>12, <1>13, <1>17
<1> QED
  BY <1>10, <1>15, <1>16, <1>17

LEMMA GrownSorted ==
  ASSUME NEW t, NEW u, NEW pn, NEW z, NEW q, Grown(t, u, pn, z, q), t.PageNumber[q] # pn
  PROVE  /\ Sorted(u) /\ u.root = t.root /\ rho(u) = rho(t)
         /\ Ordered(t, t.root) => Ordered(u, u.root)
<1>1. Sorted(t)
  BY DEF Grown
<1>2. /\ u \in Trees /\ u.root = t.root /\ t.root # NIL /\ Ranked(u) /\ rho(u) = rho(t)
      /\ RootOnce(t) /\ pn # rho(t) /\ u.PageNumber[z] = pn
      /\ \A m \in Under(t, t.root) : u.PageNumber[m] = t.PageNumber[m]
  BY <1>1, GrownFacts, SortedFacts
<1>3. RootOnce(u)
  <2> SUFFICES ASSUME NEW n \in LowSide(u) \cup HighSide(u), n # z PROVE u.PageNumber[n] # rho(u)
    BY <1>2 DEF RootOnce
  <2>1. n \in TreeNodes
    BY FromNodes DEF LowSide, HighSide
  <2>2. n \in LowSide(t) \cup HighSide(t) /\ n \in Under(t, t.root)
    BY <2>1, GrownNodes
  <2> QED
    BY <2>2, <1>2 DEF RootOnce
<1> QED
  BY <1>2, <1>3, GrownInOrder, GrownApart, GrownLost DEF Sorted

----------------------------------------------------------------------------
(* insert *)

\* A page that is not found is in order where its path ends.
LEMMA PlaceInOrder ==
  ASSUME NEW t, Sorted(t), NEW pn \in Nat, search(t, pn) = NIL
  PROVE  InPlace(t, pn, Parent(t, pn))
<1> DEFINE q == Parent(t, pn)
           lo == t.left[t.root]
           hi == t.right[t.root]
<1>1. /\ t \in Trees /\ t.root # NIL /\ Ranked(t) /\ InOrderOf(t) /\ t.root \in TreeNodes
      /\ LowSide(t) \subseteq Under(t, lo) /\ HighSide(t) \subseteq Under(t, hi)
      /\ t.root \notin LowSide(t) /\ t.root \notin HighSide(t)
  BY SortedFacts, LowSideIsUnder
<1>2. /\ pn # rho(t) /\ rho(t) \in Nat
      /\ \A k \in From(PathKids(t, pn), Side(t, pn, t.root)) : t.PageNumber[k] # pn
  BY <1>1, NotOnPath, TreeTypes DEF rho
<1>3. \/ q = t.root
      \/ pn < rho(t) /\ q \in From(PathKids(t, pn), lo)
      \/ rho(t) < pn /\ q \in From(PathKids(t, pn), hi)
  BY <1>1, <1>2, ParentOnPath
<1>4. Branching(t, LowKids(t), lo) /\ Branching(t, HighKids(t), hi)
  BY <1>1, SidesBranch
<1> HIDE DEF q
<1> SUFFICES ASSUME NEW n \in TreeNodes, Ordered(t, n),
                    (pn < rho(t) /\ n \in LowSide(t)) \/ (rho(t) < pn /\ n \in HighSide(t))
             PROVE  /\ q \in Under(t, t.left[n]) => pn < t.PageNumber[n]
                    /\ q \in Under(t, t.right[n]) => t.PageNumber[n] < pn
  BY DEF InPlace, q
<1>5. CASE q = t.root
  <2>1. n \in Under(t, t.root) /\ n # t.root
    BY <1>1, UnderSides
  <2>2. \A c \in {t.left[n], t.right[n]} : Under(t, c) \subseteq Under(t, n)
    BY <1>1, UnderSides
  <2>3. t.root \notin Under(t, n)
    BY <2>1, <1>1, NoCircle
  <2> QED
    BY <2>2, <2>3, <1>5
<1>6. CASE pn < rho(t) /\ q \in From(PathKids(t, pn), lo)
  <2>1. n \in From(LowKids(t), lo)
    BY <1>2, <1>6 DEF LowSide
  <2>2. lo \in TreeNodes
    BY <2>1, <1>1, FromNil, TreeTypes
  <2>3. \A k \in From(LowKids(t), lo) : Side(t, pn, k) \in LowKids(t)[k] \cup {NIL}
    BY <1>1, <1>6, FromNodes, PathKidsOf
  <2>4. \A k \in From(PathKids(t, pn), lo) : t.PageNumber[k] # pn
    BY <1>2, <1>6 DEF Side, rho
  <2> HIDE DEF lo
  <2> DEFINE E == LowKids(t)
  <2>5. Branching(t, E, lo)
    BY <1>4
  <2> HIDE DEF E
  <2>6. n \in From(E, lo) /\ \A k \in From(E, lo) : Side(t, pn, k) \in E[k] \cup {NIL}
    BY <2>1, <2>3 DEF E
  <2> QED
    BY <2>2, <2>4, <2>5, <2>6, <1>1, <1>6, PathInOrder
<1>7. CASE rho(t) < pn /\ q \in From(PathKids(t, pn), hi)
  <2>1. n \in From(HighKids(t), hi)
    BY <1>2, <1>7 DEF HighSide
  <2>2. hi \in TreeNodes
    BY <2>1, <1>1, FromNil, TreeTypes
  <2>3. \A k \in From(HighKids(t), hi) : Side(t, pn, k) \in HighKids(t)[k] \cup {NIL}
    BY <1>1, <1>7, FromNodes, PathKidsOf
  <2>4. \A k \in From(PathKids(t, pn), hi) : t.PageNumber[k] # pn
    BY <1>2, <1>7 DEF Side, rho
  <2> HIDE DEF hi
  <2> DEFINE E == HighKids(t)
  <2>5. Branching(t, E, hi)
    BY <1>4
  <2> HIDE DEF E
  <2>6. n \in From(E, hi) /\ \A k \in From(E, hi) : Side(t, pn, k) \in E[k] \cup {NIL}
    BY <2>1, <2>3 DEF E
  <2> QED
    BY <2>2, <2>4, <2>5, <2>6, <1>1, <1>7, PathInOrder
<1> QED
  BY <1>3, <1>5, <1>6, <1>7

\* insert keeps the order, and its page is found.
LEMMA InsertKeepsSorted ==
  ASSUME NEW t, Sorted(t), NEW pn \in Nat, pn # rho(t), NEW f \in Nat, TreeNodes \ Reachable(t) # {}
  PROVE  LET u == insert(t, pn, f)
         IN  /\ Sorted(u) /\ u.root = t.root /\ rho(u) = rho(t)
             /\ Ordered(t, t.root) => Ordered(u, u.root)
             /\ search(u, pn) # NIL
<1> DEFINE u == insert(t, pn, f)
           n == Min(TreeNodes \ Reachable(t))
           q == Parent(t, pn)
<1>1. t \in Trees /\ t.root # NIL /\ Ranked(t) /\ t.root \in TreeNodes
  BY SortedFacts, LowSideIsUnder
<1>2. CASE search(t, pn) # NIL
  <2>1. u = t
    BY <1>1, <1>2 DEF insert
  <2> QED
    BY <2>1, <1>2
<1>3. CASE search(t, pn) = NIL
  <2>1. /\ u \in Trees /\ u.root = t.root /\ n \in TreeNodes /\ n \notin Reachable(t)
        /\ t.root \in Reachable(t) /\ t.PageNumber[t.root] # pn
        /\ q \in TreeNodes /\ q \in Reachable(t) /\ Side(t, pn, q) = NIL
        /\ u.left[n] = NIL /\ u.right[n] = NIL /\ u.PageNumber[n] = pn
        /\ \A m \in TreeNodes \ {n} :
             /\ u.left[m] = IF m = q /\ pn < t.PageNumber[m] THEN n ELSE t.left[m]
             /\ u.right[m] = IF m = q /\ ~ (pn < t.PageNumber[m]) THEN n ELSE t.right[m]
             /\ u.PageNumber[m] = t.PageNumber[m]
    BY <1>1, <1>3, InsertFields, SMTT(20)
  <2>2. Ranked(u) /\ search(u, pn) = n
    BY <1>1, <1>3, InsertSearch
  <2>3. /\ t.PageNumber[q] # pn
        /\ \/ q = t.root
           \/ pn < rho(t) /\ q \in LowSide(t)
           \/ rho(t) < pn /\ q \in HighSide(t)
    BY <1>1, ParentOnPath, PathSides
  <2>4. InPlace(t, pn, q)
    BY <1>3, PlaceInOrder
  <2> HIDE DEF u, n, q
  <2>5. n \notin Under(t, t.root)
    <3> DEFINE R == Reachable(t)
    <3>1. Paths(t, R)
      BY <1>1, ReachableIsClosed
    <3> HIDE DEF R
    <3>2. \A m \in R : Kids(t)[m] \subseteq R
      BY <3>1, <1>1, KidsOf DEF Paths
    <3>3. R \in SUBSET TreeNodes /\ t.root \in R \cup {NIL}
      BY <3>1, <1>1 DEF Paths
    <3>4. Under(t, t.root) \subseteq R
      BY <3>2, <3>3, FromWithin DEF Under
    <3> QED
      BY <3>4, <2>1 DEF R
  <2>6. Grown(t, u, pn, n, q)
    BY <2>1, <2>2, <2>3, <2>4, <2>5 DEF Grown
  <2>7. Sorted(u) /\ rho(u) = rho(t) /\ (Ordered(t, t.root) => Ordered(u, u.root))
    BY <2>3, <2>6, GrownSorted
  <2> QED
    BY <2>1, <2>2, <2>7, NilIsNoNode DEF u
<1> QED
  BY <1>2, <1>3

\* The first node is in order by itself.
LEMMA PlantKeepsSorted ==
  ASSUME NEW t \in Trees, Ranked(t), t.root = NIL, NEW pn \in Nat, NEW f \in Nat,
         TreeNodes \ Reachable(t) # {}
  PROVE  LET u == insert(t, pn, f)
         IN  Sorted(u) /\ Ordered(u, u.root) /\ rho(u) = pn /\ search(u, pn) # NIL
<1> DEFINE u == insert(t, pn, f)
           n == Min(TreeNodes \ Reachable(t))
<1>1. /\ u \in Trees /\ Ranked(u) /\ n \in TreeNodes /\ Leaf(u, n, pn)
      /\ \A pm \in Nat : search(u, pm) = IF pm = pn THEN n ELSE NIL
  BY PlantSearch
<1> HIDE DEF u, n
<1>2. n # NIL /\ u.left[n] = NIL /\ u.right[n] = NIL
  BY <1>1, NilIsNoNode DEF Leaf
<1>3. u.root # NIL
  BY <1>1, <1>2, SearchRoot
<1>4. rho(u) \in Nat
  BY <1>1, <1>3, TreeTypes DEF rho
<1>5. search(u, rho(u)) = u.root
  BY <1>1, <1>3, <1>4, SearchRoot
<1>6. rho(u) = pn /\ u.root = n
  BY <1>1, <1>3, <1>4, <1>5
<1>7. LowSide(u) = {} /\ HighSide(u) = {} /\ Under(u, NIL) = {}
  BY <1>2, <1>6, FromNil, UnderNodes DEF LowSide, HighSide
<1>8. Lows(u) = {} /\ Highs(u) = {}
  BY <1>7 DEF Lows, Highs
<1>9. Ordered(u, u.root)
  BY <1>2, <1>6, <1>7 DEF Ordered
<1>10. Sorted(u)
  BY <1>1, <1>3, <1>7, <1>8 DEF Sorted, InOrderOf, LowsApart, HighsApart, LostWhole, RootOnce
<1> QED
  BY <1>1, <1>2, <1>6, <1>9, <1>10 DEF u


----------------------------------------------------------------------------
(* The page table *)

\* The frames that hold the page of the root.
RootHolders == {f \in Used : entry[f].PageNumber = rho(tree)}

\* The tree is sorted, and as long as the page of its root is in memory, in one frame then,
\* in order from the root on: once it goes it does not come back, for its node stays and
\* the page is always found.
OrderInv ==
  /\ tree \in Trees /\ Ranked(tree)
  /\ \A f \in Used : entry[f].PageNumber \in Pages
  /\ tree.root = NIL <=> list = <<>>
  /\ tree.root # NIL => /\ Sorted(tree)
                        /\ \A e, f \in RootHolders : e = f
                        /\ RootHolders # {} => Ordered(tree, tree.root)
  /\ list # <<>> => search(tree, LastPage) # NIL

LEMMA OrderInitially == PageTableInit => OrderInv
<1> SUFFICES ASSUME PageTableInit PROVE OrderInv
  OBVIOUS
<1>1. Used = {} /\ list = <<>> /\ tree.root = NIL
  BY DEF PageTableInit, Used
<1>2. tree \in Trees
  BY DEF PageTableInit, Trees
<1>3. Ranked(tree)
  <2> DEFINE rank == [n \in TreeNodes |-> n]
  <2>1. Ranks(tree, rank)
    BY DEF PageTableInit, Ranks
  <2> HIDE DEF rank
  <2>2. rank \in [TreeNodes -> TreeNodes]
    BY <2>1 DEF Ranks
  <2> QED
    BY <2>1, <2>2 DEF Ranked
<1> QED
  BY <1>1, <1>2, <1>3 DEF OrderInv

\* A page that is not found is not that of the root.
LEMMA NotTheRoots ==
  ASSUME OrderInv, NEW pn \in Nat, search(tree, pn) = NIL, tree.root # NIL
  PROVE  pn # rho(tree)
BY SearchRoot DEF OrderInv

LEMMA PageInKeepsOrder ==
  ASSUME IInv, OrderInv, NEW p \in Processes, NEW pn \in Pages, PageIn(p, pn)
  PROVE  OrderInv'
<1> DEFINE n == free_frame_count
<1>1. /\ n \in Nat /\ n \in Frames /\ n \notin Used /\ Used \subseteq Frames
      /\ Len(list) = n /\ list \in Seq(Frames)
      /\ list' = Append(list, n)
      /\ entry' = [entry EXCEPT ![n] = [PageNumber |-> pn, process_id |-> p]]
      /\ n' = n + 1
      /\ tree' = insert(tree, pn, n)
      /\ search(tree, pn) = NIL
      /\ TreeNodes \ Reachable(tree) # {}
  <2>1. n \in Nat /\ n < physpages /\ physpages \in Nat
    BY PhyspagesAssumption DEF PageIn, IInv, Types
  <2>2. n \in Frames /\ n \notin Used /\ Used \subseteq Frames
    BY <2>1 DEF Frames, Used
  <2>3. Len(list) = n /\ list \in Seq(Frames)
    BY DEF IInv, Types, FramesKept
  <2> QED
    BY <2>1, <2>2, <2>3 DEF PageIn, InsertAtTail, Resident, TreeHasRoom
<1>2. /\ Used' = Used \cup {n}
      /\ Len(list') = n + 1 /\ list'[n + 1] = n /\ list' # <<>>
      /\ entry'[n].PageNumber = pn
      /\ \A f \in Used : entry'[f] = entry[f]
  BY <1>1 DEF Used, IInv, Types
<1>3. LastPage' = pn
  BY <1>2 DEF LastPage
<1>4. pn \in Nat /\ tree \in Trees /\ Ranked(tree)
  BY PagesAssumption DEF OrderInv
<1>5. \A f \in Used' : entry'[f].PageNumber \in Pages
  BY <1>2 DEF OrderInv
<1> HIDE DEF n
<1>6. CASE tree.root = NIL
  <2>1. Sorted(tree') /\ Ordered(tree', tree'.root) /\ search(tree', pn) # NIL
    BY <1>1, <1>4, <1>6, PlantKeepsSorted
  <2>2. Used = {}
    BY <1>1, <1>6 DEF OrderInv, Used, n
  <2>3. \A e, f \in RootHolders' : e = f
    BY <1>2, <2>2 DEF RootHolders
  <2> QED
    BY <2>1, <2>3, <1>2, <1>3, <1>5, SortedFacts DEF OrderInv
<1>7. CASE tree.root # NIL
  <2>1. Sorted(tree)
    BY <1>7 DEF OrderInv
  <2>2. pn # rho(tree)
    BY <1>1, <1>4, <1>7, NotTheRoots
  <2>3. /\ Sorted(tree') /\ rho(tree') = rho(tree)
        /\ Ordered(tree, tree.root) => Ordered(tree', tree'.root)
        /\ search(tree', pn) # NIL
    BY <2>1, <2>2, <1>1, <1>4, InsertKeepsSorted
  <2>4. RootHolders' = RootHolders
    BY <2>2, <2>3, <1>2 DEF RootHolders
  <2> QED
    BY <2>3, <2>4, <1>2, <1>3, <1>5, <1>7, SortedFacts DEF OrderInv
<1> QED
  BY <1>6, <1>7

\* If the page that goes is the root's, no frame is left that holds it.
LEMMA PageSwapKeepsOrder ==
  ASSUME IInv, OrderInv, NEW p \in Processes, NEW pn \in Pages, PageSwap(p, pn)
  PROVE  OrderInv'
<1> DEFINE n == free_frame_count
           v == Victim
           old == entry[v].PageNumber
           cut == del(tree, old)
<1>1. /\ n = physpages /\ ~ OutFollowsNull /\ n' = n
      /\ list' = Append(Shortened, v)
      /\ entry' = [entry EXCEPT ![v] = [PageNumber |-> pn, process_id |-> p]]
      /\ tree' = insert(cut, pn, v)
      /\ search(tree, pn) = NIL
      /\ TreeNodes \ Reachable(tree) # {}
  BY DEF PageSwap, InsertAtTail, Resident, TreeHasRoom
<1>2. n >= 2 /\ v \in Used /\ v \in Frames /\ v \in Nat /\ Len(list) = n /\ n \in Nat
  BY <1>1, VictimOnList, ListShape, FramesTypes DEF IInv
<1>3. Len(list') = n /\ list'[n] = v /\ list' # <<>> /\ list # <<>>
  BY <1>1, <1>2, ListAfterSwap DEF IInv
<1> HIDE DEF v
<1>4. /\ Used' = Used
      /\ entry'[v].PageNumber = pn
      /\ \A f \in Used \ {v} : entry'[f] = entry[f]
  <2>1. Used' = Used
    BY <1>1 DEF Used
  <2> QED
    BY <2>1, <1>1, <1>2, ListShape DEF IInv, Types
<1>5. LastPage' = pn
  BY <1>3, <1>4 DEF LastPage
<1>6. /\ pn \in Nat /\ old \in Nat /\ tree.root # NIL /\ Sorted(tree) /\ pn # rho(tree)
  <2>1. tree.root # NIL
    BY <1>3 DEF OrderInv
  <2> QED
    BY <2>1, <1>1, <1>2, PagesAssumption, NotTheRoots DEF OrderInv
<1>7. \A f \in Used' : entry'[f].PageNumber \in Pages
  BY <1>4 DEF OrderInv
<1>8. old = rho(tree) => v \in RootHolders /\ Ordered(tree, tree.root)
  BY <1>2, <1>6 DEF OrderInv, RootHolders
<1> HIDE DEF old
<1>9. /\ Sorted(cut) /\ cut.root = tree.root /\ rho(cut) = rho(tree)
      /\ old # rho(tree) /\ Ordered(tree, tree.root) => Ordered(cut, cut.root)
      /\ Reachable(cut) \subseteq Reachable(tree)
  BY <1>6, <1>8, DelKeepsSorted
<1> HIDE DEF cut, n
<1>10. TreeNodes \ Reachable(cut) # {}
  BY <1>1, <1>9
<1>11. /\ Sorted(tree') /\ tree'.root = tree.root /\ rho(tree') = rho(tree)
       /\ Ordered(cut, cut.root) => Ordered(tree', tree'.root)
       /\ search(tree', pn) # NIL
  BY <1>1, <1>2, <1>6, <1>9, <1>10, InsertKeepsSorted
<1>12. RootHolders' = RootHolders \ {v}
  BY <1>2, <1>4, <1>6, <1>11 DEF RootHolders
<1>13. \A e, f \in RootHolders' : e = f
  BY <1>12, <1>6 DEF OrderInv
<1>14. RootHolders' # {} => Ordered(tree', tree'.root)
  <2>1. SUFFICES ASSUME NEW f \in RootHolders' PROVE Ordered(tree', tree'.root)
    OBVIOUS
  <2>2. f \in RootHolders /\ f # v
    BY <1>12
  <2>3. old # rho(tree) /\ Ordered(tree, tree.root)
    BY <2>2, <1>6, <1>8 DEF OrderInv
  <2> QED
    BY <2>3, <1>9, <1>11
<1> QED
  BY <1>3, <1>5, <1>6, <1>7, <1>11, <1>13, <1>14, SortedFacts DEF OrderInv

LEMMA OrderStep == IInv /\ OrderInv /\ [PageTableNext]_pageTable => OrderInv'
<1> SUFFICES ASSUME IInv, OrderInv, [PageTableNext]_pageTable PROVE OrderInv'
  OBVIOUS
<1>1. ASSUME UNCHANGED pageTable PROVE OrderInv'
  BY <1>1 DEF pageTable, OrderInv, LastPage, RootHolders, Used
<1>2. ASSUME NEW p \in Processes, NEW pn \in Pages, pageTableLookUp(p, pn) PROVE OrderInv'
  <2>1. CASE Found(pn)
    BY <2>1, <1>1 DEF Found
  <2>2. CASE PageIn(p, pn)
    BY <2>2, PageInKeepsOrder
  <2>3. CASE PageSwap(p, pn)
    BY <2>3, PageSwapKeepsOrder
  <2> QED
    BY <1>2, <2>1, <2>2, <2>3 DEF pageTableLookUp
<1> QED
  BY <1>1, <1>2 DEF PageTableNext

\* The pages in memory keep the tree sorted, in either mode and for any number of frames,
\* pages and processes: one node at most that searches pass is out of order, and that is
\* the root, once its page has gone and its node has stayed.
THEOREM TreeStaysSorted == PageTableSpec => [](IInv /\ OrderInv)
<1>1. PageTableInit => OrderInv
  BY OrderInitially
<1>2. IInv /\ OrderInv /\ [PageTableNext]_pageTable => OrderInv'
  BY OrderStep
<1> QED
  BY <1>1, <1>2, PageTableInvariance, PTL DEF PageTableSpec

\* In either mode no relinking of del or insert ever closes a circle in the tree, and
\* the page brought in last is found: every search of tvm379.c ends, for any number of
\* frames, pages and processes.
THEOREM SearchesEnd == PageTableSpec => []SearchEnds
<1>1. ASSUME OrderInv PROVE SearchEnds
  <2>1. PICK rank \in [TreeNodes -> TreeNodes] : Ranks(tree, rank)
    BY <1>1 DEF OrderInv, Ranked
  <2>2. Reachable(tree) \subseteq TreeNodes
    BY <1>1, ReachableIsClosed DEF OrderInv, Paths
  <2>3. ASSUME NEW n \in Reachable(tree) PROVE n \notin Below(tree.left[n]) \cup Below(tree.right[n])
    <3>1. n \in TreeNodes /\ tree \in Trees
      BY <2>2, <1>1 DEF OrderInv
    <3>2. /\ n \notin Reachable([tree EXCEPT !.root = tree.left[n]])
          /\ n \notin Reachable([tree EXCEPT !.root = tree.right[n]])
      BY <3>1, <2>1, NothingAbove
    <3> QED
      BY <3>2 DEF Below
  <2>4. list # <<>> => Resident(entry[list[Len(list)]].PageNumber)
    BY <1>1 DEF OrderInv, Resident, LastPage
  <2> QED
    BY <2>3, <2>4 DEF SearchEnds
<1> QED
  BY <1>1, TreeStaysSorted, PTL

=============================================================================
