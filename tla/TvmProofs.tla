----------------------------- MODULE TvmProofs -----------------------------
(***************************************************************************)
(* Proofs about Tvm: the invariant of the page table holds in the          *)
(* composition until the report takes the list apart, and with it that the *)
(* counters add up and what alone the program can crash of, for any number *)
(* of traces, frames and pages, any buffer and any quantum.                *)
(***************************************************************************)
EXTENDS Tvm, TlbProofs, PageTableProofs

\* No bucket is uninitialised.
NoWild == tlbHash \in [Buckets -> Nodes \cup {NULL}]

\* What a look-up in the course of a turn relies on.
RunInv ==
  /\ rotation \in Processes
  /\ read \in [Processes -> Nat] /\ finished \in [Processes -> BOOLEAN]
  /\ tlbHits \in [Processes -> Nat] /\ pageFaults \in [Processes -> Nat]
  /\ status \in {"running", "counting", "done", "crashed", "outside"}
  /\ status \in {"running", "counting"} => IInv

\* The references are counted, whether the program has crashed or not.
Counted == \A p \in Processes : tlbHits[p] + pageFaults[p] <= Lookups(p)

\* A flush between two processes, when a trace has ended, may have left any buckets.
FlushedLate == gp_Mode = "LOCAL" /\ TraceFiles > 1 /\ \E p \in Processes : finished[p]

Safe ==
  /\ NoWild \/ FlushedLate
  /\ status = "crashed" => physpages = 1 \/ FlushedLate
  /\ status = "outside" => \E pn \in Pages : pn > INT_MAX

TvmInv == RunInv /\ Counted /\ Safe

\* insertTLB initialises the bucket it sets and clears the other one.
LEMMA LookupKeepsBuckets ==
  ASSUME NoWild, NEW pn \in Pages, TLBHit(pn) \/ TLBMiss(pn)
  PROVE  NoWild'
<1>1. CASE TLBHit(pn)
  BY <1>1 DEF TLBHit, NoWild
<1>2. CASE TLBMiss(pn)
  <2>1. PICK n \in Nodes, h \in {tlbHash} \cup
              {[tlbHash EXCEPT ![TLBHasher(tlbQueue.pageNumber[tlbQueue.last])] = NULL]} :
          tlbHash' = [h EXCEPT ![TLBHasher(pn)] = n]
    BY <1>2 DEF TLBMiss, insertTLB
  <2>2. h \in [Buckets -> Nodes \cup {NULL}]
    BY <2>1 DEF NoWild
  <2> QED
    BY <2>1, <2>2 DEF NoWild
<1> QED
  BY <1>1, <1>2

\* With two frames or more and no wild bucket the outcome of TLBSerach is not fatal.
LEMMA NothingFatal ==
  ASSUME NoWild, IInv, physpages # 1, NEW pn \in Pages
  PROVE  ~ Fatal(pn)
<1>1. Inside(pn) => Bucket(pn) \in Nodes \cup {NULL}
  BY DEF Bucket, NoWild, Inside
<1>2. ~ Follows(pn)
  BY <1>1, TlbSizeAssumption DEF Follows, Nodes, NULL, WILD
<1>3. ~ Crashes(pn)
  BY PhyspagesAssumption DEF Crashes, OutFollowsNull, IInv, FramesKept
<1> QED
  BY <1>2, <1>3 DEF Fatal

\* A look-up adds at most one to one counter of the process whose turn it is.
LEMMA LookupCounts ==
  ASSUME RunInv, status = "running", NEW pn \in Pages, Lookup(pn)
  PROVE  /\ tlbHits' \in [Processes -> Nat] /\ pageFaults' \in [Processes -> Nat]
         /\ \A p \in Processes \ {rotation} :
              tlbHits'[p] = tlbHits[p] /\ pageFaults'[p] = pageFaults[p]
         /\ tlbHits'[rotation] + pageFaults'[rotation]
              <= tlbHits[rotation] + pageFaults[rotation] + 1
         /\ status' \in {"running", "crashed", "outside"}
         /\ status' = "running" => IInv'
<1> USE DEF RunInv
<1>1. CASE TLBSerach(pn) /\ UNCHANGED status
  <2>1. CASE /\ tlbHits' = [tlbHits EXCEPT ![rotation] = @ + 1]
             /\ UNCHANGED pageTable
    <3>1. IInv'
      BY <2>1, StepKeeps
    <3> QED
      BY <1>1, <2>1, <3>1 DEF pageTable
  <2>2. CASE pageTableLookUp(rotation, pn) /\ UNCHANGED tlbHits
    <3>1. IInv'
      BY <2>2, StepKeeps DEF PageTableNext
    <3>2. \/ pageFaults' = pageFaults
          \/ pageFaults' = [pageFaults EXCEPT ![rotation] = @ + 1]
      BY <2>2 DEF pageTableLookUp, Found, pageTable, PageIn, PageSwap, Fault
    <3> QED
      BY <1>1, <2>2, <3>1, <3>2
  <2> QED
    BY <1>1, <2>1, <2>2 DEF TLBSerach
<1>2. CASE /\ status' \in {"crashed", "outside"}
           /\ UNCHANGED <<tlb, pageTable, tlbHits>>
  BY <1>2 DEF pageTable
<1> QED
  BY <1>1, <1>2 DEF Lookup

\* A number that is none of the table's as an int is negative.
LEMMA OutsideIsNegative ==
  ASSUME NEW pn \in Pages, ~ Inside(pn)
  PROVE  pn > INT_MAX
<1>1. pn \in Nat /\ INT_MAX \in Nat /\ tlb_MaxSize \in Nat /\ tlb_MaxSize > 0
  BY PagesAssumption, IntAssumption, TlbSizeAssumption
<1> SUFFICES ASSUME pn <= INT_MAX PROVE FALSE
  BY <1>1
<1>2. AsInt(pn) = pn /\ pn % tlb_MaxSize \in 0 .. tlb_MaxSize - 1
  BY <1>1 DEF AsInt
<1> QED
  BY <1>1, <1>2 DEF Inside, TLBHasher, Buckets

\* A look-up leaves a safe program safe.
LEMMA LookupSafe ==
  ASSUME RunInv, Safe, status = "running", gp_Mode' = gp_Mode, FlushedLate => FlushedLate',
         NEW pn \in Pages, Lookup(pn)
  PROVE  Safe'
<1>1. IInv
  BY DEF RunInv
<1>2. CASE TLBSerach(pn) /\ UNCHANGED status
  <2>1. NoWild => NoWild'
    BY <1>2, LookupKeepsBuckets DEF TLBSerach
  <2> QED
    BY <1>2, <2>1 DEF Safe
<1>3. CASE Fatal(pn) /\ status' = "crashed" /\ UNCHANGED <<tlb, pageTable, tlbHits>>
  <2>1. NoWild' <=> NoWild
    BY <1>3 DEF NoWild, tlb
  <2>2. physpages = 1 \/ FlushedLate
    BY <1>1, <1>3, NothingFatal DEF Safe
  <2> QED
    BY <1>3, <2>1, <2>2 DEF Safe
<1>4. CASE Strays(pn) /\ status' = "outside" /\ UNCHANGED <<tlb, pageTable, tlbHits>>
  <2>1. NoWild' <=> NoWild
    BY <1>4 DEF NoWild, tlb
  <2>2. pn > INT_MAX
    BY <1>4, OutsideIsNegative DEF Strays
  <2> QED
    BY <1>4, <2>1, <2>2 DEF Safe
<1> QED
  BY <1>2, <1>3, <1>4 DEF Lookup

LEMMA TvmInitially == Init => TvmInv
<1> SUFFICES ASSUME Init PROVE TvmInv
  OBVIOUS
<1>1. IInv
  BY Initially DEF Init
<1>2. RunInv
  BY <1>1, TracesAssumption DEF Init, RunInv, IInv, Types
<1>3. Counted
  BY DEF Init, PageTableInit, Counted, Lookups
<1>4. NoWild
  BY DEF Init, TlbInit, createTLBHash, NoWild
<1> QED
  BY <1>2, <1>3, <1>4 DEF Init, Safe, TvmInv

\* A reference that is read is counted once at most.
LEMMA ReferenceKeeps == TvmInv /\ Reference => TvmInv'
<1> SUFFICES ASSUME TvmInv, Reference PROVE TvmInv'
  OBVIOUS
<1>1. PICK pn \in Pages : Lookup(pn)
  BY DEF Reference
<1>2. /\ RunInv /\ Counted /\ Safe /\ status = "running"
      /\ read' = [read EXCEPT ![rotation] = @ + 1]
      /\ rotation' = rotation /\ finished' = finished /\ gp_Mode' = gp_Mode
  BY DEF TvmInv, Reference, Turn
<1>3. /\ tlbHits' \in [Processes -> Nat] /\ pageFaults' \in [Processes -> Nat]
      /\ \A p \in Processes \ {rotation} :
           tlbHits'[p] = tlbHits[p] /\ pageFaults'[p] = pageFaults[p]
      /\ tlbHits'[rotation] + pageFaults'[rotation]
           <= tlbHits[rotation] + pageFaults[rotation] + 1
      /\ status' \in {"running", "crashed", "outside"}
      /\ status' = "running" => IInv'
  BY <1>1, <1>2, LookupCounts
<1>4. RunInv'
  <2>1. read' \in [Processes -> Nat]
    BY <1>2 DEF RunInv
  <2>2. status' \in {"running", "counting"} => IInv'
    BY <1>3
  <2>3. rotation' \in Processes /\ finished' \in [Processes -> BOOLEAN]
    BY <1>2 DEF RunInv
  <2> QED
    BY <2>1, <2>2, <2>3, <1>3 DEF RunInv
<1>5. Counted'
  <2>1. ASSUME NEW p \in Processes PROVE tlbHits'[p] + pageFaults'[p] <= Lookups(p)'
    <3>1. tlbHits[p] + pageFaults[p] <= Lookups(p) /\ Lookups(p) \in Nat
      BY <1>2 DEF Counted, Lookups, RunInv
    <3>2. Lookups(p)' = IF p = rotation THEN Lookups(p) + 1 ELSE Lookups(p)
      BY <1>2 DEF Lookups, RunInv
    <3>3. /\ tlbHits[p] \in Nat /\ pageFaults[p] \in Nat
          /\ tlbHits'[p] \in Nat /\ pageFaults'[p] \in Nat
      BY <1>2, <1>3 DEF RunInv
    <3> QED
      BY <3>1, <3>2, <3>3, <1>3
  <2> QED
    BY <2>1 DEF Counted
<1>6. Safe'
  BY <1>1, <1>2, LookupSafe DEF FlushedLate
<1> QED
  BY <1>4, <1>5, <1>6 DEF TvmInv

\* The look-up of page 0 at the end of a trace takes the place of a reference.
LEMMA EndOfTraceKeeps == TvmInv /\ EndOfTrace => TvmInv'
<1> SUFFICES ASSUME TvmInv, EndOfTrace PROVE TvmInv'
  OBVIOUS
<1>1. 0 \in Pages /\ Lookup(0)
  BY ZeroAssumption DEF EndOfTrace
<1>2. /\ RunInv /\ Counted /\ Safe /\ status = "running"
      /\ ~ finished[rotation]
      /\ finished' = [finished EXCEPT ![rotation] = TRUE]
      /\ rotation' = rotation /\ read' = read /\ gp_Mode' = gp_Mode
  BY DEF TvmInv, EndOfTrace, Turn
<1>3. /\ tlbHits' \in [Processes -> Nat] /\ pageFaults' \in [Processes -> Nat]
      /\ \A p \in Processes \ {rotation} :
           tlbHits'[p] = tlbHits[p] /\ pageFaults'[p] = pageFaults[p]
      /\ tlbHits'[rotation] + pageFaults'[rotation]
           <= tlbHits[rotation] + pageFaults[rotation] + 1
      /\ status' \in {"running", "crashed", "outside"}
      /\ status' = "running" => IInv'
  BY <1>1, <1>2, LookupCounts
<1>4. RunInv'
  BY <1>2, <1>3 DEF RunInv
<1>5. Counted'
  <2>1. ASSUME NEW p \in Processes PROVE tlbHits'[p] + pageFaults'[p] <= Lookups(p)'
    <3>1. tlbHits[p] + pageFaults[p] <= Lookups(p) /\ Lookups(p) \in Nat
      BY <1>2 DEF Counted, Lookups, RunInv
    <3>2. Lookups(p)' = IF p = rotation THEN Lookups(p) + 1 ELSE Lookups(p)
      BY <1>2 DEF Lookups, RunInv
    <3>3. /\ tlbHits[p] \in Nat /\ pageFaults[p] \in Nat
          /\ tlbHits'[p] \in Nat /\ pageFaults'[p] \in Nat
      BY <1>2, <1>3 DEF RunInv
    <3> QED
      BY <3>1, <3>2, <3>3, <1>3
  <2> QED
    BY <2>1 DEF Counted
<1>6. Safe'
  <2>1. FlushedLate => FlushedLate'
    BY <1>2 DEF FlushedLate, RunInv
  <2> QED
    BY <1>1, <1>2, <2>1, LookupSafe
<1> QED
  BY <1>4, <1>5, <1>6 DEF TvmInv

\* The other steps leave the counters alone.
LEMMA OtherStepsKeep ==
  TvmInv /\ (Idle \/ Rotate \/ Count \/ UNCHANGED vars) => TvmInv'
<1> SUFFICES ASSUME TvmInv, Idle \/ Rotate \/ Count \/ UNCHANGED vars PROVE TvmInv'
  OBVIOUS
<1> USE DEF TvmInv
<1>1. /\ read' = read /\ finished' = finished /\ tlbHits' = tlbHits /\ gp_Mode' = gp_Mode
      /\ pageFaults' = pageFaults
      /\ Count \/ UNCHANGED pageTable
  BY DEF Idle, Rotate, Count, vars, pageTable
<1>2. Counted'
  BY <1>1 DEF Counted, Lookups
<1>3. rotation' \in Processes
  <2>1. CASE Rotate
    <3>1. rotation + 1 \in Nat /\ TraceFiles \in Nat /\ TraceFiles > 0
      BY TracesAssumption DEF RunInv
    <3>2. (rotation + 1) % TraceFiles \in 0 .. TraceFiles - 1
      BY <3>1
    <3> QED
      BY <2>1, <3>2, TracesAssumption DEF Rotate, NextProcess
  <2> QED
    BY <2>1 DEF RunInv, Idle, Count, vars
<1>4. /\ status' \in {"running", "counting", "done", "crashed", "outside"}
      /\ status' \in {"crashed", "outside"} => status' = status
      /\ status' \in {"running", "counting"} => status \in {"running", "counting"} /\ ~ Count
  BY DEF RunInv, Idle, Rotate, Count, vars
<1>5. UNCHANGED pageTable /\ IInv => IInv'
  BY StepKeeps
<1>6. RunInv'
  BY <1>1, <1>3, <1>4, <1>5 DEF RunInv
<1>7. FlushedLate' <=> FlushedLate
  BY <1>1 DEF FlushedLate
<1>8. NoWild' \/ FlushedLate
  <2>1. CASE tlbHash' = tlbHash
    BY <2>1 DEF Safe, NoWild
  <2>2. CASE Rotate /\ gp_Mode = "LOCAL" /\ NextProcess # rotation
    <3>1. TraceFiles > 1
      <4>1. TraceFiles \in Nat /\ TraceFiles > 0 /\ rotation \in 0 .. TraceFiles - 1
        BY TracesAssumption DEF RunInv
      <4>2. TraceFiles = 1 => rotation = 0 /\ (rotation + 1) % TraceFiles = 0
        BY <4>1
      <4> QED
        BY <2>2, <4>1, <4>2 DEF NextProcess
    <3>2. PICK wild \in SUBSET (IF MayBeWild THEN Buckets ELSE {}) : TLBFlush(wild)
      BY <2>2 DEF Rotate
    <3>3. CASE MayBeWild
      BY <2>2, <3>1, <3>3 DEF FlushedLate, MayBeWild
    <3>4. CASE ~ MayBeWild
      BY <3>2, <3>4 DEF TLBFlush, createTLBHash, NoWild
    <3> QED
      BY <3>3, <3>4
  <2> QED
    BY <2>1, <2>2 DEF Idle, Rotate, Count, vars, tlb
<1>9. Safe'
  BY <1>4, <1>7, <1>8 DEF Safe
<1> QED
  BY <1>2, <1>6, <1>9

THEOREM TvmInvariance == Spec => []TvmInv
<1>1. Init => TvmInv
  BY TvmInitially
<1>2. TvmInv /\ [Next]_vars => TvmInv'
  BY ReferenceKeeps, EndOfTraceKeeps, OtherStepsKeep DEF Next, Ended
<1> QED
  BY <1>1, <1>2, PTL DEF Spec

\* TLBSerach counts no reference twice, as a hit and as a page fault, or to another
\* process, however many traces there are and however they end.
THEOREM EachIsCountedOnce == Spec => []CountedOnce
<1>1. TvmInv => CountedOnce
  BY DEF TvmInv, Counted, CountedOnce
<1> QED
  BY <1>1, TvmInvariance, PTL

\* Whatever the traces, main follows a null pointer in PageOut only with a single frame, a
\* wild one in TLBSerach only after a flush behind the end of a trace, and reads outside the
\* hash table only for a page number that is negative as an int.
THEOREM NothingWildIsFollowed == Spec => []CrashesHaveCause
<1>1. TvmInv => CrashesHaveCause
  BY DEF TvmInv, Safe, FlushedLate, CrashesHaveCause
<1> QED
  BY <1>1, TvmInvariance, PTL

LEMMA LookupUsesTlb ==
  ASSUME NEW pn \in Pages, Lookup(pn)
  PROVE  [TlbNext]_tlb
  BY DEF Lookup, TLBSerach, TlbNext

\* main uses the buffer as Tlb says, and its flushes never leave the hash table of one
\* queue to another: what is proved of Tlb holds in the simulator.
THEOREM TlbIsUsed == Spec => UsesTlb
<1>1. Init => TlbInit
  BY DEF Init
<1>2. [Next]_vars => [TlbNext]_tlb
  <2> SUFFICES ASSUME [Next]_vars PROVE [TlbNext]_tlb
    OBVIOUS
  <2>1. CASE Reference
    BY <2>1, LookupUsesTlb DEF Reference
  <2>2. CASE EndOfTrace
    BY <2>2, LookupUsesTlb, ZeroAssumption DEF EndOfTrace
  <2>3. CASE Rotate
    <3>1. CASE gp_Mode = "LOCAL" /\ NextProcess # rotation
      BY <2>3, <3>1 DEF Rotate, TlbNext
    <3>2. CASE ~ (gp_Mode = "LOCAL" /\ NextProcess # rotation)
      BY <2>3, <3>2 DEF Rotate
    <3> QED
      BY <3>1, <3>2
  <2>4. CASE Idle \/ Count \/ UNCHANGED vars
    BY <2>4 DEF Idle, Count, vars
  <2> QED
    BY <2>1, <2>2, <2>3, <2>4 DEF Next, Ended
<1> QED
  BY <1>1, <1>2, PTL DEF Spec, UsesTlb, TlbSpec

----------------------------------------------------------------------------
(* Types *)

\* The invariants of the page table, as long as its list is whole.
TableInv == IInv /\ OrderInv /\ tail \in Frames \cup {NoFrame}

\* As long as the list is empty there is nothing in the buffer to be found, and no trace
\* has ended; what ends then has something to be counted.
Started == list = <<>> => /\ \A h \in Buckets : tlbHash[h] \notin Nodes
                          /\ \A p \in Processes : ~ finished[p]

RunTypes ==
  /\ PageTableTypeOK
  /\ gp_Mode \in {"GLOBAL", "LOCAL"}
  /\ rotation \in Processes
  /\ i \in 0 .. quantom_Pages
  /\ read \in [Processes -> 0 .. MaxLength]
  /\ finished \in [Processes -> BOOLEAN]
  /\ tlbHits \in [Processes -> Nat]
  /\ avs \in [Processes -> Nat]
  /\ status \in {"running", "counting", "done", "crashed", "outside"}

TypeInv ==
  /\ RunTypes
  /\ status \in {"running", "counting"} => TableInv /\ Started
  /\ status = "counting" => \A p \in Processes : finished[p]

LEMMA TableTypes == TableInv => PageTableTypeOK
BY DEF TableInv, IInv, Types, OrderInv, Trees, PageTableTypeOK

\* A look-up in the page table leaves an entry on its list.
LEMMA LookupKeepsTable ==
  ASSUME TableInv, NEW p \in Processes, NEW pn \in Pages, pageTableLookUp(p, pn)
  PROVE  TableInv' /\ list' # <<>>
<1>1. IInv' /\ OrderInv'
  BY StepKeeps, OrderStep DEF TableInv, PageTableNext
<1>2. CASE Found(pn)
  <2>1. pn \in Nat /\ search(tree, pn) # NIL
    BY <1>2, PagesAssumption DEF Found, Resident
  <2>2. list # <<>>
    BY <2>1, SearchRoot DEF TableInv, OrderInv
  <2> QED
    BY <2>2, <1>1, <1>2 DEF Found, pageTable, TableInv
<1>3. CASE PageIn(p, pn)
  <2>1. free_frame_count \in Frames
    BY <1>3, PhyspagesAssumption DEF PageIn, TableInv, IInv, Types, Frames
  <2>2. list' = Append(list, free_frame_count) /\ list \in Seq(Frames)
    BY <1>3 DEF PageIn, InsertAtTail, TableInv, IInv, Types
  <2>3. tail' \in {tail, free_frame_count}
    BY <1>3 DEF PageIn, InsertAtTail
  <2> QED
    BY <2>1, <2>2, <2>3, <1>1 DEF TableInv
<1>4. CASE PageSwap(p, pn)
  <2>1. Victim \in Frames
    BY <1>4, VictimOnList, ListShape DEF PageSwap, TableInv, IInv
  <2>2. tail' \in {tail, Victim}
    BY <1>4 DEF PageSwap, InsertAtTail
  <2>3. list' # <<>>
    BY <1>4, ListAfterSwap, VictimOnList DEF PageSwap, InsertAtTail, TableInv, IInv
  <2> QED
    BY <2>1, <2>2, <2>3, <1>1 DEF TableInv
<1> QED
  BY <1>2, <1>3, <1>4 DEF pageTableLookUp

\* A look-up in the course of a turn leaves an entry on the list, or ends the program.
LEMMA LookupTypes ==
  ASSUME RunTypes, TableInv, Started, status = "running", NEW pn \in Pages, Lookup(pn)
  PROVE  /\ PageTableTypeOK' /\ tlbHits' \in [Processes -> Nat]
         /\ status' \in {"running", "crashed", "outside"}
         /\ status' = "running" => TableInv' /\ list' # <<>>
<1>1. CASE TLBSerach(pn) /\ UNCHANGED status
  <2>1. CASE /\ TLBHit(pn)
             /\ tlbHits' = [tlbHits EXCEPT ![rotation] = @ + 1]
             /\ UNCHANGED pageTable
    <3>1. TableInv'
      BY <2>1, StepKeeps, OrderStep DEF TableInv, pageTable
    <3>2. tlbHash[TLBHasher(pn)] \in Nodes /\ TLBHasher(pn) \in Buckets
      BY <2>1 DEF TLBHit, Hits, Bucket, Inside
    <3>3. list' # <<>>
      BY <2>1, <3>2 DEF Started, pageTable
    <3>4. tlbHits' \in [Processes -> Nat]
      BY <2>1 DEF RunTypes
    <3>5. PageTableTypeOK'
      BY <3>1, TableTypes, PTL
    <3> QED
      BY <1>1, <3>1, <3>3, <3>4, <3>5
  <2>2. CASE pageTableLookUp(rotation, pn) /\ UNCHANGED tlbHits
    <3>1. TableInv' /\ list' # <<>>
      BY <2>2, LookupKeepsTable DEF RunTypes
    <3>2. PageTableTypeOK'
      BY <3>1, TableTypes, PTL
    <3> QED
      BY <1>1, <2>2, <3>1, <3>2 DEF RunTypes
  <2> QED
    BY <1>1, <2>1, <2>2 DEF TLBSerach
<1>2. CASE /\ status' \in {"crashed", "outside"}
           /\ UNCHANGED <<tlb, pageTable, tlbHits>>
  BY <1>2 DEF pageTable, RunTypes, PageTableTypeOK
<1> QED
  BY <1>1, <1>2 DEF Lookup

LEMMA TypesInitially == Init => TypeInv
<1> SUFFICES ASSUME Init PROVE TypeInv
  OBVIOUS
<1>1. TableInv
  BY Initially, OrderInitially DEF Init, PageTableInit, TableInv
<1>2. Started
  BY NoPointerIsANode DEF Init, TlbInit, createTLBHash, Started
<1>3. RunTypes
  BY <1>1, TableTypes, TracesAssumption, QuantumAssumption, LengthAssumption DEF Init, RunTypes
<1> QED
  BY <1>1, <1>2, <1>3 DEF Init, TypeInv

\* A turn, with its look-up.
LEMMA TurnTypes == TypeInv /\ (Reference \/ EndOfTrace) => TypeInv'
<1> SUFFICES ASSUME TypeInv, Reference \/ EndOfTrace PROVE TypeInv'
  OBVIOUS
<1>1. PICK pn \in Pages : Lookup(pn)
  BY ZeroAssumption DEF Reference, EndOfTrace
<1>2. /\ RunTypes /\ TableInv /\ Started /\ status = "running"
      /\ i < quantom_Pages /\ i' = i + 1
      /\ rotation' = rotation /\ gp_Mode' = gp_Mode /\ avs' = avs
  BY DEF TypeInv, Reference, EndOfTrace, Turn
<1>3. /\ PageTableTypeOK' /\ tlbHits' \in [Processes -> Nat]
      /\ status' \in {"running", "crashed", "outside"}
      /\ status' = "running" => TableInv' /\ list' # <<>>
  BY <1>1, <1>2, LookupTypes
<1>4. read' \in [Processes -> 0 .. MaxLength]
  <2>1. CASE Reference
    <3>1. read[rotation] \in 0 .. MaxLength /\ read[rotation] < MaxLength /\ MaxLength \in Nat
      BY <2>1, <1>2, LengthAssumption DEF Reference, RunTypes
    <3>2. read[rotation] + 1 \in 0 .. MaxLength
      BY <3>1
    <3> QED
      BY <2>1, <3>2, <1>2 DEF Reference, RunTypes
  <2>2. CASE EndOfTrace
    BY <2>2, <1>2 DEF EndOfTrace, RunTypes
  <2> QED
    BY <2>1, <2>2
<1>5. finished' \in [Processes -> BOOLEAN]
  BY <1>2 DEF Reference, EndOfTrace, RunTypes
<1>6. i' \in 0 .. quantom_Pages
  BY <1>2, QuantumAssumption DEF RunTypes
<1>7. RunTypes'
  BY <1>2, <1>3, <1>4, <1>5, <1>6 DEF RunTypes
<1> QED
  BY <1>3, <1>7 DEF TypeInv, Started

\* The turns of a process whose trace has ended, and the change of processes.
LEMMA RestTypes == TypeInv /\ (Idle \/ Rotate) => TypeInv'
<1> SUFFICES ASSUME TypeInv, Idle \/ Rotate PROVE TypeInv'
  OBVIOUS
<1>1. /\ RunTypes /\ TableInv /\ Started /\ status = "running"
      /\ UNCHANGED pageTable
      /\ read' = read /\ finished' = finished /\ tlbHits' = tlbHits
      /\ gp_Mode' = gp_Mode /\ avs' = avs
  BY DEF TypeInv, Idle, Rotate, Turn
<1>2. TableInv'
  BY <1>1, StepKeeps, OrderStep DEF TableInv, pageTable
<1>3. i' \in 0 .. quantom_Pages
  BY <1>1, QuantumAssumption DEF Idle, Rotate, Turn, RunTypes
<1>4. rotation' \in Processes
  <2>1. CASE Rotate
    <3>1. rotation + 1 \in Nat /\ TraceFiles \in Nat /\ TraceFiles > 0
      BY <1>1, TracesAssumption DEF RunTypes
    <3>2. (rotation + 1) % TraceFiles \in 0 .. TraceFiles - 1
      BY <3>1
    <3> QED
      BY <2>1, <3>2, TracesAssumption DEF Rotate, NextProcess
  <2>2. CASE Idle
    BY <2>2, <1>1 DEF Idle, RunTypes
  <2> QED
    BY <2>1, <2>2
<1>5. Started'
  <2>1. \/ tlbHash' = tlbHash
        \/ \E wild \in SUBSET Buckets : tlbHash' = createTLBHash(wild)
    BY DEF Idle, Rotate, tlb, TLBFlush
  <2>2. ASSUME NEW wild \in SUBSET Buckets, NEW h \in Buckets PROVE createTLBHash(wild)[h] \notin Nodes
    BY NoPointerIsANode DEF createTLBHash
  <2> QED
    BY <1>1, <2>1, <2>2 DEF Started, pageTable
<1>6. status' = "running" \/ (status' = "counting" /\ \A p \in Processes : finished'[p])
  BY <1>1 DEF Idle, Rotate
<1>7. RunTypes'
  <2>1. PageTableTypeOK'
    BY <1>2, TableTypes, PTL
  <2> QED
    BY <2>1, <1>1, <1>3, <1>4, <1>6 DEF RunTypes
<1> QED
  BY <1>2, <1>5, <1>6, <1>7 DEF TypeInv

\* There is a last entry for the report to stop at.
LEMMA CountTypes == TypeInv /\ Count => TypeInv'
<1> SUFFICES ASSUME TypeInv, Count PROVE TypeInv'
  OBVIOUS
<1>1. /\ RunTypes /\ status = "counting" /\ status' = "done" /\ list \in Seq(Frames)
      /\ list' = <<list[Len(list)]>>
      /\ avs' = [p \in Processes |->
                   Cardinality({k \in 1 .. Len(list) : entry[list[k]].process_id = p})]
      /\ UNCHANGED <<fl_Mode, tail, entry, tree, free_frame_count, pageFaults,
                     pageOuts, gp_Mode, rotation, i, read, finished, tlbHits>>
  BY DEF Count, TypeInv, RunTypes, PageTableTypeOK
<1>2. list # <<>>
  BY <1>1, ProcessesAssumption DEF TypeInv, Started
<1>3. list[Len(list)] \in Frames
  <2>1. Len(list) \in 1 .. Len(list)
    BY <1>1, <1>2
  <2> QED
    BY <2>1, <1>1
<1>4. list' \in Seq(Frames)
  BY <1>1, <1>3
<1>5. PageTableTypeOK'
  BY <1>1, <1>4 DEF RunTypes, PageTableTypeOK
<1>6. avs' \in [Processes -> Nat]
  <2>1. ASSUME NEW p \in Processes
        PROVE  Cardinality({k \in 1 .. Len(list) : entry[list[k]].process_id = p}) \in Nat
    <3>1. IsFiniteSet(1 .. Len(list))
      BY <1>1, FS_Interval
    <3>2. IsFiniteSet({k \in 1 .. Len(list) : entry[list[k]].process_id = p})
      BY <3>1, FS_Subset
    <3> QED
      BY <3>2, FS_CardinalityType
  <2> QED
    BY <2>1, <1>1
<1>7. RunTypes'
  BY <1>1, <1>5, <1>6 DEF RunTypes
<1> QED
  BY <1>1, <1>7 DEF TypeInv

LEMMA TypesInvariance == Spec => []TypeInv
<1>1. Init => TypeInv
  BY TypesInitially
<1>2. TypeInv /\ [Next]_vars => TypeInv'
  <2> SUFFICES ASSUME TypeInv, [Next]_vars PROVE TypeInv'
    OBVIOUS
  <2>1. CASE Ended \/ UNCHANGED vars
    <3>1. UNCHANGED vars
      BY <2>1 DEF Ended
    <3>2. RunTypes'
      BY <3>1 DEF vars, pageTable, TypeInv, RunTypes, PageTableTypeOK
    <3>3. TableInv => TableInv'
      BY <3>1, StepKeeps, OrderStep DEF vars, TableInv, pageTable
    <3>4. Started => Started'
      BY <3>1 DEF vars, tlb, pageTable, Started
    <3> QED
      BY <3>1, <3>2, <3>3, <3>4 DEF vars, TypeInv
  <2> QED
    BY <2>1, TurnTypes, RestTypes, CountTypes DEF Next
<1> QED
  BY <1>1, <1>2, PTL DEF Spec

\* The fields of the buffer, of the page table, of its tree and of main hold what their
\* types say in every run, whatever the traces and the modes; and when the report begins
\* there is an entry on the list it takes apart.
THEOREM TvmTypes == Spec => []TypeOK
<1>1. TlbTypeOK /\ TypeInv => TypeOK
  BY DEF TypeInv, RunTypes, TypeOK
<1> QED
  BY <1>1, TypesInvariance, TlbIsUsed, TlbTypes, PTL DEF UsesTlb

============================================================================
