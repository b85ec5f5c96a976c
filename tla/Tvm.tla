-------------------------------- MODULE Tvm --------------------------------
(***************************************************************************)
(* The simulator of AS3/tvm379.c: main runs the trace files in turn, a     *)
(* quantum of references each, through the translation buffer and the page *)
(* table.  The program is sequential; one step is one turn of its loop.    *)
(*                                                                         *)
(* A trace is read one reference at a time, each any page of Pages, until  *)
(* the file ends, after MaxLength references at the latest.                *)
(***************************************************************************)
EXTENDS Tlb, PageTable

CONSTANTS
  TraceFiles,      \* how many trace files there are
  quantom_Pages,   \* how many references a process makes in a row
  MaxLength        \* bound: the references in a trace

ASSUME TracesAssumption == /\ TraceFiles \in Nat \ {0}
                           /\ Processes = 0 .. TraceFiles - 1
ASSUME QuantumAssumption == quantom_Pages \in Nat \ {0}
ASSUME LengthAssumption == MaxLength \in Nat
ASSUME ZeroAssumption == 0 \in Pages

VARIABLES
  gp_Mode,    \* "GLOBAL" or "LOCAL", whether turns flush the buffer: set once
  rotation,   \* the process whose turn it is
  i,          \* the turns of the inner loop it has had
  read,       \* read[p]: the references process p has made
  finished,   \* finished[p]: the trace of process p has ended
  tlbHits,    \* tlbHits[p]: the counter of process p
  avs,        \* avs[p]: the frames process p is left with, once counted
  status      \* "running", "counting", "done", "crashed" or "outside"

vars == <<tlb, pageTable, gp_Mode, rotation, i, read, finished, tlbHits, avs, status>>

Init ==
  /\ TlbInit
  /\ PageTableInit
  /\ gp_Mode \in {"GLOBAL", "LOCAL"}
  /\ rotation = 0
  /\ i = 0
  /\ read = [p \in Processes |-> 0]
  /\ finished = [p \in Processes |-> FALSE]
  /\ tlbHits = [p \in Processes |-> 0]
  /\ avs = [p \in Processes |-> 0]
  /\ status = "running"

\* Mutant of TLBSerach: what is not found is counted as a hit too.
TLBSerachCounted(pn) ==
  \/ /\ TLBHit(pn)
     /\ tlbHits' = [tlbHits EXCEPT ![rotation] = @ + 1]
     /\ UNCHANGED pageTable
  \/ /\ TLBMiss(pn)
     /\ pageTableLookUp(rotation, pn)
     /\ tlbHits' = [tlbHits EXCEPT ![rotation] = @ + 1]

\* TLBSerach: a hit is counted; a page that is not found is looked up in the
\* page table and then put in the queue.
TLBSerach(pn) ==
  \/ /\ TLBHit(pn)
     /\ tlbHits' = [tlbHits EXCEPT ![rotation] = @ + 1]
     /\ UNCHANGED pageTable
  \/ /\ TLBMiss(pn)
     /\ pageTableLookUp(rotation, pn)
     /\ UNCHANGED tlbHits

\* TLBSerach ends the program: it follows a wild pointer, or PageOut a null one.
Fatal(pn) == Follows(pn) \/ (Misses(pn) /\ Crashes(pn))

\* A turn of the inner loop.
Turn ==
  /\ status = "running"
  /\ i < quantom_Pages
  /\ i' = i + 1

\* The bucket of page pn lies before the hash table.
Strays(pn) == ~ Inside(pn)

\* A look-up of page pn, in the course of a turn.  Where it reads and writes
\* other memory than the hash table the run is followed no further.
Lookup(pn) ==
  \/ /\ TLBSerach(pn)
     /\ UNCHANGED status
  \/ /\ Fatal(pn)
     /\ status' = "crashed"
     /\ UNCHANGED <<tlb, pageTable, tlbHits>>
  \/ /\ Strays(pn)
     /\ status' = "outside"
     /\ UNCHANGED <<tlb, pageTable, tlbHits>>

Reference ==
  /\ Turn
  /\ ~ finished[rotation]
  /\ read[rotation] < MaxLength
  /\ read' = [read EXCEPT ![rotation] = @ + 1]
  /\ \E pn \in Pages : Lookup(pn)
  /\ UNCHANGED <<gp_Mode, rotation, finished, avs>>

\* The break at the end of a file leaves the loop around fread only: address 0,
\* that is page 0, is looked up once more.
EndOfTrace ==
  /\ Turn
  /\ ~ finished[rotation]
  /\ finished' = [finished EXCEPT ![rotation] = TRUE]
  /\ Lookup(0)
  /\ UNCHANGED <<gp_Mode, rotation, read, avs>>

\* A process whose trace has ended still has its quantum of turns.
Idle ==
  /\ Turn
  /\ finished[rotation]
  /\ UNCHANGED <<tlb, pageTable, gp_Mode, rotation, read, finished, tlbHits, avs, status>>

\* The bucket array of a flush is malloc'ed, from memory that may have been used
\* before once fclose has given back the buffer of a trace.
MayBeWild == \E p \in Processes : finished[p]

NextProcess == (rotation + 1) % TraceFiles

\* Mutant of Rotate: after the last process comes none.
RotateOver ==
  /\ status = "running"
  /\ i = quantom_Pages
  /\ i' = 0
  /\ rotation' = rotation + 1
  /\ status' = IF \A p \in Processes : finished[p] THEN "counting" ELSE "running"
  /\ UNCHANGED <<tlb, pageTable, gp_Mode, read, finished, tlbHits, avs>>

\* Mutant of Rotate: the queue is flushed and the hash table is kept.
RotateHashKept ==
  /\ status = "running"
  /\ i = quantom_Pages
  /\ i' = 0
  /\ rotation' = NextProcess
  /\ tlbQueue' = IF gp_Mode = "LOCAL" /\ NextProcess # rotation
                 THEN createTLBQueue ELSE tlbQueue
  /\ heapNodes' = IF gp_Mode = "LOCAL" /\ NextProcess # rotation THEN {} ELSE heapNodes
  /\ status' = IF \A p \in Processes : finished[p] THEN "counting" ELSE "running"
  /\ UNCHANGED <<tlbHash, pageTable, gp_Mode, read, finished, tlbHits, avs>>

\* Mutant of Rotate: the buffer is flushed in either mode.
RotateFlushing ==
  /\ status = "running"
  /\ i = quantom_Pages
  /\ i' = 0
  /\ rotation' = NextProcess
  /\ \E wild \in SUBSET (IF MayBeWild THEN Buckets ELSE {}) : TLBFlush(wild)
  /\ status' = IF \A p \in Processes : finished[p] THEN "counting" ELSE "running"
  /\ UNCHANGED <<pageTable, gp_Mode, read, finished, tlbHits, avs>>

\* Mutant of Rotate: that all traces have ended is not noticed.
RotateForever ==
  /\ status = "running"
  /\ i = quantom_Pages
  /\ i' = 0
  /\ rotation' = NextProcess
  /\ IF gp_Mode = "LOCAL" /\ NextProcess # rotation
     THEN \E wild \in SUBSET (IF MayBeWild THEN Buckets ELSE {}) : TLBFlush(wild)
     ELSE UNCHANGED tlb
  /\ UNCHANGED <<pageTable, gp_Mode, read, finished, tlbHits, avs, status>>

\* At the end of the quantum the next process has its turn, and in the local
\* mode the translation buffer is flushed.  The program is done with the traces
\* when all of them have ended.
Rotate ==
  /\ status = "running"
  /\ i = quantom_Pages
  /\ i' = 0
  /\ rotation' = NextProcess
  /\ IF gp_Mode = "LOCAL" /\ NextProcess # rotation
     THEN \E wild \in SUBSET (IF MayBeWild THEN Buckets ELSE {}) : TLBFlush(wild)
     ELSE UNCHANGED tlb
  /\ status' = IF \A p \in Processes : finished[p] THEN "counting" ELSE "running"
  /\ UNCHANGED <<pageTable, gp_Mode, read, finished, tlbHits, avs>>

\* The entries of the list are counted by process; head is moved on to the last.
Count ==
  /\ status = "counting"
  /\ status' = "done"
  /\ avs' = [p \in Processes |->
               Cardinality({k \in 1 .. Len(list) : entry[list[k]].process_id = p})]
  /\ list' = <<list[Len(list)]>>
  /\ UNCHANGED <<tlb, fl_Mode, tail, entry, tree, free_frame_count, pageFaults,
                 pageOuts, gp_Mode, rotation, i, read, finished, tlbHits>>

\* The program has ended, or is followed no further.
Ended ==
  /\ status \in {"done", "crashed", "outside"}
  /\ UNCHANGED vars

Next == Reference \/ EndOfTrace \/ Idle \/ Rotate \/ Count \/ Ended

Spec == Init /\ [][Next]_vars

\* The program runs on.
FairSpec == Spec /\ WF_vars(Next)

----------------------------------------------------------------------------
(* Properties *)

TypeOK ==
  /\ TlbTypeOK
  /\ PageTableTypeOK
  /\ gp_Mode \in {"GLOBAL", "LOCAL"}
  /\ rotation \in Processes
  /\ i \in 0 .. quantom_Pages
  /\ read \in [Processes -> 0 .. MaxLength]
  /\ finished \in [Processes -> BOOLEAN]
  /\ tlbHits \in [Processes -> Nat]
  /\ avs \in [Processes -> Nat]
  /\ status \in {"running", "counting", "done", "crashed", "outside"}

\* The buffer is used as its own specification says: a flush never leaves the
\* hash table of one queue to another.
UsesTlb == TlbSpec

\* What the program ends of, other than the end of its traces.  It crashes only
\* for want of a second frame, or after a flush of the buffer behind the end of a
\* trace: however evictions, hits and flushes go on, no other bucket becomes wild,
\* and no list is left with one entry.  It reads outside the hash table only
\* where a page number is negative as an int.
CrashesHaveCause ==
  /\ status = "crashed" =>
       physpages = 1 \/ (gp_Mode = "LOCAL" /\ TraceFiles > 1 /\ \E p \in Processes : finished[p])
  /\ status = "outside" => \E pn \in Pages : pn > INT_MAX

Lookups(p) == read[p] + (IF finished[p] THEN 1 ELSE 0)

\* No reference is counted twice, as a hit and as a page fault, or to a process
\* that has not made it.
CountedOnce ==
  status # "crashed" =>
    \A p \in Processes : tlbHits[p] + pageFaults[p] <= Lookups(p)

\* Every run ends: each process reaches the end of its trace, and is counted.
Ends == <>(status \in {"done", "crashed", "outside"})

\* "We could do LRU and FIFO easily" (AS3/README.txt:18-19): as long as every look-up has
\* been a page fault, the least recently used page is the one brought in first.
AllFaults == \A p \in Processes : pageFaults[p] = Lookups(p)

LruEvictsLeastRecent ==
  [][fl_Mode = "LRU" /\ AllFaults /\ pageOuts' # pageOuts
       => entry'[Head(list)] # entry[Head(list)]]_vars
============================================================================
