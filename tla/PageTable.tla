----------------------------- MODULE PageTable -----------------------------
(***************************************************************************)
(* The page table of AS3/tvm379.c: a doubly linked list of the pages in    *)
(* memory, in the order they were brought in, and a binary tree that leads *)
(* from page numbers to entries of the list.                               *)
(*                                                                         *)
(* When a page goes out, its entry is freed and the entry of the page that *)
(* comes in is malloc'ed next: it gets the same memory and the same frame. *)
(* An entry is therefore named by its frame, and a pointer to an entry that *)
(* has been freed leads to the entry that has replaced it.                 *)
(* Nodes of the tree are never freed; the model reuses those no path from  *)
(* the root leads to, which the program can no longer reach either.        *)
(***************************************************************************)
EXTENDS Paging, Integers, Sequences, FiniteSets, FiniteSetsExt

CONSTANTS
  Processes,      \* the trace files, each with its counters
  physpages,      \* the number of frames
  MaxTreeNodes    \* bound: the nodes the tree can have at a time

ASSUME PhyspagesAssumption == physpages \in Nat \ {0}
ASSUME ProcessesAssumption == IsFiniteSet(Processes) /\ Processes # {}
ASSUME TreeAssumption == MaxTreeNodes \in Nat \ {0}

Frames    == 0 .. physpages - 1
NoFrame   == -1
TreeNodes == 1 .. MaxTreeNodes
NIL       == 0

VARIABLES
  fl_Mode,           \* how pages go out, "FIFO" or "LRU": set once
  list,              \* the frames of the linked list's entries, from head on
  tail,              \* the entry tail points to
  entry,             \* entry[f]: the page in frame f and the process it is for
  tree,              \* the binary tree: root and the fields of its nodes
  free_frame_count,  \* how many frames have been given out
  pageFaults,        \* pageFaults[p], pageOuts[p]: the counters of process p
  pageOuts

pageTable == <<fl_Mode, list, tail, entry, tree, free_frame_count, pageFaults, pageOuts>>

----------------------------------------------------------------------------
(* The binary tree *)

\* search: the node on the path of page pn that has its number, or NIL.
search(t, pn) ==
  LET from[n \in TreeNodes \cup {NIL}] ==
        IF n = NIL THEN NIL
        ELSE CASE pn < t.PageNumber[n] -> from[t.left[n]]
               [] pn > t.PageNumber[n] -> from[t.right[n]]
               [] OTHER                -> n
  IN  from[t.root]

\* The last node, other than one with page pn itself, on the path of page pn.
Parent(t, pn) ==
  LET Down(n) == IF pn < t.PageNumber[n] THEN t.left[n] ELSE t.right[n]
      from[n \in TreeNodes] ==
        IF Down(n) = NIL \/ t.PageNumber[Down(n)] = pn THEN n ELSE from[Down(n)]
  IN  IF t.root = NIL \/ t.PageNumber[t.root] = pn THEN NIL ELSE from[t.root]

\* The nodes some path from the root leads to.
Reachable(t) ==
  LET within[k \in 0 .. MaxTreeNodes] ==
        IF k = 0 THEN {t.root} \ {NIL}
        ELSE (UNION {{n, t.left[n], t.right[n]} : n \in within[k - 1]}) \ {NIL}
  IN  within[MaxTreeNodes]

\* What hangs on node q on the side of page pn.
Hang(t, q, pn, n) ==
  IF pn < t.PageNumber[q] THEN [t EXCEPT !.left[q] = n] ELSE [t EXCEPT !.right[q] = n]

\* insert: a node for page pn, unless its path leads to one, below the last
\* node of its path.
insert(t, pn, f) ==
  LET n    == Min(TreeNodes \ Reachable(t))
      grown == [t EXCEPT !.left[n] = NIL, !.right[n] = NIL,
                         !.PageNumber[n] = pn, !.match[n] = f]
      q    == Parent(t, pn)
  IN  CASE t.root = NIL        -> [grown EXCEPT !.root = n]
        [] search(t, pn) # NIL -> t
        [] OTHER               -> Hang(grown, q, pn, n)

\* Mutant of del: nothing is unlinked.
delNothing(t, pn) == t

\* Mutant of del: the node that goes becomes the left child of its heir.
delCircle(t, pn) ==
  LET x == search(t, pn)
      l == t.left[x]
      r == t.right[x]
      both  == l # NIL /\ r # NIL
      moved == IF both THEN [t EXCEPT !.left[r] = x] ELSE t
      heir  == IF r # NIL THEN r ELSE l
  IN  CASE x = NIL    -> t
        [] x = t.root -> moved
        [] OTHER      -> Hang(moved, Parent(t, pn), pn, heir)

\* del: the node x of page pn makes room for its only child or, if it has two,
\* for the right one, whose own left child is given up for the left child of x.
\* The caller drops what del returns, so a node that is the root stays.
del(t, pn) ==
  LET x == search(t, pn)
      l == t.left[x]
      r == t.right[x]
      both  == l # NIL /\ r # NIL
      moved == IF both THEN [t EXCEPT !.left[r] = l] ELSE t
      heir  == IF r # NIL THEN r ELSE l
  IN  CASE x = NIL    -> t
        [] x = t.root -> moved
        [] OTHER      -> Hang(moved, Parent(t, pn), pn, heir)

----------------------------------------------------------------------------
(* The linked list *)

\* The process a page-out is charged to and the frame it frees: FIFO takes the
\* head of the list and LRU the entry tail points to.
Victim == IF fl_Mode = "FIFO" THEN Head(list) ELSE tail

\* Taking the only entry of the list off it goes through a NULL pointer: after
\* the head there is no next entry, and tail is not set before a second entry.
OutFollowsNull == Len(list) = 1

Position(f) == CHOOSE k \in 1 .. Len(list) : list[k] = f

\* Mutant of Shortened: the entry is not unlinked.
ShortenedNot == list

\* deleteEntryFifo and deleteEntryLru: what is left of the list.
Shortened == IF fl_Mode = "FIFO" THEN Tail(list)
             ELSE SubSeq(list, 1, Position(tail) - 1)

\* InsertAtTail: the first entry of a list does not become its tail.
InsertAtTail(rest, f) ==
  /\ list' = Append(rest, f)
  /\ tail' = IF rest = <<>> THEN tail ELSE f

----------------------------------------------------------------------------
(* pageTableLookUp *)

\* pageTableScan finds the page: nothing else happens.
Resident(pn) == search(tree, pn) # NIL

Found(pn) ==
  /\ Resident(pn)
  /\ UNCHANGED pageTable

Fault(p) == pageFaults' = [pageFaults EXCEPT ![p] = @ + 1]

TreeHasRoom == TreeNodes \ Reachable(tree) # {}

\* The page is given a frame that has not been used.
PageIn(p, pn) ==
  /\ ~ Resident(pn) /\ TreeHasRoom
  /\ free_frame_count < physpages
  /\ Fault(p)
  /\ InsertAtTail(list, free_frame_count)
  /\ entry' = [entry EXCEPT ![free_frame_count] = [PageNumber |-> pn, process_id |-> p]]
  /\ tree' = insert(tree, pn, free_frame_count)
  /\ free_frame_count' = free_frame_count + 1
  /\ UNCHANGED <<fl_Mode, pageOuts>>

\* Mutant of PageSwap: the page-out is charged to the process that faults.
PageSwapCharged(p, pn) ==
  /\ ~ Resident(pn) /\ TreeHasRoom
  /\ free_frame_count = physpages
  /\ ~ OutFollowsNull
  /\ Fault(p)
  /\ pageOuts' = [pageOuts EXCEPT ![p] = @ + 1]
  /\ InsertAtTail(Shortened, Victim)
  /\ entry' = [entry EXCEPT ![Victim] = [PageNumber |-> pn, process_id |-> p]]
  /\ tree' = insert(del(tree, entry[Victim].PageNumber), pn, Victim)
  /\ UNCHANGED <<fl_Mode, free_frame_count>>

\* The page takes the frame of the page that PageOut chooses.
PageSwap(p, pn) ==
  /\ ~ Resident(pn) /\ TreeHasRoom
  /\ free_frame_count = physpages
  /\ ~ OutFollowsNull
  /\ Fault(p)
  /\ pageOuts' = [pageOuts EXCEPT ![entry[Victim].process_id] = @ + 1]
  /\ InsertAtTail(Shortened, Victim)
  /\ entry' = [entry EXCEPT ![Victim] = [PageNumber |-> pn, process_id |-> p]]
  /\ tree' = insert(del(tree, entry[Victim].PageNumber), pn, Victim)
  /\ UNCHANGED <<fl_Mode, free_frame_count>>

\* The program ends in PageOut.
Crashes(pn) ==
  /\ ~ Resident(pn)
  /\ free_frame_count = physpages
  /\ OutFollowsNull

pageTableLookUp(p, pn) == Found(pn) \/ PageIn(p, pn) \/ PageSwap(p, pn)

NoEntry == [PageNumber |-> 0, process_id |-> CHOOSE p \in Processes : TRUE]

PageTableInit ==
  /\ fl_Mode \in {"FIFO", "LRU"}
  /\ list = <<>>
  /\ tail = NoFrame
  /\ entry = [f \in Frames |-> NoEntry]
  /\ tree = [root |-> NIL,
             left |-> [n \in TreeNodes |-> NIL],
             right |-> [n \in TreeNodes |-> NIL],
             PageNumber |-> [n \in TreeNodes |-> 0],
             match |-> [n \in TreeNodes |-> 0]]
  /\ free_frame_count = 0
  /\ pageFaults = [p \in Processes |-> 0]
  /\ pageOuts = [p \in Processes |-> 0]

\* The page table on its own: any process looks up any page at any time.
PageTableNext == \E p \in Processes, pn \in Pages : pageTableLookUp(p, pn)

PageTableSpec == PageTableInit /\ [][PageTableNext]_pageTable

----------------------------------------------------------------------------
(* Properties *)

Used == 0 .. free_frame_count - 1

PageTableTypeOK ==
  /\ fl_Mode \in {"FIFO", "LRU"}
  /\ list \in Seq(Frames)
  /\ tail \in Frames \cup {NoFrame}
  /\ entry \in [Frames -> [PageNumber : Nat, process_id : Processes]]
  /\ free_frame_count \in 0 .. physpages
  /\ pageFaults \in [Processes -> Nat]
  /\ pageOuts \in [Processes -> Nat]
  /\ tree.root \in TreeNodes \cup {NIL}
  /\ tree.left \in [TreeNodes -> TreeNodes \cup {NIL}]
  /\ tree.right \in [TreeNodes -> TreeNodes \cup {NIL}]

\* No frame is lost or given out twice, however pages come and go: the list
\* holds every frame handed out so far exactly once.
FramesKept ==
  /\ Len(list) = free_frame_count
  /\ {list[k] : k \in 1 .. Len(list)} = Used

\* A page-out is charged to the process the page was brought in for, so the
\* frames of a process are its page faults less its page-outs.
FaultsAccounted ==
  \A p \in Processes :
    pageFaults[p] - pageOuts[p] = Cardinality({f \in Used : entry[f].process_id = p})

InMemory(pn) == \E f \in Used : entry[f].PageNumber = pn

Below(n) == Reachable([tree EXCEPT !.root = n])

\* No relinking of del, even where it leaves two nodes with one child in common,
\* closes a circle, so every search ends; and however many pages del has lost, the
\* tree finds the one brought in last.
SearchEnds ==
  /\ \A n \in Reachable(tree) : n \notin Below(tree.left[n]) \cup Below(tree.right[n])
  /\ list # <<>> => Resident(entry[list[Len(list)]].PageNumber)

\* The tree leads to every page in memory, and to no other.
IndexExact == \A pn \in Pages : Resident(pn) <=> InMemory(pn)

\* In the LRU mode the tree stays exact although del returns a new root nobody
\* keeps and gives subtrees up: the victim, the page brought in last, is never
\* the root and never has a node below it.
LruIndexExact == fl_Mode = "LRU" => IndexExact

\* "Binary Search tree for traversing to PageTable given Page Number"
\* (AS3/README.txt:14): in the FIFO mode, too, the pages found are the pages in
\* memory.
FifoIndexExact == fl_Mode = "FIFO" => IndexExact
=============================================================================
