-------------------------------- MODULE Tlb --------------------------------
(***************************************************************************)
(* The translation buffer of AS3/tvm379.c: a doubly linked queue of nodes, *)
(* the most recently used one first, and a hash table of pointers to them. *)
(*                                                                         *)
(* A pointer is a member of Nodes, or NULL, or WILD: what an uninitialized *)
(* pointer may hold.  Memory the program has lost the last pointer to may  *)
(* be handed out again: nothing tells it from fresh memory.                *)
(***************************************************************************)
EXTENDS Paging, Integers, FiniteSets

CONSTANT tlb_MaxSize   \* the capacity of the queue and the size of the hash table

ASSUME TlbSizeAssumption == tlb_MaxSize \in Nat \ {0}

Nodes   == 1 .. tlb_MaxSize
NULL    == 0
WILD    == -1
Buckets == 0 .. tlb_MaxSize - 1

VARIABLES
  tlbQueue,   \* the queue: first, last, size, and the fields of its nodes
  tlbHash,    \* tlbHash[h]: the node bucket h of the hash table points to
  heapNodes   \* the nodes malloc has handed out and free has not taken back

tlb == <<tlbQueue, tlbHash, heapNodes>>

\* TLBHasher and the nodes take an unsigned page number as an int: the one from
\* an address that is negative as an int, of 2^31 or more, is negative.
AsInt(pn) == IF pn <= INT_MAX THEN pn ELSE pn - 2 * (INT_MAX + 1)

\* The % of C has the sign of the page number.
TLBHasher(pn) == IF AsInt(pn) >= 0 THEN AsInt(pn) % tlb_MaxSize
                 ELSE - ((- AsInt(pn)) % tlb_MaxSize)

\* The page numbers whose bucket lies in the hash table, and not before it.
Inside(pn) == TLBHasher(pn) \in Buckets

\* The nodes' fields hold anything until the node is malloc'ed.
createTLBQueue == [first |-> NULL, last |-> NULL, size |-> 0,
                   next |-> [n \in Nodes |-> NULL],
                   prev |-> [n \in Nodes |-> NULL],
                   pageNumber |-> [n \in Nodes |-> 0]]

\* The buckets are malloc'ed and never cleared: those in wild hold garbage, and
\* the others the zeros of a heap page used for the first time.
createTLBHash(wild) == [h \in Buckets |-> IF h \in wild THEN WILD ELSE NULL]

TLBFull(queue)  == queue.size = tlb_MaxSize
TLBEmpty(queue) == queue.last = NULL

\* The last node is unlinked and freed.
delTLBPage(queue) ==
  IF TLBEmpty(queue) THEN queue
  ELSE LET before == queue.prev[queue.last]
       IN  [queue EXCEPT
              !.first = IF @ = queue.last THEN NULL ELSE @,
              !.last  = before,
              !.next  = [n \in Nodes |-> IF n = before THEN NULL ELSE @[n]],
              !.size  = @ - 1]

\* Node n, with page pn, becomes the first of the queue.
PushFirst(queue, n, pn) ==
  LET old == queue.first
  IN  [queue EXCEPT
         !.first      = n,
         !.last       = IF @ = NULL THEN n ELSE @,
         !.next[n]    = old,
         !.prev       = [m \in Nodes |-> CASE m = n -> NULL
                                           [] m = old /\ ~ TLBEmpty(queue) -> n
                                           [] OTHER -> @[m]],
         !.pageNumber[n] = pn,
         !.size       = @ + 1]

\* Mutant of insertTLB: the bucket of the page that is evicted is left alone.
insertTLBStale(pn) ==
  LET full == TLBFull(tlbQueue)
      queue == IF full THEN delTLBPage(tlbQueue) ELSE tlbQueue
      inUse == IF full THEN heapNodes \ {tlbQueue.last} ELSE heapNodes
  IN  \E n \in Nodes \ inUse :
        /\ tlbQueue' = PushFirst(queue, n, pn)
        /\ tlbHash' = [tlbHash EXCEPT ![TLBHasher(pn)] = n]
        /\ heapNodes' = inUse \cup {n}

\* Mutant of insertTLB: the new page's bucket is set before the old one's is cleared.
insertTLBSwapped(pn) ==
  LET full == TLBFull(tlbQueue)
      queue == IF full THEN delTLBPage(tlbQueue) ELSE tlbQueue
      inUse == IF full THEN heapNodes \ {tlbQueue.last} ELSE heapNodes
  IN  \E n \in Nodes \ inUse :
        LET hash == [tlbHash EXCEPT ![TLBHasher(pn)] = n]
        IN  /\ tlbQueue' = PushFirst(queue, n, pn)
            /\ tlbHash' = IF full
                          THEN [hash EXCEPT
                                  ![TLBHasher(tlbQueue.pageNumber[tlbQueue.last])] = NULL]
                          ELSE hash
            /\ heapNodes' = inUse \cup {n}

\* Mutant of insertTLB: a bucket that is taken is left to its node.
insertTLBKeeping(pn) ==
  LET full == TLBFull(tlbQueue)
      queue == IF full THEN delTLBPage(tlbQueue) ELSE tlbQueue
      hash == IF full
              THEN [tlbHash EXCEPT
                      ![TLBHasher(tlbQueue.pageNumber[tlbQueue.last])] = NULL]
              ELSE tlbHash
      inUse == IF full THEN heapNodes \ {tlbQueue.last} ELSE heapNodes
  IN  \E n \in Nodes \ inUse :
        /\ tlbQueue' = PushFirst(queue, n, pn)
        /\ tlbHash' = [hash EXCEPT ![TLBHasher(pn)] = IF @ = NULL THEN n ELSE @]
        /\ heapNodes' = inUse \cup {n}

\* A page that is not in the queue is put first.  When the queue is full its
\* last page goes, and the bucket of that page is cleared, whoever it points to.
insertTLB(pn) ==
  LET full == TLBFull(tlbQueue)
      queue == IF full THEN delTLBPage(tlbQueue) ELSE tlbQueue
      hash == IF full
              THEN [tlbHash EXCEPT
                      ![TLBHasher(tlbQueue.pageNumber[tlbQueue.last])] = NULL]
              ELSE tlbHash
      inUse == IF full THEN heapNodes \ {tlbQueue.last} ELSE heapNodes
  IN  \E n \in Nodes \ inUse :
        /\ tlbQueue' = PushFirst(queue, n, pn)
        /\ tlbHash' = [hash EXCEPT ![TLBHasher(pn)] = n]
        /\ heapNodes' = inUse \cup {n}

\* Mutant of MoveToFront: the node that was first is not linked back.
MoveToFrontUnlinked(queue, page) ==
  LET before == queue.prev[page]
      after  == queue.next[page]
  IN  [queue EXCEPT
         !.first = page,
         !.last  = IF @ = page THEN before ELSE @,
         !.next  = [n \in Nodes |-> CASE n = page -> queue.first
                                      [] n = before -> after
                                      [] OTHER -> @[n]],
         !.prev  = [n \in Nodes |-> CASE n = page -> NULL
                                      [] n = after -> before
                                      [] OTHER -> @[n]]]

\* The node of a hit, unless it is the first already, is unlinked and put first.
MoveToFront(queue, page) ==
  LET before == queue.prev[page]
      after  == queue.next[page]
  IN  [queue EXCEPT
         !.first = page,
         !.last  = IF @ = page THEN before ELSE @,
         !.next  = [n \in Nodes |-> CASE n = page -> queue.first
                                      [] n = before -> after
                                      [] OTHER -> @[n]],
         !.prev  = [n \in Nodes |-> CASE n = page -> NULL
                                      [] n = queue.first -> page
                                      [] n = after -> before
                                      [] OTHER -> @[n]]]

Bucket(pn) == tlbHash[TLBHasher(pn)]

\* The outcomes of TLBSerach: it follows a pointer to nowhere, finds the page in
\* its bucket, or finds nothing or what it takes for another page there: a wild
\* pointer that leads to memory of the program leads to some other number.
Follows(pn) == Inside(pn) /\ Bucket(pn) = WILD
Hits(pn)    == /\ Inside(pn)
               /\ Bucket(pn) \in Nodes /\ tlbQueue.pageNumber[Bucket(pn)] = pn
Misses(pn)  == Inside(pn) /\ ~ Hits(pn)

TLBHit(pn) ==
  /\ Hits(pn)
  /\ tlbQueue' = IF Bucket(pn) # tlbQueue.first
                 THEN MoveToFront(tlbQueue, Bucket(pn)) ELSE tlbQueue
  /\ UNCHANGED <<tlbHash, heapNodes>>

TLBMiss(pn) ==
  /\ Misses(pn)
  /\ insertTLB(pn)

\* The queue and the hash table are freed and created anew, the nodes and the
\* array of buckets lost.
TLBFlush(wild) ==
  /\ tlbQueue' = createTLBQueue
  /\ tlbHash' = createTLBHash(wild)
  /\ heapNodes' = {}

TlbInit ==
  /\ tlbQueue = createTLBQueue
  /\ tlbHash = createTLBHash({})
  /\ heapNodes = {}

\* The buffer on its own: look-ups and flushes in any order, for as long as no
\* wild bucket leads out of the program's memory and no page has a bucket outside.
TlbNext ==
  \/ \E pn \in Pages : TLBHit(pn) \/ TLBMiss(pn)
  \/ \E wild \in SUBSET Buckets : TLBFlush(wild)

TlbSpec == TlbInit /\ [][TlbNext]_tlb

----------------------------------------------------------------------------
(* Properties *)

TlbTypeOK ==
  /\ tlbQueue \in [first : Nodes \cup {NULL}, last : Nodes \cup {NULL},
                   size : 0 .. tlb_MaxSize,
                   next : [Nodes -> Nodes \cup {NULL}],
                   prev : [Nodes -> Nodes \cup {NULL}],
                   pageNumber : [Nodes -> {pn \in Nat : Inside(pn)}]]
  /\ tlbHash \in [Buckets -> Nodes \cup {NULL, WILD}]
  /\ heapNodes \subseteq Nodes

\* The nodes met from the first one on, following next.
Chain ==
  LET walk[k \in 1 .. tlb_MaxSize] ==
        IF k = 1 THEN tlbQueue.first
        ELSE IF walk[k - 1] = NULL THEN NULL ELSE tlbQueue.next[walk[k - 1]]
  IN  walk

\* The pointer surgery of hits, insertions and evictions leaves a queue: next
\* leads from the first node through exactly `size` different live nodes to the
\* last one, and prev leads back.
QueueLinked ==
  LET size == tlbQueue.size
  IN  /\ {Chain[k] : k \in 1 .. size} = heapNodes
      /\ Cardinality(heapNodes) = size
      /\ size > 0 => /\ tlbQueue.last = Chain[size]
                     /\ tlbQueue.next[tlbQueue.last] = NULL
                     /\ tlbQueue.prev[tlbQueue.first] = NULL
      /\ size = 0 => tlbQueue.first = NULL /\ tlbQueue.last = NULL
      /\ \A k \in 2 .. size : tlbQueue.prev[Chain[k]] = Chain[k - 1]

\* A bucket never points to a freed node, and the node it points to belongs in
\* it, although several nodes of the queue may have the same bucket, or even
\* the same page, and evicting any of them clears the bucket.
NoDanglingBucket ==
  \A h \in Buckets : tlbHash[h] \in Nodes =>
    /\ tlbHash[h] \in heapNodes
    /\ TLBHasher(tlbQueue.pageNumber[tlbHash[h]]) = h

\* A bucket that points to a node points to the most recent of its nodes: what
\* the look-ups since then have moved or evicted has not made it stale.
BucketIsRecent ==
  \A k \in 1 .. tlbQueue.size :
    LET h == TLBHasher(tlbQueue.pageNumber[Chain[k]])
    IN  tlbHash[h] \in Nodes /\ tlbHash[h] # Chain[k] =>
          \E j \in 1 .. k - 1 : Chain[j] = tlbHash[h]

\* A page that has just been looked up is found when it is looked up again.
LookedUpHits ==
  [][\A pn \in Pages : TLBHit(pn) \/ TLBMiss(pn) => Hits(pn)']_tlb
============================================================================
