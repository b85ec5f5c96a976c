----------------------------- MODULE TlbProofs -----------------------------
(***************************************************************************)
(* Proofs about Tlb, for any capacity and any pages: the buckets of the    *)
(* hash table, whatever evictions, hits and flushes do to the queue, and   *)
(* then the links of the queue.                                            *)
(***************************************************************************)
EXTENDS Tlb, FiniteSetTheorems, WellFoundedInduction, TLAPS

\* What a node may hold: a page number whose bucket lies in the hash table.
Numbers == {pn \in Nat : Inside(pn)}

\* The fields of the queue, its size left open.
Queues == [first : Nodes \cup {NULL}, last : Nodes \cup {NULL}, size : Int,
           next : [Nodes -> Nodes \cup {NULL}],
           prev : [Nodes -> Nodes \cup {NULL}],
           pageNumber : [Nodes -> Numbers]]

BucketInv ==
  /\ tlbQueue \in Queues
  /\ tlbHash \in [Buckets -> Nodes \cup {NULL, WILD}]
  /\ heapNodes \subseteq Nodes
  /\ NoDanglingBucket

LEMMA NoPointerIsANode == NULL \notin Nodes /\ WILD \notin Nodes
  BY TlbSizeAssumption DEF NULL, WILD, Nodes

\* A bucket is looked for where there is one.
LEMMA HasherType ==
  ASSUME NEW pn \in Numbers
  PROVE  TLBHasher(pn) \in Buckets
BY DEF Numbers, Inside

\* That of page 0 does.
LEMMA ZeroInside == 0 \in Numbers
<1>1. tlb_MaxSize \in Nat /\ tlb_MaxSize > 0 /\ INT_MAX \in Nat
  BY TlbSizeAssumption, IntAssumption
<1>2. AsInt(0) = 0 /\ 0 % tlb_MaxSize \in 0 .. tlb_MaxSize - 1
  BY <1>1 DEF AsInt
<1> QED
  BY <1>2 DEF Numbers, Inside, TLBHasher, AsInt, Buckets

\* The page of a look-up that finds its bucket.
LEMMA PageInside ==
  ASSUME NEW pn \in Pages, Inside(pn)
  PROVE  pn \in Numbers
BY PagesAssumption DEF Numbers

\* What the eviction leaves: the same pages, in a queue.
LEMMA Evicted ==
  ASSUME NEW queue \in Queues
  PROVE  delTLBPage(queue) \in Queues /\ delTLBPage(queue).pageNumber = queue.pageNumber
<1>1. CASE TLBEmpty(queue)
  BY <1>1 DEF delTLBPage
<1>2. CASE ~ TLBEmpty(queue)
  <2> DEFINE before == queue.prev[queue.last]
             next   == [n \in Nodes |-> IF n = before THEN NULL ELSE queue.next[n]]
             first  == IF queue.first = queue.last THEN NULL ELSE queue.first
             size   == queue.size - 1
  <2>1. before \in Nodes \cup {NULL}
    BY <1>2 DEF TLBEmpty, Queues
  <2>2. next \in [Nodes -> Nodes \cup {NULL}] /\ first \in Nodes \cup {NULL} /\ size \in Int
    BY DEF Queues
  <2>3. delTLBPage(queue) = [queue EXCEPT !.first = first, !.last = before, !.next = next,
                                          !.size = size]
    BY <1>2 DEF delTLBPage
  <2> HIDE DEF before, next, first, size
  <2> QED
    BY <2>1, <2>2, <2>3 DEF Queues
<1> QED
  BY <1>1, <1>2

\* The queue with a page put first.
LEMMA Pushed ==
  ASSUME NEW queue \in Queues, NEW n \in Nodes, NEW pn \in Numbers
  PROVE  /\ PushFirst(queue, n, pn) \in Queues
         /\ PushFirst(queue, n, pn).pageNumber = [queue.pageNumber EXCEPT ![n] = pn]
         /\ PushFirst(queue, n, pn).size = queue.size + 1
<1> DEFINE old  == queue.first
           last == IF queue.last = NULL THEN n ELSE queue.last
           next == [queue.next EXCEPT ![n] = old]
           prev == [m \in Nodes |-> CASE m = n -> NULL
                                      [] m = old /\ ~ TLBEmpty(queue) -> n
                                      [] OTHER -> queue.prev[m]]
           page == [queue.pageNumber EXCEPT ![n] = pn]
           size == queue.size + 1
<1>1. /\ size \in Int /\ last \in Nodes \cup {NULL} /\ next \in [Nodes -> Nodes \cup {NULL}]
      /\ page \in [Nodes -> Numbers]
  BY DEF Queues
<1>2. prev \in [Nodes -> Nodes \cup {NULL}]
  <2>1. \A m \in Nodes : queue.prev[m] \in Nodes \cup {NULL}
    BY DEF Queues
  <2> QED
    BY <2>1
<1>3. PushFirst(queue, n, pn) = [queue EXCEPT !.first = n, !.last = last, !.next = next,
                                   !.prev = prev, !.pageNumber = page, !.size = size]
  BY DEF PushFirst, Queues
<1> HIDE DEF old, last, next, prev, page, size
<1>4. /\ PushFirst(queue, n, pn) \in Queues
      /\ PushFirst(queue, n, pn).pageNumber = page
      /\ PushFirst(queue, n, pn).size = size
  BY <1>1, <1>2, <1>3 DEF Queues
<1> QED
  BY <1>4 DEF page, size

\* The queue with a node of its own put first.
LEMMA Moved ==
  ASSUME NEW queue \in Queues, NEW page \in Nodes
  PROVE  /\ MoveToFront(queue, page) \in Queues
         /\ MoveToFront(queue, page).pageNumber = queue.pageNumber
<1> DEFINE before == queue.prev[page]
           after  == queue.next[page]
           last == IF queue.last = page THEN before ELSE queue.last
           next == [n \in Nodes |-> CASE n = page -> queue.first
                                      [] n = before -> after
                                      [] OTHER -> queue.next[n]]
           prev == [n \in Nodes |-> CASE n = page -> NULL
                                      [] n = queue.first -> page
                                      [] n = after -> before
                                      [] OTHER -> queue.prev[n]]
<1>1. /\ before \in Nodes \cup {NULL} /\ after \in Nodes \cup {NULL}
      /\ queue.first \in Nodes \cup {NULL}
      /\ \A n \in Nodes : queue.next[n] \in Nodes \cup {NULL} /\ queue.prev[n] \in Nodes \cup {NULL}
  BY DEF Queues
<1>2. MoveToFront(queue, page) = [queue EXCEPT !.first = page, !.last = last, !.next = next,
                                               !.prev = prev]
  BY DEF MoveToFront
<1> HIDE DEF before, after
<1>3. /\ last \in Nodes \cup {NULL}
      /\ next \in [Nodes -> Nodes \cup {NULL}] /\ prev \in [Nodes -> Nodes \cup {NULL}]
  BY <1>1 DEF Queues
<1> HIDE DEF last, next, prev
<1> QED
  BY <1>2, <1>3 DEF Queues

\* A miss: the bucket of the page that goes is the only one that can have pointed to its
\* node, and is cleared before that of the page that comes is set.
LEMMA MissKeeps ==
  ASSUME BucketInv, NEW pn \in Pages, TLBMiss(pn)
  PROVE  BucketInv' /\ Hits(pn)'
<1> DEFINE full == TLBFull(tlbQueue)
           gone == TLBHasher(tlbQueue.pageNumber[tlbQueue.last])
           queue == IF full THEN delTLBPage(tlbQueue) ELSE tlbQueue
           hash == IF full THEN [tlbHash EXCEPT ![gone] = NULL] ELSE tlbHash
           inUse == IF full THEN heapNodes \ {tlbQueue.last} ELSE heapNodes
<1>1. PICK n \in Nodes \ inUse :
        /\ tlbQueue' = PushFirst(queue, n, pn)
        /\ tlbHash' = [hash EXCEPT ![TLBHasher(pn)] = n]
        /\ heapNodes' = inUse \cup {n}
  BY DEF TLBMiss, insertTLB
<1>2. pn \in Numbers /\ TLBHasher(pn) \in Buckets
  BY PageInside, HasherType DEF TLBMiss, Misses
<1>3. queue \in Queues /\ queue.pageNumber = tlbQueue.pageNumber
  BY Evicted DEF BucketInv
<1>4. tlbQueue' \in Queues /\ tlbQueue'.pageNumber = [tlbQueue.pageNumber EXCEPT ![n] = pn]
  BY <1>1, <1>2, <1>3, Pushed
<1>5. hash \in [Buckets -> Nodes \cup {NULL, WILD}] /\ inUse \subseteq Nodes
  BY DEF BucketInv
<1>6. \A h \in Buckets : hash[h] \in Nodes =>
        hash[h] \in inUse /\ TLBHasher(tlbQueue.pageNumber[hash[h]]) = h
  BY NoPointerIsANode DEF BucketInv, NoDanglingBucket
<1> HIDE DEF hash, inUse, queue
<1>7. /\ tlbHash' \in [Buckets -> Nodes \cup {NULL, WILD}] /\ heapNodes' \subseteq Nodes
      /\ tlbHash'[TLBHasher(pn)] = n
      /\ \A h \in Buckets \ {TLBHasher(pn)} : tlbHash'[h] = hash[h]
  BY <1>1, <1>2, <1>5
<1>8. /\ tlbQueue'.pageNumber[n] = pn
      /\ \A m \in Nodes \ {n} : tlbQueue'.pageNumber[m] = tlbQueue.pageNumber[m]
  BY <1>1, <1>4 DEF BucketInv, Queues
<1>9. NoDanglingBucket'
  <2>1. SUFFICES ASSUME NEW h \in Buckets, tlbHash'[h] \in Nodes
                 PROVE  /\ tlbHash'[h] \in heapNodes'
                        /\ TLBHasher(tlbQueue'.pageNumber[tlbHash'[h]]) = h
    BY DEF NoDanglingBucket, TLBHasher, AsInt
  <2>2. CASE h = TLBHasher(pn)
    BY <2>2, <1>1, <1>7, <1>8
  <2>3. CASE h # TLBHasher(pn)
    BY <2>1, <2>3, <1>1, <1>6, <1>7, <1>8
  <2> QED
    BY <2>2, <2>3
<1>10. Hits(pn)'
  <2>1. Bucket(pn)' = n
    BY <1>7 DEF Bucket, TLBHasher, AsInt
  <2>2. Inside(pn)'
    BY <1>2 DEF Inside, TLBHasher, AsInt
  <2> QED
    BY <2>1, <2>2, <1>1, <1>8 DEF Hits
<1> QED
  BY <1>4, <1>7, <1>9, <1>10 DEF BucketInv

\* A hit moves nodes in the queue; their pages and the buckets stay.
LEMMA HitKeeps ==
  ASSUME BucketInv, NEW pn \in Pages, TLBHit(pn)
  PROVE  BucketInv' /\ Hits(pn)'
<1>1. Hits(pn) /\ tlbHash' = tlbHash /\ heapNodes' = heapNodes
  BY DEF TLBHit
<1>2. tlbQueue' \in Queues /\ tlbQueue'.pageNumber = tlbQueue.pageNumber
  <2>1. Bucket(pn) \in Nodes
    BY <1>1 DEF Hits
  <2> QED
    BY <2>1, Moved DEF TLBHit, BucketInv
<1>3. NoDanglingBucket' /\ Hits(pn)'
  BY <1>1, <1>2 DEF BucketInv, NoDanglingBucket, Hits, Bucket, TLBHasher, AsInt
<1> QED
  BY <1>1, <1>2, <1>3 DEF BucketInv

LEMMA FlushKeeps ==
  ASSUME NEW wild \in SUBSET Buckets,
         tlbQueue' = createTLBQueue, tlbHash' = createTLBHash(wild), heapNodes' = {}
  PROVE  BucketInv'
<1>1. createTLBQueue \in Queues
  BY ZeroInside DEF createTLBQueue, Queues
<1>2. \A h \in Buckets : tlbHash'[h] \in {NULL, WILD}
  BY DEF createTLBHash
<1>3. tlbHash' \in [Buckets -> Nodes \cup {NULL, WILD}]
  BY DEF createTLBHash
<1> QED
  BY <1>1, <1>2, <1>3, NoPointerIsANode DEF BucketInv, NoDanglingBucket

LEMMA InitialBuckets == TlbInit => BucketInv
<1> SUFFICES ASSUME TlbInit PROVE BucketInv
  OBVIOUS
<1>1. tlbQueue \in Queues
  BY ZeroInside DEF TlbInit, createTLBQueue, Queues
<1>2. tlbHash = [h \in Buckets |-> NULL] /\ heapNodes = {}
  BY DEF TlbInit, createTLBHash
<1> QED
  BY <1>1, <1>2, NoPointerIsANode DEF BucketInv, NoDanglingBucket

THEOREM BucketInvariance == TlbSpec => []BucketInv
<1>1. TlbInit => BucketInv
  BY InitialBuckets
<1>2. BucketInv /\ [TlbNext]_tlb => BucketInv'
  <2> SUFFICES ASSUME BucketInv, [TlbNext]_tlb PROVE BucketInv'
    OBVIOUS
  <2>1. CASE UNCHANGED tlb
    BY <2>1 DEF tlb, BucketInv, NoDanglingBucket
  <2>2. ASSUME NEW pn \in Pages, TLBHit(pn) \/ TLBMiss(pn) PROVE BucketInv'
    BY <2>2, HitKeeps, MissKeeps
  <2>3. ASSUME NEW wild \in SUBSET Buckets, TLBFlush(wild) PROVE BucketInv'
    BY <2>3, FlushKeeps DEF TLBFlush
  <2> QED
    BY <2>1, <2>2, <2>3 DEF TlbNext
<1> QED
  BY <1>1, <1>2, PTL DEF TlbSpec

\* delTLBPage leaves no bucket that leads to the node it frees, and insertTLB none with
\* a page that does not belong in it.
THEOREM BucketsDoNotDangle == TlbSpec => []NoDanglingBucket
<1>1. BucketInv => NoDanglingBucket
  BY DEF BucketInv
<1> QED
  BY <1>1, BucketInvariance, PTL

\* TLBSerach finds the page it has found or put in last.
THEOREM LookedUpIsFound == TlbSpec => LookedUpHits
<1>1. BucketInv /\ [TlbNext]_tlb
        => [\A pn \in Pages : TLBHit(pn) \/ TLBMiss(pn) => Hits(pn)']_tlb
  BY HitKeeps, MissKeeps
<1> QED
  BY <1>1, BucketInvariance, PTL DEF TlbSpec, LookedUpHits

----------------------------------------------------------------------------
(* The queue *)

\* q are the nodes of the queue from the first to the last, and all that live.
IsQueue(queue, q, live) ==
  LET size == queue.size
  IN  /\ size \in Nat
      /\ q \in [1 .. size -> live]
      /\ \A n \in live : \E k \in 1 .. size : q[k] = n
      /\ \A j, k \in 1 .. size : q[j] = q[k] => j = k
      /\ size = 0 => queue.first = NULL /\ queue.last = NULL
      /\ size > 0 => /\ queue.first = q[1] /\ queue.prev[q[1]] = NULL
                     /\ queue.last = q[size] /\ queue.next[q[size]] = NULL
      /\ \A k \in 1 .. size - 1 : queue.next[q[k]] = q[k + 1] /\ queue.prev[q[k + 1]] = q[k]

\* The bucket of a node in the queue leads to no node behind it.
Recent(q, size, page, hash) ==
  \A k \in 1 .. size :
    LET h == TLBHasher(page[q[k]])
    IN  hash[h] \in Nodes /\ hash[h] # q[k] => \E j \in 1 .. k - 1 : q[j] = hash[h]

QueueInv ==
  /\ BucketInv
  /\ tlbQueue.size <= tlb_MaxSize
  /\ \E q \in [1 .. tlbQueue.size -> Nodes] :
       /\ IsQueue(tlbQueue, q, heapNodes)
       /\ Recent(q, tlbQueue.size, tlbQueue.pageNumber, tlbHash)

\* delTLBPage takes the last node off.
LEMMA EvictedQueue ==
  ASSUME NEW queue \in Queues, NEW live \in SUBSET Nodes, NEW q,
         IsQueue(queue, q, live), queue.size > 0
  PROVE  LET r == [k \in 1 .. queue.size - 1 |-> q[k]]
         IN  /\ IsQueue(delTLBPage(queue), r, live \ {queue.last})
             /\ delTLBPage(queue).size = queue.size - 1
<1> DEFINE size == queue.size
           r == [k \in 1 .. size - 1 |-> q[k]]
           before == queue.prev[queue.last]
           gone == delTLBPage(queue)
<1>1. /\ size \in Nat /\ size > 0 /\ q \in [1 .. size -> live]
      /\ \A n \in live : \E k \in 1 .. size : q[k] = n
      /\ \A j, k \in 1 .. size : q[j] = q[k] => j = k
      /\ queue.first = q[1] /\ queue.prev[q[1]] = NULL
      /\ queue.last = q[size] /\ queue.next[q[size]] = NULL
      /\ \A k \in 1 .. size - 1 : queue.next[q[k]] = q[k + 1] /\ queue.prev[q[k + 1]] = q[k]
  BY DEF IsQueue
<1>2. \A k \in 1 .. size : q[k] \in Nodes /\ q[k] # NULL
  BY <1>1, NoPointerIsANode
<1>3. /\ gone.first = IF queue.first = queue.last THEN NULL ELSE queue.first
      /\ gone.last = before /\ gone.size = size - 1 /\ gone.prev = queue.prev
      /\ gone.next = [n \in Nodes |-> IF n = before THEN NULL ELSE queue.next[n]]
  <2>1. ~ TLBEmpty(queue)
    BY <1>1, <1>2 DEF TLBEmpty
  <2> QED
    BY <2>1 DEF delTLBPage, Queues
<1>4. r \in [1 .. size - 1 -> live \ {queue.last}]
  <2> SUFFICES ASSUME NEW k \in 1 .. size - 1 PROVE q[k] \in live \ {queue.last}
    OBVIOUS
  <2>1. k \in 1 .. size /\ size \in 1 .. size /\ k # size
    BY <1>1
  <2> QED
    BY <2>1, <1>1
<1>5. \A n \in live \ {queue.last} : \E k \in 1 .. size - 1 : r[k] = n
  <2> SUFFICES ASSUME NEW n \in live \ {queue.last} PROVE \E k \in 1 .. size - 1 : q[k] = n
    OBVIOUS
  <2>1. PICK k \in 1 .. size : q[k] = n
    BY <1>1
  <2>2. k # size
    BY <2>1, <1>1
  <2> QED
    BY <2>1, <2>2, <1>1
<1>6. \A k \in 1 .. size - 1 : r[k] = q[k] /\ k \in 1 .. size
  BY <1>1
<1> HIDE DEF gone, r
<1>7. CASE size = 1
  <2>1. before = NULL /\ queue.first = queue.last
    BY <1>1, <1>7
  <2>2. 1 .. size - 1 = {}
    BY <1>7
  <2> QED
    BY <2>1, <2>2, <1>3, <1>4, <1>5, <1>7 DEF IsQueue, gone, r
<1>8. CASE size # 1
  <2>1. size - 1 \in 1 .. size - 1 /\ (size - 1) + 1 = size /\ 1 \in 1 .. size - 1 /\ size - 1 \in 1 .. size
    BY <1>1, <1>8
  <2>2. before = q[size - 1]
    BY <2>1, <1>1
  <2>3. gone.first = q[1]
    <3>1. 1 \in 1 .. size /\ size \in 1 .. size
      BY <1>1
    <3> QED
      BY <3>1, <1>1, <1>3, <1>8
  <2>4. gone.next[q[size - 1]] = NULL
    BY <2>1, <2>2, <1>2, <1>3
  <2>5. \A k \in 1 .. (size - 1) - 1 : gone.next[q[k]] = q[k + 1] /\ gone.prev[q[k + 1]] = q[k]
    <3> SUFFICES ASSUME NEW k \in 1 .. (size - 1) - 1
                 PROVE  gone.next[q[k]] = q[k + 1] /\ gone.prev[q[k + 1]] = q[k]
      OBVIOUS
    <3>1. k \in 1 .. size - 1 /\ k \in 1 .. size /\ k # size - 1
      BY <1>1
    <3>2. q[k] # before
      BY <3>1, <2>1, <2>2, <1>1
    <3> QED
      BY <3>1, <3>2, <1>1, <1>2, <1>3
  <2>6. \A k \in 1 .. (size - 1) - 1 : r[k] = q[k] /\ r[k + 1] = q[k + 1]
    BY <1>1, <1>6
  <2>7. r[1] = q[1] /\ r[size - 1] = q[size - 1]
    BY <2>1, <1>6
  <2>8. \A j, k \in 1 .. size - 1 : r[j] = r[k] => j = k
    BY <1>1, <1>6
  <2>9. size - 1 \in Nat /\ size - 1 > 0
    BY <1>1, <1>8
  <2>10. gone.size = size - 1 /\ gone.last = q[size - 1] /\ gone.prev[q[1]] = NULL
    BY <2>2, <1>1, <1>3
  <2>11. IsQueue(gone, r, live \ {queue.last})
    BY <2>3, <2>4, <2>5, <2>6, <2>7, <2>8, <2>9, <2>10, <1>4, <1>5 DEF IsQueue
  <2> QED
    BY <2>10, <2>11 DEF gone, r
<1> QED
  BY <1>7, <1>8

\* The order of the nodes when another is put first.
Headed(n, q, size) == [k \in 1 .. size + 1 |-> IF k = 1 THEN n ELSE q[k - 1]]

\* PushFirst puts a node in front.
LEMMA PushedQueue ==
  ASSUME NEW queue \in Queues, NEW live, NEW q, NEW n \in Nodes, NEW pn,
         IsQueue(queue, q, live), live \subseteq Nodes, n \notin live
  PROVE  IsQueue(PushFirst(queue, n, pn), Headed(n, q, queue.size), live \cup {n})
<1> DEFINE size == queue.size
           r == Headed(n, q, size)
           new == PushFirst(queue, n, pn)
           old == queue.first
<1>1. /\ size \in Nat /\ q \in [1 .. size -> live]
      /\ \A m \in live : \E k \in 1 .. size : q[k] = m
      /\ \A j, k \in 1 .. size : q[j] = q[k] => j = k
      /\ size = 0 => queue.first = NULL /\ queue.last = NULL
      /\ size > 0 => /\ queue.first = q[1] /\ queue.prev[q[1]] = NULL
                     /\ queue.last = q[size] /\ queue.next[q[size]] = NULL
      /\ \A k \in 1 .. size - 1 : queue.next[q[k]] = q[k + 1] /\ queue.prev[q[k + 1]] = q[k]
  BY DEF IsQueue
<1>2. \A k \in 1 .. size : q[k] \in Nodes /\ q[k] # NULL /\ q[k] # n
  BY <1>1, NoPointerIsANode
<1>3. /\ new.first = n /\ new.size = size + 1
      /\ new.last = IF queue.last = NULL THEN n ELSE queue.last
      /\ new.next = [queue.next EXCEPT ![n] = old]
      /\ \A m \in Nodes : new.prev[m] = IF m = n THEN NULL
                                        ELSE IF m = old /\ ~ TLBEmpty(queue) THEN n
                                        ELSE queue.prev[m]
  <2> DEFINE last == IF queue.last = NULL THEN n ELSE queue.last
             next == [queue.next EXCEPT ![n] = old]
             prev == [m \in Nodes |-> CASE m = n -> NULL
                                        [] m = old /\ ~ TLBEmpty(queue) -> n
                                        [] OTHER -> queue.prev[m]]
             page == [queue.pageNumber EXCEPT ![n] = pn]
  <2>1. new = [queue EXCEPT !.first = n, !.last = last, !.next = next,
                            !.prev = prev, !.pageNumber = page, !.size = size + 1]
    BY DEF PushFirst, Queues
  <2>0. old # n
    <3>1. size > 0 => 1 \in 1 .. size
      BY <1>1
    <3> QED
      BY <3>1, <1>1, <1>2, NoPointerIsANode
  <2>2. \A m \in Nodes : prev[m] = IF m = n THEN NULL
                                   ELSE IF m = old /\ ~ TLBEmpty(queue) THEN n
                                   ELSE queue.prev[m]
    <3> SUFFICES ASSUME NEW m \in Nodes
                 PROVE  prev[m] = IF m = n THEN NULL ELSE IF m = old /\ ~ TLBEmpty(queue) THEN n
                                  ELSE queue.prev[m]
      OBVIOUS
    <3>1. CASE m = n
      BY <3>1, <2>0
    <3>2. CASE m # n /\ m = old /\ ~ TLBEmpty(queue)
      BY <3>2
    <3>3. CASE m # n /\ ~ (m = old /\ ~ TLBEmpty(queue))
      BY <3>3
    <3> QED
      BY <3>1, <3>2, <3>3
  <2> HIDE DEF new, prev
  <2>3. /\ new.first = n /\ new.size = size + 1 /\ new.last = last
        /\ new.next = next /\ new.prev = prev
    BY <2>1 DEF Queues
  <2> QED
    BY <2>2, <2>3
<1>4. /\ new.next[n] = old
      /\ \A m \in Nodes \ {n} : new.next[m] = queue.next[m]
  BY <1>3 DEF Queues
<1>5. /\ r[1] = n
      /\ \A k \in 2 .. size + 1 : r[k] = q[k - 1] /\ k - 1 \in 1 .. size
      /\ \A k \in 1 .. size : r[k + 1] = q[k]
  BY <1>1 DEF Headed
<1>6. r \in [1 .. size + 1 -> live \cup {n}]
  <2> SUFFICES ASSUME NEW k \in 1 .. size + 1
               PROVE  (IF k = 1 THEN n ELSE q[k - 1]) \in live \cup {n}
    BY DEF Headed
  <2>1. k # 1 => k - 1 \in 1 .. size
    BY <1>1
  <2> QED
    BY <2>1, <1>1
<1> HIDE DEF new, r
<1>7. \A m \in live \cup {n} : \E k \in 1 .. size + 1 : r[k] = m
  <2> SUFFICES ASSUME NEW m \in live \cup {n} PROVE \E k \in 1 .. size + 1 : r[k] = m
    OBVIOUS
  <2>1. CASE m = n
    <3>1. 1 \in 1 .. size + 1
      BY <1>1
    <3> QED
      BY <3>1, <2>1, <1>5
  <2>2. CASE m \in live
    <3>1. PICK k \in 1 .. size : q[k] = m
      BY <2>2, <1>1
    <3>2. k + 1 \in 1 .. size + 1
      BY <1>1
    <3> QED
      BY <3>1, <3>2, <1>5
  <2> QED
    BY <2>1, <2>2
<1>8. ASSUME NEW j \in 1 .. size + 1, NEW k \in 1 .. size + 1, r[j] = r[k]
      PROVE  j = k
  <2>1. CASE j = 1 /\ k = 1
    BY <2>1
  <2>2. CASE j = 1 /\ k # 1
    <3>1. k \in 2 .. size + 1
      BY <2>2, <1>1
    <3> QED
      BY <3>1, <2>2, <1>2, <1>5, <1>8
  <2>3. CASE j # 1 /\ k = 1
    <3>1. j \in 2 .. size + 1
      BY <2>3, <1>1
    <3> QED
      BY <3>1, <2>3, <1>2, <1>5, <1>8
  <2>4. CASE j # 1 /\ k # 1
    <3>1. j \in 2 .. size + 1 /\ k \in 2 .. size + 1
      BY <2>4, <1>1
    <3>2. q[j - 1] = q[k - 1] /\ j - 1 \in 1 .. size /\ k - 1 \in 1 .. size
      BY <3>1, <1>5, <1>8
    <3>3. j - 1 = k - 1
      BY <3>2, <1>1
    <3> QED
      BY <3>1, <3>3, <1>1
  <2> QED
    BY <2>1, <2>2, <2>3, <2>4
<1>9. new.prev[n] = NULL /\ n # NULL
  BY <1>3, NoPointerIsANode
<1>10. CASE size = 0
  <2>1. old = NULL /\ new.last = n
    BY <1>1, <1>3, <1>10
  <2>2. new.next[r[1]] = NULL
    BY <2>1, <1>4, <1>5
  <2>3. \A k \in 1 .. (size + 1) - 1 : FALSE
    BY <1>10
  <2>4. size + 1 = 1
    BY <1>10
  <2> QED
    BY <2>1, <2>2, <2>3, <2>4, <1>3, <1>5, <1>6, <1>7, <1>8, <1>9, <1>10 DEF IsQueue, new, r
<1>11. CASE size # 0
  <2>1. size > 0 /\ 1 \in 1 .. size /\ size \in 1 .. size /\ old = q[1] /\ ~ TLBEmpty(queue)
    BY <1>1, <1>2, <1>11 DEF TLBEmpty
  <2>2. new.last = q[size] /\ new.next[q[size]] = NULL
    BY <2>1, <1>1, <1>2, <1>3, <1>4
  <2>3. ASSUME NEW k \in 1 .. size
        PROVE  new.next[r[k]] = r[k + 1] /\ new.prev[r[k + 1]] = r[k]
    <3>1. r[k + 1] = q[k]
      BY <1>5
    <3>2. CASE k = 1
      <4>1. r[k] = n
        BY <3>2, <1>5
      <4>2. new.next[n] = q[1]
        BY <2>1, <1>4
      <4>3. new.prev[q[1]] = n
        BY <2>1, <1>2, <1>3
      <4> QED
        BY <4>1, <4>2, <4>3, <3>1, <3>2
    <3>3. CASE k # 1
      <4>1. k - 1 \in 1 .. size - 1 /\ k - 1 \in 1 .. size /\ (k - 1) + 1 = k /\ r[k] = q[k - 1]
        BY <3>3, <1>1, <1>5
      <4>2. queue.next[q[k - 1]] = q[k] /\ queue.prev[q[k]] = q[k - 1]
        BY <4>1, <1>1
      <4>3. q[k] # old
        BY <3>3, <2>1, <1>1
      <4>4. new.next[q[k - 1]] = q[k]
        BY <4>1, <4>2, <1>2, <1>4
      <4>5. new.prev[q[k]] = q[k - 1]
        BY <4>2, <4>3, <1>2, <1>3
      <4> QED
        BY <4>1, <4>4, <4>5, <3>1
    <3> QED
      BY <3>2, <3>3
  <2>4. r[size + 1] = q[size]
    BY <2>1, <1>5
  <2>5. (size + 1) - 1 = size /\ size + 1 \in Nat /\ size + 1 > 0 /\ size + 1 # 0
    BY <1>1
  <2>6. IsQueue(new, r, live \cup {n})
    BY <2>2, <2>3, <2>4, <2>5, <1>3, <1>5, <1>6, <1>7, <1>8, <1>9 DEF IsQueue
  <2> QED
    BY <2>6, <1>3 DEF new, r
<1> QED
  BY <1>10, <1>11

\* The order of the nodes when the p-th is put first.
Rotated(q, size, p) ==
  [k \in 1 .. size |-> IF k = 1 THEN q[p] ELSE IF k <= p THEN q[k - 1] ELSE q[k]]

LEMMA RotatedOrder ==
  ASSUME NEW q, NEW size \in Nat, NEW p \in 2 .. size
  PROVE  /\ Rotated(q, size, p)[1] = q[p]
         /\ \A k \in 2 .. p : Rotated(q, size, p)[k] = q[k - 1]
         /\ \A k \in p + 1 .. size : Rotated(q, size, p)[k] = q[k]
<1> DEFINE r == Rotated(q, size, p)
<1>1. 1 \in 1 .. size /\ p \in 1 .. size
  OBVIOUS
<1>4. r[1] = q[p]
  BY <1>1 DEF Rotated
<1>5. ASSUME NEW k \in 2 .. p PROVE r[k] = q[k - 1]
  <2>1. k \in 1 .. size /\ k # 1 /\ k <= p
    OBVIOUS
  <2> QED
    BY <2>1 DEF Rotated
<1>6. ASSUME NEW k \in p + 1 .. size PROVE r[k] = q[k]
  <2>1. k \in 1 .. size /\ k # 1 /\ ~ (k <= p)
    OBVIOUS
  <2> QED
    BY <2>1 DEF Rotated
<1> QED
  BY <1>4, <1>5, <1>6

\* Where each node has gone.
LEMMA RotatedPlaces ==
  ASSUME NEW q, NEW size \in Nat, NEW p \in 2 .. size,
         NEW k \in 1 .. size
  PROVE  LET j == IF k = p THEN 1 ELSE IF k < p THEN k + 1 ELSE k
         IN  j \in 1 .. size /\ Rotated(q, size, p)[j] = q[k]
<1>0. Rotated(q, size, p)[1] = q[p] /\ 1 \in 1 .. size
  BY RotatedOrder
<1>1. CASE k = p
  BY <1>0, <1>1
<1>2. CASE k < p
  <2>1. k + 1 \in 2 .. p /\ k + 1 \in 1 .. size /\ (k + 1) - 1 = k /\ k # p
    BY <1>2
  <2>2. Rotated(q, size, p)[k + 1] = q[(k + 1) - 1]
    BY <2>1, RotatedOrder
  <2> QED
    BY <2>1, <2>2, <1>2
<1>3. CASE k > p
  <2>1. k \in p + 1 .. size /\ ~ (k < p) /\ k # p
    BY <1>3
  <2> QED
    BY <2>1, RotatedOrder
<1> QED
  BY <1>1, <1>2, <1>3

\* And where it has come from.
LEMMA RotatedFrom ==
  ASSUME NEW q, NEW size \in Nat, NEW p \in 2 .. size,
         NEW j \in 1 .. size
  PROVE  LET k == IF j = 1 THEN p ELSE IF j <= p THEN j - 1 ELSE j
         IN  k \in 1 .. size /\ Rotated(q, size, p)[j] = q[k]
<1>1. CASE j = 1
  BY <1>1, RotatedOrder
<1>2. CASE j # 1 /\ j <= p
  <2>1. j \in 2 .. p /\ j - 1 \in 1 .. size
    BY <1>2
  <2> QED
    BY <2>1, <1>2, RotatedOrder
<1>3. CASE j > p
  <2>1. j \in p + 1 .. size /\ ~ (j <= p) /\ j # 1
    BY <1>3
  <2> QED
    BY <2>1, RotatedOrder
<1> QED
  BY <1>1, <1>2, <1>3

\* MoveToFront takes a node out of the middle or the end and puts it first.
LEMMA MovedQueue ==
  ASSUME NEW queue \in Queues, NEW live \in SUBSET Nodes, NEW q,
         IsQueue(queue, q, live), NEW p \in 2 .. queue.size
  PROVE  /\ IsQueue(MoveToFront(queue, q[p]), Rotated(q, queue.size, p), live)
         /\ MoveToFront(queue, q[p]).size = queue.size
<1> DEFINE size == queue.size
           r == Rotated(q, size, p)
           page == q[p]
           before == queue.prev[page]
           after == queue.next[page]
           new == MoveToFront(queue, page)
<1>1. /\ size \in Nat /\ q \in [1 .. size -> live]
      /\ \A m \in live : \E k \in 1 .. size : q[k] = m
      /\ \A j, k \in 1 .. size : q[j] = q[k] => j = k
      /\ size > 0 => /\ queue.first = q[1] /\ queue.prev[q[1]] = NULL
                     /\ queue.last = q[size] /\ queue.next[q[size]] = NULL
      /\ \A k \in 1 .. size - 1 : queue.next[q[k]] = q[k + 1] /\ queue.prev[q[k + 1]] = q[k]
  BY DEF IsQueue
<1>2. \A k \in 1 .. size : q[k] \in Nodes /\ q[k] # NULL
  BY <1>1, NoPointerIsANode
<1>3. /\ size > 0 /\ 1 \in 1 .. size /\ size \in 1 .. size /\ p \in 1 .. size /\ p - 1 \in 1 .. size
      /\ p - 1 \in 1 .. size - 1 /\ (p - 1) + 1 = p
  BY <1>1
<1>4. before = q[p - 1]
  BY <1>1, <1>3
<1>5. after = IF p = size THEN NULL ELSE q[p + 1]
  <2>1. CASE p = size
    BY <2>1, <1>1, <1>3
  <2>2. CASE p # size
    <3>1. p \in 1 .. size - 1
      BY <2>2, <1>1
    <3> QED
      BY <3>1, <2>2, <1>1
  <2> QED
    BY <2>1, <2>2
<1>6. /\ new.first = page /\ new.size = size
      /\ new.last = IF queue.last = page THEN before ELSE queue.last
      /\ \A m \in Nodes : new.next[m] = IF m = page THEN queue.first
                                        ELSE IF m = before THEN after ELSE queue.next[m]
      /\ \A m \in Nodes : new.prev[m] = IF m = page THEN NULL
                                        ELSE IF m = queue.first THEN page
                                        ELSE IF m = after THEN before ELSE queue.prev[m]
  <2> DEFINE last == IF queue.last = page THEN before ELSE queue.last
             next == [n \in Nodes |-> CASE n = page -> queue.first
                                        [] n = before -> after
                                        [] OTHER -> queue.next[n]]
             prev == [n \in Nodes |-> CASE n = page -> NULL
                                        [] n = queue.first -> page
                                        [] n = after -> before
                                        [] OTHER -> queue.prev[n]]
  <2>1. new = [queue EXCEPT !.first = page, !.last = last, !.next = next, !.prev = prev]
    BY DEF MoveToFront
  <2>2. page # before /\ page # queue.first /\ page # after
    <3>1. p # p - 1 /\ p # 1 /\ (p # size => p + 1 \in 1 .. size /\ p # p + 1)
      BY <1>1
    <3> QED
      BY <3>1, <1>1, <1>2, <1>3, <1>4, <1>5
  <2>3. queue.first # after
    <3>1. 1 # p + 1 /\ (p # size => p + 1 \in 1 .. size)
      BY <1>1
    <3> QED
      BY <3>1, <1>1, <1>2, <1>3, <1>5
  <2> HIDE DEF new, page, before, after
  <2>4. ASSUME NEW m \in Nodes
        PROVE  /\ next[m] = IF m = page THEN queue.first
                            ELSE IF m = before THEN after ELSE queue.next[m]
               /\ prev[m] = IF m = page THEN NULL ELSE IF m = queue.first THEN page
                            ELSE IF m = after THEN before ELSE queue.prev[m]
    <3>1. next[m] = IF m = page THEN queue.first
                    ELSE IF m = before THEN after ELSE queue.next[m]
      <4>1. CASE m = page
        BY <4>1, <2>2
      <4>2. CASE m # page /\ m = before
        BY <4>2
      <4>3. CASE m # page /\ m # before
        BY <4>3
      <4> QED
        BY <4>1, <4>2, <4>3
    <3>2. prev[m] = IF m = page THEN NULL ELSE IF m = queue.first THEN page
                    ELSE IF m = after THEN before ELSE queue.prev[m]
      <4>1. CASE m = page
        BY <4>1, <2>2
      <4>2. CASE m # page /\ m = queue.first
        BY <4>2, <2>3
      <4>3. CASE m # page /\ m # queue.first /\ m = after
        BY <4>3
      <4>4. CASE m # page /\ m # queue.first /\ m # after
        BY <4>4
      <4> QED
        BY <4>1, <4>2, <4>3, <4>4
    <3> QED
      BY <3>1, <3>2
  <2> HIDE DEF next, prev, last
  <2>5. /\ new.first = page /\ new.size = size /\ new.last = last
        /\ new.next = next /\ new.prev = prev
    BY <2>1 DEF Queues
  <2> QED
    BY <2>4, <2>5 DEF last
<1>18. size \in Nat /\ p \in 2 .. size
  BY <1>1
<1>7. /\ r[1] = page
      /\ \A k \in 2 .. p : r[k] = q[k - 1]
      /\ \A k \in p + 1 .. size : r[k] = q[k]
  <2> HIDE DEF size
  <2> QED
    BY <1>18, RotatedOrder
<1>19. \A j \in 1 .. size :
         LET k == IF j = 1 THEN p ELSE IF j <= p THEN j - 1 ELSE j
         IN  k \in 1 .. size /\ r[j] = q[k]
  <2> HIDE DEF size
  <2> QED
    BY <1>18, RotatedFrom
<1>20. \A k \in 1 .. size :
         LET j == IF k = p THEN 1 ELSE IF k < p THEN k + 1 ELSE k
         IN  j \in 1 .. size /\ r[j] = q[k]
  <2> HIDE DEF size
  <2> QED
    BY <1>18, RotatedPlaces
<1>17. r \in [1 .. size -> live]
  <2>1. ASSUME NEW k \in 1 .. size PROVE r[k] \in live
    BY <1>1, <1>19
  <2> QED
    BY <2>1 DEF Rotated
<1>8. \A m \in live : \E k \in 1 .. size : r[k] = m
  <2> SUFFICES ASSUME NEW m \in live PROVE \E k \in 1 .. size : r[k] = m
    OBVIOUS
  <2>1. PICK k \in 1 .. size : q[k] = m
    BY <1>1
  <2> QED
    BY <2>1, <1>20
<1>9. ASSUME NEW j \in 1 .. size, NEW k \in 1 .. size, r[j] = r[k]
      PROVE  j = k
  <2> DEFINE from(i) == IF i = 1 THEN p ELSE IF i <= p THEN i - 1 ELSE i
  <2>1. from(j) \in 1 .. size /\ r[j] = q[from(j)] /\ from(k) \in 1 .. size /\ r[k] = q[from(k)]
    BY <1>19
  <2>2. from(j) = from(k)
    <3> HIDE DEF from, r, size
    <3>1. q[from(j)] = q[from(k)]
      BY <2>1, <1>9
    <3> QED
      BY <2>1, <3>1, <1>1
  <2> QED
    BY <2>2, <1>1
<1> HIDE DEF new, r
<1>10. new.next[page] = q[1] /\ new.prev[page] = NULL /\ new.prev[q[1]] = page
  <2>1. q[1] # page
    BY <1>1, <1>3
  <2> QED
    BY <2>1, <1>1, <1>2, <1>3, <1>6
<1>11. ASSUME NEW k \in 1 .. size, k # p, k # p - 1
       PROVE  new.next[q[k]] = queue.next[q[k]]
  BY <1>11, <1>1, <1>2, <1>3, <1>4, <1>6
<1>12. ASSUME NEW k \in 1 .. size, k # p, k # 1, k # p + 1
       PROVE  new.prev[q[k]] = queue.prev[q[k]]
  <2>1. q[k] # page /\ q[k] # queue.first
    BY <1>12, <1>1, <1>3
  <2>2. q[k] # after
    <3>1. p # size => p + 1 \in 1 .. size
      BY <1>1
    <3> QED
      BY <3>1, <1>12, <1>1, <1>2, <1>5
  <2> QED
    BY <2>1, <2>2, <1>2, <1>6
<1>13. new.next[q[p - 1]] = after
  <2>1. q[p - 1] # page
    BY <1>1, <1>3
  <2> QED
    BY <2>1, <1>2, <1>3, <1>4, <1>6
<1>14. new.last = r[size] /\ new.next[r[size]] = NULL
  <2>1. CASE p = size
    <3>1. r[size] = q[p - 1]
      BY <2>1, <1>7
    <3> QED
      BY <3>1, <2>1, <1>1, <1>3, <1>4, <1>5, <1>6, <1>13
  <2>2. CASE p # size
    <3>1. size \in p + 1 .. size /\ size # p - 1
      BY <2>2, <1>1
    <3>2. r[size] = q[size] /\ queue.last # page
      BY <3>1, <2>2, <1>1, <1>3, <1>7
    <3> QED
      BY <3>1, <3>2, <2>2, <1>1, <1>3, <1>6, <1>11
  <2> QED
    BY <2>1, <2>2
<1>15. ASSUME NEW k \in 1 .. size - 1
       PROVE  new.next[r[k]] = r[k + 1] /\ new.prev[r[k + 1]] = r[k]
  <2>0. k \in 1 .. size /\ k + 1 \in 1 .. size
    BY <1>1
  <2>1. CASE k = 1
    <3>1. r[k] = page /\ r[k + 1] = q[1]
      BY <2>1, <1>7
    <3> QED
      BY <3>1, <1>10
  <2>2. CASE k # 1 /\ k < p
    <3>1. /\ k \in 2 .. p /\ k + 1 \in 2 .. p /\ (k + 1) - 1 = k /\ k - 1 \in 1 .. size - 1
          /\ k - 1 \in 1 .. size /\ (k - 1) + 1 = k /\ k - 1 # p /\ k - 1 # p - 1 /\ k # p + 1
      BY <2>2, <1>1
    <3>2. r[k] = q[k - 1] /\ r[k + 1] = q[k]
      BY <3>1, <1>7
    <3>3. queue.next[q[k - 1]] = q[k] /\ queue.prev[q[k]] = q[k - 1]
      BY <3>1, <1>1
    <3> QED
      BY <3>1, <3>2, <3>3, <2>0, <2>2, <1>11, <1>12
  <2>3. CASE k = p
    <3>1. p # size /\ p \in 2 .. p /\ p + 1 \in p + 1 .. size
      BY <2>3, <1>1
    <3>2. r[k] = q[p - 1] /\ r[k + 1] = q[p + 1] /\ after = q[p + 1]
      BY <3>1, <2>3, <1>5, <1>7
    <3>3. q[p + 1] # page /\ q[p + 1] # queue.first
      <4>1. p + 1 # p /\ p + 1 # 1
        BY <1>1
      <4> QED
        BY <4>1, <2>0, <2>3, <1>1, <1>3
    <3>4. new.prev[q[p + 1]] = before
      BY <3>2, <3>3, <2>0, <2>3, <1>2, <1>6
    <3> QED
      BY <3>2, <3>4, <1>4, <1>13
  <2>4. CASE k > p
    <3>1. /\ k \in p + 1 .. size /\ k + 1 \in p + 1 .. size /\ k # p /\ k # p - 1
          /\ k + 1 # p /\ k + 1 # 1 /\ k + 1 # p + 1
      BY <2>4, <1>1
    <3>2. r[k] = q[k] /\ r[k + 1] = q[k + 1]
      BY <3>1, <1>7
    <3>3. queue.next[q[k]] = q[k + 1] /\ queue.prev[q[k + 1]] = q[k]
      BY <1>1
    <3> QED
      BY <3>1, <3>2, <3>3, <2>0, <1>11, <1>12
  <2> QED
    BY <2>1, <2>2, <2>3, <2>4, <1>1
<1>16. IsQueue(new, r, live)
  BY <1>1, <1>3, <1>6, <1>7, <1>8, <1>9, <1>10, <1>14, <1>15, <1>17 DEF IsQueue
<1> QED
  BY <1>6, <1>16 DEF new, r

----------------------------------------------------------------------------
(* The buckets and the order of the queue *)

\* A page that is found moves to the front: its bucket leads to it, and the others move
\* back by one place at most.
LEMMA RotatedRecent ==
  ASSUME NEW q, NEW size \in Nat, NEW p \in 2 .. size, NEW page, NEW hash,
         Recent(q, size, page, hash), hash[TLBHasher(page[q[p]])] = q[p]
  PROVE  Recent(Rotated(q, size, p), size, page, hash)
<1> DEFINE r == Rotated(q, size, p)
           bucket(n) == hash[TLBHasher(page[n])]
           from(k) == IF k = 1 THEN p ELSE IF k <= p THEN k - 1 ELSE k
           to(k) == IF k = p THEN 1 ELSE IF k < p THEN k + 1 ELSE k
<1>1. SUFFICES ASSUME NEW k \in 1 .. size, bucket(r[k]) \in Nodes, bucket(r[k]) # r[k]
               PROVE  \E j \in 1 .. k - 1 : r[j] = bucket(r[k])
  BY DEF Recent
<1>2. from(k) \in 1 .. size /\ r[k] = q[from(k)]
  BY RotatedFrom
<1>3. bucket(q[p]) = q[p]
  OBVIOUS
<1>4. r[1] = q[p]
  BY RotatedOrder
<1>5. k # 1
  <2> HIDE DEF r, bucket
  <2> QED
    BY <1>1, <1>3, <1>4
<1>6. PICK i \in 1 .. from(k) - 1 : q[i] = bucket(q[from(k)])
  <2> HIDE DEF r, from
  <2> QED
    BY <1>1, <1>2 DEF Recent
<1>7. i \in 1 .. size /\ i < from(k)
  BY <1>2, <1>6
<1>8. to(i) \in 1 .. size /\ r[to(i)] = q[i]
  <2>1. ASSUME NEW m \in 1 .. size PROVE to(m) \in 1 .. size /\ r[to(m)] = q[m]
    BY RotatedPlaces
  <2> HIDE DEF to, r
  <2> QED
    BY <2>1, <1>7
<1>9. i # p => to(i) < k
  BY <1>5, <1>7
<1>10. i = p => to(i) = 1
  OBVIOUS
<1>11. to(i) \in 1 .. k - 1
  <2> HIDE DEF to
  <2> QED
    BY <1>5, <1>8, <1>9, <1>10
<1>12. r[to(i)] = bucket(r[k])
  <2> HIDE DEF to, r, from, bucket
  <2> QED
    BY <1>2, <1>6, <1>8
<1> HIDE DEF to
<1> QED
  BY <1>11, <1>12

\* The bucket of the page that goes is cleared.
LEMMA EvictedRecent ==
  ASSUME NEW q, NEW size \in Nat, NEW page, NEW hash \in [Buckets -> Nodes \cup {NULL, WILD}],
         NEW gone \in Buckets, Recent(q, size, page, hash)
  PROVE  Recent([k \in 1 .. size - 1 |-> q[k]], size - 1, page, [hash EXCEPT ![gone] = NULL])
<1> DEFINE r == [k \in 1 .. size - 1 |-> q[k]]
           new == [hash EXCEPT ![gone] = NULL]
<1>1. SUFFICES ASSUME NEW k \in 1 .. size - 1,
                      new[TLBHasher(page[r[k]])] \in Nodes, new[TLBHasher(page[r[k]])] # r[k]
               PROVE  \E j \in 1 .. k - 1 : r[j] = new[TLBHasher(page[r[k]])]
  BY DEF Recent
<1>2. r[k] = q[k] /\ k \in 1 .. size
  OBVIOUS
<1> DEFINE h == TLBHasher(page[q[k]])
<1>3. new[h] \in Nodes /\ new[h] # q[k] /\ new[TLBHasher(page[r[k]])] = new[h]
  BY <1>1, <1>2
<1> HIDE DEF h
<1>4. hash[h] = new[h]
  <2>1. new[gone] = NULL
    OBVIOUS
  <2>2. h # gone
    BY <2>1, <1>3, NoPointerIsANode
  <2> QED
    BY <2>2
<1>5. PICK j \in 1 .. k - 1 : q[j] = hash[h]
  BY <1>2, <1>3, <1>4 DEF Recent, h
<1>6. j \in 1 .. size - 1
  OBVIOUS
<1> QED
  BY <1>3, <1>4, <1>5, <1>6

\* The page that comes is in front, and its bucket leads to it.
LEMMA PushedRecent ==
  ASSUME NEW q, NEW size \in Nat, NEW live, q \in [1 .. size -> live],
         NEW page \in [Nodes -> Numbers], NEW hash \in [Buckets -> Nodes \cup {NULL, WILD}],
         NEW n \in Nodes, n \notin live, NEW pn \in Numbers, Recent(q, size, page, hash),
         live \subseteq Nodes
  PROVE  Recent(Headed(n, q, size), size + 1,
                [page EXCEPT ![n] = pn], [hash EXCEPT ![TLBHasher(pn)] = n])
<1> DEFINE r == Headed(n, q, size)
           newPage == [page EXCEPT ![n] = pn]
           newHash == [hash EXCEPT ![TLBHasher(pn)] = n]
           bucket(m) == newHash[TLBHasher(newPage[m])]
<1>1. SUFFICES ASSUME NEW k \in 1 .. size + 1, bucket(r[k]) \in Nodes, bucket(r[k]) # r[k]
               PROVE  \E j \in 1 .. k - 1 : r[j] = bucket(r[k])
  BY DEF Recent
<1>2. TLBHasher(pn) \in Buckets
  BY HasherType
<1>3. /\ newHash[TLBHasher(pn)] = n
      /\ \A h \in Buckets \ {TLBHasher(pn)} : newHash[h] = hash[h]
  BY <1>2
<1>4. newPage[n] = pn /\ \A m \in live : newPage[m] = page[m] /\ page[m] \in Numbers
  OBVIOUS
<1>5. r[1] = n /\ \A j \in 1 .. size : r[j + 1] = q[j]
  BY DEF Headed
<1>6. k # 1
  <2>1. bucket(n) = n
    <3> HIDE DEF newHash, newPage
    <3> QED
      BY <1>3, <1>4
  <2> HIDE DEF bucket, r
  <2> QED
    BY <2>1, <1>1, <1>5
<1>7. k - 1 \in 1 .. size /\ r[k] = q[k - 1] /\ q[k - 1] \in live
  BY <1>6 DEF Headed
<1> DEFINE m == q[k - 1]
           h == TLBHasher(page[m])
<1>8. bucket(r[k]) = newHash[h]
  <2> HIDE DEF newHash, newPage, r
  <2> QED
    BY <1>4, <1>7
<1>9. h \in Buckets
  <2>1. page[m] \in Numbers
    BY <1>4, <1>7
  <2> QED
    BY <2>1, HasherType
<1>10. CASE h = TLBHasher(pn)
  <2>1. 1 \in 1 .. k - 1
    BY <1>6
  <2> HIDE DEF bucket, r, newHash, h
  <2> QED
    BY <2>1, <1>3, <1>5, <1>8, <1>10
<1>11. CASE h # TLBHasher(pn)
  <2>1. newHash[h] = hash[h]
    BY <1>3, <1>9, <1>11
  <2> HIDE DEF bucket, r, newHash
  <2>2. hash[h] \in Nodes /\ hash[h] # m
    BY <2>1, <1>1, <1>7, <1>8
  <2>3. PICK i \in 1 .. (k - 1) - 1 : q[i] = hash[h]
    BY <2>2, <1>7 DEF Recent
  <2>4. i \in 1 .. size /\ i + 1 \in 1 .. k - 1
    BY <1>7
  <2>5. r[i + 1] = bucket(r[k])
    BY <2>1, <2>3, <2>4, <1>5, <1>8
  <2> QED
    BY <2>4, <2>5
<1> QED
  BY <1>10, <1>11

LEMMA PrimedQueueInv ==
  ASSUME BucketInv', tlbQueue'.size <= tlb_MaxSize,
         \E s \in [1 .. tlbQueue'.size -> Nodes] :
           /\ IsQueue(tlbQueue', s, heapNodes')
           /\ Recent(s, tlbQueue'.size, tlbQueue'.pageNumber, tlbHash')
  PROVE  QueueInv'
BY DEF QueueInv, IsQueue, Recent, TLBHasher, AsInt

LEMMA HitKeepsQueue ==
  ASSUME QueueInv, NEW pn \in Pages, TLBHit(pn)
  PROVE  QueueInv'
<1> DEFINE size == tlbQueue.size
           n == Bucket(pn)
<1>1. BucketInv /\ BucketInv' /\ size <= tlb_MaxSize /\ tlbQueue \in Queues
  BY HitKeeps DEF QueueInv, BucketInv
<1>2. PICK q \in [1 .. size -> Nodes] :
        IsQueue(tlbQueue, q, heapNodes) /\ Recent(q, size, tlbQueue.pageNumber, tlbHash)
  BY DEF QueueInv
<1>3. /\ n \in Nodes /\ tlbQueue.pageNumber[n] = pn /\ tlbHash' = tlbHash /\ heapNodes' = heapNodes
      /\ tlbQueue' = IF n # tlbQueue.first THEN MoveToFront(tlbQueue, n) ELSE tlbQueue
  BY DEF TLBHit, Hits
<1>4. TLBHasher(pn) \in Buckets
  BY DEF TLBHit, Hits, Inside
<1>5. n \in heapNodes
  BY <1>1, <1>3, <1>4 DEF BucketInv, NoDanglingBucket, Bucket
<1>6. CASE n = tlbQueue.first
  <2>1. tlbQueue' = tlbQueue
    BY <1>3, <1>6
  <2> QED
    BY <2>1, <1>1, <1>2, <1>3 DEF QueueInv
<1>7. CASE n # tlbQueue.first
  <2>1. size \in Nat
    BY <1>2 DEF IsQueue
  <2>2. PICK p \in 1 .. size : q[p] = n
    BY <1>2, <1>5 DEF IsQueue
  <2>3. p \in 2 .. size
    <3>1. p # 1
      BY <2>1, <2>2, <1>2, <1>7 DEF IsQueue
    <3> QED
      BY <3>1, <2>1
  <2> DEFINE r == Rotated(q, size, p)
  <2>4. tlbQueue' = MoveToFront(tlbQueue, q[p])
    BY <2>2, <1>3, <1>7
  <2>5. IsQueue(tlbQueue', r, heapNodes) /\ tlbQueue'.size = size
    BY <2>3, <2>4, <1>1, <1>2, MovedQueue DEF BucketInv
  <2>6. tlbQueue'.pageNumber = tlbQueue.pageNumber
    BY <2>2, <2>4, <1>1, <1>3, Moved
  <2>7. tlbHash[TLBHasher(tlbQueue.pageNumber[q[p]])] = q[p]
    BY <2>2, <1>3 DEF Bucket
  <2>8. Recent(r, size, tlbQueue.pageNumber, tlbHash)
    <3> HIDE DEF size
    <3> QED
      BY <2>1, <2>3, <2>7, <1>2, RotatedRecent
  <2> HIDE DEF r, size
  <2>9. r \in [1 .. size -> Nodes]
    <3>1. r \in [1 .. size -> heapNodes]
      BY <2>5 DEF IsQueue
    <3> QED
      BY <3>1, <1>1 DEF BucketInv
  <2>10. \E s \in [1 .. tlbQueue'.size -> Nodes] :
           /\ IsQueue(tlbQueue', s, heapNodes')
           /\ Recent(s, tlbQueue'.size, tlbQueue'.pageNumber, tlbHash')
    BY <2>5, <2>6, <2>8, <2>9, <1>3
  <2>11. tlbQueue'.size <= tlb_MaxSize
    BY <2>5, <1>1 DEF size
  <2> QED
    BY <2>10, <2>11, <1>1, PrimedQueueInv
<1> QED
  BY <1>6, <1>7

LEMMA MissKeepsQueue ==
  ASSUME QueueInv, NEW pn \in Pages, TLBMiss(pn)
  PROVE  QueueInv'
<1> DEFINE full == TLBFull(tlbQueue)
           gone == TLBHasher(tlbQueue.pageNumber[tlbQueue.last])
           queue == IF full THEN delTLBPage(tlbQueue) ELSE tlbQueue
           hash == IF full THEN [tlbHash EXCEPT ![gone] = NULL] ELSE tlbHash
           inUse == IF full THEN heapNodes \ {tlbQueue.last} ELSE heapNodes
           page == tlbQueue.pageNumber
<1>1. PICK n \in Nodes \ inUse :
        /\ tlbQueue' = PushFirst(queue, n, pn)
        /\ tlbHash' = [hash EXCEPT ![TLBHasher(pn)] = n]
        /\ heapNodes' = inUse \cup {n}
  BY DEF TLBMiss, insertTLB
<1>2. /\ BucketInv /\ BucketInv' /\ tlbQueue.size <= tlb_MaxSize /\ tlbQueue \in Queues
      /\ heapNodes \subseteq Nodes /\ tlbHash \in [Buckets -> Nodes \cup {NULL, WILD}]
  BY MissKeeps DEF QueueInv, BucketInv
<1>3. PICK q \in [1 .. tlbQueue.size -> Nodes] :
        IsQueue(tlbQueue, q, heapNodes) /\ Recent(q, tlbQueue.size, page, tlbHash)
  BY DEF QueueInv
<1>4. queue \in Queues /\ queue.pageNumber = page /\ page \in [Nodes -> Numbers] /\ pn \in Numbers
  BY <1>2, Evicted, PageInside DEF Queues, TLBMiss, Misses
<1>5. tlbQueue.size \in Nat /\ tlb_MaxSize \in Nat /\ tlb_MaxSize > 0
  BY <1>3, TlbSizeAssumption DEF IsQueue
<1>6. \E r : /\ IsQueue(queue, r, inUse) /\ Recent(r, queue.size, page, hash)
             /\ queue.size < tlb_MaxSize
  <2>1. CASE ~ full
    <3>1. tlbQueue.size < tlb_MaxSize
      BY <2>1, <1>2, <1>5 DEF TLBFull
    <3> QED
      BY <3>1, <2>1, <1>3
  <2>2. CASE full
    <3> DEFINE r == [k \in 1 .. tlbQueue.size - 1 |-> q[k]]
    <3>1. tlbQueue.size > 0 /\ tlbQueue.size - 1 < tlb_MaxSize
      BY <2>2, <1>5 DEF TLBFull
    <3>2. /\ IsQueue(delTLBPage(tlbQueue), r, heapNodes \ {tlbQueue.last})
          /\ delTLBPage(tlbQueue).size = tlbQueue.size - 1
      BY <3>1, <1>2, <1>3, EvictedQueue
    <3>3. gone \in Buckets
      <4>1. tlbQueue.last \in Nodes
        <5>1. tlbQueue.size \in 1 .. tlbQueue.size
          BY <3>1, <1>5
        <5> QED
          BY <5>1, <3>1, <1>3 DEF IsQueue
      <4>2. page[tlbQueue.last] \in Numbers
        BY <4>1, <1>4
      <4> QED
        BY <4>2, HasherType
    <3>4. Recent(r, tlbQueue.size - 1, page, [tlbHash EXCEPT ![gone] = NULL])
      <4> HIDE DEF gone
      <4> QED
        BY <3>3, <1>2, <1>3, <1>5, EvictedRecent
    <3> HIDE DEF r
    <3> QED
      BY <3>1, <3>2, <3>4, <2>2
  <2> QED
    BY <2>1, <2>2
<1>7. PICK r : /\ IsQueue(queue, r, inUse) /\ Recent(r, queue.size, page, hash)
               /\ queue.size < tlb_MaxSize
  BY <1>6
<1>8. /\ hash \in [Buckets -> Nodes \cup {NULL, WILD}] /\ inUse \subseteq Nodes
      /\ n \in Nodes /\ n \notin inUse
  BY <1>1, <1>2
<1>9. queue.size \in Nat /\ r \in [1 .. queue.size -> inUse]
  BY <1>7 DEF IsQueue
<1> DEFINE s == Headed(n, r, queue.size)
<1> HIDE DEF queue, hash, inUse, page, full, gone
<1>10. /\ IsQueue(PushFirst(queue, n, pn), s, inUse \cup {n})
       /\ PushFirst(queue, n, pn).size = queue.size + 1
  <2>1. IsQueue(PushFirst(queue, n, pn), s, inUse \cup {n})
    BY <1>4, <1>7, <1>8, PushedQueue
  <2> QED
    BY <2>1, <1>4, <1>8, Pushed
<1>11. Recent(s, queue.size + 1, [page EXCEPT ![n] = pn], [hash EXCEPT ![TLBHasher(pn)] = n])
  <2> DEFINE size == queue.size
  <2>1. /\ size \in Nat /\ r \in [1 .. size -> inUse] /\ Recent(r, size, page, hash)
    BY <1>7, <1>9
  <2> HIDE DEF size
  <2>2. Recent(Headed(n, r, size), size + 1,
               [page EXCEPT ![n] = pn], [hash EXCEPT ![TLBHasher(pn)] = n])
    BY <2>1, <1>4, <1>8, PushedRecent
  <2> QED
    BY <2>2 DEF size
<1>12. tlbQueue'.pageNumber = [page EXCEPT ![n] = pn]
  <2>1. PushFirst(queue, n, pn).pageNumber = [queue.pageNumber EXCEPT ![n] = pn]
    BY <1>4, <1>8, Pushed
  <2> QED
    BY <2>1, <1>1, <1>4
<1>13. s \in [1 .. queue.size + 1 -> Nodes]
  <2>1. s \in [1 .. queue.size + 1 -> inUse \cup {n}]
    <3> HIDE DEF s
    <3> QED
      BY <1>10 DEF IsQueue
  <2> QED
    BY <2>1, <1>8
<1> HIDE DEF s
<1>14. \E t \in [1 .. tlbQueue'.size -> Nodes] :
         /\ IsQueue(tlbQueue', t, heapNodes')
         /\ Recent(t, tlbQueue'.size, tlbQueue'.pageNumber, tlbHash')
  BY <1>1, <1>10, <1>11, <1>12, <1>13
<1>15. tlbQueue'.size <= tlb_MaxSize
  BY <1>1, <1>5, <1>7, <1>9, <1>10
<1> QED
  BY <1>2, <1>14, <1>15, PrimedQueueInv

LEMMA EmptyQueue ==
  ASSUME NEW hash
  PROVE  LET q == [k \in 1 .. createTLBQueue.size |-> NULL]
         IN  /\ q \in [1 .. createTLBQueue.size -> Nodes]
             /\ IsQueue(createTLBQueue, q, {})
             /\ Recent(q, createTLBQueue.size, createTLBQueue.pageNumber, hash)
             /\ createTLBQueue.size <= tlb_MaxSize
<1>1. /\ createTLBQueue.size = 0 /\ createTLBQueue.first = NULL /\ createTLBQueue.last = NULL
      /\ 1 .. 0 = {} /\ 1 .. 0 - 1 = {}
  BY DEF createTLBQueue
<1> QED
  BY <1>1, TlbSizeAssumption DEF IsQueue, Recent

LEMMA FlushKeepsQueue ==
  ASSUME NEW wild \in SUBSET Buckets,
         tlbQueue' = createTLBQueue, tlbHash' = createTLBHash(wild), heapNodes' = {}
  PROVE  QueueInv'
<1>1. BucketInv'
  BY FlushKeeps
<1>2. /\ tlbQueue'.size <= tlb_MaxSize
      /\ \E t \in [1 .. tlbQueue'.size -> Nodes] :
           /\ IsQueue(tlbQueue', t, heapNodes')
           /\ Recent(t, tlbQueue'.size, tlbQueue'.pageNumber, tlbHash')
  BY EmptyQueue
<1> QED
  BY <1>1, <1>2, PrimedQueueInv

\* The nodes stay linked and the buckets recent, whatever is looked up or flushed.
THEOREM QueueInvariance == TlbSpec => []QueueInv
<1>1. TlbInit => QueueInv
  <2> SUFFICES ASSUME TlbInit PROVE QueueInv
    OBVIOUS
  <2>1. BucketInv
    BY InitialBuckets
  <2>2. /\ tlbQueue.size <= tlb_MaxSize
        /\ \E t \in [1 .. tlbQueue.size -> Nodes] :
             /\ IsQueue(tlbQueue, t, heapNodes)
             /\ Recent(t, tlbQueue.size, tlbQueue.pageNumber, tlbHash)
    BY EmptyQueue DEF TlbInit
  <2> QED
    BY <2>1, <2>2 DEF QueueInv
<1>2. QueueInv /\ [TlbNext]_tlb => QueueInv'
  <2> SUFFICES ASSUME QueueInv, [TlbNext]_tlb PROVE QueueInv'
    OBVIOUS
  <2>1. CASE UNCHANGED tlb
    <3>1. tlbQueue' = tlbQueue /\ tlbHash' = tlbHash /\ heapNodes' = heapNodes
      BY <2>1 DEF tlb
    <3>2. BucketInv'
      BY <3>1 DEF QueueInv, BucketInv, NoDanglingBucket, TLBHasher, AsInt
    <3> QED
      BY <3>1, <3>2, PrimedQueueInv DEF QueueInv
  <2>2. ASSUME NEW pn \in Pages, TLBHit(pn) \/ TLBMiss(pn) PROVE QueueInv'
    BY <2>2, HitKeepsQueue, MissKeepsQueue
  <2>3. ASSUME NEW wild \in SUBSET Buckets, TLBFlush(wild) PROVE QueueInv'
    BY <2>3, FlushKeepsQueue DEF TLBFlush
  <2> QED
    BY <2>1, <2>2, <2>3 DEF TlbNext
<1> QED
  BY <1>1, <1>2, PTL DEF TlbSpec

----------------------------------------------------------------------------
(* The walk along next *)

LEMMA LeastOf ==
  ASSUME NEW S \in SUBSET Nat, S # {}
  PROVE  \E x \in S : \A y \in S : x <= y
<1>1. PICK x \in S : \A y \in S : <<y, x>> \notin OpToRel(<, Nat)
  BY NatLessThanWellFounded, WFMin, Zenon
<1>2. ASSUME NEW y \in S, y < x PROVE FALSE
  <2>1. <<y, x>> \in Nat \X Nat /\ <<y, x>>[1] < <<y, x>>[2]
    BY <1>2
  <2>2. <<y, x>> \in OpToRel(<, Nat)
    BY <2>1, Zenon DEF OpToRel
  <2> QED
    BY <1>1, <2>2
<1>3. \A y \in S : x <= y
  BY <1>2
<1> QED
  BY <1>3

Walk(f) == [k \in 1 .. tlb_MaxSize |->
              IF k = 1 THEN tlbQueue.first
              ELSE IF f[k - 1] = NULL THEN NULL ELSE tlbQueue.next[f[k - 1]]]

LEMMA ChainWalks ==
  ASSUME NEW w, w = Walk(w)
  PROVE  Chain = w
<1>1. Chain = CHOOSE f : f = Walk(f)
  BY DEF Chain, Walk
<1>2. Chain = Walk(Chain)
  <2> HIDE DEF Chain
  <2> QED
    BY <1>1
<1> DEFINE S == {k \in 1 .. tlb_MaxSize : Chain[k] # w[k]}
<1>3. S = {}
  <2>1. SUFFICES ASSUME S # {} PROVE FALSE
    OBVIOUS
  <2>2. S \in SUBSET Nat
    OBVIOUS
  <2>3. PICK k \in S : \A y \in S : k <= y
    BY <2>1, <2>2, LeastOf
  <2>4. k \in 1 .. tlb_MaxSize /\ Chain[k] # w[k] /\ tlb_MaxSize \in Nat
    BY TlbSizeAssumption
  <2>5. CASE k = 1
    BY <2>4, <2>5, <1>2 DEF Walk
  <2>6. CASE k # 1
    <3>1. k - 1 \in 1 .. tlb_MaxSize /\ ~ (k <= k - 1)
      BY <2>4, <2>6
    <3>2. Chain[k - 1] = w[k - 1]
      BY <3>1, <2>3
    <3>3. /\ Chain[k] = IF Chain[k - 1] = NULL THEN NULL ELSE tlbQueue.next[Chain[k - 1]]
          /\ w[k] = IF w[k - 1] = NULL THEN NULL ELSE tlbQueue.next[w[k - 1]]
      BY <2>4, <2>6, <1>2 DEF Walk
    <3> QED
      BY <3>2, <3>3, <2>4
  <2> QED
    BY <2>5, <2>6
<1>4. Chain = [k \in 1 .. tlb_MaxSize |-> Chain[k]] /\ w = [k \in 1 .. tlb_MaxSize |-> w[k]]
  BY <1>2 DEF Walk
<1>5. \A k \in 1 .. tlb_MaxSize : Chain[k] = w[k]
  BY <1>3
<1> HIDE DEF Chain
<1> QED
  BY <1>4, <1>5

\* The walk visits the nodes of the queue in their order.
LEMMA ChainIsQueue ==
  ASSUME tlbQueue \in Queues, heapNodes \subseteq Nodes, tlbQueue.size <= tlb_MaxSize,
         NEW q, IsQueue(tlbQueue, q, heapNodes)
  PROVE  \A k \in 1 .. tlbQueue.size : Chain[k] = q[k]
<1> DEFINE size == tlbQueue.size
           w == [k \in 1 .. tlb_MaxSize |-> IF k <= size THEN q[k] ELSE NULL]
<1>1. size \in Nat /\ size <= tlb_MaxSize /\ tlb_MaxSize \in Nat
  BY TlbSizeAssumption DEF IsQueue
<1>2. \A k \in 1 .. size : q[k] # NULL
  BY NoPointerIsANode DEF IsQueue
<1>3. ASSUME NEW k \in 1 .. tlb_MaxSize
      PROVE  w[k] = IF k = 1 THEN tlbQueue.first
                    ELSE IF w[k - 1] = NULL THEN NULL ELSE tlbQueue.next[w[k - 1]]
  <2>1. CASE k = 1
    <3>1. CASE size = 0
      BY <3>1, <2>1 DEF IsQueue
    <3>2. CASE size # 0
      BY <3>2, <2>1, <1>1 DEF IsQueue
    <3> QED
      BY <3>1, <3>2
  <2>2. CASE k # 1
    <3>0. k - 1 \in 1 .. tlb_MaxSize
      BY <2>2, <1>1
    <3>1. CASE k <= size
      <4>1. k - 1 \in 1 .. size - 1 /\ k - 1 \in 1 .. size /\ (k - 1) + 1 = k /\ k - 1 <= size
        BY <3>1, <2>2, <1>1
      <4>2. w[k] = q[k] /\ w[k - 1] = q[k - 1] /\ q[k - 1] # NULL
        BY <4>1, <3>0, <3>1, <1>2
      <4>3. tlbQueue.next[q[k - 1]] = q[k]
        <5>1. tlbQueue.next[q[k - 1]] = q[(k - 1) + 1]
          BY <4>1 DEF IsQueue
        <5> QED
          BY <5>1, <4>1
      <4> HIDE DEF w
      <4> QED
        BY <4>2, <4>3, <2>2
    <3>2. CASE k > size
      <4>1. w[k] = NULL
        BY <3>2, <1>1
      <4>2. CASE k - 1 <= size
        <5>1. CASE size = 0
          BY <5>1, <4>1, <4>2, <3>0, <2>2, <1>1
        <5>2. CASE size # 0
          <6>1. k - 1 = size /\ size > 0
            BY <5>2, <4>2, <3>2, <1>1
          <6>2. w[k - 1] = q[size] /\ q[size] # NULL
            BY <6>1, <3>0, <1>1, <1>2
          <6>3. tlbQueue.next[q[size]] = NULL
            BY <6>1 DEF IsQueue
          <6> HIDE DEF w
          <6> QED
            BY <6>2, <6>3, <4>1, <2>2
        <5> QED
          BY <5>1, <5>2
      <4>3. CASE ~ (k - 1 <= size)
        <5>1. w[k - 1] = NULL
          BY <4>3, <3>0
        <5> HIDE DEF w
        <5> QED
          BY <5>1, <4>1, <2>2
      <4> QED
        BY <4>2, <4>3
    <3> QED
      BY <3>1, <3>2, <1>1
  <2> QED
    BY <2>1, <2>2
<1>4. w = Walk(w)
  <2>1. w = [k \in 1 .. tlb_MaxSize |-> w[k]]
    OBVIOUS
  <2> HIDE DEF w
  <2> QED
    BY <2>1, <1>3 DEF Walk
<1>5. Chain = w
  <2> HIDE DEF w
  <2> QED
    BY <1>4, ChainWalks
<1>6. \A k \in 1 .. size : w[k] = q[k]
  BY <1>1
<1> HIDE DEF w
<1> QED
  BY <1>5, <1>6

LEMMA QueueCount ==
  ASSUME NEW queue, NEW q, NEW live, IsQueue(queue, q, live)
  PROVE  Cardinality(live) = queue.size
<1>1. /\ queue.size \in Nat /\ q \in [1 .. queue.size -> live]
      /\ \A n \in live : \E k \in 1 .. queue.size : q[k] = n
      /\ \A j, k \in 1 .. queue.size : q[j] = q[k] => j = k
  BY DEF IsQueue
<1>2. q \in Injection(1 .. queue.size, live)
  BY <1>1 DEF Injection, IsInjective
<1>3. q \in Surjection(1 .. queue.size, live)
  BY <1>1 DEF Surjection
<1>4. ExistsBijection(1 .. queue.size, live)
  BY <1>2, <1>3 DEF ExistsBijection, Bijection
<1> QED
  BY <1>1, <1>4, FS_CountingElements

LEMMA QueueInvIsLinked == QueueInv => QueueLinked
<1> SUFFICES ASSUME QueueInv PROVE QueueLinked
  OBVIOUS
<1> DEFINE size == tlbQueue.size
<1>1. tlbQueue \in Queues /\ heapNodes \subseteq Nodes /\ size <= tlb_MaxSize
  BY DEF QueueInv, BucketInv
<1>2. PICK q : IsQueue(tlbQueue, q, heapNodes)
  BY DEF QueueInv
<1>3. \A k \in 1 .. size : Chain[k] = q[k]
  BY <1>1, <1>2, ChainIsQueue
<1>4. Cardinality(heapNodes) = size
  BY <1>2, QueueCount
<1>5. size \in Nat
  BY <1>2 DEF IsQueue
<1> HIDE DEF Chain
<1>6. {Chain[k] : k \in 1 .. size} = heapNodes
  <2>1. \A k \in 1 .. size : Chain[k] \in heapNodes
    BY <1>2, <1>3 DEF IsQueue
  <2>2. \A n \in heapNodes : \E k \in 1 .. size : Chain[k] = n
    BY <1>2, <1>3 DEF IsQueue
  <2> QED
    BY <2>1, <2>2
<1>7. size > 0 => /\ tlbQueue.last = Chain[size] /\ tlbQueue.next[tlbQueue.last] = NULL
                  /\ tlbQueue.prev[tlbQueue.first] = NULL
  <2>1. size > 0 => size \in 1 .. size
    BY <1>5
  <2> QED
    BY <2>1, <1>2, <1>3 DEF IsQueue
<1>8. size = 0 => tlbQueue.first = NULL /\ tlbQueue.last = NULL
  BY <1>2 DEF IsQueue
<1>9. ASSUME NEW k \in 2 .. size PROVE tlbQueue.prev[Chain[k]] = Chain[k - 1]
  <2>1. k \in 1 .. size /\ k - 1 \in 1 .. size /\ k - 1 \in 1 .. size - 1 /\ (k - 1) + 1 = k
    BY <1>5
  <2>2. tlbQueue.prev[q[(k - 1) + 1]] = q[k - 1]
    BY <2>1, <1>2 DEF IsQueue
  <2> QED
    BY <2>1, <2>2, <1>3
<1> QED
  BY <1>4, <1>6, <1>7, <1>8, <1>9 DEF QueueLinked

LEMMA QueueInvIsRecent == QueueInv => BucketIsRecent
<1> SUFFICES ASSUME QueueInv PROVE BucketIsRecent
  OBVIOUS
<1> DEFINE size == tlbQueue.size
<1>1. tlbQueue \in Queues /\ heapNodes \subseteq Nodes /\ size <= tlb_MaxSize
  BY DEF QueueInv, BucketInv
<1>2. PICK q : IsQueue(tlbQueue, q, heapNodes) /\ Recent(q, size, tlbQueue.pageNumber, tlbHash)
  BY DEF QueueInv
<1>3. \A k \in 1 .. size : Chain[k] = q[k]
  BY <1>1, <1>2, ChainIsQueue
<1>4. size \in Nat
  BY <1>2 DEF IsQueue
<1> HIDE DEF Chain
<1> SUFFICES ASSUME NEW k \in 1 .. size, NEW h, h = TLBHasher(tlbQueue.pageNumber[Chain[k]]),
                    tlbHash[h] \in Nodes, tlbHash[h] # Chain[k]
             PROVE  \E j \in 1 .. k - 1 : Chain[j] = tlbHash[h]
  BY DEF BucketIsRecent
<1>5. PICK j \in 1 .. k - 1 : q[j] = tlbHash[h]
  BY <1>2, <1>3 DEF Recent
<1>6. j \in 1 .. size
  BY <1>4
<1> QED
  BY <1>3, <1>5, <1>6

LEMMA QueueInvTypes == QueueInv => TlbTypeOK
<1> SUFFICES ASSUME QueueInv PROVE TlbTypeOK
  OBVIOUS
<1>1. /\ tlbQueue \in Queues /\ heapNodes \subseteq Nodes /\ tlbQueue.size <= tlb_MaxSize
      /\ tlbHash \in [Buckets -> Nodes \cup {NULL, WILD}]
  BY DEF QueueInv, BucketInv
<1>2. tlbQueue.size \in 0 .. tlb_MaxSize
  BY <1>1, TlbSizeAssumption DEF QueueInv, IsQueue
<1> QED
  BY <1>1, <1>2 DEF TlbTypeOK, Queues, Numbers

\* The pointer surgery of insertTLB, delTLBPage and the hits of TLBSerach never unlinks
\* the queue: the walk along next visits exactly the live nodes, and prev leads back.
THEOREM QueueIsLinked == TlbSpec => []QueueLinked
BY QueueInvariance, QueueInvIsLinked, PTL

\* A bucket of the hash table leads to the node of its pages that was looked up last.
THEOREM BucketsAreRecent == TlbSpec => []BucketIsRecent
BY QueueInvariance, QueueInvIsRecent, PTL

\* The buffer never holds more than it has room for.
THEOREM TlbTypes == TlbSpec => []TlbTypeOK
BY QueueInvariance, QueueInvTypes, PTL
=============================================================================
