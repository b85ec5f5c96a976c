-------------------------- MODULE EntryLockProofs --------------------------
(***************************************************************************)
(* Proofs about EntryLock, for any number of threads, entries and          *)
(* messages.                                                               *)
(***************************************************************************)
EXTENDS EntryLockRefinement, FiniteSetTheorems, TLAPS

\* The board has a first entry, and every entry has a block of its own.
LEMMA FirstEntry == 1 \in Entries /\ 1 \in Buffers /\ Entries \subseteq Buffers
  BY SizeAssumption, BuffersAssumption DEF Entries

\* On boards of at most 256 entries the scan of getNEntry stops at the entry
\* that was asked for.
LEMMA FishedIsAsked ==
  ASSUME CharIsEnough, NEW e \in Entries
  PROVE  Fished(e) = e
<1>1. e \in Nat /\ 1 <= e /\ e <= 256
  BY SizeAssumption DEF Entries, CharIsEnough
<1>2. \A f \in Entries : (f = e \/ f = CharOf(e)) <=> f = e
  BY <1>1 DEF CharOf, Entries
<1>3. \A f \in Entries : f <= f
  BY SizeAssumption DEF Entries
<1> QED
  BY <1>2, <1>3 DEF Fished

\* Fished finds an entry of the board when the one asked for is on it.
LEMMA FishedType ==
  ASSUME CharIsEnough, NEW e \in Entries
  PROVE  Fished(e) \in Entries
  BY FishedIsAsked

LEMMA StatusType ==
  ASSUME NEW s \in Statuses, NEW n \in Nat
  PROVE  Status(s, n) \in Reply
  BY DEF Status, Reply, Contents, Texts

\* What a reader and a writer may assume of their requests.
LEMMA RequestType ==
  ASSUME TypeOK, Roles, NEW t \in Threads
  PROVE  /\ pc[t] \in ReaderPcs => req[t].entry \in Entries /\ req[t].entry \in QueryEntries
         /\ pc[t] \in WriterPcs => req[t].entry \in Entries /\ req[t].value \in Contents
         /\ pc[t] \in ReaderPcs \cup WriterPcs \cup {"missing"} => req[t].entry \in Nat
<1>1. Entries \subseteq Nat
  BY SizeAssumption DEF Entries
<1> QED
  BY <1>1, QueryAssumption DEF Roles, Query, Update, Contents

\* The types are kept by every step of getNEntry.
LEMMA TypeGetNEntry ==
  ASSUME TypeOK, Roles, CharIsEnough, NEW t \in Threads, GetNEntry(t)
  PROVE  TypeOK'
<1>r. /\ pc[t] \in ReaderPcs => req[t].entry \in Entries
      /\ pc[t] \in ReaderPcs \cup {"missing"} => req[t].entry \in Nat
  BY RequestType
<1> USE DEF TypeOK, Goto, shared, locks, local, Pcs, ReadPcs, ErasePcs,
            WritePcs, EnterPcs, LeavePcs
<1>1. CASE QueryMissing(t)
  <2>1. \A s \in {"no_such_entry", "junk"} : Status(s, req[t].entry) \in Reply
    BY <1>1, <1>r, StatusType DEF QueryMissing, Statuses
  <2> QED
    BY <1>1, <2>1 DEF QueryMissing
<1>2. CASE EnterRead(t)
  <2>1. CASE Enter(t)      BY <2>1 DEF Enter, LockR
  <2>2. CASE LoadInc(t)    BY <2>2 DEF LoadInc
  <2>3. CASE StoreInc(t)   BY <2>3 DEF StoreInc
  <2>4. CASE TestFirst(t)  BY <2>4 DEF TestFirst
  <2>5. CASE FirstLocks(t) BY <2>5 DEF FirstLocks, LockG
  <2>6. CASE Entered(t)    BY <2>6 DEF Entered, UnlockR
  <2> QED
    BY <1>2, <2>1, <2>2, <2>3, <2>4, <2>5, <2>6 DEF EnterRead
<1>3. CASE QueryNoMemory(t)
  <2>1. Status("no_memory", req[t].entry) \in Reply
    BY <1>3, <1>r, StatusType DEF QueryNoMemory, Statuses, ReaderPcs
  <2>2. noMemory < MaxNoMemory /\ noMemory' = noMemory + 1
    BY <1>3 DEF QueryNoMemory
  <2>3. noMemory' \in 0 .. MaxNoMemory
    BY <2>2, BoundAssumption
  <2> QED
    BY <1>3, <2>1, <2>3 DEF QueryNoMemory
<1>4. CASE Format(t)
  <2>1. Fished(req[t].entry) \in Entries
    BY <1>4, <1>r, FishedType DEF Format, ReaderPcs
  <2> QED
    BY <1>4, <2>1 DEF Format
<1>5. CASE Copy(t)
  <2>1. Fished(req[t].entry) \in Nat
    BY <1>5, <1>r, FishedIsAsked DEF Copy, ReaderPcs
  <2>2. heap[got[t].entry] \in Texts /\ got[t].mode \in Contents /\ got[t].length \in Contents
    BY DEF Held
  <2>3. reply'[t] \in Reply
    BY <1>5, <2>1, <2>2 DEF Copy, Reply, Statuses
  <2> QED
    BY <1>5, <2>3 DEF Copy
<1>6. CASE LeaveRead(t)
  <2>1. CASE Leave(t)       BY <2>1 DEF Leave, LockR
  <2>2. CASE LoadDec(t)     BY <2>2 DEF LoadDec
  <2>3. CASE StoreDec(t)    BY <2>3 DEF StoreDec
  <2>4. CASE TestLast(t)    BY <2>4 DEF TestLast
  <2>5. CASE LastUnlocks(t) BY <2>5 DEF LastUnlocks, UnlockG
  <2>6. CASE Left(t)        BY <2>6 DEF Left, UnlockR
  <2> QED
    BY <1>6, <2>1, <2>2, <2>3, <2>4, <2>5, <2>6 DEF LeaveRead
<1> QED
  BY <1>1, <1>2, <1>3, <1>4, <1>5, <1>6 DEF GetNEntry

\* The types are kept by every step of updateEntry.
LEMMA TypeUpdateEntry ==
  ASSUME TypeOK, Roles, NEW t \in Threads, UpdateEntry(t)
  PROVE  TypeOK'
<1>r. pc[t] \in WriterPcs => /\ req[t].entry \in Entries /\ req[t].entry \in Nat
                             /\ req[t].value \in Contents
  BY RequestType
<1> USE DEF TypeOK, Goto, shared, locks, local, Pcs, ReadPcs, ErasePcs,
            WritePcs, EnterPcs, LeavePcs
<1>1. CASE Write(t)
  BY <1>1 DEF Write, LockG
<1>2. CASE Erase(t)
  BY <1>2 DEF Erase, Texts, Contents
<1>3. CASE SetMode(t)
  <2>1. req[t].value \in Contents /\ req[t].entry \in Entries
    BY <1>3, <1>r DEF SetMode, WriterPcs
  <2>2. entries' \in [Entries -> Held]
    BY <1>3, <2>1 DEF SetMode, Held
  <2> QED
    BY <1>3, <2>2 DEF SetMode
<1>4. CASE SetLength(t)
  <2>1. req[t].value \in Contents /\ req[t].entry \in Entries
    BY <1>4, <1>r DEF SetLength, WriterPcs
  <2>2. entries' \in [Entries -> Held]
    BY <1>4, <2>1 DEF SetLength, Held
  <2> QED
    BY <1>4, <2>2 DEF SetLength
<1>5. CASE SetBuffer(t)
  <2>1. PICK p \in FreeBuffers :
          /\ entries' = [entries EXCEPT ![req[t].entry].entry = p]
          /\ heap' = [heap EXCEPT ![p] = Junk]
    BY <1>5 DEF SetBuffer
  <2>2. p \in Buffers
    BY DEF FreeBuffers
  <2>3. entries' \in [Entries -> Held]
    BY <2>1, <2>2 DEF Held
  <2>4. heap' \in [Buffers -> Texts]
    BY <2>1 DEF Texts
  <2> QED
    BY <1>5, <2>3, <2>4 DEF SetBuffer
<1>6. CASE Fill(t)
  <2>1. req[t].value \in Contents
    BY <1>6, <1>r DEF Fill, WriterPcs
  <2> QED
    BY <1>6, <2>1 DEF Fill, Texts
<1>7. CASE Written(t)
  <2>1. Status("updated", req[t].entry) \in Reply
    BY <1>7, <1>r, StatusType DEF Written, Statuses, WriterPcs
  <2> QED
    BY <1>7, <2>1 DEF Written, UnlockG
<1> QED
  BY <1>1, <1>2, <1>3, <1>4, <1>5, <1>6, <1>7 DEF UpdateEntry

\* The types hold of the blank board, and every step keeps them.
LEMMA TypeInit ==
  ASSUME Init
  PROVE  TypeOK
<1>1. Empty(1) \in Held /\ (\A e \in Entries : Empty(e) \in Held)
  BY FirstEntry DEF Empty, Held, Contents
<1>2. NoReply \in Reply
  BY StatusType DEF NoReply, Statuses
<1> QED
  BY <1>1, <1>2, BoundAssumption DEF Init, TypeOK, Texts, Contents, Pcs

LEMMA TypeNext ==
  ASSUME TypeOK, Roles, CharIsEnough, [Next]_vars
  PROVE  TypeOK'
<1>1. ASSUME NEW t \in Threads, Receive(t) PROVE TypeOK'
  BY <1>1 DEF TypeOK, Receive, ReceiveQuery, ReceiveUpdate, Goto, shared, locks, Pcs
<1>2. ASSUME NEW t \in Threads, Send(t) PROVE TypeOK'
  <2>1. Empty(1) \in Held /\ NoReply \in Reply
    BY FirstEntry, StatusType DEF Empty, Held, Contents, NoReply, Statuses
  <2> QED
    BY <1>2, <2>1 DEF TypeOK, Send, Goto, shared, locks, Pcs
<1>3. CASE UNCHANGED vars
  BY <1>3 DEF TypeOK, vars
<1> QED
  BY <1>1, <1>2, <1>3, TypeGetNEntry, TypeUpdateEntry DEF Next, Step

----------------------------------------------------------------------------
(* Roles *)

\* A query of an entry of the board is served as one, others as missing.
LEMMA RolesReceiveQuery ==
  ASSUME TypeOK, Roles, NEW t \in Threads, ReceiveQuery(t)
  PROVE  Roles'
<1>1. PICK q \in Query : /\ req' = [req EXCEPT ![t] = q]
                         /\ Goto(t, "idle", IF q.entry > WHITEBOARD_SIZE THEN "missing" ELSE "enter")
  BY DEF ReceiveQuery
<1>2. q.entry > WHITEBOARD_SIZE <=> q.entry \notin Entries
  <2>1. q.entry \in QueryEntries
    BY DEF Query
  <2>2. q.entry \in Nat \ {0} /\ WHITEBOARD_SIZE \in Nat
    BY <2>1, QueryAssumption, SizeAssumption
  <2> QED
    BY <2>2 DEF Entries
<1> QED
  BY <1>1, <1>2 DEF ReceiveQuery, Goto, TypeOK, Roles, ReaderPcs, WriterPcs, AnsweredPcs, RPcs, EnterPcs, LeavePcs, ReadPcs, WritePcs, ErasePcs

\* What a thread does keeps agreeing with its request.
LEMMA RolesStep ==
  ASSUME TypeOK, Roles, NEW t \in Threads, Step(t)
  PROVE  Roles'
<1> USE DEF TypeOK, Roles, Query, Update, NoReply, Status, Goto, shared, locks, local,
            ReaderPcs, WriterPcs, AnsweredPcs,
            ReadPcs, ErasePcs, WritePcs, EnterPcs, LeavePcs, RPcs
<1>1. CASE ReceiveQuery(t)
  BY <1>1, RolesReceiveQuery
<1>2. CASE ReceiveUpdate(t)
  BY <1>2 DEF ReceiveUpdate
<1>3. CASE Send(t)
  BY <1>3 DEF Send
<1>4. CASE QueryMissing(t)
  BY <1>4 DEF QueryMissing
<1>5. CASE Enter(t)
  BY <1>5 DEF Enter, LockR
<1>6. CASE LoadInc(t)
  BY <1>6 DEF LoadInc
<1>7. CASE StoreInc(t)
  BY <1>7 DEF StoreInc
<1>8. CASE TestFirst(t)
  BY <1>8 DEF TestFirst
<1>9. CASE FirstLocks(t)
  BY <1>9 DEF FirstLocks, LockG
<1>10. CASE Entered(t)
  BY <1>10 DEF Entered, UnlockR
<1>11. CASE QueryNoMemory(t)
  BY <1>11 DEF QueryNoMemory
<1>12. CASE Format(t)
  BY <1>12 DEF Format
<1>13. CASE Copy(t)
  BY <1>13 DEF Copy
<1>14. CASE Leave(t)
  BY <1>14 DEF Leave, LockR
<1>15. CASE LoadDec(t)
  BY <1>15 DEF LoadDec
<1>16. CASE StoreDec(t)
  BY <1>16 DEF StoreDec
<1>17. CASE TestLast(t)
  BY <1>17 DEF TestLast
<1>18. CASE LastUnlocks(t)
  BY <1>18 DEF LastUnlocks, UnlockG
<1>19. CASE Left(t)
  BY <1>19 DEF Left, UnlockR
<1>20. CASE Write(t)
  BY <1>20 DEF Write, LockG
<1>21. CASE Erase(t)
  BY <1>21 DEF Erase
<1>22. CASE SetMode(t)
  BY <1>22 DEF SetMode
<1>23. CASE SetLength(t)
  BY <1>23 DEF SetLength
<1>24. CASE SetBuffer(t)
  BY <1>24 DEF SetBuffer
<1>25. CASE Fill(t)
  BY <1>25 DEF Fill
<1>26. CASE Written(t)
  BY <1>26 DEF Written, UnlockG
<1> QED
  BY <1>1, <1>2, <1>3, <1>4, <1>5, <1>6, <1>7, <1>8, <1>9, <1>10, <1>11, <1>12, <1>13,
     <1>14, <1>15, <1>16, <1>17, <1>18, <1>19, <1>20, <1>21, <1>22, <1>23, <1>24, <1>25, <1>26
     DEF Step, Receive, GetNEntry, EnterRead, LeaveRead, UpdateEntry

----------------------------------------------------------------------------
(* The reader mutex and the reader counter *)

\* At most one thread at a time counts itself in or out.
LEMMA ReaderMutexStep ==
  ASSUME TypeOK, Roles, ReaderMutex, OneEntryQueried, NEW t \in Threads, Step(t)
  PROVE  ReaderMutex'
<1> USE DEF TypeOK, Roles, ReaderMutex, OneEntryQueried, Query, Goto, shared, locks, local,
            ReaderPcs, WriterPcs, ReadPcs, ErasePcs, WritePcs, EnterPcs, LeavePcs, RPcs
<1>1. CASE ReceiveQuery(t)
  BY <1>1 DEF ReceiveQuery
<1>2. CASE ReceiveUpdate(t)
  BY <1>2 DEF ReceiveUpdate
<1>3. CASE Send(t)
  BY <1>3 DEF Send
<1>4. CASE QueryMissing(t)
  BY <1>4 DEF QueryMissing
<1>5. CASE Enter(t)
  BY <1>5 DEF Enter, LockR
<1>6. CASE LoadInc(t)
  BY <1>6 DEF LoadInc
<1>7. CASE StoreInc(t)
  BY <1>7 DEF StoreInc
<1>8. CASE TestFirst(t)
  BY <1>8 DEF TestFirst
<1>9. CASE FirstLocks(t)
  BY <1>9 DEF FirstLocks, LockG
<1>10. CASE Entered(t)
  BY <1>10 DEF Entered, UnlockR
<1>11. CASE QueryNoMemory(t)
  BY <1>11 DEF QueryNoMemory
<1>12. CASE Format(t)
  BY <1>12 DEF Format
<1>13. CASE Copy(t)
  BY <1>13 DEF Copy
<1>14. CASE Leave(t)
  BY <1>14 DEF Leave, LockR
<1>15. CASE LoadDec(t)
  BY <1>15 DEF LoadDec
<1>16. CASE StoreDec(t)
  BY <1>16 DEF StoreDec
<1>17. CASE TestLast(t)
  BY <1>17 DEF TestLast
<1>18. CASE LastUnlocks(t)
  BY <1>18 DEF LastUnlocks, UnlockG
<1>19. CASE Left(t)
  BY <1>19 DEF Left, UnlockR
<1>20. CASE Write(t)
  BY <1>20 DEF Write, LockG
<1>21. CASE Erase(t)
  BY <1>21 DEF Erase
<1>22. CASE SetMode(t)
  BY <1>22 DEF SetMode
<1>23. CASE SetLength(t)
  BY <1>23 DEF SetLength
<1>24. CASE SetBuffer(t)
  BY <1>24 DEF SetBuffer
<1>25. CASE Fill(t)
  BY <1>25 DEF Fill
<1>26. CASE Written(t)
  BY <1>26 DEF Written, UnlockG
<1> QED
  BY <1>1, <1>2, <1>3, <1>4, <1>5, <1>6, <1>7, <1>8, <1>9, <1>10, <1>11, <1>12, <1>13,
     <1>14, <1>15, <1>16, <1>17, <1>18, <1>19, <1>20, <1>21, <1>22, <1>23, <1>24, <1>25, <1>26
     DEF Step, Receive, GetNEntry, EnterRead, LeaveRead, UpdateEntry

\* The readers in the counter are finitely many.
LEMMA CountedFinite == IsFiniteSet(Counted) /\ Cardinality(Counted) \in Nat
  BY ThreadsAssumption, FS_Subset, FS_CardinalityType DEF Counted

\* How a step of thread t changes the number of readers in the counter.
LEMMA CountedStep ==
  ASSUME TypeOK, NEW t \in Threads, NEW from, NEW to, Goto(t, from, to)
  PROVE  /\ (from \in CountedPcs <=> to \in CountedPcs)
              => Cardinality(Counted)' = Cardinality(Counted)
         /\ from \notin CountedPcs /\ to \in CountedPcs
              => Cardinality(Counted)' = Cardinality(Counted) + 1
         /\ from \in CountedPcs /\ to \notin CountedPcs
              => Cardinality(Counted)' = Cardinality(Counted) - 1
<1>1. (from \in CountedPcs <=> to \in CountedPcs) => Counted' = Counted
  BY DEF TypeOK, Goto, Counted
<1>2. from \notin CountedPcs /\ to \in CountedPcs => Counted' = Counted \cup {t} /\ t \notin Counted
  BY DEF TypeOK, Goto, Counted
<1>3. from \in CountedPcs /\ to \notin CountedPcs => Counted' = Counted \ {t} /\ t \in Counted
  BY DEF TypeOK, Goto, Counted
<1> QED
  BY <1>1, <1>2, <1>3, CountedFinite, FS_AddElement, FS_RemoveElement

\* What a thread learns of the others from the counter.
LEMMA CountedOthers ==
  ASSUME TypeOK, ReaderCount, NEW t \in Threads
  PROVE  /\ b \in Nat
         /\ b = 0 => noMemory = 0 /\ \A u \in Threads : pc[u] \notin CountedPcs
         /\ t \notin Counted /\ b # 0 =>
              noMemory > 0 \/ \E u \in Threads : u # t /\ pc[u] \in CountedPcs
         /\ t \in Counted /\ b # 1 =>
              noMemory > 0 \/ \E u \in Threads : u # t /\ pc[u] \in CountedPcs
<1>1. noMemory \in Nat /\ b = Cardinality(Counted) + noMemory
  BY BoundAssumption DEF TypeOK, ReaderCount
<1>2. Cardinality(Counted) = 0 <=> Counted = {}
  BY CountedFinite, FS_EmptySet
<1>3. t \in Counted => Cardinality(Counted \ {t}) = Cardinality(Counted) - 1
                       /\ (Cardinality(Counted \ {t}) = 0 <=> Counted \ {t} = {})
  BY CountedFinite, FS_RemoveElement, FS_EmptySet
<1>4. b \in Nat /\ (b = 0 => noMemory = 0 /\ Counted = {})
  BY <1>1, <1>2, CountedFinite
<1>5. t \notin Counted /\ b # 0 => noMemory > 0 \/ Counted # {}
  BY <1>1, <1>2, CountedFinite
<1>6. t \in Counted /\ b # 1 => noMemory > 0 \/ Counted \ {t} # {}
  BY <1>1, <1>3, CountedFinite
<1> QED
  BY <1>4, <1>5, <1>6 DEF Counted

\* A step by which nobody joins or leaves the count and no register is loaded.
LEMMA CountUnchanged ==
  ASSUME TypeOK, ReaderCount, NEW t \in Threads, NEW from, NEW to,
         Goto(t, from, to), from \in CountedPcs <=> to \in CountedPcs,
         to \notin {"store_inc", "store_dec", "lock_g", "unlock_g"},
         UNCHANGED <<b, reg, noMemory>>
  PROVE  ReaderCount'
<1>1. Cardinality(Counted)' = Cardinality(Counted)
  BY CountedStep
<1>2. b' = Cardinality(Counted)' + noMemory'
  BY <1>1 DEF ReaderCount
<1> QED
  BY <1>2 DEF Goto, TypeOK, ReaderCount

\* The reader counter counts the readers.
LEMMA ReaderCountStep ==
  ASSUME TypeOK, ReaderMutex, ReaderCount, NEW t \in Threads, Step(t)
  PROVE  ReaderCount'
<1>1. CASE ReceiveQuery(t)
  <2>1. /\ UNCHANGED <<b, reg, noMemory>>
        /\ Goto(t, "idle", "missing") \/ Goto(t, "idle", "enter")
    BY <1>1 DEF ReceiveQuery, locks
  <2>2. Cardinality(Counted)' = Cardinality(Counted)
    BY <2>1, CountedStep DEF CountedPcs
  <2>3. b' = Cardinality(Counted)' + noMemory'
    BY <2>1, <2>2 DEF ReaderCount
  <2> QED
    BY <2>1, <2>3 DEF Goto, TypeOK, ReaderCount
<1>2. CASE ReceiveUpdate(t)
  <2>1. Goto(t, "idle", "write") /\ UNCHANGED <<b, reg, noMemory>>
    BY <1>2 DEF ReceiveUpdate, locks, local
  <2> QED
    BY <2>1, CountUnchanged DEF CountedPcs
<1>3. CASE Send(t)
  <2>1. Goto(t, "send", "idle") /\ UNCHANGED <<b, reg, noMemory>>
    BY <1>3 DEF Send, locks, local
  <2> QED
    BY <2>1, CountUnchanged DEF CountedPcs
<1>4. CASE QueryMissing(t)
  <2>1. Goto(t, "missing", "send") /\ UNCHANGED <<b, reg, noMemory>>
    BY <1>4 DEF QueryMissing, locks, local
  <2> QED
    BY <2>1, CountUnchanged DEF CountedPcs
<1>5. CASE Enter(t)
  <2>1. Goto(t, "enter", "load_inc") /\ UNCHANGED <<b, reg, noMemory>>
    BY <1>5 DEF Enter, locks, local
  <2> QED
    BY <2>1, CountUnchanged DEF CountedPcs
<1>6. CASE LoadInc(t)
  <2>1. Goto(t, "load_inc", "store_inc")
    BY <1>6 DEF LoadInc
  <2>2. Cardinality(Counted)' = Cardinality(Counted)
    BY <2>1, CountedStep DEF CountedPcs
  <2>3. b' = Cardinality(Counted)' + noMemory'
    BY <1>6, <2>1, <2>2, CountedFinite, BoundAssumption
       DEF LoadInc, shared, locks, local, Goto, TypeOK, ReaderCount
  <2> QED
    BY <1>6, <2>1, <2>3
       DEF LoadInc, shared, locks, local, Goto, TypeOK, ReaderMutex, ReaderCount,
           RPcs, EnterPcs, LeavePcs
<1>7. CASE StoreInc(t)
  <2>1. Goto(t, "store_inc", "test_first")
    BY <1>7 DEF StoreInc
  <2>2. Cardinality(Counted)' = Cardinality(Counted) + 1
    BY <2>1, CountedStep DEF CountedPcs
  <2>3. b' = Cardinality(Counted)' + noMemory'
    BY <1>7, <2>1, <2>2, CountedFinite, BoundAssumption
       DEF StoreInc, shared, locks, local, Goto, TypeOK, ReaderCount
  <2> QED
    BY <1>7, <2>1, <2>3
       DEF StoreInc, shared, locks, local, Goto, TypeOK, ReaderMutex, ReaderCount,
           RPcs, EnterPcs, LeavePcs
<1>8. CASE TestFirst(t)
  <2>1. /\ UNCHANGED <<b, reg, noMemory>>
        /\ Goto(t, "test_first", IF b = 1 THEN "lock_g" ELSE "entered")
    BY <1>8 DEF TestFirst, locks, local
  <2>2. Cardinality(Counted)' = Cardinality(Counted)
    BY <2>1, CountedStep DEF CountedPcs
  <2>3. b' = Cardinality(Counted)' + noMemory'
    BY <2>1, <2>2 DEF ReaderCount
  <2> QED
    BY <2>1, <2>3 DEF Goto, TypeOK, ReaderCount
<1>9. CASE FirstLocks(t)
  <2>1. Goto(t, "lock_g", "entered") /\ UNCHANGED <<b, reg, noMemory>>
    BY <1>9 DEF FirstLocks, locks, local
  <2> QED
    BY <2>1, CountUnchanged DEF CountedPcs
<1>10. CASE Entered(t)
  <2>1. Goto(t, "entered", "format") /\ UNCHANGED <<b, reg, noMemory>>
    BY <1>10 DEF Entered, locks, local
  <2> QED
    BY <2>1, CountUnchanged DEF CountedPcs
<1>11. CASE QueryNoMemory(t)
  <2>1. Goto(t, "format", "send")
    BY <1>11 DEF QueryNoMemory
  <2>2. Cardinality(Counted)' = Cardinality(Counted) - 1
    BY <2>1, CountedStep DEF CountedPcs
  <2>3. b' = Cardinality(Counted)' + noMemory'
    BY <1>11, <2>1, <2>2, CountedFinite, BoundAssumption
       DEF QueryNoMemory, shared, locks, local, Goto, TypeOK, ReaderCount
  <2> QED
    BY <1>11, <2>1, <2>3
       DEF QueryNoMemory, shared, locks, local, Goto, TypeOK, ReaderMutex, ReaderCount,
           RPcs, EnterPcs, LeavePcs
<1>12. CASE Format(t)
  <2>1. Goto(t, "format", "copy") /\ UNCHANGED <<b, reg, noMemory>>
    BY <1>12 DEF Format, locks, local
  <2> QED
    BY <2>1, CountUnchanged DEF CountedPcs
<1>13. CASE Copy(t)
  <2>1. Goto(t, "copy", "leave") /\ UNCHANGED <<b, reg, noMemory>>
    BY <1>13 DEF Copy, locks, local
  <2> QED
    BY <2>1, CountUnchanged DEF CountedPcs
<1>14. CASE Leave(t)
  <2>1. Goto(t, "leave", "load_dec") /\ UNCHANGED <<b, reg, noMemory>>
    BY <1>14 DEF Leave, locks, local
  <2> QED
    BY <2>1, CountUnchanged DEF CountedPcs
<1>15. CASE LoadDec(t)
  <2>1. Goto(t, "load_dec", "store_dec")
    BY <1>15 DEF LoadDec
  <2>2. Cardinality(Counted)' = Cardinality(Counted)
    BY <2>1, CountedStep DEF CountedPcs
  <2>3. b' = Cardinality(Counted)' + noMemory'
    BY <1>15, <2>1, <2>2, CountedFinite, BoundAssumption
       DEF LoadDec, shared, locks, local, Goto, TypeOK, ReaderCount
  <2> QED
    BY <1>15, <2>1, <2>3
       DEF LoadDec, shared, locks, local, Goto, TypeOK, ReaderMutex, ReaderCount,
           RPcs, EnterPcs, LeavePcs
<1>16. CASE StoreDec(t)
  <2>1. Goto(t, "store_dec", "test_last")
    BY <1>16 DEF StoreDec
  <2>2. Cardinality(Counted)' = Cardinality(Counted) - 1
    BY <2>1, CountedStep DEF CountedPcs
  <2>3. b' = Cardinality(Counted)' + noMemory'
    BY <1>16, <2>1, <2>2, CountedFinite, BoundAssumption
       DEF StoreDec, shared, locks, local, Goto, TypeOK, ReaderCount
  <2> QED
    BY <1>16, <2>1, <2>3
       DEF StoreDec, shared, locks, local, Goto, TypeOK, ReaderMutex, ReaderCount,
           RPcs, EnterPcs, LeavePcs
<1>17. CASE TestLast(t)
  <2>1. /\ UNCHANGED <<b, reg, noMemory>>
        /\ Goto(t, "test_last", IF b = 0 THEN "unlock_g" ELSE "left")
    BY <1>17 DEF TestLast, locks, local
  <2>2. Cardinality(Counted)' = Cardinality(Counted)
    BY <2>1, CountedStep DEF CountedPcs
  <2>3. b' = Cardinality(Counted)' + noMemory'
    BY <2>1, <2>2 DEF ReaderCount
  <2> QED
    BY <2>1, <2>3 DEF Goto, TypeOK, ReaderCount
<1>18. CASE LastUnlocks(t)
  <2>1. Goto(t, "unlock_g", "left") /\ UNCHANGED <<b, reg, noMemory>>
    BY <1>18 DEF LastUnlocks, locks, local
  <2> QED
    BY <2>1, CountUnchanged DEF CountedPcs
<1>19. CASE Left(t)
  <2>1. Goto(t, "left", "send") /\ UNCHANGED <<b, reg, noMemory>>
    BY <1>19 DEF Left, locks, local
  <2> QED
    BY <2>1, CountUnchanged DEF CountedPcs
<1>20. CASE Write(t)
  <2>1. Goto(t, "write", "erase") /\ UNCHANGED <<b, reg, noMemory>>
    BY <1>20 DEF Write, locks, local
  <2> QED
    BY <2>1, CountUnchanged DEF CountedPcs
<1>21. CASE Erase(t)
  <2>1. Goto(t, "erase", "set_mode") /\ UNCHANGED <<b, reg, noMemory>>
    BY <1>21 DEF Erase, locks, local
  <2> QED
    BY <2>1, CountUnchanged DEF CountedPcs
<1>22. CASE SetMode(t)
  <2>1. Goto(t, "set_mode", "set_length") /\ UNCHANGED <<b, reg, noMemory>>
    BY <1>22 DEF SetMode, locks, local
  <2> QED
    BY <2>1, CountUnchanged DEF CountedPcs
<1>23. CASE SetLength(t)
  <2>1. Goto(t, "set_length", "set_buffer") /\ UNCHANGED <<b, reg, noMemory>>
    BY <1>23 DEF SetLength, locks, local
  <2> QED
    BY <2>1, CountUnchanged DEF CountedPcs
<1>24. CASE SetBuffer(t)
  <2>1. Goto(t, "set_buffer", "fill") /\ UNCHANGED <<b, reg, noMemory>>
    BY <1>24 DEF SetBuffer, locks, local
  <2> QED
    BY <2>1, CountUnchanged DEF CountedPcs
<1>25. CASE Fill(t)
  <2>1. Goto(t, "fill", "written") /\ UNCHANGED <<b, reg, noMemory>>
    BY <1>25 DEF Fill, locks, local
  <2> QED
    BY <2>1, CountUnchanged DEF CountedPcs
<1>26. CASE Written(t)
  <2>1. Goto(t, "written", "send") /\ UNCHANGED <<b, reg, noMemory>>
    BY <1>26 DEF Written, locks, local
  <2> QED
    BY <2>1, CountUnchanged DEF CountedPcs
<1> QED
  BY <1>1, <1>2, <1>3, <1>4, <1>5, <1>6, <1>7, <1>8, <1>9, <1>10, <1>11, <1>12, <1>13,
     <1>14, <1>15, <1>16, <1>17, <1>18, <1>19, <1>20, <1>21, <1>22, <1>23, <1>24, <1>25, <1>26
     DEF Step, Receive, GetNEntry, EnterRead, LeaveRead, UpdateEntry

----------------------------------------------------------------------------
(* The group mutex *)

\* A writer takes the group mutex only when no group of readers has it.
LEMMA GroupMutexWrite ==
  ASSUME TypeOK, Roles, GroupMutex, NEW t \in Threads, Write(t)
  PROVE  GroupMutex'
<1>1. req[t].entry \in Entries
  BY RequestType DEF Write, Goto, WriterPcs
<1> QED
  BY <1>1 DEF Write, LockG, Goto, shared, locks, local, TypeOK, GroupMutex, Inside, InsidePcs, Queried, WritePcs, ErasePcs

\* A reader that is not the first one finds the group mutex locked.
LEMMA GroupMutexStoreInc ==
  ASSUME TypeOK, Roles, ReaderMutex, ReaderCount, GroupMutex, OneEntryQueried, NEW t \in Threads, StoreInc(t)
  PROVE  GroupMutex'
<1>1. b' = b + 1 /\ b \in Nat /\ t \notin Counted
  BY CountedOthers DEF StoreInc, Goto, ReaderCount, Counted, CountedPcs
<1>2. \A u \in Threads : u # t => pc[u] \notin RPcs
  BY DEF StoreInc, Goto, ReaderMutex, RPcs, EnterPcs
<1>3. b # 0 => noMemory > 0 \/ \E u \in Threads : u # t /\ Inside(u) /\ req[u].entry = req[t].entry
  <2>1. \A u \in Threads : u # t /\ pc[u] \in CountedPcs => pc[u] \in {"format", "copy", "leave"}
    BY <1>2 DEF CountedPcs, RPcs, EnterPcs, LeavePcs
  <2>2. \A u \in Threads : pc[u] \in {"format", "copy", "leave"} => Inside(u) /\ req[u].entry = req[t].entry
    BY RequestType, OneEntryQueried DEF OneEntryQueried, Inside, InsidePcs, ReaderPcs, RPcs, EnterPcs, ReadPcs, StoreInc, Goto
  <2> QED
    BY <1>1, <2>1, <2>2, CountedOthers
<1>4. \A u \in Threads : u # t => (Inside(u)' <=> Inside(u))
  BY <1>2 DEF StoreInc, Goto, TypeOK, Inside, RPcs, EnterPcs, LeavePcs
<1>5. req[t].entry \in Entries /\ Queried(req[t].entry)
  BY RequestType DEF StoreInc, Goto, ReaderPcs, RPcs, EnterPcs, Queried
<1>6. b # 0 => mutexg[req[t].entry]
  BY <1>3, <1>5 DEF GroupMutex
<1>7. Inside(t)' => b # 0
  BY <1>1 DEF StoreInc, Goto, TypeOK, Inside, InsidePcs
<1>8. ~ Inside(t)
  BY DEF StoreInc, Goto, Inside, InsidePcs
<1> QED
  BY <1>1, <1>4, <1>6, <1>7, <1>8 DEF StoreInc, Goto, shared, locks, local, TypeOK, GroupMutex, Queried, WritePcs, ErasePcs

\* A reader that is not the last one leaves another behind it.
LEMMA GroupMutexStoreDec ==
  ASSUME TypeOK, Roles, ReaderMutex, ReaderCount, GroupMutex, OneEntryQueried, NEW t \in Threads, StoreDec(t)
  PROVE  GroupMutex'
<1>1. b' = b - 1 /\ b \in Nat /\ t \in Counted
  BY CountedOthers DEF StoreDec, Goto, ReaderCount, Counted, CountedPcs
<1>2. \A u \in Threads : u # t => pc[u] \notin RPcs
  BY DEF StoreDec, Goto, ReaderMutex, RPcs, LeavePcs
<1>3. b # 1 => noMemory > 0 \/ \E u \in Threads : u # t /\ Inside(u) /\ req[u].entry = req[t].entry /\ pc[u] \in {"format", "copy", "leave"}
  <2>1. \A u \in Threads : u # t /\ pc[u] \in CountedPcs => pc[u] \in {"format", "copy", "leave"}
    BY <1>2 DEF CountedPcs, RPcs, EnterPcs, LeavePcs
  <2>2. \A u \in Threads : pc[u] \in {"format", "copy", "leave"} => Inside(u) /\ req[u].entry = req[t].entry
    BY RequestType, OneEntryQueried DEF OneEntryQueried, Inside, InsidePcs, ReaderPcs, RPcs, LeavePcs, ReadPcs, StoreDec, Goto
  <2> QED
    BY <1>1, <2>1, <2>2, CountedOthers
<1>4. \A u \in Threads : u # t => (Inside(u)' <=> Inside(u))
  BY <1>2 DEF StoreDec, Goto, TypeOK, Inside, RPcs, EnterPcs, LeavePcs
<1> QED
  BY <1>1, <1>3, <1>4 DEF StoreDec, Goto, shared, locks, local, TypeOK, GroupMutex, Inside, InsidePcs, Queried, WritePcs, ErasePcs

\* The last reader unlocks the group mutex when no other needs it.
LEMMA GroupMutexLastUnlocks ==
  ASSUME TypeOK, Roles, ReaderMutex, ReaderCount, GroupMutex, Exclusion, OneEntryQueried, NEW t \in Threads, LastUnlocks(t)
  PROVE  GroupMutex'
<1>1. b = 0 /\ noMemory = 0 /\ \A u \in Threads : pc[u] \notin CountedPcs
  BY CountedOthers DEF LastUnlocks, Goto, ReaderCount
<1>2. \A u \in Threads : u # t => ~ Inside(u)
  BY <1>1 DEF ReaderMutex, Inside, InsidePcs, CountedPcs, RPcs, EnterPcs, LeavePcs, LastUnlocks, Goto
<1>3. \A u \in Threads : pc[u] \in WritePcs => req[u].entry # req[t].entry
  BY DEF Exclusion, Inside, InsidePcs, LastUnlocks, Goto
<1> QED
  BY <1>1, <1>2, <1>3 DEF LastUnlocks, UnlockG, Goto, shared, locks, local, TypeOK, GroupMutex, Inside, InsidePcs, Queried, WritePcs, ErasePcs

\* The group mutex is locked for the readers together or for one writer.
LEMMA GroupMutexStep ==
  ASSUME TypeOK, Roles, ReaderMutex, ReaderCount,
         GroupMutex, Exclusion, OneEntryQueried, NEW t \in Threads, Step(t)
  PROVE  GroupMutex'
<1> USE DEF TypeOK, Roles, ReaderMutex, ReaderCount,
            GroupMutex, Exclusion, OneEntryQueried, Inside, Queried, Query,
            Goto, shared, locks, local, ReaderPcs, WriterPcs, CountedPcs, InsidePcs,
            ReadPcs, ErasePcs, WritePcs, EnterPcs, LeavePcs, RPcs
<1>1. CASE ReceiveQuery(t)
  BY <1>1 DEF ReceiveQuery
<1>2. CASE ReceiveUpdate(t)
  BY <1>2 DEF ReceiveUpdate
<1>3. CASE Send(t)
  BY <1>3 DEF Send
<1>4. CASE QueryMissing(t)
  BY <1>4 DEF QueryMissing
<1>5. CASE Enter(t)
  BY <1>5 DEF Enter, LockR
<1>6. CASE LoadInc(t)
  BY <1>6 DEF LoadInc
<1>7. CASE StoreInc(t)
  BY <1>7, GroupMutexStoreInc
<1>8. CASE TestFirst(t)
  BY <1>8 DEF TestFirst
<1>9. CASE FirstLocks(t)
  BY <1>9 DEF FirstLocks, LockG
<1>10. CASE Entered(t)
  BY <1>10 DEF Entered, UnlockR
<1>11. CASE QueryNoMemory(t)
  BY <1>11 DEF QueryNoMemory
<1>12. CASE Format(t)
  BY <1>12 DEF Format
<1>13. CASE Copy(t)
  BY <1>13 DEF Copy
<1>14. CASE Leave(t)
  BY <1>14 DEF Leave, LockR
<1>15. CASE LoadDec(t)
  BY <1>15 DEF LoadDec
<1>16. CASE StoreDec(t)
  BY <1>16, GroupMutexStoreDec
<1>17. CASE TestLast(t)
  BY <1>17 DEF TestLast
<1>18. CASE LastUnlocks(t)
  BY <1>18, GroupMutexLastUnlocks
<1>19. CASE Left(t)
  BY <1>19 DEF Left, UnlockR
<1>20. CASE Write(t)
  BY <1>20, GroupMutexWrite
<1>21. CASE Erase(t)
  BY <1>21 DEF Erase
<1>22. CASE SetMode(t)
  BY <1>22 DEF SetMode
<1>23. CASE SetLength(t)
  BY <1>23 DEF SetLength
<1>24. CASE SetBuffer(t)
  BY <1>24 DEF SetBuffer
<1>25. CASE Fill(t)
  BY <1>25 DEF Fill
<1>26. CASE Written(t)
  BY <1>26 DEF Written, UnlockG
<1> QED
  BY <1>1, <1>2, <1>3, <1>4, <1>5, <1>6, <1>7, <1>8, <1>9, <1>10, <1>11, <1>12, <1>13,
     <1>14, <1>15, <1>16, <1>17, <1>18, <1>19, <1>20, <1>21, <1>22, <1>23, <1>24, <1>25, <1>26
     DEF Step, Receive, GetNEntry, EnterRead, LeaveRead, UpdateEntry

----------------------------------------------------------------------------
(* Writers and readers exclude each other *)

\* A writer that gets in meets no reader and no other writer.
LEMMA ExclusionWrite ==
  ASSUME TypeOK, Roles, GroupMutex, Exclusion, NEW t \in Threads, Write(t)
  PROVE  Exclusion'
<1>1. req[t].entry \in Entries
  BY RequestType DEF Write, Goto, WriterPcs
<1>2. /\ ~ mutexg[req[t].entry]
      /\ \A u \in Threads : u # t => pc'[u] = pc[u]
      /\ pc[t] = "write" /\ pc'[t] = "erase"
      /\ b' = b /\ req' = req /\ noMemory' = noMemory
  BY DEF Write, LockG, Goto, locks, local, TypeOK
<1>3. \A u \in Threads : Inside(u)' <=> Inside(u)
  BY <1>2 DEF Inside, InsidePcs
<1>4. \A u \in Threads : Inside(u) \/ pc[u] \in WritePcs => req[u].entry # req[t].entry
  BY <1>2 DEF GroupMutex
<1>5. noMemory > 0 => ~ Queried(req[t].entry)
  BY <1>1, <1>2 DEF GroupMutex
<1> QED
  BY <1>2, <1>3, <1>4, <1>5 DEF Exclusion, WritePcs, ErasePcs, Queried

\* A reader that joins a group meets no writer.
LEMMA ExclusionStoreInc ==
  ASSUME TypeOK, Roles, ReaderMutex, ReaderCount, Exclusion, OneEntryQueried, NEW t \in Threads, StoreInc(t)
  PROVE  Exclusion'
<1>1. b' = b + 1 /\ b \in Nat /\ t \notin Counted
  BY CountedOthers DEF StoreInc, Goto, ReaderCount, Counted, CountedPcs
<1>2. \A u \in Threads : u # t => pc[u] \notin RPcs
  BY DEF StoreInc, Goto, ReaderMutex, RPcs, EnterPcs
<1>3. b # 0 => noMemory > 0 \/ \E u \in Threads : Inside(u) /\ req[u].entry = req[t].entry
  <2>1. \A u \in Threads : u # t /\ pc[u] \in CountedPcs => pc[u] \in {"format", "copy", "leave"}
    BY <1>2 DEF CountedPcs, RPcs, EnterPcs, LeavePcs
  <2>2. \A u \in Threads : pc[u] \in {"format", "copy", "leave"} => Inside(u) /\ req[u].entry = req[t].entry
    BY RequestType, OneEntryQueried DEF OneEntryQueried, Inside, InsidePcs, ReaderPcs, RPcs, EnterPcs, ReadPcs, StoreInc, Goto
  <2> QED
    BY <1>1, <2>1, <2>2, CountedOthers
<1>4. \A u \in Threads : u # t => (Inside(u)' <=> Inside(u))
  BY <1>2 DEF StoreInc, Goto, TypeOK, Inside, RPcs, EnterPcs, LeavePcs
<1>5. Queried(req[t].entry)
  BY RequestType DEF StoreInc, Goto, ReaderPcs, RPcs, EnterPcs, Queried
<1>6. b # 0 => \A u \in Threads : pc[u] \in WritePcs => req[u].entry # req[t].entry
  BY <1>3, <1>5 DEF Exclusion
<1>7. Inside(t)' => b # 0
  BY <1>1 DEF StoreInc, Goto, TypeOK, Inside, InsidePcs
<1> QED
  BY <1>4, <1>6, <1>7 DEF StoreInc, Goto, shared, TypeOK, Exclusion, Queried, WritePcs, ErasePcs

\* A reader that leaves for want of memory leaves the writers locked out.
LEMMA ExclusionNoMemory ==
  ASSUME TypeOK, Roles, Exclusion, OneEntryQueried, NEW t \in Threads, QueryNoMemory(t)
  PROVE  Exclusion'
<1>1. /\ Inside(t)
      /\ \A u \in Threads : u # t => pc'[u] = pc[u]
      /\ pc[t] = "format" /\ pc'[t] = "send"
      /\ b' = b /\ req' = req
  BY DEF QueryNoMemory, Goto, locks, TypeOK, Inside, InsidePcs
<1>2. req[t].entry \in Entries /\ req[t].entry \in QueryEntries
  BY <1>1, RequestType DEF ReaderPcs, ReadPcs
<1>3. \A u \in Threads : pc[u] \in WritePcs => req[u].entry # req[t].entry /\ req[u].entry \in Entries
  BY <1>1, RequestType DEF Exclusion, WriterPcs
<1>4. \A u \in Threads : pc[u] \in WritePcs => ~ Queried(req[u].entry)
  BY <1>2, <1>3 DEF OneEntryQueried, Queried
<1> QED
  BY <1>1, <1>4 DEF Exclusion, Inside, InsidePcs, WritePcs, ErasePcs, Queried

\* Every step keeps the writers of an entry apart from its readers.
LEMMA ExclusionStep ==
  ASSUME TypeOK, Roles, ReaderMutex, ReaderCount,
         GroupMutex, Exclusion, OneEntryQueried, NEW t \in Threads, Step(t)
  PROVE  Exclusion'
<1> USE DEF TypeOK, Roles, ReaderMutex, ReaderCount,
            GroupMutex, Exclusion, OneEntryQueried, Inside, Queried, Query,
            Goto, shared, locks, local, ReaderPcs, WriterPcs, CountedPcs, InsidePcs,
            ReadPcs, ErasePcs, WritePcs, EnterPcs, LeavePcs, RPcs
<1>1. CASE ReceiveQuery(t)
  BY <1>1 DEF ReceiveQuery
<1>2. CASE ReceiveUpdate(t)
  BY <1>2 DEF ReceiveUpdate
<1>3. CASE Send(t)
  BY <1>3 DEF Send
<1>4. CASE QueryMissing(t)
  BY <1>4 DEF QueryMissing
<1>5. CASE Enter(t)
  BY <1>5 DEF Enter, LockR
<1>6. CASE LoadInc(t)
  BY <1>6 DEF LoadInc
<1>7. CASE StoreInc(t)
  BY <1>7, ExclusionStoreInc
<1>8. CASE TestFirst(t)
  BY <1>8 DEF TestFirst
<1>9. CASE FirstLocks(t)
  BY <1>9 DEF FirstLocks, LockG
<1>10. CASE Entered(t)
  BY <1>10 DEF Entered, UnlockR
<1>11. CASE QueryNoMemory(t)
  BY <1>11, ExclusionNoMemory
<1>12. CASE Format(t)
  BY <1>12 DEF Format
<1>13. CASE Copy(t)
  BY <1>13 DEF Copy
<1>14. CASE Leave(t)
  BY <1>14 DEF Leave, LockR
<1>15. CASE LoadDec(t)
  BY <1>15 DEF LoadDec
<1>16. CASE StoreDec(t)
  BY <1>16 DEF StoreDec
<1>17. CASE TestLast(t)
  BY <1>17 DEF TestLast
<1>18. CASE LastUnlocks(t)
  BY <1>18 DEF LastUnlocks, UnlockG
<1>19. CASE Left(t)
  BY <1>19 DEF Left, UnlockR
<1>20. CASE Write(t)
  BY <1>20, ExclusionWrite
<1>21. CASE Erase(t)
  BY <1>21 DEF Erase
<1>22. CASE SetMode(t)
  BY <1>22 DEF SetMode
<1>23. CASE SetLength(t)
  BY <1>23 DEF SetLength
<1>24. CASE SetBuffer(t)
  BY <1>24 DEF SetBuffer
<1>25. CASE Fill(t)
  BY <1>25 DEF Fill
<1>26. CASE Written(t)
  BY <1>26 DEF Written, UnlockG
<1> QED
  BY <1>1, <1>2, <1>3, <1>4, <1>5, <1>6, <1>7, <1>8, <1>9, <1>10, <1>11, <1>12, <1>13,
     <1>14, <1>15, <1>16, <1>17, <1>18, <1>19, <1>20, <1>21, <1>22, <1>23, <1>24, <1>25, <1>26
     DEF Step, Receive, GetNEntry, EnterRead, LeaveRead, UpdateEntry

----------------------------------------------------------------------------
(* The data the mutexes protect *)

\* Every entry keeps a buffer of its own.
LEMMA OwnBuffersStep ==
  ASSUME TypeOK, Roles, OwnBuffers, NEW t \in Threads, Step(t)
  PROVE  OwnBuffers'
<1> USE DEF TypeOK, Roles, OwnBuffers, FreeBuffers, Goto, shared, locks, local,
            ReaderPcs, WriterPcs, ReadPcs, ErasePcs, WritePcs, EnterPcs, LeavePcs, RPcs
<1>1. CASE ReceiveQuery(t)
  BY <1>1 DEF ReceiveQuery
<1>2. CASE ReceiveUpdate(t)
  BY <1>2 DEF ReceiveUpdate
<1>3. CASE Send(t)
  BY <1>3 DEF Send
<1>4. CASE QueryMissing(t)
  BY <1>4 DEF QueryMissing
<1>5. CASE Enter(t)
  BY <1>5 DEF Enter, LockR
<1>6. CASE LoadInc(t)
  BY <1>6 DEF LoadInc
<1>7. CASE StoreInc(t)
  BY <1>7 DEF StoreInc
<1>8. CASE TestFirst(t)
  BY <1>8 DEF TestFirst
<1>9. CASE FirstLocks(t)
  BY <1>9 DEF FirstLocks, LockG
<1>10. CASE Entered(t)
  BY <1>10 DEF Entered, UnlockR
<1>11. CASE QueryNoMemory(t)
  BY <1>11 DEF QueryNoMemory
<1>12. CASE Format(t)
  BY <1>12 DEF Format
<1>13. CASE Copy(t)
  BY <1>13 DEF Copy
<1>14. CASE Leave(t)
  BY <1>14 DEF Leave, LockR
<1>15. CASE LoadDec(t)
  BY <1>15 DEF LoadDec
<1>16. CASE StoreDec(t)
  BY <1>16 DEF StoreDec
<1>17. CASE TestLast(t)
  BY <1>17 DEF TestLast
<1>18. CASE LastUnlocks(t)
  BY <1>18 DEF LastUnlocks, UnlockG
<1>19. CASE Left(t)
  BY <1>19 DEF Left, UnlockR
<1>20. CASE Write(t)
  BY <1>20 DEF Write, LockG
<1>21. CASE Erase(t)
  BY <1>21 DEF Erase
<1>22. CASE SetMode(t)
  BY <1>22 DEF SetMode
<1>23. CASE SetLength(t)
  BY <1>23 DEF SetLength
<1>24. CASE SetBuffer(t)
  BY <1>24 DEF SetBuffer
<1>25. CASE Fill(t)
  BY <1>25 DEF Fill
<1>26. CASE Written(t)
  BY <1>26 DEF Written, UnlockG
<1> QED
  BY <1>1, <1>2, <1>3, <1>4, <1>5, <1>6, <1>7, <1>8, <1>9, <1>10, <1>11, <1>12, <1>13,
     <1>14, <1>15, <1>16, <1>17, <1>18, <1>19, <1>20, <1>21, <1>22, <1>23, <1>24, <1>25, <1>26
     DEF Step, Receive, GetNEntry, EnterRead, LeaveRead, UpdateEntry

\* Clearing the text of an entry touches no other entry.
LEMMA WholeErase ==
  ASSUME TypeOK, Roles, Exclusion, OwnBuffers, WholeEntries, NEW t \in Threads, Erase(t)
  PROVE  WholeEntries'
<1> DEFINE w == req[t].entry
<1>1. w \in Entries
  BY RequestType DEF Erase, Goto, WriterPcs, WritePcs
<1>2. /\ \A u \in Threads : u # t => pc'[u] = pc[u]
      /\ pc[t] = "erase" /\ pc'[t] = "set_mode"
      /\ req' = req /\ entries' = entries
      /\ heap' = [heap EXCEPT ![entries[w].entry] = Blank]
  BY DEF Erase, Goto, locks, local, TypeOK
<1>3. \A e \in Entries \ {w} : heap'[entries[e].entry] = heap[entries[e].entry]
  BY <1>1, <1>2 DEF OwnBuffers, TypeOK, Held
<1>4. \A e \in Entries \ {w} : entries'[e] = entries[e]
  BY <1>2
<1> QED
  BY <1>1, <1>2, <1>3, <1>4 DEF WholeEntries, PartialPcs

\* Storing the mode of an entry touches no other entry.
LEMMA WholeSetMode ==
  ASSUME TypeOK, Roles, Exclusion, OwnBuffers, WholeEntries, NEW t \in Threads, SetMode(t)
  PROVE  WholeEntries'
<1> DEFINE w == req[t].entry
<1>1. w \in Entries
  BY RequestType DEF SetMode, Goto, WriterPcs, WritePcs, ErasePcs
<1>2. /\ \A u \in Threads : u # t => pc'[u] = pc[u]
      /\ pc[t] = "set_mode" /\ pc'[t] = "set_length"
      /\ req' = req /\ heap' = heap
      /\ entries' = [entries EXCEPT ![w].mode = req[t].value]
  BY DEF SetMode, Goto, locks, local, TypeOK
<1>3. /\ \A e \in Entries \ {w} : entries'[e] = entries[e]
      /\ entries'[w].mode = req[t].value
  BY <1>1, <1>2 DEF TypeOK, Held
<1>4. \A u \in Threads : pc[u] \in ErasePcs /\ u # t => req[u].entry # w
  BY <1>2 DEF Exclusion, WritePcs, ErasePcs
<1>5. \A u \in Threads : pc[u] \in ErasePcs => req[u].entry \in Entries
  BY RequestType DEF WriterPcs, WritePcs
<1> QED
  BY <1>1, <1>2, <1>3, <1>4, <1>5 DEF WholeEntries, PartialPcs, ErasePcs

\* Storing the length of an entry touches no other entry.
LEMMA WholeSetLength ==
  ASSUME TypeOK, Roles, Exclusion, OwnBuffers, WholeEntries, NEW t \in Threads, SetLength(t)
  PROVE  WholeEntries'
<1> DEFINE w == req[t].entry
<1>1. w \in Entries
  BY RequestType DEF SetLength, Goto, WriterPcs, WritePcs, ErasePcs
<1>2. /\ \A u \in Threads : u # t => pc'[u] = pc[u]
      /\ pc[t] = "set_length" /\ pc'[t] = "set_buffer"
      /\ req' = req /\ heap' = heap
      /\ entries' = [entries EXCEPT ![w].length = req[t].value]
  BY DEF SetLength, Goto, locks, local, TypeOK
<1>3. /\ \A e \in Entries \ {w} : entries'[e] = entries[e]
      /\ entries'[w].length = req[t].value
      /\ entries'[w].mode = entries[w].mode
  BY <1>1, <1>2 DEF TypeOK, Held
<1>4. \A u \in Threads : pc[u] \in ErasePcs /\ u # t => req[u].entry # w
  BY <1>2 DEF Exclusion, WritePcs, ErasePcs
<1>5. \A u \in Threads : pc[u] \in ErasePcs => req[u].entry \in Entries
  BY RequestType DEF WriterPcs, WritePcs
<1> QED
  BY <1>1, <1>2, <1>3, <1>4, <1>5 DEF WholeEntries, PartialPcs, ErasePcs

\* Filling the new text completes the entry and touches no other.
LEMMA WholeFill ==
  ASSUME TypeOK, Roles, Exclusion, OwnBuffers, WholeEntries, NEW t \in Threads, Fill(t)
  PROVE  WholeEntries'
<1> DEFINE w == req[t].entry
<1>1. w \in Entries
  BY RequestType DEF Fill, Goto, WriterPcs, WritePcs, ErasePcs
<1>2. /\ \A u \in Threads : u # t => pc'[u] = pc[u]
      /\ pc[t] = "fill" /\ pc'[t] = "written"
      /\ req' = req /\ entries' = entries
      /\ heap' = [heap EXCEPT ![entries[w].entry] = req[t].value]
  BY DEF Fill, Goto, locks, local, TypeOK
<1>3. /\ \A e \in Entries \ {w} : heap'[entries[e].entry] = heap[entries[e].entry]
      /\ heap'[entries[w].entry] = req[t].value
  BY <1>1, <1>2 DEF OwnBuffers, TypeOK, Held
<1>4. \A u \in Threads : pc[u] \in PartialPcs /\ u # t => req[u].entry # w
  BY <1>2 DEF Exclusion, PartialPcs, WritePcs, ErasePcs
<1> QED
  BY <1>1, <1>2, <1>3, <1>4 DEF WholeEntries, PartialPcs

\* An entry no writer is half-way through is whole.
LEMMA WholeEntriesStep ==
  ASSUME TypeOK, Roles, Exclusion, OwnBuffers, WholeEntries, NEW t \in Threads, Step(t)
  PROVE  WholeEntries'
<1> USE DEF TypeOK, Roles, Exclusion, OwnBuffers, WholeEntries, FreeBuffers, Goto,
            shared, locks, local, ReaderPcs, WriterPcs, PartialPcs,
            ReadPcs, ErasePcs, WritePcs, EnterPcs, LeavePcs, RPcs
<1>1. CASE ReceiveQuery(t)
  BY <1>1 DEF ReceiveQuery
<1>2. CASE ReceiveUpdate(t)
  BY <1>2 DEF ReceiveUpdate
<1>3. CASE Send(t)
  BY <1>3 DEF Send
<1>4. CASE QueryMissing(t)
  BY <1>4 DEF QueryMissing
<1>5. CASE Enter(t)
  BY <1>5 DEF Enter, LockR
<1>6. CASE LoadInc(t)
  BY <1>6 DEF LoadInc
<1>7. CASE StoreInc(t)
  BY <1>7 DEF StoreInc
<1>8. CASE TestFirst(t)
  BY <1>8 DEF TestFirst
<1>9. CASE FirstLocks(t)
  BY <1>9 DEF FirstLocks, LockG
<1>10. CASE Entered(t)
  BY <1>10 DEF Entered, UnlockR
<1>11. CASE QueryNoMemory(t)
  BY <1>11 DEF QueryNoMemory
<1>12. CASE Format(t)
  BY <1>12 DEF Format
<1>13. CASE Copy(t)
  BY <1>13 DEF Copy
<1>14. CASE Leave(t)
  BY <1>14 DEF Leave, LockR
<1>15. CASE LoadDec(t)
  BY <1>15 DEF LoadDec
<1>16. CASE StoreDec(t)
  BY <1>16 DEF StoreDec
<1>17. CASE TestLast(t)
  BY <1>17 DEF TestLast
<1>18. CASE LastUnlocks(t)
  BY <1>18 DEF LastUnlocks, UnlockG
<1>19. CASE Left(t)
  BY <1>19 DEF Left, UnlockR
<1>20. CASE Write(t)
  BY <1>20 DEF Write, LockG
<1>21. CASE Erase(t)
  BY <1>21, WholeErase
<1>22. CASE SetMode(t)
  BY <1>22, WholeSetMode
<1>23. CASE SetLength(t)
  BY <1>23, WholeSetLength
<1>24. CASE SetBuffer(t)
  BY <1>24 DEF SetBuffer
<1>25. CASE Fill(t)
  BY <1>25, WholeFill
<1>26. CASE Written(t)
  BY <1>26 DEF Written, UnlockG
<1> QED
  BY <1>1, <1>2, <1>3, <1>4, <1>5, <1>6, <1>7, <1>8, <1>9, <1>10, <1>11, <1>12, <1>13,
     <1>14, <1>15, <1>16, <1>17, <1>18, <1>19, <1>20, <1>21, <1>22, <1>23, <1>24, <1>25, <1>26
     DEF Step, Receive, GetNEntry, EnterRead, LeaveRead, UpdateEntry

\* getNEntry loads the entry that was asked for.
LEMMA LoadedFormat ==
  ASSUME TypeOK, Roles, CharIsEnough, Loaded, NEW t \in Threads, Format(t)
  PROVE  Loaded'
<1>1. Fished(req[t].entry) = req[t].entry
  BY RequestType, FishedIsAsked DEF Format, Goto, ReaderPcs, ReadPcs
<1> QED
  BY <1>1 DEF Format, Goto, shared, locks, TypeOK, Loaded

\* What a reader has loaded is not changed under it.
LEMMA LoadedStep ==
  ASSUME TypeOK, Roles, CharIsEnough, Exclusion, Loaded, NEW t \in Threads, Step(t)
  PROVE  Loaded'
<1> USE DEF TypeOK, Roles, Exclusion, Loaded, Inside, InsidePcs, Goto, shared, locks, local,
            ReaderPcs, WriterPcs, ReadPcs, ErasePcs, WritePcs, EnterPcs, LeavePcs, RPcs
<1>1. CASE ReceiveQuery(t)
  BY <1>1 DEF ReceiveQuery
<1>2. CASE ReceiveUpdate(t)
  BY <1>2 DEF ReceiveUpdate
<1>3. CASE Send(t)
  BY <1>3 DEF Send
<1>4. CASE QueryMissing(t)
  BY <1>4 DEF QueryMissing
<1>5. CASE Enter(t)
  BY <1>5 DEF Enter, LockR
<1>6. CASE LoadInc(t)
  BY <1>6 DEF LoadInc
<1>7. CASE StoreInc(t)
  BY <1>7 DEF StoreInc
<1>8. CASE TestFirst(t)
  BY <1>8 DEF TestFirst
<1>9. CASE FirstLocks(t)
  BY <1>9 DEF FirstLocks, LockG
<1>10. CASE Entered(t)
  BY <1>10 DEF Entered, UnlockR
<1>11. CASE QueryNoMemory(t)
  BY <1>11 DEF QueryNoMemory
<1>12. CASE Format(t)
  BY <1>12, LoadedFormat
<1>13. CASE Copy(t)
  BY <1>13 DEF Copy
<1>14. CASE Leave(t)
  BY <1>14 DEF Leave, LockR
<1>15. CASE LoadDec(t)
  BY <1>15 DEF LoadDec
<1>16. CASE StoreDec(t)
  BY <1>16 DEF StoreDec
<1>17. CASE TestLast(t)
  BY <1>17 DEF TestLast
<1>18. CASE LastUnlocks(t)
  BY <1>18 DEF LastUnlocks, UnlockG
<1>19. CASE Left(t)
  BY <1>19 DEF Left, UnlockR
<1>20. CASE Write(t)
  BY <1>20 DEF Write, LockG
<1>21. CASE Erase(t)
  BY <1>21 DEF Erase
<1>22. CASE SetMode(t)
  BY <1>22 DEF SetMode
<1>23. CASE SetLength(t)
  BY <1>23 DEF SetLength
<1>24. CASE SetBuffer(t)
  BY <1>24 DEF SetBuffer
<1>25. CASE Fill(t)
  BY <1>25 DEF Fill
<1>26. CASE Written(t)
  BY <1>26 DEF Written, UnlockG
<1> QED
  BY <1>1, <1>2, <1>3, <1>4, <1>5, <1>6, <1>7, <1>8, <1>9, <1>10, <1>11, <1>12, <1>13,
     <1>14, <1>15, <1>16, <1>17, <1>18, <1>19, <1>20, <1>21, <1>22, <1>23, <1>24, <1>25, <1>26
     DEF Step, Receive, GetNEntry, EnterRead, LeaveRead, UpdateEntry

\* The reply a reader builds is a whole message of the entry asked for.
LEMMA ReplyCopy ==
  ASSUME TypeOK, Roles, CharIsEnough, Exclusion, WholeEntries, Loaded, ReplyConsistent, NEW t \in Threads, Copy(t)
  PROVE  ReplyConsistent'
<1> DEFINE e == req[t].entry
<1>1. e \in Entries /\ Fished(e) = e
  BY RequestType, FishedIsAsked DEF Copy, Goto, ReaderPcs, ReadPcs
<1>2. pc[t] = "copy" /\ Inside(t) /\ got[t] = entries[e]
  BY DEF Copy, Goto, Inside, InsidePcs, Loaded
<1>3. \A u \in Threads : pc[u] \in PartialPcs => req[u].entry # e
  BY <1>2 DEF Exclusion, PartialPcs, WritePcs, ErasePcs
<1>4. /\ entries[e].mode = heap[entries[e].entry]
      /\ entries[e].length = heap[entries[e].entry]
  BY <1>1, <1>3 DEF WholeEntries
<1>5. /\ reply' = [reply EXCEPT ![t] = [status |-> "entry", number |-> e,
                                       mode |-> got[t].mode, length |-> got[t].length,
                                       text |-> heap[got[t].entry]]]
      /\ req' = req
  BY <1>1 DEF Copy, locks
<1> QED
  BY <1>2, <1>4, <1>5 DEF ReplyConsistent, TypeOK

\* Replies stay what they were built to be.
LEMMA ReplyStep ==
  ASSUME TypeOK, Roles, CharIsEnough, Exclusion, WholeEntries, Loaded,
         ReplyConsistent, NEW t \in Threads, Step(t)
  PROVE  ReplyConsistent'
<1> USE DEF TypeOK, Roles, ReplyConsistent, Status, NoReply, Goto, shared, locks, local,
            ReaderPcs, WriterPcs, AnsweredPcs, ReadPcs, ErasePcs, WritePcs, EnterPcs, LeavePcs, RPcs
<1>1. CASE ReceiveQuery(t)
  BY <1>1 DEF ReceiveQuery
<1>2. CASE ReceiveUpdate(t)
  BY <1>2 DEF ReceiveUpdate
<1>3. CASE Send(t)
  BY <1>3 DEF Send
<1>4. CASE QueryMissing(t)
  BY <1>4 DEF QueryMissing
<1>5. CASE Enter(t)
  BY <1>5 DEF Enter, LockR
<1>6. CASE LoadInc(t)
  BY <1>6 DEF LoadInc
<1>7. CASE StoreInc(t)
  BY <1>7 DEF StoreInc
<1>8. CASE TestFirst(t)
  BY <1>8 DEF TestFirst
<1>9. CASE FirstLocks(t)
  BY <1>9 DEF FirstLocks, LockG
<1>10. CASE Entered(t)
  BY <1>10 DEF Entered, UnlockR
<1>11. CASE QueryNoMemory(t)
  BY <1>11 DEF QueryNoMemory
<1>12. CASE Format(t)
  BY <1>12 DEF Format
<1>13. CASE Copy(t)
  BY <1>13, ReplyCopy
<1>14. CASE Leave(t)
  BY <1>14 DEF Leave, LockR
<1>15. CASE LoadDec(t)
  BY <1>15 DEF LoadDec
<1>16. CASE StoreDec(t)
  BY <1>16 DEF StoreDec
<1>17. CASE TestLast(t)
  BY <1>17 DEF TestLast
<1>18. CASE LastUnlocks(t)
  BY <1>18 DEF LastUnlocks, UnlockG
<1>19. CASE Left(t)
  BY <1>19 DEF Left, UnlockR
<1>20. CASE Write(t)
  BY <1>20 DEF Write, LockG
<1>21. CASE Erase(t)
  BY <1>21 DEF Erase
<1>22. CASE SetMode(t)
  BY <1>22 DEF SetMode
<1>23. CASE SetLength(t)
  BY <1>23 DEF SetLength
<1>24. CASE SetBuffer(t)
  BY <1>24 DEF SetBuffer
<1>25. CASE Fill(t)
  BY <1>25 DEF Fill
<1>26. CASE Written(t)
  BY <1>26 DEF Written, UnlockG
<1> QED
  BY <1>1, <1>2, <1>3, <1>4, <1>5, <1>6, <1>7, <1>8, <1>9, <1>10, <1>11, <1>12, <1>13,
     <1>14, <1>15, <1>16, <1>17, <1>18, <1>19, <1>20, <1>21, <1>22, <1>23, <1>24, <1>25, <1>26
     DEF Step, Receive, GetNEntry, EnterRead, LeaveRead, UpdateEntry

----------------------------------------------------------------------------
(* The theorems *)

\* The blank board with no thread at work satisfies the invariant.
LEMMA InvariantInit ==
  ASSUME Init
  PROVE  IInv
<1> USE DEF Init
<1>1. TypeOK
  BY TypeInit
<1>2. Roles
  BY DEF Roles, NoReply, Status, ReaderPcs, WriterPcs, AnsweredPcs, ReadPcs,
         WritePcs, ErasePcs, EnterPcs, LeavePcs, RPcs
<1>3. Counted = {}
  BY DEF Counted, CountedPcs
<1>4. ReaderCount
  BY <1>3, FS_EmptySet DEF ReaderCount
<1>5. ReaderMutex /\ GroupMutex /\ Exclusion
  BY DEF ReaderMutex, GroupMutex, Exclusion, RPcs, EnterPcs, LeavePcs,
         WritePcs, ErasePcs, Inside, InsidePcs
<1>6. OwnBuffers /\ WholeEntries /\ Loaded
  BY FirstEntry DEF OwnBuffers, WholeEntries, Loaded, Empty
<1>7. ReplyConsistent
  BY DEF ReplyConsistent, NoReply, Status
<1> QED
  BY <1>1, <1>2, <1>4, <1>5, <1>6, <1>7 DEF IInv

\* Every step keeps the invariant.
LEMMA InvariantNext ==
  ASSUME IInv, OneEntryQueried, CharIsEnough, [Next]_vars
  PROVE  IInv'
<1> USE DEF IInv
<1>1. ASSUME NEW t \in Threads, Step(t) PROVE IInv'
  <2>1. TypeOK'
    BY <1>1, TypeNext DEF Next
  <2>2. Roles'
    BY <1>1, RolesStep
  <2>3. ReaderMutex' /\ ReaderCount'
    BY <1>1, ReaderMutexStep, ReaderCountStep
  <2>4. GroupMutex' /\ Exclusion'
    BY <1>1, GroupMutexStep, ExclusionStep
  <2>5. OwnBuffers' /\ WholeEntries' /\ Loaded'
    BY <1>1, OwnBuffersStep, WholeEntriesStep, LoadedStep
  <2>6. ReplyConsistent'
    BY <1>1, ReplyStep
  <2> QED
    BY <2>1, <2>2, <2>3, <2>4, <2>5, <2>6
<1>2. CASE UNCHANGED vars
  BY <1>2 DEF vars, TypeOK, Roles, ReaderMutex, ReaderCount, Counted, GroupMutex,
              Exclusion, Inside, OwnBuffers, WholeEntries, Loaded, ReplyConsistent
<1> QED
  BY <1>1, <1>2 DEF Next

\* The invariant holds of every behaviour of a board of at most 256 entries on
\* which clients query one entry.
THEOREM Invariance ==
  ASSUME OneEntryQueried, CharIsEnough
  PROVE  Spec => []IInv
<1>1. Init => IInv
  BY InvariantInit
<1>2. IInv /\ [Next]_vars => IInv'
  BY InvariantNext
<1> QED
  BY <1>1, <1>2, PTL DEF Spec

\* The types of the variables.
THEOREM TypeCorrect ==
  ASSUME OneEntryQueried, CharIsEnough
  PROVE  Spec => []TypeOK
<1>1. IInv => TypeOK
  BY DEF IInv
<1> QED
  BY <1>1, Invariance, PTL

\* updateEntry never changes an entry that a getNEntry reads or that another
\* updateEntry changes, however many threads there are.
THEOREM UpdatesExclusive ==
  ASSUME OneEntryQueried, CharIsEnough
  PROVE  Spec => []MutualExclusion
<1>1. IInv => MutualExclusion
  <2> SUFFICES ASSUME IInv PROVE MutualExclusion
    OBVIOUS
  <2>1. \A u \in Threads : pc[u] \in ReadPcs => Fished(req[u].entry) = req[u].entry /\ Inside(u)
    BY RequestType, FishedIsAsked DEF IInv, ReaderPcs, ReadPcs, Inside, InsidePcs
  <2> QED
    BY <2>1 DEF IInv, Exclusion, MutualExclusion, Reads, Writes
<1> QED
  BY <1>1, Invariance, PTL

\* Every answer to a query is one message, of the entry that was asked for.
THEOREM RepliesConsistent ==
  ASSUME OneEntryQueried, CharIsEnough
  PROVE  Spec => []ReplyConsistent
<1>1. IInv => ReplyConsistent
  BY DEF IInv
<1> QED
  BY <1>1, Invariance, PTL

\* Calls that all have returned leave no mutex locked and nobody counted.
THEOREM LocksAllReturned ==
  ASSUME OneEntryQueried, CharIsEnough
  PROVE  Spec => []LocksReturned
<1>1. IInv => LocksReturned
  <2> SUFFICES ASSUME IInv, noMemory = 0, \A t \in Threads : pc[t] \in {"idle", "send"}
               PROVE  b = 0 /\ \A e \in Entries : ~ mutexg[e] /\ ~ mutexr[e]
    BY DEF LocksReturned
  <2>1. Counted = {} /\ Cardinality(Counted) = 0
    BY FS_EmptySet DEF Counted, CountedPcs
  <2>2. b = 0
    BY <2>1 DEF IInv, ReaderCount
  <2> QED
    BY <2>2 DEF IInv, ReaderMutex, GroupMutex, Inside, InsidePcs, WritePcs, ErasePcs,
                RPcs, EnterPcs, LeavePcs
<1> QED
  BY <1>1, Invariance, PTL

----------------------------------------------------------------------------
(* EntryLock implements Whiteboard *)


\* An entry being updated has one updater, and the board shows its message;
\* any other entry shows the text its pointer leads to.
LEMMA BoardAt ==
  ASSUME IInv, NEW e \in Entries
  PROVE  /\ \A u \in Updaters(e) : boardBar[e] = req[u].value
         /\ Updaters(e) = {} => boardBar[e] = heap[entries[e].entry]
<1>1. ASSUME NEW u \in Updaters(e) PROVE Updaters(e) = {u}
  BY <1>1 DEF IInv, Exclusion, Updaters, WritePcs
<1>2. ASSUME NEW u \in Updaters(e) PROVE boardBar[e] = req[u].value
  <2>1. (CHOOSE t \in Updaters(e) : TRUE) = u
    BY <1>1, <1>2
  <2> QED
    BY <1>2, <2>1 DEF boardBar
<1> QED
  BY <1>2 DEF boardBar

\* The same of the state after a step.
LEMMA BoardAtNext ==
  ASSUME IInv', NEW e \in Entries
  PROVE  /\ \A u \in Updaters(e)' : boardBar'[e] = req'[u].value
         /\ Updaters(e)' = {} => boardBar'[e] = heap'[entries'[e].entry]
<1>1. ASSUME NEW u \in Updaters(e)' PROVE Updaters(e)' = {u}
  BY <1>1 DEF IInv, Exclusion, Updaters, WritePcs
<1>2. ASSUME NEW u \in Updaters(e)' PROVE boardBar'[e] = req'[u].value
  <2>1. (CHOOSE t \in Updaters(e)' : TRUE) = u
    BY <1>1, <1>2
  <2> QED
    BY <1>2, <2>1 DEF boardBar
<1> QED
  BY <1>2 DEF boardBar

\* The board of a step that neither starts nor ends an update, nor changes the
\* text of an entry outside one.
LEMMA BoardStutters ==
  ASSUME IInv, IInv',
         \A u \in Threads : pc'[u] \in ErasePcs <=> pc[u] \in ErasePcs,
         \A u \in Threads : pc[u] \in ErasePcs => req'[u] = req[u],
         \A e \in Entries : Updaters(e) = {}
                              => heap'[entries'[e].entry] = heap[entries[e].entry]
  PROVE  boardBar' = boardBar
<1>1. ASSUME NEW e \in Entries PROVE boardBar'[e] = boardBar[e]
  <2>1. Updaters(e)' = Updaters(e)
    BY DEF Updaters
  <2>2. CASE Updaters(e) = {}
    BY <2>1, <2>2, BoardAt, BoardAtNext
  <2>3. ASSUME NEW u \in Updaters(e) PROVE boardBar'[e] = boardBar[e]
    <3>1. req'[u] = req[u]
      BY <2>3 DEF Updaters
    <3> QED
      BY <2>1, <2>3, <3>1, BoardAt, BoardAtNext
  <2> QED
    BY <2>2, <2>3
<1> QED
  BY <1>1 DEF boardBar

\* A step that is an update neither before nor after, and leaves the reply and
\* the request of its thread alone, is a stuttering step of the board.
LEMMA Stutters ==
  ASSUME IInv, IInv', NEW t \in Threads, NEW from, NEW to, Goto(t, from, to),
         from \notin ErasePcs, to \notin ErasePcs, req' = req, reply' = reply,
         \A e \in Entries : Updaters(e) = {}
                              => heap'[entries'[e].entry] = heap[entries[e].entry]
  PROVE  UNCHANGED WB!vars
<1>1. \A u \in Threads : pc'[u] \in ErasePcs <=> pc[u] \in ErasePcs
  BY DEF Goto, IInv, TypeOK
<1>2. boardBar' = boardBar
  BY <1>1, BoardStutters
<1>3. answerBar' = answerBar
  BY <1>1 DEF answerBar
<1> QED
  BY <1>2, <1>3 DEF WB!vars

\* Entering and leaving getNEntry, and waiting for updateEntry's turn, is not
\* seen on the board.
LEMMA LockingStutters ==
  ASSUME IInv, IInv', NEW t \in Threads,
         EnterRead(t) \/ Format(t) \/ LeaveRead(t) \/ Write(t)
  PROVE  UNCHANGED WB!vars
<1>1. /\ UNCHANGED <<entries, heap, req, reply>>
      /\ \E from, to \in Pcs \ ErasePcs : Goto(t, from, to)
  <2> USE DEF shared, locks, local, Pcs, ReadPcs, WritePcs, ErasePcs, EnterPcs, LeavePcs
  <2>1. CASE EnterRead(t)
    BY <2>1 DEF EnterRead, Enter, LoadInc, StoreInc, TestFirst, FirstLocks, Entered
  <2>2. CASE Format(t)
    BY <2>2 DEF Format
  <2>3. CASE LeaveRead(t)
    BY <2>3 DEF LeaveRead, Leave, LoadDec, StoreDec, TestLast, LastUnlocks, Left
  <2>4. CASE Write(t)
    BY <2>4 DEF Write
  <2> QED
    BY <2>1, <2>2, <2>3, <2>4
<1>2. PICK from, to \in Pcs \ ErasePcs : Goto(t, from, to)
  BY <1>1
<1> QED
  BY <1>1, <1>2, Stutters

\* Storing the fields of an entry that is being updated is not seen either.
LEMMA StoringStutters ==
  ASSUME IInv, IInv', NEW t \in Threads,
         SetMode(t) \/ SetLength(t) \/ SetBuffer(t) \/ Fill(t)
  PROVE  UNCHANGED WB!vars
<1> DEFINE w == req[t].entry
<1>1. /\ pc[t] \in ErasePcs /\ pc'[t] \in ErasePcs
      /\ \A u \in Threads : u # t => pc'[u] = pc[u]
      /\ req' = req /\ reply' = reply
  BY DEF SetMode, SetLength, SetBuffer, Fill, Goto, locks, local, IInv, TypeOK, ErasePcs
<1>2. w \in Entries /\ t \in Updaters(w)
  BY <1>1, RequestType DEF IInv, WriterPcs, WritePcs, Updaters
<1>3. \A e \in Entries \ {w} : heap'[entries'[e].entry] = heap[entries[e].entry]
  <2> USE <1>2 DEF IInv, TypeOK, OwnBuffers, Held
  <2>1. CASE SetMode(t)
    BY <2>1 DEF SetMode
  <2>2. CASE SetLength(t)
    BY <2>2 DEF SetLength
  <2>3. CASE SetBuffer(t)
    BY <2>3 DEF SetBuffer, FreeBuffers
  <2>4. CASE Fill(t)
    BY <2>4 DEF Fill
  <2> QED
    BY <2>1, <2>2, <2>3, <2>4
<1>4. boardBar' = boardBar
  BY <1>1, <1>2, <1>3, BoardStutters
<1>5. answerBar' = answerBar
  BY <1>1 DEF answerBar
<1> QED
  BY <1>1, <1>4, <1>5 DEF WB!vars

\* A thread that has written an entry shows the client what it has shown since
\* it started.
LEMMA WrittenStutters ==
  ASSUME IInv, IInv', NEW t \in Threads, Written(t)
  PROVE  UNCHANGED WB!vars
<1> DEFINE w == req[t].entry
<1>1. /\ pc[t] = "written" /\ pc'[t] = "send"
      /\ \A u \in Threads : u # t => pc'[u] = pc[u]
      /\ UNCHANGED <<entries, heap, req>>
      /\ reply' = [reply EXCEPT ![t] = Status("updated", w)]
  BY DEF Written, Goto, shared, IInv, TypeOK
<1>2. w \in Entries /\ t \in Updaters(w)
  BY <1>1, RequestType DEF IInv, WriterPcs, WritePcs, ErasePcs, Updaters
<1>3. heap[entries[w].entry] = req[t].value
  <2>1. \A u \in Threads : pc[u] \in PartialPcs => req[u].entry # w
    BY <1>1 DEF IInv, Exclusion, PartialPcs, WritePcs, ErasePcs
  <2> QED
    BY <1>1, <1>2, <2>1 DEF IInv, WholeEntries
<1>4. ASSUME NEW e \in Entries PROVE boardBar'[e] = boardBar[e]
  <2>1. CASE e = w
    <3>1. Updaters(e)' = {}
      BY <1>1, <2>1 DEF IInv, Exclusion, Updaters, WritePcs, ErasePcs
    <3> QED
      BY <1>1, <1>2, <1>3, <2>1, <3>1, BoardAt, BoardAtNext
  <2>2. CASE e # w
    <3>1. Updaters(e)' = Updaters(e)
      BY <1>1, <2>2 DEF Updaters, ErasePcs
    <3> QED
      BY <1>1, <3>1, BoardAt, BoardAtNext
  <2> QED
    BY <2>1, <2>2
<1>5. boardBar' = boardBar
  BY <1>4 DEF boardBar
<1>6. answerBar' = answerBar
  BY <1>1 DEF answerBar, IInv, TypeOK, ErasePcs
<1> QED
  BY <1>1, <1>5, <1>6 DEF WB!vars

\* A request is asked.
LEMMA ReceiveAsks ==
  ASSUME IInv, IInv', NEW t \in Threads, Receive(t)
  PROVE  WB!Ask(t)
<1>1. /\ pc[t] = "idle" /\ pc'[t] \in {"missing", "enter", "write"}
      /\ \A u \in Threads : u # t => pc'[u] = pc[u]
      /\ UNCHANGED <<entries, heap, reply>>
      /\ \E r \in Query \cup Update : req' = [req EXCEPT ![t] = r]
  BY DEF Receive, ReceiveQuery, ReceiveUpdate, Goto, shared, IInv, TypeOK
<1>2. \A u \in Threads : pc'[u] \in ErasePcs <=> pc[u] \in ErasePcs
  BY <1>1 DEF ErasePcs
<1>3. \A u \in Threads : pc[u] \in ErasePcs => req'[u] = req[u]
  BY <1>1 DEF ErasePcs
<1>4. boardBar' = boardBar
  BY <1>1, <1>2, <1>3, BoardStutters
<1>5. answerBar' = answerBar
  BY <1>1, <1>2, <1>3 DEF answerBar
<1>6. req[t] = NoRequest
  BY <1>1 DEF IInv, Roles
<1> QED
  BY <1>1, <1>4, <1>5, <1>6
     DEF WB!Ask, WB!Query, WB!Update, WB!NoRequest, WB!Entries,
         Query, Update, NoRequest, Entries

\* The reply is delivered.
LEMMA SendDelivers ==
  ASSUME IInv, IInv', NEW t \in Threads, Send(t)
  PROVE  WB!Deliver(t)
<1>1. /\ pc[t] = "send" /\ pc'[t] = "idle"
      /\ \A u \in Threads : u # t => pc'[u] = pc[u]
      /\ UNCHANGED <<entries, heap>>
      /\ req' = [req EXCEPT ![t] = NoRequest]
      /\ reply' = [reply EXCEPT ![t] = NoReply]
  BY DEF Send, Goto, shared, IInv, TypeOK
<1>2. \A u \in Threads : pc'[u] \in ErasePcs <=> pc[u] \in ErasePcs
  BY <1>1 DEF ErasePcs
<1>3. \A u \in Threads : pc[u] \in ErasePcs => req'[u] = req[u]
  BY <1>1 DEF ErasePcs
<1>4. boardBar' = boardBar
  BY <1>1, <1>2, <1>3, BoardStutters
<1>5. answerBar' = [answerBar EXCEPT ![t] = NoReply]
  BY <1>1, <1>2, <1>3 DEF answerBar, ErasePcs, IInv, TypeOK
<1>6. answerBar[t].status # "none"
  BY <1>1 DEF answerBar, ErasePcs, IInv, Roles, AnsweredPcs
<1>7. NoReply = WB!NoAnswer /\ NoReply.status = "none"
  BY DEF NoReply, Status, WB!NoAnswer, WB!Status
<1> QED
  BY <1>1, <1>4, <1>5, <1>6, <1>7
     DEF WB!Deliver, WB!NoRequest, NoRequest

\* What a query that gets its answer does to what the board shows.
LEMMA Answers ==
  ASSUME IInv, IInv', NEW t \in Threads, NEW from, NEW to, Goto(t, from, to),
         from \notin ErasePcs \cup AnsweredPcs, to \notin ErasePcs,
         UNCHANGED <<entries, heap, req>>,
         NEW a, reply' = [reply EXCEPT ![t] = a]
  PROVE  WB!Answer(t, a) /\ boardBar' = boardBar
<1>1. /\ pc[t] = from /\ pc'[t] = to
      /\ \A u \in Threads : u # t => pc'[u] = pc[u]
  BY DEF Goto, IInv, TypeOK
<1>2. boardBar' = boardBar
  BY <1>1, BoardStutters
<1>3. answerBar[t] = NoReply
  BY <1>1 DEF answerBar, IInv, Roles
<1>4. answerBar' = [answerBar EXCEPT ![t] = a]
  BY <1>1 DEF answerBar, IInv, TypeOK
<1>5. NoReply = WB!NoAnswer
  BY DEF NoReply, Status, WB!NoAnswer, WB!Status
<1> QED
  BY <1>2, <1>3, <1>4, <1>5 DEF WB!Answer

\* A query that copies the text of an entry reads the board.
LEMMA CopyReads ==
  ASSUME IInv, IInv', CharIsEnough, NEW t \in Threads, Copy(t)
  PROVE  WB!Read(t)
<1> DEFINE e == req[t].entry
           a == [status |-> "entry", number |-> e, mode |-> got[t].mode,
                 length |-> got[t].length, text |-> heap[got[t].entry]]
<1>1. e \in Entries /\ Fished(e) = e /\ req[t] \in Query
  BY RequestType, FishedIsAsked DEF Copy, Goto, IInv, Roles, ReaderPcs, ReadPcs
<1>2. /\ Goto(t, "copy", "leave")
      /\ UNCHANGED <<entries, heap, req>>
      /\ reply' = [reply EXCEPT ![t] = a]
  BY <1>1 DEF Copy, shared
<1>3. WB!Answer(t, a) /\ boardBar' = boardBar
  BY <1>2, Answers DEF ErasePcs, AnsweredPcs, LeavePcs
<1>4. Updaters(e) = {} /\ \A u \in Threads : pc[u] \in PartialPcs => req[u].entry # e
  BY <1>2 DEF Goto, IInv, Exclusion, Inside, InsidePcs, Updaters, PartialPcs, WritePcs,
              ErasePcs
<1>5. boardBar[e] = heap[entries[e].entry]
  BY <1>1, <1>4, BoardAt
<1>6. a = WB!Whole(e, boardBar[e])
  <2>1. got[t] = entries[e]
    BY <1>2 DEF Goto, IInv, Loaded
  <2>2. /\ entries[e].mode = heap[entries[e].entry]
        /\ entries[e].length = heap[entries[e].entry]
    BY <1>1, <1>4 DEF IInv, WholeEntries
  <2> QED
    BY <1>5, <2>1, <2>2 DEF WB!Whole
<1>7. WB!Answer(t, WB!Whole(e, boardBar[e]))
  BY <1>3, <1>6
<1> HIDE DEF a
<1> QED
  BY <1>1, <1>3, <1>7 DEF WB!Read, WB!Query, WB!Entries, Query, Entries

\* A query of no entry, and one that runs out of memory, fail.
LEMMA QueryFails ==
  ASSUME IInv, IInv', NEW t \in Threads, QueryMissing(t) \/ QueryNoMemory(t)
  PROVE  WB!Fail(t)
<1> DEFINE e == req[t].entry
<1>1. PICK from \in {"missing", "format"}, s \in {"no_such_entry", "junk", "no_memory"} :
        /\ Goto(t, from, "send")
        /\ IF from = "format" THEN s = "no_memory" ELSE s # "no_memory"
        /\ UNCHANGED <<entries, heap, req>>
        /\ reply' = [reply EXCEPT ![t] = Status(s, e)]
  BY DEF QueryMissing, QueryNoMemory, shared
<1>2. req[t] \in Query /\ (e \in Entries <=> from = "format")
  BY <1>1 DEF Goto, IInv, Roles, ReaderPcs, ReadPcs
<1>3. WB!Answer(t, Status(s, e)) /\ boardBar' = boardBar
  <2>1. from \notin ErasePcs \cup AnsweredPcs /\ "send" \notin ErasePcs
    BY DEF ErasePcs, AnsweredPcs, LeavePcs
  <2> QED
    BY <1>1, <2>1, Answers
<1>4. Status(s, e) = WB!Status(s, e)
  BY DEF Status, WB!Status
<1>5. WB!Answer(t, WB!Status(s, e))
  BY <1>3, <1>4
<1>6. req[t] \in WB!Query /\ WB!Entries = Entries
  BY <1>2 DEF Query, WB!Query, Entries, WB!Entries
<1> QED
  BY <1>1, <1>2, <1>3, <1>5, <1>6 DEF WB!Fail

\* A function that differs from another one at one point only.
LEMMA OnePoint ==
  ASSUME NEW S, NEW f, NEW g, NEW x \in S, NEW v,
         f = [e \in S |-> f[e]], g = [e \in S |-> g[e]],
         g[x] = v, \A e \in S : e # x => g[e] = f[e]
  PROVE  g = [f EXCEPT ![x] = v]
  OBVIOUS

\* An update that starts to erase the entry takes effect.
LEMMA EraseWrites ==
  ASSUME IInv, IInv', NEW t \in Threads, Erase(t)
  PROVE  WB!Write(t)
<1> DEFINE w == req[t].entry
<1>1. /\ pc[t] = "erase" /\ pc'[t] = "set_mode"
      /\ \A u \in Threads : u # t => pc'[u] = pc[u]
      /\ UNCHANGED <<entries, req, reply>>
      /\ heap' = [heap EXCEPT ![entries[w].entry] = Blank]
  BY DEF Erase, Goto, local, IInv, TypeOK
<1>2. req[t] \in Update /\ w \in Entries
  BY <1>1, RequestType DEF IInv, Roles, WriterPcs, WritePcs
<1>3. boardBar'[w] = req[t].value
  <2>1. t \in Updaters(w)'
    BY <1>1 DEF Updaters, ErasePcs
  <2> QED
    BY <1>1, <1>2, <2>1, BoardAtNext
<1>4. ASSUME NEW e \in Entries, e # w PROVE boardBar'[e] = boardBar[e]
  <2>1. Updaters(e)' = Updaters(e)
    BY <1>1, <1>4 DEF Updaters, ErasePcs
  <2>2. heap'[entries'[e].entry] = heap[entries[e].entry]
    BY <1>1, <1>2, <1>4 DEF IInv, TypeOK, OwnBuffers, Held
  <2> QED
    BY <1>1, <2>1, <2>2, BoardAt, BoardAtNext
<1>5. boardBar' = [boardBar EXCEPT ![w] = req[t].value]
  <2>1. /\ boardBar = [e \in Entries |-> boardBar[e]]
        /\ boardBar' = [e \in Entries |-> boardBar'[e]]
    BY DEF boardBar
  <2> QED
    BY <1>2, <1>3, <1>4, <2>1, OnePoint
<1>6. answerBar[t] = NoReply
  BY <1>1 DEF answerBar, IInv, Roles, ErasePcs, AnsweredPcs, LeavePcs
<1>7. answerBar' = [answerBar EXCEPT ![t] = Status("updated", w)]
  BY <1>1 DEF answerBar, ErasePcs
<1>8. NoReply = WB!NoAnswer /\ Status("updated", w) = WB!Status("updated", w)
  BY DEF NoReply, Status, WB!NoAnswer, WB!Status
<1>9. WB!Answer(t, WB!Status("updated", w))
  BY <1>1, <1>6, <1>7, <1>8 DEF WB!Answer
<1>10. req[t] \in WB!Update
  BY <1>2 DEF Update, WB!Update, Entries, WB!Entries
<1> QED
  BY <1>5, <1>9, <1>10 DEF WB!Write

\* Every step of the threads is a step of the board or leaves it as it is.
LEMMA StepRefines ==
  ASSUME IInv, IInv', CharIsEnough, NEW t \in Threads, Step(t)
  PROVE  [WB!Next]_WB!vars
<1>1. CASE Receive(t)
  BY <1>1, ReceiveAsks DEF WB!Next
<1>2. CASE Send(t)
  BY <1>2, SendDelivers DEF WB!Next
<1>3. CASE GetNEntry(t)
  <2>1. CASE QueryMissing(t) \/ QueryNoMemory(t)
    BY <2>1, QueryFails DEF WB!Next
  <2>2. CASE Copy(t)
    BY <2>2, CopyReads DEF WB!Next
  <2>3. CASE EnterRead(t) \/ Format(t) \/ LeaveRead(t)
    BY <2>3, LockingStutters
  <2> QED
    BY <1>3, <2>1, <2>2, <2>3 DEF GetNEntry
<1>4. CASE UpdateEntry(t)
  <2>1. CASE Write(t)
    BY <2>1, LockingStutters
  <2>2. CASE Erase(t)
    BY <2>2, EraseWrites DEF WB!Next
  <2>3. CASE SetMode(t) \/ SetLength(t) \/ SetBuffer(t) \/ Fill(t)
    BY <2>3, StoringStutters
  <2>4. CASE Written(t)
    BY <2>4, WrittenStutters
  <2> QED
    BY <1>4, <2>1, <2>2, <2>3, <2>4 DEF UpdateEntry
<1> QED
  BY <1>1, <1>2, <1>3, <1>4 DEF Step

\* The blank board is the blank board.
LEMMA InitRefines ==
  ASSUME Init
  PROVE  WB!Init
<1>1. boardBar = [e \in Entries |-> Blank]
  <2>1. \A e \in Entries : Updaters(e) = {} /\ heap[entries[e].entry] = Blank
    BY FirstEntry DEF Init, Updaters, ErasePcs, Empty
  <2> QED
    BY <2>1 DEF boardBar
<1>2. answerBar = [t \in Threads |-> NoReply]
  BY DEF Init, answerBar, ErasePcs
<1> QED
  BY <1>1, <1>2 DEF Init, WB!Init, WB!Entries, Entries, WB!NoRequest, NoRequest,
                    NoReply, Status, WB!NoAnswer, WB!Status

\* Queries and updates of a board of at most 256 entries of which clients query
\* one are atomic: wbs379.c implements the whiteboard.
THEOREM Refinement ==
  ASSUME OneEntryQueried, CharIsEnough
  PROVE  Spec => Atomic
<1>1. Init => WB!Init
  BY InitRefines
<1>2. IInv /\ IInv' /\ [Next]_vars => [WB!Next]_WB!vars
  <2> SUFFICES ASSUME IInv, IInv', [Next]_vars PROVE [WB!Next]_WB!vars
    OBVIOUS
  <2>1. CASE Next
    BY <2>1, StepRefines DEF Next
  <2>2. CASE UNCHANGED vars
    BY <2>2 DEF vars, WB!vars, boardBar, answerBar, Updaters
  <2> QED
    BY <2>1, <2>2
<1> QED
  BY <1>1, <1>2, Invariance, PTL DEF Spec, Atomic, WB!Spec
=============================================================================
