------------------------- MODULE EntryLockInvariant -------------------------
(***************************************************************************)
(* The inductive invariant of EntryLock for boards on which clients query  *)
(* one entry: why the two mutexes of that entry and the reader counter     *)
(* keep the updates of the entry and the queries apart.                    *)
(***************************************************************************)
EXTENDS EntryLock

\* The counter b is shared by the whole board, so it is the reader counter of
\* an entry only as long as no other entry is queried.
OneEntryQueried == \A e, f \in QueryEntries \cap Entries : e = f

\* Boards on which cutting an entry number to a char never yields another one.
CharIsEnough == WHITEBOARD_SIZE <= 256

RPcs        == EnterPcs \cup LeavePcs             \* mutexr is held
ReaderPcs   == {"enter", "leave"} \cup ReadPcs \cup RPcs
WriterPcs   == {"write"} \cup WritePcs
CountedPcs  == {"test_first", "lock_g", "entered", "format", "copy",
                "leave", "load_dec", "store_dec"}  \* counted in b
InsidePcs   == {"entered", "format", "copy", "leave", "load_dec", "store_dec", "unlock_g"}
AnsweredPcs == {"leave", "send"} \cup LeavePcs
PartialPcs  == {"set_mode", "set_length", "set_buffer", "fill"}

Counted == {t \in Threads : pc[t] \in CountedPcs}

\* Thread t is among the readers on whose behalf the group mutex is locked.
Inside(t) == \/ pc[t] \in InsidePcs
             \/ pc[t] = "test_first" /\ b # 1
             \/ pc[t] = "test_last" /\ b = 0

Queried(e) == e \in QueryEntries

\* What each thread does agrees with its request.
Roles ==
  \A t \in Threads :
    /\ pc[t] \in ReaderPcs => req[t] \in Query /\ req[t].entry \in Entries
    /\ pc[t] \in WriterPcs => req[t] \in Update
    /\ pc[t] = "missing" => req[t] \in Query /\ req[t].entry \notin Entries
    /\ pc[t] = "idle" => req[t] = NoRequest
    /\ pc[t] \in AnsweredPcs => reply[t].status # "none"
    /\ pc[t] \notin AnsweredPcs => reply[t] = NoReply

\* mutexr is locked exactly while one thread counts itself in or out.
ReaderMutex ==
  /\ \A t \in Threads : pc[t] \in RPcs => mutexr[req[t].entry]
  /\ \A t, u \in Threads : pc[t] \in RPcs /\ pc[u] \in RPcs => t = u
  /\ \A e \in Entries : mutexr[e] => \E t \in Threads : pc[t] \in RPcs /\ req[t].entry = e

\* The counter counts the readers, and those that left without counting down.
ReaderCount ==
  /\ b = Cardinality(Counted) + noMemory
  /\ \A t \in Threads : /\ pc[t] = "store_inc" => reg[t] = b + 1
                        /\ pc[t] = "store_dec" => reg[t] = b - 1
                        /\ pc[t] = "lock_g" => b = 1
                        /\ pc[t] = "unlock_g" => b = 0

\* mutexg is locked for the readers as a group or for one writer.
GroupMutex ==
  /\ \A t \in Threads : Inside(t) => mutexg[req[t].entry]
  /\ \A t \in Threads : pc[t] \in WritePcs => mutexg[req[t].entry]
  /\ noMemory > 0 => \A e \in Entries : Queried(e) => mutexg[e]
  /\ \A e \in Entries : mutexg[e] =>
       \/ noMemory > 0
       \/ \E t \in Threads : (Inside(t) \/ pc[t] \in WritePcs) /\ req[t].entry = e

\* No writer of an entry meets the readers of the entry or another writer of it.
Exclusion ==
  \A u \in Threads : pc[u] \in WritePcs =>
    /\ \A t \in Threads : Inside(t) => req[t].entry # req[u].entry
    /\ \A t \in Threads : pc[t] \in WritePcs /\ req[t].entry = req[u].entry => t = u
    /\ noMemory > 0 => ~ Queried(req[u].entry)

\* Every entry has a buffer of its own.
OwnBuffers == \A e, f \in Entries : entries[e].entry = entries[f].entry => e = f

\* The three fields of an entry come from one message unless a writer is
\* half-way through it, and then the fields it has stored come from its own.
WholeEntries ==
  /\ \A e \in Entries :
       \/ \E t \in Threads : pc[t] \in PartialPcs /\ req[t].entry = e
       \/ /\ entries[e].mode = heap[entries[e].entry]
          /\ entries[e].length = heap[entries[e].entry]
  /\ \A t \in Threads :
       /\ pc[t] \in {"set_length", "set_buffer", "fill", "written"}
            => entries[req[t].entry].mode = req[t].value
       /\ pc[t] \in {"set_buffer", "fill", "written"}
            => entries[req[t].entry].length = req[t].value

\* What sprintf was called with is still what the entry holds.
Loaded == \A t \in Threads : pc[t] = "copy" => got[t] = entries[req[t].entry]

IInv ==
  /\ TypeOK /\ Roles
  /\ ReaderMutex /\ ReaderCount
  /\ GroupMutex /\ Exclusion
  /\ OwnBuffers /\ WholeEntries /\ Loaded
  /\ ReplyConsistent
=============================================================================
