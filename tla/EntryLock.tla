----------------------------- MODULE EntryLock -----------------------------
(***************************************************************************)
(* The shared whiteboard of AS2/wbs379.c: the array `entries`, the two     *)
(* arrays of mutexes and the reader counter `b`, with the two functions    *)
(* every connection thread calls on them, getNEntry and updateEntry, at    *)
(* the grain of their accesses to shared memory.                           *)
(*                                                                         *)
(* A message is one element of Values.  It carries a mode, a length and a  *)
(* text, and the code stores the three in separate assignments; each field *)
(* of an entry therefore holds the message it was taken from, and an entry *)
(* whose fields come from two messages is a torn one.  Blank stands for    *)
(* the contents fillWhiteboardBlank gives an entry: mode 'p', length 0 and *)
(* the empty text, which is also what memset leaves of a text.             *)
(* Texts are compared on the bytes the length announces; what follows them *)
(* in the buffer is left out.                                              *)
(***************************************************************************)
EXTENDS Integers, FiniteSets

CONSTANTS
  Threads,            \* the connection threads
  WHITEBOARD_SIZE,    \* number of entries on the board
  QueryEntries,       \* the entry numbers clients ask for
  Values,             \* the messages clients write
  Blank,              \* contents of an entry never written
  Junk,               \* bytes nobody wrote: a fresh heap or stale stack buffer
  Buffers,            \* the heap blocks malloc can return for a text
  MaxNoMemory         \* bound: how many mallocs of getNEntry may fail

Entries == 1 .. WHITEBOARD_SIZE

ASSUME SizeAssumption == WHITEBOARD_SIZE \in Nat \ {0}
ASSUME ThreadsAssumption == IsFiniteSet(Threads)
ASSUME QueryAssumption == QueryEntries \subseteq Nat \ {0}
ASSUME BuffersAssumption == Entries \subseteq Buffers
ASSUME BoundAssumption == MaxNoMemory \in Nat

VARIABLES
  entries,   \* entries[e]: the fields mode, length and entry (a pointer)
  heap,      \* heap[p]: the text in buffer p
  mutexg,    \* mutexg[e]: is the entry's group mutex locked
  mutexr,    \* mutexr[e]: is the entry's reader mutex locked
  b,         \* the reader counter, one for the whole board
  pc,        \* pc[t]: where thread t is
  req,       \* req[t]: the request t is serving
  reg,       \* reg[t]: the register t computes b++ and b-- in
  got,       \* got[t]: the arguments t loaded for sprintf
  reply,     \* reply[t]: the reply t holds for its client
  noMemory   \* how many mallocs of getNEntry have failed

shared == <<entries, heap>>
locks  == <<mutexg, mutexr, b>>
local  == <<req, reg, got, reply, noMemory>>
vars   == <<entries, heap, mutexg, mutexr, b, pc, req, reg, got, reply, noMemory>>

Contents == Values \cup {Blank}
Texts    == Contents \cup {Junk}
Query    == [op : {"?"}, entry : QueryEntries]
Update   == [op : {"@"}, entry : Entries, value : Values]
Held     == [mode : Contents, length : Contents, entry : Buffers]
Statuses == {"none", "entry", "updated", "no_such_entry", "no_memory", "junk"}
Reply    == [status : Statuses, number : Nat,
             mode : Contents, length : Contents, text : Texts]

NoRequest == [op |-> "none", entry |-> 1]
Status(s, n) == [status |-> s, number |-> n,
                 mode |-> Blank, length |-> Blank, text |-> Blank]
NoReply   == Status("none", 0)
Empty(e)  == [mode |-> Blank, length |-> Blank, entry |-> e]

\* The byte an int is cut to by the cast (char), a signed 8-bit type.
CharOf(n) == LET byte == n % 256 IN IF byte < 128 THEN byte ELSE byte - 256

\* The entry getNEntry's scan stops at: the first one whose number is the one
\* asked for or that number cut to a char.
Fished(n) == CHOOSE e \in Entries :
               /\ e = n \/ e = CharOf(n)
               /\ \A f \in Entries : (f = n \/ f = CharOf(n)) => e <= f

----------------------------------------------------------------------------
\* fillWhiteboardBlank: entry e is number e, and owns a buffer of its own.
Init ==
  /\ entries = [e \in Entries |-> Empty(e)]
  /\ heap = [p \in Buffers |-> Blank]
  /\ mutexg = [e \in Entries |-> FALSE]
  /\ mutexr = [e \in Entries |-> FALSE]
  /\ b = 0
  /\ pc = [t \in Threads |-> "idle"]
  /\ req = [t \in Threads |-> NoRequest]
  /\ reg = [t \in Threads |-> 0]
  /\ got = [t \in Threads |-> Empty(1)]
  /\ reply = [t \in Threads |-> NoReply]
  /\ noMemory = 0

Goto(t, from, to) ==
  /\ pc[t] = from
  /\ pc' = [pc EXCEPT ![t] = to]

\* pthread_mutex_lock waits for the mutex; pthread_mutex_unlock of a normal
\* mutex frees it whoever holds it.
LockR(e)   == mutexr[e] = FALSE /\ mutexr' = [mutexr EXCEPT ![e] = TRUE]
UnlockR(e) == mutexr' = [mutexr EXCEPT ![e] = FALSE]
LockG(e)   == mutexg[e] = FALSE /\ mutexg' = [mutexg EXCEPT ![e] = TRUE]
UnlockG(e) == mutexg' = [mutexg EXCEPT ![e] = FALSE]

\* malloc: a block no entry and no sprintf in progress points to.  A text that
\* has been replaced is never freed, but nothing points to it any more.
FreeBuffers ==
  Buffers \ ({entries[e].entry : e \in Entries}
               \cup {got[t].entry : t \in {u \in Threads : pc[u] = "copy"}})

----------------------------------------------------------------------------
(* thread_connections hands a request to getNEntry or to updateEntry. *)

ReceiveQuery(t) ==
  /\ \E q \in Query :
        /\ req' = [req EXCEPT ![t] = q]
        /\ Goto(t, "idle", IF q.entry > WHITEBOARD_SIZE THEN "missing" ELSE "enter")
  /\ UNCHANGED <<shared, locks, reg, got, reply, noMemory>>

ReceiveUpdate(t) ==
  /\ \E u \in Update : req' = [req EXCEPT ![t] = u]
  /\ Goto(t, "idle", "write")
  /\ UNCHANGED <<shared, locks, reg, got, reply, noMemory>>

\* The reply is written to the socket, and nothing of the call is kept.
Send(t) ==
  /\ Goto(t, "send", "idle")
  /\ req' = [req EXCEPT ![t] = NoRequest]
  /\ got' = [got EXCEPT ![t] = Empty(1)]
  /\ reply' = [reply EXCEPT ![t] = NoReply]
  /\ UNCHANGED <<shared, locks, reg, noMemory>>

----------------------------------------------------------------------------
(* getNEntry *)

\* No entry has that number.  The reply is built in an array of the function's
\* own frame, so what the caller sends is that text or what has overwritten it.
QueryMissing(t) ==
  /\ Goto(t, "missing", "send")
  /\ \E s \in {"no_such_entry", "junk"} :
        reply' = [reply EXCEPT ![t] = Status(s, req[t].entry)]
  /\ UNCHANGED <<shared, locks, req, reg, got, noMemory>>

Enter(t) ==
  /\ Goto(t, "enter", "load_inc")
  /\ LockR(req[t].entry)
  /\ UNCHANGED <<shared, mutexg, b, local>>

\* b++ on a global int is a load, an addition in a register and a store.
LoadInc(t) ==
  /\ Goto(t, "load_inc", "store_inc")
  /\ reg' = [reg EXCEPT ![t] = b + 1]
  /\ UNCHANGED <<shared, locks, req, got, reply, noMemory>>

StoreInc(t) ==
  /\ Goto(t, "store_inc", "test_first")
  /\ b' = reg[t]
  /\ reg' = [reg EXCEPT ![t] = 0]
  /\ UNCHANGED <<shared, mutexg, mutexr, req, got, reply, noMemory>>

\* Mutant of TestFirst: the first reader is looked for before it is counted.
TestFirstEarly(t) ==
  /\ Goto(t, "test_first", IF b = 0 THEN "lock_g" ELSE "entered")
  /\ UNCHANGED <<shared, locks, local>>

TestFirst(t) ==
  /\ Goto(t, "test_first", IF b = 1 THEN "lock_g" ELSE "entered")
  /\ UNCHANGED <<shared, locks, local>>

FirstLocks(t) ==
  /\ Goto(t, "lock_g", "entered")
  /\ LockG(req[t].entry)
  /\ UNCHANGED <<shared, mutexr, b, local>>

Entered(t) ==
  /\ Goto(t, "entered", "format")
  /\ UnlockR(req[t].entry)
  /\ UNCHANGED <<shared, mutexg, b, local>>

\* Mutant of QueryNoMemory: the reader is counted out but the mutex not unlocked.
QueryNoMemoryCounted(t) ==
  /\ noMemory < MaxNoMemory
  /\ Goto(t, "format", "send")
  /\ b' = b - 1
  /\ noMemory' = noMemory + 1
  /\ reply' = [reply EXCEPT ![t] = Status("no_memory", req[t].entry)]
  /\ UNCHANGED <<shared, mutexg, mutexr, req, reg, got>>

\* malloc has failed: the error is returned with the counter raised and the
\* group mutex locked.
QueryNoMemory(t) ==
  /\ noMemory < MaxNoMemory
  /\ Goto(t, "format", "send")
  /\ noMemory' = noMemory + 1
  /\ reply' = [reply EXCEPT ![t] = Status("no_memory", req[t].entry)]
  /\ UNCHANGED <<shared, locks, req, reg, got>>

\* sprintf is called with the fields and the pointer of the fished entry ...
Format(t) ==
  /\ Goto(t, "format", "copy")
  /\ got' = [got EXCEPT ![t] = entries[Fished(req[t].entry)]]
  /\ UNCHANGED <<shared, locks, req, reg, reply, noMemory>>

\* Mutant of Copy: the scan of the entries goes on after the match.
CopyAgain(t) ==
  /\ Goto(t, "copy", "format")
  /\ UNCHANGED <<shared, locks, local>>

\* ... and then reads the text the pointer leads to.
Copy(t) ==
  /\ Goto(t, "copy", "leave")
  /\ reply' = [reply EXCEPT ![t] = [status |-> "entry",
                                    number |-> Fished(req[t].entry),
                                    mode |-> got[t].mode,
                                    length |-> got[t].length,
                                    text |-> heap[got[t].entry]]]
  /\ UNCHANGED <<shared, locks, req, reg, got, noMemory>>

Leave(t) ==
  /\ Goto(t, "leave", "load_dec")
  /\ LockR(req[t].entry)
  /\ UNCHANGED <<shared, mutexg, b, local>>

LoadDec(t) ==
  /\ Goto(t, "load_dec", "store_dec")
  /\ reg' = [reg EXCEPT ![t] = b - 1]
  /\ UNCHANGED <<shared, locks, req, got, reply, noMemory>>

StoreDec(t) ==
  /\ Goto(t, "store_dec", "test_last")
  /\ b' = reg[t]
  /\ reg' = [reg EXCEPT ![t] = 0]
  /\ UNCHANGED <<shared, mutexg, mutexr, req, got, reply, noMemory>>

\* Mutant of TestLast: the last reader is looked for before it is counted out.
TestLastEarly(t) ==
  /\ Goto(t, "test_last", IF b = 1 THEN "unlock_g" ELSE "left")
  /\ UNCHANGED <<shared, locks, local>>

TestLast(t) ==
  /\ Goto(t, "test_last", IF b = 0 THEN "unlock_g" ELSE "left")
  /\ UNCHANGED <<shared, locks, local>>

LastUnlocks(t) ==
  /\ Goto(t, "unlock_g", "left")
  /\ UnlockG(req[t].entry)
  /\ UNCHANGED <<shared, mutexr, b, local>>

Left(t) ==
  /\ Goto(t, "left", "send")
  /\ UnlockR(req[t].entry)
  /\ UNCHANGED <<shared, mutexg, b, local>>

----------------------------------------------------------------------------
(* updateEntry *)

\* Mutant of Write: the group mutex is not taken.
WriteUnlocked(t) ==
  /\ Goto(t, "write", "erase")
  /\ UNCHANGED <<shared, locks, local>>

Write(t) ==
  /\ Goto(t, "write", "erase")
  /\ LockG(req[t].entry)
  /\ UNCHANGED <<shared, mutexr, b, local>>

\* memset over the old text.
Erase(t) ==
  /\ Goto(t, "erase", "set_mode")
  /\ heap' = [heap EXCEPT ![entries[req[t].entry].entry] = Blank]
  /\ UNCHANGED <<entries, locks, local>>

SetMode(t) ==
  /\ Goto(t, "set_mode", "set_length")
  /\ entries' = [entries EXCEPT ![req[t].entry].mode = req[t].value]
  /\ UNCHANGED <<heap, locks, local>>

\* Mutant of SetLength: the length is one nobody has sent.
SetLengthUnread(t) ==
  /\ Goto(t, "set_length", "set_buffer")
  /\ entries' = [entries EXCEPT ![req[t].entry].length = Junk]
  /\ UNCHANGED <<heap, locks, local>>

SetLength(t) ==
  /\ Goto(t, "set_length", "set_buffer")
  /\ entries' = [entries EXCEPT ![req[t].entry].length = req[t].value]
  /\ UNCHANGED <<heap, locks, local>>

\* The entry points to a block malloc has not cleared ...
SetBuffer(t) ==
  /\ Goto(t, "set_buffer", "fill")
  /\ \E p \in FreeBuffers :
        /\ entries' = [entries EXCEPT ![req[t].entry].entry = p]
        /\ heap' = [heap EXCEPT ![p] = Junk]
  /\ UNCHANGED <<locks, local>>

\* ... until memcpy fills it.
Fill(t) ==
  /\ Goto(t, "fill", "written")
  /\ heap' = [heap EXCEPT ![entries[req[t].entry].entry] = req[t].value]
  /\ UNCHANGED <<entries, locks, local>>

Written(t) ==
  /\ Goto(t, "written", "send")
  /\ UnlockG(req[t].entry)
  /\ reply' = [reply EXCEPT ![t] = Status("updated", req[t].entry)]
  /\ UNCHANGED <<shared, mutexr, b, req, reg, got, noMemory>>

----------------------------------------------------------------------------
Receive(t) == ReceiveQuery(t) \/ ReceiveUpdate(t)

EnterRead(t) == \/ Enter(t) \/ LoadInc(t) \/ StoreInc(t) \/ TestFirst(t)
                \/ FirstLocks(t) \/ Entered(t)

LeaveRead(t) == \/ Leave(t) \/ LoadDec(t) \/ StoreDec(t) \/ TestLast(t)
                \/ LastUnlocks(t) \/ Left(t)

GetNEntry(t) == \/ QueryMissing(t) \/ EnterRead(t) \/ QueryNoMemory(t)
                \/ Format(t) \/ Copy(t) \/ LeaveRead(t)

UpdateEntry(t) == \/ Write(t) \/ Erase(t) \/ SetMode(t) \/ SetLength(t)
                  \/ SetBuffer(t) \/ Fill(t) \/ Written(t)

Step(t) == Receive(t) \/ GetNEntry(t) \/ UpdateEntry(t) \/ Send(t)

Next == \E t \in Threads : Step(t)

Spec == Init /\ [][Next]_vars

\* Every thread that can take its next step keeps being scheduled.  Nothing is
\* assumed of the order in which a mutex is granted, nor of the clients.
Fairness == \A t \in Threads : WF_vars(GetNEntry(t) \/ UpdateEntry(t) \/ Send(t))

FairSpec == Spec /\ Fairness

----------------------------------------------------------------------------
(* Properties *)

ReadPcs  == {"format", "copy"}
ErasePcs == {"set_mode", "set_length", "set_buffer", "fill", "written"}
WritePcs == {"erase"} \cup ErasePcs
EnterPcs == {"load_inc", "store_inc", "test_first", "lock_g", "entered"}
LeavePcs == {"load_dec", "store_dec", "test_last", "unlock_g", "left"}
Pcs      == {"idle", "send", "missing", "enter", "leave", "write"}
              \cup ReadPcs \cup WritePcs \cup EnterPcs \cup LeavePcs

\* The types of the variables.
TypeOK ==
  /\ entries \in [Entries -> Held]
  /\ heap \in [Buffers -> Texts]
  /\ mutexg \in [Entries -> BOOLEAN]
  /\ mutexr \in [Entries -> BOOLEAN]
  /\ b \in Int
  /\ pc \in [Threads -> Pcs]
  /\ req \in [Threads -> Query \cup Update \cup {NoRequest}]
  /\ reg \in [Threads -> Int]
  /\ got \in [Threads -> Held]
  /\ reply \in [Threads -> Reply]
  /\ noMemory \in 0 .. MaxNoMemory

Reads(t, e)  == pc[t] \in ReadPcs /\ Fished(req[t].entry) = e
Writes(t, e) == pc[t] \in WritePcs /\ req[t].entry = e

\* While updateEntry changes the fields of an entry, no getNEntry reads them
\* and no other updateEntry changes them (the purpose of mutexg and mutexr).
MutualExclusion ==
  \A e \in Entries : \A t, u \in Threads :
    Writes(t, e) => ~ Reads(u, e) /\ (Writes(u, e) => u = t)

\* What a query sends back, "!XpY\nEntry\n", is about the entry asked for, and
\* its mode, its length and its text are those of one message (README.txt:30).
ReplyConsistent ==
  \A t \in Threads :
    reply[t].status = "entry" => /\ reply[t].number = req[t].entry
                                 /\ reply[t].mode = reply[t].text
                                 /\ reply[t].length = reply[t].text

\* When every call has returned and none ran out of memory, no mutex is left
\* locked and the reader counter is back to zero.
LocksReturned ==
  (noMemory = 0 /\ \A t \in Threads : pc[t] \in {"idle", "send"}) =>
    /\ b = 0
    /\ \A e \in Entries : ~ mutexg[e] /\ ~ mutexr[e]

\* If from some point on clients send nothing, every call returns: a client
\* that asked for or updated an entry gets its reply (README.txt:29-31).
CallsReturn ==
  <>[][~ \E t \in Threads : Receive(t)]_vars
    => []<>(\A t \in Threads : pc[t] = "idle")
=============================================================================
