# TLA+ models of the CMPUT 379 assignments

The repository holds three C programs for an operating-systems course. They
share nothing, so this project is three groups of modules:

| directory | program | what it does |
|---|---|---|
| `AS1` | `findpattern.c`, `tests/driver{1,2,3}.c` | searches the process's own address space for a pattern, probing pages with SIGSEGV; three drivers search twice and compare |
| `AS2` | `wbs379.c` (server), `wbc379.c` (client) | a shared whiteboard over TCP: one thread per connection, a readers/writers lock per entry |
| `AS3` | `tvm379.c` | simulates virtual memory: several traces in turn, one TLB, one page table with FIFO or LRU replacement |

Paths below are relative to the repository (`src/` in `PROJECT.json`).

## 1. Inventory

### AS2: entries and their locks (`wbs379.c:177-248`)
- *State*: `entries[]` (number, mode, length, pointer to the text), the heap
  blocks of the texts, per entry a group mutex `mutexg[e]` and a reader mutex
  `mutexr[e]`, one reader counter `b` for the whole board.
- *Operations*: `getNEntry(n)` (a reader), `updateEntry(n, mode, length, text)`
  (a writer), called by any number of threads; `fillWhiteboardBlank` at the start.
- *Hard*: every statement is an access to memory other threads use; `b++` is not
  atomic; the text is read through a pointer that may be replaced; `malloc` can
  fail half-way through the entry protocol.
- *Correct means*: updates of an entry exclude its queries and each other; a
  reply is about one message of the entry asked for; locks come back; every
  call takes effect at one moment; every call returns.

### AS2: connections and requests (`wbs379.c:255-360, 501-527`)
- *State*: `snew`, the descriptor table, the streams, each thread's socket, header line,
  text and reply.
- *Operations*: accept, `pthread_create(&snew)`, greeting, a header read byte by byte, the
  text of an update with one read, reply (to a query: written twice), close.
- *Hard*: the thread reads `snew` after `main` may have changed it; descriptors
  are reused; texts may hold new lines and lines that read like requests, and come in pieces;
  replies are printed into 24 bytes; SIGPIPE.
- *Correct means*: one thread per connection; requests are told apart; every wait of a client
  ends; the server stays.

### AS2: state file, dump and signals (`wbs379.c:52-155, 365-515`)
- *State*: `whiteboard.all`, the state file, `flag`, `quit_request`.
- *Operations*: `getEntryLimit`, `fillWhiteboardFromFile`, `dumpToFile`,
  `sigint_handler` with `siglongjmp` into `main`.
- *Hard*: the dump runs while threads update; the file to load may have been
  truncated before it is opened; texts with `!`; the handler runs in any thread and calls stdio
  and `malloc`; the daemon dumps in `/`, where it may not be allowed to.
- *Correct means*: what is dumped is what the next run loads; the loader stays in its array; SIGTERM ends the server with a dump.

### AS2: client (`wbc379.c`)
- *State*: `buf` (query, reply and what is left of earlier ones), the globals `outlen` and
  `i`, the key file.
- *Operations*: greeting, view (`main`, 227-303), update (304-373), exit, `encrypt` with the
  first key, `decrypt` with the loop over all keys.
- *Hard*: replies come twice and the second copy is read later; how much of the buffer is shown is
  computed from the header, for numbers of more than one digit too; what one call
  leaves in a global is used by another.
- *Correct means*: what is shown is what the server has sent, keys are tried whole, no
  question is left without an answer, the right key opens an entry.

### AS3: TLB (`tvm379.c:346-487`)
- *State*: a doubly linked queue, a hash table of as many pointers as the queue
  has nodes, the nodes.
- *Operations*: look-up (`TLBSerach`: hit or miss with insertion and eviction),
  flush (`TLBFlushQueue`, `TLBFlushHash`).
- *Hard*: several pages share a bucket; evictions clear a bucket whoever it
  points to; a hit relinks up to four pointers; buckets are not initialised; page numbers are
  unsigned and hashed as ints.
- *Correct means*: the queue is a queue, no bucket dangles, a page just looked up hits.

### AS3: page table (`tvm379.c:73-180, 227-342, 494-556`)
- *State*: a doubly linked list (`head`, `tail`), a binary search tree from page
  to entry, the number of frames given out, faults and page-outs per process.
- *Operations*: `pageTableLookUp` with `InsertAtTail`, `PageOut`,
  `deleteEntryFifo`, `deleteEntryLru`, `insert`, `search`, `del`.
- *Hard*: `del` drops subtrees, and its new root is dropped by the caller; a
  freed entry's memory is used again at once; lists of one entry.
- *Correct means*: no frame is lost or doubled, counters add up, searches end, the tree
  agrees with the list.

### AS3: scheduler and report (`tvm379.c:585-721`)
- *State*: `rotation`, the turn counter, the end of each trace, `tlbHits`, `avs`.
- *Operations*: a turn, the end of a trace, the hand-over with its flush, the final count.
- *Correct means*: every reference is counted once, frames are charged to whom they are for,
  the program ends, and crashes for known causes only.

### AS1: findpattern and the drivers
- *State*: `flag`, `readonly_memory` (where a jump goes), the SIGSEGV handler,
  page, mode, position, what is matched, matches counted and recorded; for a
  driver the first search's matches and the flags U/C/N.
- *Hard*: control leaves a signal handler by a jump to one of two places,
  through one flag; the probe overwrites memory; matches cross pages; what a driver prints
  changes the memory it searches next.
- *Correct means*: memory is kept, recorded matches are matches with the mode of their
  page, none that starts afresh is missed, the search ends, the flags tell what changed.

### Not modelled, with the reason
`wbs379T.c`, `wbc379T.c` and the `.orig` files (older versions no Makefile
builds; the `.orig` files contain merge conflicts), `clientlab.c` and
`decryptkey.c` (course samples), `readtest.c` (does not compile), `hashtest.c`
(a precursor). In `tvm379.c`: `InsertAtHead`, `deltree`, `resizePageTable`,
`lookup` and the print functions are never called.

## 2. Modules

| module | models | built on |
|---|---|---|
| `EntryLock` | entries, locks, `getNEntry`, `updateEntry` | |
| `EntryLockInvariant` | the inductive invariant of `EntryLock` | `EntryLock` |
| `Whiteboard` | abstract: a board on which calls are atomic | |
| `EntryLockRefinement` | the mapping from `EntryLock` to `Whiteboard` | both |
| `EntryLockProofs` | theorems, and that the mapping is a refinement | the above |
| `Connections` | accept loop, threads, clients, descriptors | |
| `ConnectionsProofs` | theorems | `Connections` |
| `Requests` | a thread cutting its stream into requests | |
| `Client` | the client on the other end; composes | `Requests` |
| `ClientProofs` | theorems about both | `Client` |
| `StateFile` | start, loader, dump, SIGTERM | |
| `StateFileProofs` | theorems | `StateFile` |
| `Paging` | the page numbers the next two share | |
| `Tlb` | the translation buffer, pointer by pointer | `Paging` |
| `PageTable` | list, tree, replacement, counters | `Paging` |
| `Tvm` | the scheduler; composes the two | `Tlb`, `PageTable` |
| `TlbProofs`, `PageTableProofs`, `TvmProofs` | theorems | the three above |
| `FindPattern` | the search | |
| `Drivers` | two searches and the comparison; composes | `FindPattern` |
| `DriversInvariant`, `DriversProofs` | the inductive invariant of `Drivers`; theorems | `Drivers` |
| `MC*` | small constants for TLC | one each |

Operators and variables carry the names of the source (spelling included:
`TLBSerach`, `quantom_Pages`, `occurances`). Definitions called "Mutant of X"
sit before X: a variant of X with a plausible bug, used to see that a property
can fail; they are in no specification.

### EntryLock
Each thread has a `pc`. One action is one access to shared memory: `Enter`
(lock `mutexr`), `LoadInc`, `StoreInc` (`b++`), `TestFirst`, `FirstLocks` (lock
`mutexg`), `Entered` (unlock), `Format` (the arguments of `sprintf` are
loaded), `Copy` (the text behind the pointer is read), then the same out again;
for an update `Write` (lock), `Erase` (`memset`), `SetMode`, `SetLength`,
`SetBuffer` (`malloc`), `Fill` (`memcpy`), `Written`. A message is one value;
an entry's mode, length and text each hold the message they come from, so a torn
entry is one whose fields differ. `Fished` is the entry the scan of `getNEntry`
stops at, with its cast to `char`. `QueryNoMemory` returns the way the code
does, with the counter raised and the group mutex locked. `QueryMissing`
answers with a text in a dead stack frame: the right one or junk.

Left out: the arrays of mutexes are `malloc`'ed and never initialised; they are
taken to be zero, which is what a fresh heap holds. Updates name an entry of
the board (the scan of `updateEntry` runs past the array otherwise). A text
fits its buffer.

### Whiteboard and the refinement
A board of messages, requests and answers: `Read` and `Write` change board and
answer in one step. `boardBar` is the text of the entry or, from `Erase` on, the
message being written: an update takes effect when it starts to erase; a query
when it copies. Nothing else could be seen: nobody is inside meanwhile.

### Connections
`Accept` and `Create` are `main`'s loop; a created thread reads `snew` in a step
of its own (`Start`). A message is written and read whole; a reply is the number
of the request it answers, 0 the greeting. `Reply` and `ReplyAgain` are the two
writes of an answer to a query. The kernel is modelled as Linux behaves: lowest free
descriptor; a read stays on the connection it was called on even if
another thread closes the descriptor; writing to a connection whose client has
gone may first be lost, then raise SIGPIPE. `patient` (chosen at the start) says
whether clients connect only once the server has settled.

Left out: headers and texts (see `Requests`), a client killed by a signal, SIGTERM (see
`StateFile`).

### Requests
A stream is a sequence of cells: a header, a new line, a word, a ciphertext. Each has its
width in characters, because `read` counts characters and so does the client. `ReadQuery`, `ReadUpdate` and
`IgnoreLine` take a line; `RunOff` is a line the code cannot take (empty: the loop of line 283 starts behind
its end; or over 20 characters): what follows is undefined, the thread is then `lost`. So it may be (or not) once a reply takes
more than the 24 bytes of `wbs379.c:209` (`Overruns`). `ReadText` is the one `read` of the text with
`updateEntry`; `whole` (chosen at the start) says whether what was written at once arrives at once. If not, the read may take any
part of the text, and the rest is taken for headers, also where it reads like one: a cell of a text may be a query or an update. `cut` remembers
that a read has left such a cell behind. `HangUpInText` is the end of the stream found in place of a text. A text is
stored without a terminator: `Tails` is what may follow it. `made` remembers the requests not yet understood.

Left out: a text that arrives cut in the middle of a cell (a cell may be one character wide; a read that asks for fewer characters does
break cells), lines of a text that ask for entries not on the board, a `malloc` that fails.

### Client
`View`, `UpdatePlain` and `UpdateCipher` send a request, `Viewed` and `Updated` are the read of the reply, into a buffer
that holds the rest of earlier ones (`Overlay`); `premessage` and `decpoint` are the header
arithmetic. `UpdateCipher` clears `message` by the size of `buf`: `buf` may or may not be cleared with it, and the client may die of it (`Dies`).
`TryKeys` is the loop of `decrypt`: a key is a line of the key file, filled in by the global `i`, tried at the
line's end. AES is modelled as "a key opens what it has closed, if all of it is given", base64 as "decodes unless
a new line precedes" (OpenSSL's behaviour with `BIO_FLAGS_BASE64_NO_NL`, tried with the library).

Left out: replies over 2000 characters, keys that are too short or too long for their arrays, menu entries that are not 1 or 2,
SIGINT.

### StateFile
A file is a sequence of cells (see the head of the module): one for each thing the
loader and the dump tell apart. `Start` truncates `whiteboard.all` in the user's
directory, then `fillWhiteboardBlank` or `OpenStateFile` with `getEntryLimit` makes
the board, and `SkipLine`, `FillEntry`, `RefuseEntry`, `EndOfFile` are the turns of
the loader's loop. `Chdir` is why the dump is written to `/whiteboard.all`. `jump` is the
`sigsetjmp` passed last; `sigint_handler` opens a stream and dumps into it
(`dumpToFile` is one entry; `NullStream` is the same where `fopen` has failed, which kills the process: `rights` says whether this
server may write in `/`); `HandlerHangs` is a handler that has interrupted `malloc` or stdio and waits for itself; `Jump` and `Land` are the `siglongjmp` and the tests
behind the two `sigsetjmp`, after which main opens a second stream. `Exit` flushes both
(`Flushed`): the one opened last is written first, then the other over it. An update runs
store by store meanwhile, under way in one thread at most. Text that is not terminated ends in one of `Tails`, which `HeapChanges` exchanges
while a dump is made. `Overrun` is a number or a length of ten characters or more in the file, from where the loader may die. `quiet` remembers that
no update and no change of the heap has run into the dump;
`kept` remembers which file is the undisturbed dump of which board of `Plain` entries: filled, with numbers of
one digit, and with a text that can be read back.

Left out: a dump larger than a stream's buffer (4096 bytes); a SIGTERM while
main is in its handler, which a connection thread would get (its jump to main's
stack is undefined); entries with numbers of two digits, and what an overrun of `entryNumber` or `entryLength` does other than end
the program; lines over 2000 characters; files that do not end with a new line; allocation failures.

### Tlb
A pointer is a node, `NULL` or `WILD` (an uninitialised bucket). `insertTLB`,
`delTLBPage`, `MoveToFront` are the pointer assignments of the functions;
`TLBFlush(wild)` leaves the buckets in `wild` uninitialised. A wild bucket is a
miss (it points at some memory that is not this page's node) or a
crash; the crash is `Tvm`'s `Fatal`. Page numbers are unsigned and `TLBHasher` takes an int (`AsInt`, with `INT_MAX` a constant): those of addresses
from 2^31 on are negative, `addressx` being an int, and C's `%` then gives a bucket before the table unless it
is 0. `Inside` says which pages have a bucket.

### PageTable
The linked list is the sequence of its frames and the separate pointer `tail`
(which the code does not set for the first entry). The tree is kept as nodes
with links, because `del` breaks it in ways no set of pages shows.
Entries are named by their frames: `PageOut` frees an entry and the next
`malloc` of the same size, made before any other, returns the same block, so
a stale `match` pointer leads to the page that has replaced the old one.
`search` has branches without `return`; built as the Makefile does (no
optimisation) the value of the recursive call is what is returned.

### Tvm
One action per turn of the inner loop: `Reference`, `EndOfTrace` (the `break`
leaves only the loop around `fread`, so page 0 is looked up once more), `Idle`
(a process that has finished uses its quantum up), `Rotate` (hand-over, flush in
the local mode), `Count` (the final pass over the list, which moves `head`). A look-up whose bucket lies before the hash table (`Strays`) reads
and writes other memory; such a run ends there, with the status "outside".

### FindPattern and Drivers
`jump` is the `sigsetjmp` that `readonly_memory` was saved by last; `Fault` sets
`flag` and continues there. `Load`, `Overwrite`, `PutBack` are the accesses of
the probe; `Advance`, `Complete`, `Mismatch` one byte of the search. `pat` and
`count` always agree, so only `count` is kept. The model fixes what Linux
guarantees: the first and last page are never mapped (without the second the
search would go round for ever). `Drivers` adds what happens between and after
the two searches. That is the copy of the pattern or the new mapping, and what the driver prints: `stdio` is where its buffers lie in the memory
searched, and `Reported` lets them hold anything from then on. Drivers 2 and 3 store one match beyond their
array when there are more than `loclength`; the model gives the array that
element, and leaves out what the store overwrites. The arrays of driver 1 have 10 elements whatever `loclength` is
(`ArrayLength`); the model keeps `loclength` below that. The functions' own
variables are not part of the memory searched. An empty pattern is excluded.

## 3. What the runs check

Nine runs pass; three show a statement of the documentation that the code does
not keep, each by a shortest counterexample.

| run | instance | question |
|---|---|---|
| `EntryLock_safety` | 3 threads, 2 entries, 1 of them queried, 2 messages, 3 buffers, 1 failing `malloc` | exclusion, whole replies, locks returned, the inductive invariant |
| `EntryLock_service` | 3 threads, 1 entry, fair | atomicity (`Whiteboard`), every call returns |
| `EntryLock_torn` | 3 threads, 2 entries, both queried | violated: `ReplyConsistent` |
| `Connections_both` | 3 clients, 1 request, fair | one thread for each connection and every wait ends, if clients come one at a time |
| `Connections_race` | 2 clients at once, fair | violated: `AlwaysAnswered` |
| `Client_session` | entries 1 and 10, 3 requests, 4 texts, one of which reads like requests, 3 key files, texts whole or in pieces, fair | requests told apart up to a cut, views exact, keys whole, answers come |
| `Client_keyholder` | 1 encrypted entry, the right key | violated: `KeyholderReads` |
| `StateFile_restart` | 2 servers in turn, with the right to write in `/` or without, 2 entries, 1 update, 2 SIGTERMs, 4 handmade files, fair | dumps come back, the loader stays in its array, SIGTERM ends the server with a dump |
| `Tlb_three` | 3 nodes, 7 pages, some negative as ints, flushes | queue and buckets stay sound |
| `PageTable_modes` | 3 frames, 5 pages, 2 processes, FIFO and LRU | frames, counters, tree |
| `Tvm_modes` | 2 traces of 0 to 3 references to 5 pages, some negative as ints, 2 frames, TLB of 2, quantum 2, all four modes, fair | counters, causes of crashes, the buffer's specification, end |
| `Drivers_all` | 5 pages of 4 bytes, 3 of them mapped or not, 4 contents, buffers of stdio or none, `loclength` 1 and 3, three drivers, fair | search, probes, flags, end |

What they show, and why the bounds are enough:

- **EntryLock.** Three threads are the fewest that have a reader inside, another one
  entering or leaving, and a writer waiting. A second entry that is updated but
  not queried lets buffers move between entries. One failed `malloc` is what
  decides: the group mutex then stays locked for good. `LocksReturned` excludes that
  case. The runs limit *queries* to one entry because the protocol is right only
  there; `EntryLock_torn` shows what happens with two: the second query finds
  `b = 2`, locks no group mutex and reads while its entry is updated.
- **Connections.** Two clients are enough for two threads on one descriptor,
  three for a descriptor that is closed, given out again and closed by the
  thread that had it first. If clients connect one at a time none of this happens, which
  is `OneThreadEach` and `PatientAnswered`; if two connect at the same
  time a client can wait for its greeting for ever (`Connections_race`).
- **Client.** Three requests (`MaxAsks`) are the fewest in which an update leaves something in the buffer, a view reads
  the second copy of an earlier reply, and the next view meets both. Entry 10 has a number of two digits, the texts hold an
  empty line, a line too long for the header's array, or lines that read like a query and an update, or are a deletion (`NULL`); the key files are none, two keys, and one whose last line has no end.
  `ShowsWhatCame` is about what the header announces: the rest in the buffer, the second copy and bytes behind an unterminated
  text are never shown. If texts come in pieces (`whole` false) the entry is cut. The requests behind it are still taken for what they are
  unless the thread meets an empty line, until a part is left behind that reads like a header (`cut`): from then on nothing is claimed
  by `RequestsUnderstood`, and `NoTextIsRequest` (below) is false. Most replies are too long for their 24 bytes, so the thread may be `lost` at any query,
  which `AnswerComes` allows for. No client with the right key reads an encrypted entry (`Client_keyholder`): the text
  given to base64 starts with the header's new line, and `outlen` is 0 unless the client has encrypted something.
- **StateFile.** Two servers in turn are the fewest that dump and load; the second may
  load the dump of the first, a copy of it, or one of its own directory. Texts are blank, hold
  a new line, or a "!", and may run on into junk; the handmade files have a number of ten digits, no
  mode, a length that is no number, a text too short, and one too long with a "!" in what is left, so that
  an entry is counted that is never filled.
  SIGTERM may come before the first `sigsetjmp` (the process then dies and the file is
  empty), before `chdir`, before the first connection, while serving, and again during main's
  dump. Without updates the two streams hold the same text, which is why being written over each
  other does no harm (`RestoredAsDumped`); with one update in between, the end of the longer
  dump stays behind the shorter one (see below). `SignalStops` has two parts. Once the handler has begun to dump, the server goes down, or
  hangs in a second handler. And when it goes down from there, and may write where it is, `whiteboard.all` has an entry for each of the board's,
  and if nothing ran into the dump it is just what the board is printed as. A server that may not write in `/` dies without a dump (`DumpsBoard`, below).
- **Tlb.** Three nodes give a first, a middle and a last one, and seven pages share the three buckets, one of which
  is that of a page that is negative as an int (13 is -3); another has no bucket (15 is -1). The state space is complete: nothing is bounded.
- **PageTable.** With three frames a node can have two children when its page goes
  out. `MaxTreeNodes` (6) bounds the nodes reachable at a time (an action that
  would need more is disabled), `MaxFaults` (5) the faults of each process. In
  FIFO mode the tree does lose pages and keep others that are gone; what
  still holds is that frames and counters are right, that every search ends and
  that a page just looked up is found. In LRU mode the tree stays exact, because the victim
  is always the page brought in last: a leaf.
- **Tvm.** Traces of up to three references (`MaxLength`) with a quantum of two have
  hand-overs in the middle and at the end of a trace. `CrashesHaveCause` is about every mode: the program crashes with one frame only (a page-out
  then follows a null pointer), or in the local mode once a file has been closed (a flush may then meet wild buckets), and it leaves the hash table
  only for a page number above `INT_MAX`. With `INT_MAX` = 3 page 6 is -2 and has a bucket, page 7 is -1 and has none.
- **Drivers.** The contents make matches end and begin at page borders, follow the
  beginning of another match, and hold the byte the probe writes. `RecordedAreMatches` and `HeapMatchIsFound` speak of where a match ends: the location
  recorded is one byte before a match without gaps starts (`findpattern.c:86`; `LocationIsStart`, below). stdio's buffers, none or the last byte of
  a page with the first of the next, hold anything in the second search, so `OnlyMappingChanges` says the flag of each match they do not touch (`Settled`), and of
  the others only that C means the mapping. Of five pages the
  first and last are unmapped, the three others each unreadable, read-only or
  writable, so matches can span a gap and read-only pages precede writable ones.

Fairness: `EntryLock`: every thread that can step does (`WF` per thread; no order
in which mutexes are granted is assumed, and clients need not ask).
`CallsReturn` therefore says: *if* requests stop, every call returns. With
requests for ever it is not claimed: readers can starve writers. `Connections`: `main` and the threads
are scheduled and a client reads what has arrived; nobody has to connect, ask or
leave. `Client`: the thread is scheduled and the client reads what has come; nobody has
to ask or leave. `StateFile`: once told to stop, `main` is scheduled; SIGTERMs are finitely many. `Tvm` and `Drivers` are sequential: weak fairness of the next step says
only that the program is not stopped.

`CHECK_DEADLOCK FALSE` is set where the system really may stop: no client sends
anything more, the bounds are reached, the server has died or the program has ended.

### Other disagreements seen with TLC, not kept as runs
Stated in the modules; put the name in a `.cfg` to see the counterexample.
- `DumpsBoard` (`StateFile`, with the constants of `StateFile_restart`): a server that may not write in `/` gets NULL from `fopen` and dies in `fprintf`
  without a dump (`wbs379.c:53`, against `AS2/README.txt:15-17`).
- `StateFileSurvivesStart` (`StateFile`, with the same constants): `-f whiteboard.all` in the dump's own directory
  loads an empty board, the file having been truncated (`wbs379.c:377`).
- A dump the loader refuses: an update between header and text, a text with "!" or bytes beyond ASCII, or an entry that was
  counted for a "!" somewhere in the file (`wbs379.c:150`), never filled (`:407`), and dumped without a mode (`Plain` excludes
  the last three; the proof of `AllDumpsAccepted` failed on the unfilled entry, and TLC then found it with the last handmade file). `AS2/whiteboard.all` itself is such a file: its first text has fewer than the 64 ASCII characters announced.
- `LruEvictsLeastRecent` (`Tvm`, with the constants of `Tvm_modes`): the LRU mode evicts the page brought in
  last, and a look-up moves no page.
- `LocationIsStart` (`FindPattern`, with `MCDrivers` and the constants of `Drivers_all`): the location recorded is one byte before the match, or further off if the
  match spans a gap (`findpattern.c:86`, against `AS1/README.txt:8-9`).
- `EachMatchIsFound` (`FindPattern`, likewise): the 'b' of "aab" completes no match of "ab",
  because the search goes on behind the byte that did not fit.
- `FifoIndexExact` (`PageTable`, with the constants of `PageTable_modes`): `PageOut` drops the root that `del` returns, and
  the tree keeps a page that is gone.
- `ServerStays` (`Connections`, with `Clients <- OneClient`, `MaxRequests <- TwoRequests`): a client that has shown a left-over copy
  leaves before its last query is answered; the two writes of the answer raise SIGPIPE, which the server does not handle
  (`wbs379.c:317-318`, against `AS2/README.txt:15`).
- `AnswersMatch` (`Connections`, with the same constants): an answer to a query is read as the
  answer to the next request.
- `DumpHasEachEntryOnce` (`StateFile`, with `Messages <- LongMessage`, `Tails <- NoTail`, `Handmade <- NoFiles` and one each of starts, updates and
  signals): an update between the two dumps leaves an entry twice in `whiteboard.all` (`wbs379.c:53`, against `AS2/README.txt:15-17`).
- In `Client`, without a property of their own: the response printed for an encrypted update ends in what the buffer held
  (`wbc379.c:352`); encrypted entries from 10 on are shown undeciphered (`wbc379.c:246`); a key file whose last line has no end
  leaves `i` behind, and the next call of `decrypt` spoils its first key (`wbc379.c:506`).
- `NoTextIsRequest` (`Client`, with the constants of `Client_session`): a text is read with one `read`, and if it comes in pieces a line of the rest is taken for a
  request of the client (`wbs379.c:332`, against `AS2/README.txt:24-26`).
- `NoModeChanges` (`Drivers`, with the constants of `Drivers_all`): drivers 1 and 2 report "C" for matches whose mode has
  not changed, because `if(pattern[i].mode = 1)` assigns.
- `CallsReturn` of `EntryLock` with `MaxNoMemory = 1` (the mutex of the failed query is never unlocked) or with two
  queried entries (a mutex is left locked by readers that counted wrong).
- `ReplyConsistent` with 258 entries and a query of 257: entry 1 answers,
  its number being 257 cut to a `char`.

## 4. What is proved

`EntryLockProofs` is checked by TLAPS for every
finite set of threads, every board, every set of messages, buffers and failing
`malloc`s; `ConnectionsProofs` for every number of clients and requests; `ClientProofs` for every text, key file and board
the assumptions in `Client` admit, and every number of requests; `TlbProofs`,
`PageTableProofs` and `TvmProofs` for every number of traces, pages, frames and nodes; `StateFileProofs` for every set of files,
texts and sizes, and every number of servers, updates and signals;
`DriversProofs` for every address space, pattern, memory and limit of the matches kept.

| theorem | says |
|---|---|
| `Invariance` | `Spec => []IInv` |
| `TypeCorrect` | `Spec => []TypeOK` |
| `UpdatesExclusive` | `Spec => []MutualExclusion` |
| `RepliesConsistent` | `Spec => []ReplyConsistent` |
| `LocksAllReturned` | `Spec => []LocksReturned` |
| `Refinement` | `Spec => WB!Spec`, that is `Atomic` |
| `ConnectionsProofs`: `TypesHold` | `Spec => []TypeOK` |
| `OneThreadForEach` | `Spec => []OneThreadEach` |
| `ClientProofs`: `AllUnderstood` | `Spec => RequestsUnderstood` |
| `AllKeysTried` | `Spec => []KeysTriedWhole` |
| `ShownCame` | `Spec => []ShowsWhatCame` |
| `StateFileProofs`: `AllRestored` | `Spec => []RestoredAsDumped` |
| `AllLoadsFit` | `Spec => []LoadFits` |
| `AllDumpsAccepted` | `Spec => DumpsAreAccepted` |
| `TlbProofs`: `BucketsDoNotDangle` | `TlbSpec => []NoDanglingBucket` |
| `LookedUpIsFound` | `TlbSpec => LookedUpHits` |
| `TlbTypes` | `TlbSpec => []TlbTypeOK` |
| `QueueIsLinked` | `TlbSpec => []QueueLinked` |
| `BucketsAreRecent` | `TlbSpec => []BucketIsRecent` |
| `PageTableProofs`: `FramesAreKept` | `PageTableSpec => []FramesKept` |
| `FaultsAreAccounted` | `PageTableSpec => []FaultsAccounted` |
| `LruIndexIsExact` | `PageTableSpec => []LruIndexExact` |
| `TreeStaysSorted` | `PageTableSpec => [](IInv /\ OrderInv)` |
| `SearchesEnd` | `PageTableSpec => []SearchEnds` |
| `TvmProofs`: `EachIsCountedOnce` | `Spec => []CountedOnce` |
| `TvmTypes` | `Spec => []TypeOK` |
| `NothingWildIsFollowed` | `Spec => []CrashesHaveCause` |
| `TlbIsUsed` | `Spec => TlbSpec`, that is `UsesTlb` |
| `DriversProofs`: `TypeCorrect` | `Spec => []TypeOK` |
| `RecordedAreMatchesHolds` | `Spec => []RecordedAreMatches` |
| `MatchesAreCountedHolds` | `Spec => []MatchesAreCounted` |
| `MemoryIsKept` | `Spec => MemoryKept` |
| `HeapMatchIsFlagged` | `Spec => []HeapMatchIsFound` |
| `OnlyMappingChangesHolds` | `Spec => []OnlyMappingChanges` |

Assumptions of the first six, besides those named in `EntryLock`: `OneEntryQueried` (queries of
existing entries name one entry: `b` is shared by the board, and `EntryLock_torn`
shows that the assumption is needed) and `CharIsEnough` (at most 256 entries, so
that the cast in the scan finds no other entry).

The argument for them (`EntryLockInvariant`). `MutualExclusion` and `ReplyConsistent`
are not inductive: that a writer meets no reader depends on what the locks and
the counter mean at every point of the protocol. `IInv` says it:
- `Roles`: where a thread is agrees with its request;
- `ReaderMutex`: at most one thread counts itself in or out, so
- `ReaderCount`: `b` is the number of threads between their two stores to it,
  plus the failed queries, and a register holds `b` plus or minus one;
- `GroupMutex`: `mutexg` is locked while `Inside` holds of some reader (who is
  covered by the group's lock changes with `b` in the middle of the entry protocol) or a
  writer writes, and for ever once a query has failed;
- `Exclusion`: never both;
- `OwnBuffers`: no two entries share a block, so an update changes one text;
- `WholeEntries`: unless a writer is half-way through an entry, its fields are of one
  message;
- `Loaded`: between `Format` and `Copy` the entry does not change.

Each is preserved by every action, one step of the proof per action; the cardinality
facts for `ReaderCount` are lemmas of their own. The refinement proof maps each action to
`Ask`, `Read`, `Fail`, `Write`, `Deliver` or a stutter, using `IInv` for the
two steps that are not local: `Copy` (the board has what is copied: no updater
is there) and `Erase` (nobody else updates the entry).

`ConnectionsProofs` needs the two assumptions in `Connections`. `Placed` (a connection is
behind one descriptor at most, or waits in the backlog) makes `accept` find a free descriptor, by the pigeonhole principle;
`Sockets` says that nobody reads `snew` before it is set. When clients connect one at a time, `OneComes` keeps whoever
reads `snew` apart from the descriptors in use, and `OwnSockets` gives each thread its own; so the connection `close` hits is
the one whose end was read. Without `patient` both are false, as `Connections_race` shows.

`ClientProofs`. The assumptions in `Client` say that every cell of a text takes room and that what reads like a request in one is a request for an entry of the board
(`TypedAssumption`), that no line of a key file has more than the 127 characters `testkey` has room for (`KeyFilesAssumption`,
`wbc379.c:453`), and that the board the client finds holds what updates in one piece leave: a text of the length it tells, with a new line behind it
unless it ends there (`EntriesTerminated`; a blank entry has the length 0).
- `CutInv`: what follows holds as long as no read has left a part of a text behind that reads like a header (`cut`), which none does of a text in one piece.
- `RequestInv`, for `RequestsUnderstood`: what the thread has not read is what is left of a text that was cut, which holds no header and ends in a new line
  (`Leftover`), and then the requests not yet understood, one behind the other (`Laid`: there are cuts, one for each request). While the thread waits
  for a text its header is counted back in (`Stream`) and nothing is left over; if texts come in one piece nothing ever is. So a line
  is the next request's header or part of what is left (`HeaderLine`), and the read of `length + 1` characters takes the text and its new
  line and no more (`TextTaken`: cells are cut by their widths, which need not be one), or some of its cells (`PieceRead`); the thread
  never waits for a text that has not been sent (`TextSent`), so a client that hangs up does no harm.
- `KeysInv`, for `KeysTriedWhole`: if the last line of the key file is ended, `i` is 0 between two calls. The loop of `decrypt` is a recursive function; that it is what it is
  defined to be (`Read`), and that after each character the keys tried, each with its end, and the one being read make up what has been read,
  goes along the file one character at a time (`KeysRead`).
- `ReplyInv`, for `ShowsWhatCame`: every entry of the board holds a text that is terminated where its header says, or there (`Entered`: what `ReadText` stores, by
  `RequestInv`, is the whole text of a request); hence so does a reply, in the thread's hand or on its way (`Replied`). The client is greeted before anything else comes,
  and asks only when it has been (`Coming`); its buffer is empty when it waits for the answer to a plain update (`Buffered`). The client's count of characters,
  `5 + Digits + Digits + length - 1`, or 5 and a digit if the length is 0, is the width of the header, its new line, the text and the new line behind it
  (`ShownAsWanted`); it is never more than what has come, so nothing older in the buffer shows.

`StateFileProofs`. None of its three properties is inductive: what a file holds when it is loaded was settled when two streams were flushed over each
other, an earlier server ago. `Offset(E)` says where in the dump of the board `E` each entry ends, `Holds(f, E, m)` that `f` is the dump of its first `m` entries.
- `Beginnings`: unless an update or a change of the heap has run into the dump (`quiet`), each stream holds a beginning of the board's dump, and the one being written `i` entries of it.
  So, whichever reaches a cell, it is the same cell, and what is flushed is the dump (`FlushedDump`): that main dumps again
  behind the handler's half of a dump does no harm. `Copies`: a file in `kept` is the dump of its board, however it was moved.
- `Room`, for `LoadFits`: the entries loaded are at most the "!" in front of `pos`. It holds of any file, as each turn that loads an entry passes its "!" (`NextMark`);
  without 0xFF these are no more than `getEntryLimit` has counted.
- `Restoring`, for the other two: in a dump `pos` is behind the beginning of the last entry loaded and not behind its end, since the text
  announced may be shorter than the one dumped. What is left of an entry has no "!" if it is `Plain`, so the next "!" is
  the next entry's, and `ReadBack` says that the loader reads from there what was printed: the number, which is what `Strtol` gives for the digit of `Printed`
  (`StrtolFacts`, `PrintedFacts`), the mode, the length, and the text up to it. Hence it is never refused, and as a dump has exactly one "!" for each entry (`DumpLimit`)
  the board has as many entries at the end of the file as it had.

The simulator's proofs need nothing but the assumptions in its modules.
- `PageTableProofs`: `FramesKept` is not inductive, because the LRU mode takes the entry `tail` points to, which must be the last
  one; `TailIsLast` says so. That the list holds no frame twice (`NoFrameTwice`) follows by counting, so a page-out rotates
  the list (FIFO) or leaves it (LRU). The counters follow from the frames a process holds (`Owned`), frame by frame.
  None of this looks into the tree. `LruIndexExact` does: `LruTree` says that the tree finds the pages of the frames in use and no others,
  that those differ, and, which makes it inductive, that the page brought in last, the next to go, is found at a leaf
  that is not the root. So `del` never comes to the branches that give subtrees up. That searches are what they should be needs
  more than the recursion that defines them, which says nothing of a tree with a circle: `Ranked` gives each node a rank above those of its
  children, and statements about all nodes of a path are proved of a least one for which they fail. `RehungSearch` is
  the lemma both `del` and `insert` come down to: what hangs where the path of a page ends is exchanged, and no other search notices.
- The last part of `PageTableProofs` is about the order of the tree: `SearchEnds`, in the FIFO mode too, where `del` leaves nodes with two parents, nodes of pages that are gone, pages
  its searches no longer find, and a root whose page has been taken out. A circle would need a pointer from a node to one above it, so the
  proof has to say which nodes can still be relinked: those that a search of some page comes to, and for them the order that
  a binary search tree has everywhere. `Sorted` says it, as seen from the root. Its `LowSide` and `HighSide` are the nodes that searches for pages below and above the root's
  come to (at a node on the wrong side they all go one way). `InOrderOf`: a node found on its own side has its pages in order below it.
  `LowsApart`, `HighsApart`: what hangs on its inner side is not on the other side of the root, although the two sides may share nodes.
  `LostWhole`: what a node lost for the high side still leads to has no part of what hangs on the right of a node there without having that node; without it
  `del` on the high side could take a node from under one that is still found. `RootOnce`: no other node on the sides has the root's number.
  `Ranked` says there is no circle: each node can be given a rank above those of its children.
  `Ordered` of the root itself holds until its page goes out, which happens once at most: its node stays, so the page is always found and never comes in
  again. That is `OrderInv`. `del` comes down to `Spliced` (a node is replaced by its heir), taken apart by where the node is: on the low side,
  the high side, or the root (`TakenLowSorted`, `TakenHighSorted`, `TakenRootSorted`); `insert` to `Grown` (`GrownSorted`). `Apart` is the lemma on which the cases
  rest: two nodes in order that have a node below them in common are one below the other.
- `TlbProofs`: as every node hangs in the bucket of its own page, the bucket an eviction clears is the only one that can lead to the
  node that goes; for that only pages need to stay with their nodes (`Evicted`, `Pushed`, `Moved`). For the queue, `QueueInv` says that some
  sequence of all live nodes agrees with every `next` and `prev`; an eviction drops its last node, an insertion puts one in front (`Headed`), a hit
  brings one forward (`Rotated`), and the pointers the code sets, first, middle or last node, are those of the new sequence. `Recent`
  says that a bucket leads to the first node of the sequence among those that share it, or to none. `Chain`, the walk
  along `next`, is this sequence (`ChainIsQueue`).
- `TvmProofs`: the page table's invariant holds until the report takes the list apart; with it, and with no bucket uninitialised in
  the global mode or before a trace has ended, nothing wild is followed, and only negative page numbers have buckets outside the table; `TvmTypes` needs besides that a list nobody has put a page on goes with a buffer in which nothing is found (`Started`), so
  that the report has a last entry; each turn adds at most one to one of the counters it may add to; and every
  step of `main` on the buffer is a step of `Tlb`.

`DriversProofs` (the invariant is in `DriversInvariant`). The properties speak of what a search returns; the invariant has to
say what it has done half-way, while probes, faults and jumps come in between.
- Seen from the bytes a search is one pass over the readable addresses (`Passes`): each step either passes nothing readable or compares the byte at
  `Position`. That the probes do not show follows from `Control` (what `flag`, `jump` and `mode` mean at each point, and that a fault is taken where it belongs)
  and from `Kept`, the memory with the byte the probe has in hand put back.
- `Partial`: the last `count` readable bytes are the beginning of the pattern; `Recorded`: each match kept is one, with its page's mode, behind the
  one before and clear of what is matched now. Together they give `RecordedAreMatches`.
- `InStep`: from a byte the pattern does not hold the search matches what stands there; so `NoneMissed`, counted as a set, gives `MatchesAreCounted`.
- `HeapInv` and `MappingInv` follow driver 1's block and driver 3's mapping from one search to the next; the buffers of stdio may lie anywhere else.
- For driver 3 `FirstFound` says that what the first search has recorded has the modes of then, and that no match is missing from it that stands clear of those
  buffers (`SettledRuns`). Those stand there in the second search too, which finds them as any other, so the modes alone decide their flags. Together with the property itself this
  is `SameInv`.

Only model-checked:
- everything about liveness (`CallsReturn`, `Ends`, the properties of `Connections` and `Client` that say something is
  answered, the end after SIGTERM), which is out of the prover's reach;
- `TypeOK` of `Client` (the widths of what is shown would have to be known inside ciphertexts, and `i` stays below 128 only as long as
  few calls of `decrypt` follow each other on a key file with an open end), and of `StateFile` (that the numbers of an entry have one digit is a
  bound of the runs, not of the code: a handmade file may hold more digits, which the model could not print as one cell);
- what the invariant of `EntryLock` says when two entries are queried (it is false there).

## 5. Plan

1. **StateFile**: an abstract specification (a board that survives restarts) and the
   refinement under `kept`, for which the invariant of `StateFileProofs` is the ground; numbers of several digits as several cells.
2. **Requests** with several threads on one board: the replies of `EntryLock` in the streams of `Connections`.
3. Runs are few on purpose: a new one takes the place of the violation run that says least.
