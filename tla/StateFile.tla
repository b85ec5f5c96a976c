----------------------------- MODULE StateFile -----------------------------
(***************************************************************************)
(* How the whiteboard survives its server (wbs379.c): main starts with a   *)
(* blank board (-n) or with the one in a state file (-f), the handler of   *)
(* SIGTERM writes whiteboard.all and jumps back into main, which writes it *)
(* again and exits.                                                        *)
(*                                                                         *)
(* A file is a sequence of cells: "!", the end of a line "nl", a digit, a  *)
(* mode, "x" for any other character, "j" for a byte from 0x80 to 0xFE and *)
(* "ff" for 0xFF; a number below ten is one cell.  Text that the code does *)
(* not terminate is read up to the next zero byte: what follows it is one  *)
(* of Tails.  Two streams on one file are written as glibc does at exit:   *)
(* the one opened last first, each from its own offset 0.                  *)
(*                                                                         *)
(* A second SIGTERM while main is in its handler is taken to wait; the     *)
(* kernel may give it to a client's thread, whose jump into main's frame   *)
(* is undefined and is not modelled.                                       *)
(***************************************************************************)
EXTENDS Integers, Sequences, SequencesExt

CONSTANTS
  Messages,    \* what a client may send: its mode and its text
  Tails,       \* what an unterminated text may be followed by
  Handmade,    \* the files a user may have written by hand
  Sizes,       \* the sizes given with -n
  MaxStarts,   \* bound: how many servers are started
  MaxUpdates,  \* bound: how many updates all of them get
  MaxSignals   \* bound: how many SIGTERMs all of them get

Digits   == <<"0", "1", "2", "3", "4", "5", "6", "7", "8", "9">>
Modes    == {"p", "c"}
Cells    == ToSet(Digits) \cup Modes \cup {"!", "nl", "x", "j", "ff", "zero"}
Negative == {"j", "ff"}       \* char is signed

ASSUME MessagesAssumption ==
  \A m \in Messages : m.mode \in Modes /\ m.text \in Seq(Cells) /\ Len(m.text) < 10
ASSUME TailsAssumption == <<>> \in Tails /\ Tails \subseteq Seq(Cells)
ASSUME HandmadeAssumption ==
  \A f \in Handmade : f \in Seq(Cells) /\ f # <<>> /\ Last(f) = "nl"
ASSUME BoundsAssumption ==
  Sizes \subseteq 0 .. 9 /\ {MaxStarts, MaxUpdates, MaxSignals} \subseteq Nat

\* whiteboard.all in the directory of the user and in "/", and a copy of the latter.
Dirs  == {"home", "root"}
Paths == Dirs \cup {"saved"}

\* Where a server may write whiteboard.all: in "/" only one of the superuser, or one
\* that finds the file there with the rights that umask(0) has given it.
Rights == {Dirs, {"home"}}

VARIABLES
  disk,      \* the files there are, and their contents
  pc,        \* where main is
  args,      \* the arguments, the rights, and the directory the server is started in
  dir,       \* the working directory: where "whiteboard.all" is
  entries,   \* the board; its length is WHITEBOARD_SIZE
  entryNum,  \* how many entries have been loaded
  pos,       \* the cell of the state file that is read next
  jump,      \* where readonly_memory leads: to main's first or second sigsetjmp
  flag, quit_request,
  streams,   \* the buffers of the streams dumpToFile has opened
  i,         \* how many entries the dump has written
  upd,       \* the update in progress
  starts, updates, signals,
  quiet,     \* history: no update or change of the heap since the first dump was begun
  kept       \* history: the boards that files are the dump of

arguments == <<args, dir>>
loaded  == <<entries, entryNum, pos>>
points  == <<jump, flag, quit_request>>
dump    == <<streams, i>>
process == <<arguments, loaded, points, dump, upd>>
counts  == <<starts, updates, signals>>
vars    == <<disk, pc, process, counts, quiet, kept>>

NoArgs   == [rights |-> {"home"}, cwd |-> "home", opt |-> "none", size |-> 0, file |-> "saved"]
NoUpdate == [pc |-> "none", at |-> 0, mode |-> "p", length |-> 0, entry |-> <<>>]

\* What realloc leaves in an entry on a fresh heap; printf shows "(null)".
Unfilled == [entryNumber |-> 0, mode |-> "zero", length |-> 0, entry |-> <<"x">>]

Put(f, p, v) == [q \in DOMAIN f \cup {p} |-> IF q = p THEN v ELSE f[q]]
Drop(f, p)   == [q \in DOMAIN f \ {p} |-> f[q]]

\* The process's variables as they are when it is started, and when there is none.
Blank(a) ==
  /\ args' = a /\ dir' = a.cwd
  /\ entries' = <<>> /\ entryNum' = 0 /\ pos' = 1
  /\ jump' = "none" /\ flag' = FALSE /\ quit_request' = FALSE
  /\ streams' = <<>> /\ i' = 0 /\ upd' = NoUpdate

\* exit or a crash: what the buffers hold is flushed by the caller, or lost.
Stop == pc' = "down" /\ Blank(NoArgs) /\ quiet' = TRUE

\* fopen(p, "w"); NULL, which nobody looks at, when p may not be written.
Truncate(p, rights) ==
  IF p \in rights
    THEN disk' = Put(disk, p, <<>>) /\ kept' = Drop(kept, p)
    ELSE UNCHANGED <<disk, kept>>

Init ==
  /\ disk \in {<<>>} \cup {[p \in {"saved"} |-> f] : f \in Handmade}
  /\ pc = "down"
  /\ args = NoArgs /\ dir = "home"
  /\ entries = <<>> /\ entryNum = 0 /\ pos = 1
  /\ jump = "none" /\ flag = FALSE /\ quit_request = FALSE
  /\ streams = <<>> /\ i = 0 /\ upd = NoUpdate
  /\ starts = 0 /\ updates = 0 /\ signals = 0
  /\ quiet = TRUE /\ kept = <<>>

----------------------------------------------------------------------------
(* Conversions *)

\* fprintf(fp, "!%d%c%d\n%s\n", ...)
Printed(e) ==
  <<"!", Digits[e.entryNumber + 1], e.mode, Digits[e.length + 1], "nl">>
    \o e.entry \o <<"nl">>

\* The first cell from p on that is in S, or the end of the file.
NextIn(f, p, S) ==
  LET n == SelectInSubSeq(f, p, Len(f), LAMBDA c : c \in S)
  IN  IF n = 0 THEN Len(f) ELSE n

\* How many digits s begins with, and their value.
DigitsOf(s) == Cardinality({n \in DOMAIN s : \A m \in 1 .. n : s[m] \in ToSet(Digits)})
Strtol(s) ==
  LET value[n \in 0 .. DigitsOf(s)] ==
        IF n = 0 THEN 0
                 ELSE 10 * value[n - 1] + SelectInSeq(Digits, LAMBDA d : d = s[n]) - 1
  IN  value[DigitsOf(s)]

\* Mutant of getEntryLimit: the first character is read and not looked at.
LimitFromSecond(f) == Cardinality({n \in 2 .. Len(f) : f[n] = "!"})

\* The number of "!", wherever they are; 0xFF is taken for the end of the file.
getEntryLimit(f) ==
  Cardinality({n \in DOMAIN f : f[n] = "!" /\ \A m \in 1 .. n : f[m] # "ff"})

\* The header that starts at p: where its mode and its end are, what it says.
ModeAt(f, p)    == NextIn(f, p + 1, Modes \cup {"nl"})
HeaderEnd(f, p) == NextIn(f, ModeAt(f, p) + 1, Cells \ ToSet(Digits))
NumberAt(f, p)  == Strtol(SubSeq(f, p + 1, ModeAt(f, p) - 1))
LengthAt(f, p)  == Strtol(SubSeq(f, ModeAt(f, p) + 1, HeaderEnd(f, p) - 1))
TextEnd(f, p)   == HeaderEnd(f, p) + LengthAt(f, p)
TextAt(f, p)    == SubSeq(f, HeaderEnd(f, p) + 1, TextEnd(f, p))

\* Mutant of InOrder: a line feed inside a text ends it.
InOrderLines(f, p) ==
  /\ f[ModeAt(f, p)] # "nl" /\ f[HeaderEnd(f, p)] = "nl"
  /\ TextEnd(f, p) <= Len(f)
  /\ ToSet(TextAt(f, p)) \cap (Negative \cup {"!", "nl"}) = {}

\* The loader goes on: there is a mode, only digits behind it, and as much text
\* as the header says without "!", the end of the file or a negative char.
InOrder(f, p) ==
  /\ f[ModeAt(f, p)] # "nl" /\ f[HeaderEnd(f, p)] = "nl"
  /\ TextEnd(f, p) <= Len(f)
  /\ ToSet(TextAt(f, p)) \cap (Negative \cup {"!"}) = {}

\* What the file holds once every stream has been flushed: each cell is that of the
\* oldest stream that reaches it, which was written last.
Flushed(s) ==
  [n \in UNION {DOMAIN s[k] : k \in DOMAIN s} |->
     s[Min({k \in DOMAIN s : n \in DOMAIN s[k]})][n]]

----------------------------------------------------------------------------
(* main, up to the daemon *)

\* whiteboard.all is truncated before the other arguments are looked at.
Start(a) ==
  /\ pc = "down" /\ starts < MaxStarts
  /\ pc' = "args" /\ Blank(a) /\ Truncate(a.cwd, a.rights)
  /\ starts' = starts + 1
  /\ UNCHANGED <<updates, signals, quiet>>

\* exit(0): the port or the size is 0, or the state file cannot be opened.
RefuseArgs ==
  /\ pc = "args" /\ Stop
  /\ UNCHANGED <<disk, counts, kept>>

fillWhiteboardBlank ==
  /\ pc = "args" /\ args.opt = "-n" /\ args.size > 0
  /\ entries' = [n \in 1 .. args.size |->
                   [entryNumber |-> n, mode |-> "p", length |-> 0, entry |-> <<>>]]
  /\ pc' = "fork"
  /\ UNCHANGED <<disk, arguments, entryNum, pos, points, dump, upd, counts, quiet, kept>>

\* fopen(fileName, "r+")
OpenStateFile ==
  /\ pc = "args" /\ args.opt = "-f" /\ args.file \in DOMAIN disk \cap (args.rights \cup {"saved"})
  /\ entries' = [n \in 1 .. getEntryLimit(disk[args.file]) |-> Unfilled]
  /\ pc' = "fill"
  /\ UNCHANGED <<disk, arguments, entryNum, pos, points, dump, upd, counts, quiet, kept>>

file == disk[args.file]
AtEntry == pc = "fill" /\ pos <= Len(file) /\ file[pos] = "!"

\* A line behind the text of an entry.
SkipLine ==
  /\ pc = "fill" /\ pos <= Len(file) /\ file[pos] # "!"
  /\ pos' = NextIn(file, pos, {"nl"}) + 1
  /\ UNCHANGED <<disk, pc, arguments, entries, entryNum, points, dump, upd, counts,
                 quiet, kept>>

\* Mutant of FillEntry: the mode is stored with the next entry's number.
FillEntryShifted(tail) ==
  /\ AtEntry /\ InOrder(file, pos)
  /\ entryNum' = entryNum + 1
  /\ entries' = IF entryNum \in DOMAIN entries
                  THEN [entries EXCEPT ![entryNum] =
                          [entryNumber |-> NumberAt(file, pos), mode |-> file[ModeAt(file, pos)],
                           length |-> LengthAt(file, pos), entry |-> TextAt(file, pos) \o tail]]
                  ELSE entries
  /\ pos' = TextEnd(file, pos) + 1
  /\ UNCHANGED <<disk, pc, arguments, points, dump, upd, counts, quiet, kept>>

\* The text is not terminated.  Memory beyond the array is not modelled.
FillEntry(tail) ==
  /\ AtEntry /\ InOrder(file, pos)
  /\ entryNum' = entryNum + 1
  /\ entries' = IF entryNum' \in DOMAIN entries
                  THEN [entries EXCEPT ![entryNum'] =
                          [entryNumber |-> NumberAt(file, pos), mode |-> file[ModeAt(file, pos)],
                           length |-> LengthAt(file, pos), entry |-> TextAt(file, pos) \o tail]]
                  ELSE entries
  /\ pos' = TextEnd(file, pos) + 1
  /\ UNCHANGED <<disk, pc, arguments, points, dump, upd, counts, quiet, kept>>

\* A number or a length that fills its array of ten characters or runs over it: from there
\* the program may go on, or die.
Overrun ==
  /\ AtEntry
  /\ \/ ModeAt(file, pos) - pos > 10
     \/ HeaderEnd(file, pos) - ModeAt(file, pos) > 10
  /\ Stop
  /\ UNCHANGED <<disk, counts, kept>>

\* exit(0): "not in proper order", "Non-digit found", "shorter than it was specified"
RefuseEntry ==
  /\ AtEntry /\ ~InOrder(file, pos)
  /\ Stop
  /\ UNCHANGED <<disk, counts, kept>>

EndOfFile ==
  /\ pc = "fill" /\ pos > Len(file)
  /\ pc' = "fork"
  /\ UNCHANGED <<disk, process, counts, quiet, kept>>

\* The child sets its handlers and the first point to jump to.
Fork ==
  /\ pc = "fork" /\ pc' = "armed" /\ jump' = "first"
  /\ UNCHANGED <<disk, arguments, loaded, flag, quit_request, dump, upd, counts, quiet, kept>>

ForkFails ==
  /\ pc = "fork" /\ Stop
  /\ UNCHANGED <<disk, counts, kept>>

Chdir ==
  /\ pc = "armed" /\ pc' = "daemon" /\ dir' = "root"
  /\ UNCHANGED <<disk, args, loaded, points, dump, upd, counts, quiet, kept>>

BindFails ==
  /\ pc = "daemon" /\ Stop
  /\ UNCHANGED <<disk, counts, kept>>

\* The first accept returns; later ones set the same point again.
Accept ==
  /\ pc = "daemon" /\ pc' = "serve" /\ jump' = "accept"
  /\ UNCHANGED <<disk, arguments, loaded, flag, quit_request, dump, upd, counts, quiet, kept>>

----------------------------------------------------------------------------
(* A thread updates an entry, at the grain of its stores *)

\* Mutant of updateEntry: an entry that is not found is taken for one.
updateUnchecked(n, m, tail) ==
  /\ jump = "accept" /\ upd = NoUpdate /\ updates < MaxUpdates
  /\ LET at == SelectInSeq(entries, LAMBDA e : e.entryNumber = n)
     IN  upd' = [pc |-> "erase", at |-> at, mode |-> m.mode, length |-> Len(m.text),
                 entry |-> m.text \o <<"nl">> \o tail]
  /\ updates' = updates + 1
  /\ quiet' = (quiet /\ streams = <<>>)
  /\ UNCHANGED <<disk, pc, arguments, loaded, points, dump, starts, signals, kept>>

\* The text arrives with its new line, in a buffer that is not cleared.
updateEntry(n, m, tail) ==
  /\ jump = "accept" /\ upd = NoUpdate /\ updates < MaxUpdates
  /\ LET at == SelectInSeq(entries, LAMBDA e : e.entryNumber = n)
     IN  /\ at # 0
         /\ upd' = [pc |-> "erase", at |-> at, mode |-> m.mode, length |-> Len(m.text),
                    entry |-> m.text \o <<"nl">> \o tail]
  /\ updates' = updates + 1
  /\ quiet' = (quiet /\ streams = <<>>)
  /\ UNCHANGED <<disk, pc, arguments, loaded, points, dump, starts, signals, kept>>

\* One store of the update; new is what it makes of the entry.
UpdateStep(from, to, new) ==
  /\ upd.pc = from
  /\ entries' = [entries EXCEPT ![upd.at] = new]
  /\ upd' = IF to = "none" THEN NoUpdate ELSE [upd EXCEPT !.pc = to]
  /\ UNCHANGED <<disk, pc, arguments, entryNum, pos, points, dump, counts, quiet, kept>>

Erase     == LET e == entries[upd.at] IN UpdateStep("erase", "mode", [e EXCEPT !.entry = <<>>])
SetMode   == LET e == entries[upd.at] IN UpdateStep("mode", "length", [e EXCEPT !.mode = upd.mode])
SetLength == LET e == entries[upd.at]
             IN UpdateStep("length", "buffer", [e EXCEPT !.length = upd.length])
SetBuffer == LET e == entries[upd.at]
             IN \E junk \in Tails : UpdateStep("buffer", "fill", [e EXCEPT !.entry = junk])
Fill      == LET e == entries[upd.at] IN UpdateStep("fill", "none", [e EXCEPT !.entry = upd.entry])

\* A text is not terminated: while a dump is made the threads go on, and may change what
\* follows it on the heap.
HeapChanges(n, tail) ==
  LET e   == entries[n]
      end == IF e.length < Len(e.entry) /\ e.entry[e.length + 1] = "nl"
               THEN e.length + 1 ELSE e.length
  IN  /\ streams # <<>> /\ e.length \in 1 .. Len(e.entry)
      /\ entries' = [entries EXCEPT ![n].entry = SubSeq(e.entry, 1, end) \o tail]
      /\ quiet' = FALSE
      /\ UNCHANGED <<disk, pc, arguments, entryNum, pos, points, dump, upd, counts, kept>>

----------------------------------------------------------------------------
(* SIGTERM *)

\* fopen of dumpToFile; the streams opened before stay open.
OpenDump ==
  /\ Truncate(dir, args.rights)
  /\ streams' = IF dir \in args.rights THEN Append(streams, <<>>) ELSE streams
  /\ i' = 0

\* Before the first sigsetjmp the jump goes nowhere: the process dies, its buffers are lost.
EarlySignal ==
  /\ pc \in {"args", "fill", "fork"} /\ signals < MaxSignals
  /\ Truncate(dir, args.rights) /\ Stop /\ signals' = signals + 1
  /\ UNCHANGED <<starts, updates>>

\* The handler has interrupted main inside malloc or stdio, calls them, and waits for itself;
\* the board and the streams come to nothing.
HandlerHangs ==
  /\ pc \notin {"down", "handler", "landing", "stuck"} /\ signals < MaxSignals
  /\ pc' = "stuck" /\ Blank(NoArgs) /\ quiet' = TRUE /\ signals' = signals + 1
  /\ UNCHANGED <<disk, starts, updates, kept>>

\* Only SIGKILL ends it.
Kill ==
  /\ pc = "stuck" /\ pc' = "down"
  /\ UNCHANGED <<disk, process, counts, quiet, kept>>

\* Mutant of sigint_handler: the flags main tests are not set.
HandlerUnflagged ==
  /\ pc \in {"armed", "daemon", "serve", "closing"} /\ signals < MaxSignals
  /\ OpenDump /\ pc' = "handler" /\ signals' = signals + 1
  /\ quiet' = (quiet /\ upd = NoUpdate)
  /\ UNCHANGED <<arguments, loaded, points, upd, starts, updates>>

\* The signal is blocked while its handler runs; siglongjmp unblocks it.  The fp2 that the
\* handler would close is never set: main has one of its own.
sigint_handler ==
  /\ pc \in {"armed", "daemon", "serve", "closing"} /\ signals < MaxSignals
  /\ flag' = TRUE /\ quit_request' = TRUE
  /\ OpenDump /\ pc' = "handler" /\ signals' = signals + 1
  /\ quiet' = (quiet /\ upd = NoUpdate)
  /\ UNCHANGED <<arguments, loaded, jump, upd, starts, updates>>

\* One turn of dumpToFile's loop, without a lock.
dumpToFile ==
  /\ pc \in {"handler", "closing"} /\ i < Len(entries) /\ dir \in args.rights
  /\ streams' = [streams EXCEPT ![Len(streams)] = @ \o Printed(entries[i + 1])]
  /\ i' = i + 1
  /\ UNCHANGED <<disk, pc, arguments, loaded, points, upd, counts, quiet, kept>>

\* The same where fopen has failed: fprintf(NULL, ...) kills the process.
NullStream ==
  /\ pc \in {"handler", "closing"} /\ i < Len(entries) /\ dir \notin args.rights
  /\ Stop
  /\ UNCHANGED <<disk, counts, kept>>

Jump ==
  /\ pc = "handler" /\ i = Len(entries) /\ pc' = "landing"
  /\ UNCHANGED <<disk, process, counts, quiet, kept>>

\* The tests behind the two sigsetjmp.
Land ==
  /\ pc = "landing"
  /\ IF quit_request \/ (jump = "accept" /\ flag)
       THEN pc' = "closing" /\ OpenDump
       ELSE /\ pc' = IF jump = "first" THEN "armed" ELSE "serve"
            /\ UNCHANGED <<disk, kept, dump>>
  /\ UNCHANGED <<arguments, loaded, points, upd, counts, quiet>>

\* The entry has been filled, its numbers have one digit, the text its header announces is
\* all there and can be read back, and what follows it does not look like an entry.
Plain(e) ==
  /\ e.mode \in Modes /\ {e.entryNumber, e.length} \subseteq 0 .. 9
  /\ e.length <= Len(e.entry)
  /\ ToSet(SubSeq(e.entry, 1, e.length)) \cap (Negative \cup {"!"}) = {}
  /\ ToSet(e.entry) \cap {"!", "ff"} = {}

\* exit(1) flushes the streams.
Exit ==
  /\ pc = "closing" /\ i = Len(entries)
  /\ disk' = IF streams = <<>> THEN disk ELSE Put(disk, dir, Flushed(streams))
  /\ kept' = IF streams # <<>> /\ quiet /\ \A n \in DOMAIN entries : Plain(entries[n])
               THEN Put(kept, dir, entries)
               ELSE kept
  /\ Stop
  /\ UNCHANGED counts

\* The user copies the dump.
Save ==
  /\ pc = "down" /\ starts < MaxStarts /\ "root" \in DOMAIN disk
  /\ disk' = Put(disk, "saved", disk["root"])
  /\ kept' = IF "root" \in DOMAIN kept THEN Put(kept, "saved", kept["root"])
                                       ELSE Drop(kept, "saved")
  /\ UNCHANGED <<pc, process, counts, quiet>>

----------------------------------------------------------------------------
Arguments ==
  [rights : Rights, cwd : Dirs, opt : {"-n"}, size : Sizes, file : {"saved"}]
    \cup [rights : Rights, cwd : Dirs, opt : {"-f"}, size : {0}, file : Paths]

Startup ==
  \/ fillWhiteboardBlank \/ OpenStateFile \/ SkipLine \/ EndOfFile
  \/ \E tail \in Tails : FillEntry(tail)
  \/ Overrun \/ RefuseEntry \/ Fork \/ Chdir \/ Accept

Shutdown == dumpToFile \/ NullStream \/ Jump \/ Land \/ Exit

Update ==
  \/ \E n \in 1 .. 9, m \in Messages, tail \in Tails : updateEntry(n, m, tail)
  \/ Erase \/ SetMode \/ SetLength \/ SetBuffer \/ Fill
  \/ \E n \in DOMAIN entries, tail \in Tails : HeapChanges(n, tail)

Next ==
  \/ \E a \in Arguments : Start(a)
  \/ Startup \/ Shutdown \/ Update
  \/ RefuseArgs \/ ForkFails \/ BindFails
  \/ EarlySignal \/ sigint_handler \/ HandlerHangs \/ Kill \/ Save

Spec == Init /\ [][Next]_vars

\* Once it has been told to stop, the process is scheduled.
FairSpec == Spec /\ WF_vars(Shutdown)

----------------------------------------------------------------------------
(* Properties *)

EntryRecord == [entryNumber : 0 .. 9, mode : Modes \cup {"zero"}, length : 0 .. 9,
                entry : Seq(Cells)]

TypeOK ==
  /\ DOMAIN disk \subseteq Paths /\ \A p \in DOMAIN disk : disk[p] \in Seq(Cells)
  /\ pc \in {"down", "args", "fill", "fork", "armed", "daemon", "serve", "handler",
             "landing", "closing", "stuck"}
  /\ args \in Arguments \cup {NoArgs} /\ dir \in Dirs
  /\ entries \in Seq(EntryRecord) /\ entryNum \in Nat /\ pos \in Nat \ {0}
  /\ jump \in {"none", "first", "accept"} /\ {flag, quit_request, quiet} \subseteq BOOLEAN
  /\ streams \in Seq(Seq(Cells)) /\ i \in 0 .. Len(entries)
  /\ upd.pc \in {"none", "erase", "mode", "length", "buffer", "fill"}
  /\ upd # NoUpdate => upd.at \in DOMAIN entries
  /\ starts \in 0 .. MaxStarts /\ updates \in 0 .. MaxUpdates /\ signals \in 0 .. MaxSignals
  /\ DOMAIN kept \subseteq DOMAIN disk

SameEntry(e, d) ==
  /\ e.entryNumber = d.entryNumber /\ e.mode = d.mode /\ e.length = d.length
  /\ SubSeq(e.entry, 1, e.length) = SubSeq(d.entry, 1, d.length)

SameBoard(board, dumped) ==
  /\ Len(board) = Len(dumped)
  /\ \A n \in DOMAIN board : SameEntry(board[n], dumped[n])

\* A server started with a file that still is the dump of an earlier one (no
\* update ran into the dump, no text has a "!" or a byte beyond ASCII) has its
\* board: numbers, modes, lengths, and the text the lengths announce, although the file
\* is written twice, through two streams, and texts hold new lines and are not
\* terminated.
RestoredAsDumped ==
  pc = "fork" /\ args.opt = "-f" /\ args.file \in DOMAIN kept
    => SameBoard(entries, kept[args.file])

\* Such a file is never refused, and no number of it is too long for the loader.
DumpsAreAccepted == [][RefuseEntry \/ Overrun => args.file \notin DOMAIN kept]_vars

\* Whatever file is loaded, handmade or the dump of a torn board, the loader stores
\* no more entries than getEntryLimit has made room for, unless there is a
\* 0xFF in the file.
LoadFits ==
  pc = "fill" /\ "ff" \notin ToSet(file) => entryNum <= Len(entries)

\* The server goes down after its handler of SIGTERM has begun to dump the board.
GoingDown == pc \in {"handler", "landing", "closing"} /\ pc' = "down"

\* The file has an entry for each of the board's, and is just what the board is printed
\* as if no update and no change of the heap ran into the dump.
Dumped ==
  /\ dir \in DOMAIN disk'
  /\ Cardinality({n \in DOMAIN disk'[dir] : disk'[dir][n] = "!"}) >= Len(entries)
  /\ quiet => disk'[dir] = FlattenSeq([n \in DOMAIN entries |-> Printed(entries[n])])

\* A server whose handler of SIGTERM has begun to dump ends, wherever main was and
\* whichever point it jumps to, also if it is told again during the dump; and, if it may
\* write where it then is, it leaves its board in whiteboard.all: the dump that is made
\* twice, through two streams, is whole.  Only a second handler, which main's calls of
\* malloc and stdio are interrupted by, may hang before that.
SignalStops ==
  /\ (pc = "handler") ~> (pc \in {"down", "stuck"})
  /\ [][GoingDown /\ dir \in args.rights => Dumped]_vars

\* "... will close all connections and then dump the state of the whiteboard into a file
\* called 'whiteboard.all'" (AS2/README.txt:15-17), whoever runs the server.
DumpsBoard == [][GoingDown => Dumped]_vars

\* "... will close all connections and then dump the state of the whiteboard into
\* a file called 'whiteboard.all'" (AS2/README.txt:15-17): the file has each entry
\* once, if no text holds a "!".
DumpHasEachEntryOnce ==
  [][Exit /\ streams # <<>> /\ (\A s \in DOMAIN streams : getEntryLimit(streams[s]) = Len(entries))
       => getEntryLimit(disk'[dir]) = Len(entries)]_vars

\* "-f statefile will load the server from a specified statefile"
\* (AS2/README.txt:11-12): a file that was a dump when the server was started is
\* not truncated by the start.
StateFileSurvivesStart ==
  [][\A a \in Arguments : Start(a) /\ a.opt = "-f" /\ a.file \in DOMAIN kept
       => disk'[a.file] = disk[a.file]]_vars
============================================================================
