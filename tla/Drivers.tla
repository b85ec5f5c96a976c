------------------------------ MODULE Drivers ------------------------------
(***************************************************************************)
(* The three drivers of AS1/tests: each searches its own memory with       *)
(* findpattern, prints what was found, changes the memory, searches again, *)
(* and tells for every match whether it is unchanged (U), has changed its  *)
(* mode (C) or is new (N).  The search itself is FindPattern's.            *)
(*                                                                         *)
(* Driver 1 copies the pattern into a block of the heap, driver 2 into an  *)
(* array on the stack, and driver 3 has a file that holds the pattern      *)
(* mapped for reading and maps it again, at the same place, for writing.   *)
(***************************************************************************)
EXTENDS FindPattern, FiniteSetsExt

CONSTANTS
  Zero,        \* the byte 0: it ends a string, and malloc's headers and the
               \* rest of a mapped page hold it
  Buffers,     \* where malloc, fopen and printf may write between the searches
  ArrayLength  \* the matches driver 1 has room for, whatever loclength is

ASSUME ZeroAssumption == Zero \in Bytes /\ ~ Contains(pattern, Zero)
ASSUME BuffersAssumption == Buffers \subseteq SUBSET Addresses /\ ArrayLength \in Nat

VARIABLES
  driver,    \* 1, 2 or 3
  block,     \* where the pattern will be copied to, or the file is mapped
  stdio,     \* the bytes of libc that what the driver prints and opens changes
  phase,     \* "first", "reported", "second" or "compared"
  first,     \* what the first search has found, as the driver keeps it
  flags      \* the flags printed after the second search

own  == <<driver, block, stdio, phase, first, flags>>
vars == <<searchVars, own>>

\* Room for the pattern and the byte that ends it.
Room(a) == (a % pagesize) + patlength < pagesize

\* A chunk of the heap lies behind its header, an array of the stack anywhere.
HeapBlock(a)  == /\ perm[PageOf(a)] = "write" /\ Room(a)
                 /\ a % pagesize > 0 /\ mem[a - 1] = Zero
StackBlock(a) == perm[PageOf(a)] = "write" /\ Room(a)
Mapping(a) ==
  /\ perm[PageOf(a)] = "read" /\ a % pagesize = 0
  /\ \A k \in 0 .. pagesize - 1 :
       mem[a + k] = IF k < patlength THEN pattern[k + 1] ELSE Zero

Init ==
  /\ SearchInit
  /\ driver \in 1 .. 3
  /\ block \in {a \in Addresses : CASE driver = 1 -> HeapBlock(a)
                                    [] driver = 2 -> StackBlock(a)
                                    [] driver = 3 -> Mapping(a)}
  /\ driver = 1 => loclength < ArrayLength
  /\ stdio \in {S \in Buffers : \A a \in S : perm[PageOf(a)] = "write"
                                             /\ a \notin block - 1 .. block + patlength}
  /\ phase = "first"
  /\ first = [occurances |-> 0, locations |-> <<>>]
  /\ flags = <<>>

----------------------------------------------------------------------------
Searching == Search /\ UNCHANGED own

\* Mutant of Report: the first search counts for nothing.
ReportEmpty ==
  /\ Returned /\ phase = "first"
  /\ phase' = "reported"
  /\ UNCHANGED <<searchVars, driver, block, stdio, first, flags>>

\* Drivers 1 and 2 test the mode of a match they print by assigning it:
\* `if(pattern[i].mode = 1)` makes it MEM_RO.
Report ==
  /\ Returned /\ phase = "first"
  /\ first' = [occurances |-> occurances,
               locations |-> [n \in DOMAIN locations |->
                                IF driver # 3 /\ n <= loclength
                                THEN [locations[n] EXCEPT !.mode = "MEM_RO"]
                                ELSE locations[n]]]
  /\ phase' = "reported"
  /\ UNCHANGED <<searchVars, driver, block, stdio, flags>>

CallsAgain ==
  /\ phase = "reported"
  /\ phase' = "second"
  /\ pc' = "called"
  /\ UNCHANGED <<loclength, probed, handler, address, i, matched,
                 driver, block, stdio, first, flags>>

\* The memory once the driver has printed its report and opened and allocated
\* what it needs: the buffers of stdio hold that text, or anything.
Reported == {[a \in Addresses |-> IF a \in stdio THEN text[a] ELSE mem[a]] :
               text \in [stdio -> Bytes]}

\* Mutant of Place: one byte further on.
PlaceBehind ==
  /\ CallsAgain
  /\ driver \in {1, 2}
  /\ \E m \in Reported :
       mem' = [a \in Addresses |->
                 IF a \in block + 1 .. block + patlength THEN pattern[a - block] ELSE m[a]]
  /\ UNCHANGED perm

\* strcpy of the pattern into the block.
Place ==
  /\ CallsAgain
  /\ driver \in {1, 2}
  /\ \E m \in Reported :
       mem' = [a \in Addresses |->
                 IF a \in block .. block + patlength - 1 THEN pattern[a - block + 1]
                 ELSE IF a = block + patlength THEN Zero ELSE m[a]]
  /\ UNCHANGED perm

\* mmap at the same address, private and writable.
Remap ==
  /\ CallsAgain
  /\ driver = 3
  /\ perm' = [perm EXCEPT ![PageOf(block)] = "write"]
  /\ mem' \in Reported

\* The flag of a match: it is looked for among as many matches as the first
\* search counted, those behind the recorded ones being whatever is there.
FlagsOf(match) ==
  LET Same == {n \in DOMAIN first.locations : first.locations[n].location = match.location}
  IN  IF Same # {} THEN {IF first.locations[Min(Same)].mode = match.mode THEN "U" ELSE "C"}
      ELSE IF first.occurances > Len(first.locations) THEN {"U", "C", "N"} ELSE {"N"}

\* The second report stops after loclength matches.
Printed == SubSeq(locations, 1, Min({loclength, Len(locations)}))

Compare ==
  /\ Returned /\ phase = "second"
  /\ flags' \in {f \in [DOMAIN Printed -> {"U", "C", "N"}] :
                   \A n \in DOMAIN Printed : f[n] \in FlagsOf(Printed[n])}
  /\ phase' = "compared"
  /\ UNCHANGED <<searchVars, driver, block, stdio, first>>

Next == Searching \/ Report \/ Place \/ Remap \/ Compare

Spec == Init /\ [][Next]_vars

\* A single thread that runs until it ends.
FairSpec == Spec /\ WF_vars(Next)

----------------------------------------------------------------------------
(* Properties *)

TypeOK ==
  /\ SearchTypeOK
  /\ driver \in 1 .. 3
  /\ block \in Addresses /\ stdio \in Buffers
  /\ phase \in {"first", "reported", "second", "compared"}
  /\ first \in [occurances : Nat, locations : Seq(Match)]
  /\ flags \in Seq({"U", "C", "N"})

\* Trying whether a page can be written leaves the memory as it was; only the
\* driver changes it.
MemoryKept == [][phase' = phase => Kept' = Kept]_vars

Compared == phase = "compared"
IsBlock(match) == EndOf(match) = block + patlength - 1

\* "It will then place a single instance of the given pattern onto the heap. It
\* will run through again and should find another match in memory where the
\* pattern was placed" (AS1/tests/TEST.txt:3-6): if all matches are printed one is
\* that ends where the copy ends, and as a new one if no match ended there before.
\* The location printed is one byte before the copy; see LocationIsStart.
HeapMatchIsFound ==
  Compared /\ driver = 1 /\ occurances <= loclength =>
    \E n \in DOMAIN flags :
      /\ IsBlock(locations[n])
      /\ \/ flags[n] = "N"
         \/ \E m \in DOMAIN first.locations : IsBlock(first.locations[m])
         \/ first.occurances > Len(first.locations)

OnMapping(a) == PageOf(a) = PageOf(block)

\* The matches both searches are bound to find: behind a byte the pattern does not
\* hold, where what the driver printed has changed neither that byte nor theirs.
Settled == {s \in Standing : Clear(s) /\ \A a \in stdio :
              ~ Follows(a, s[1]) /\ \A k \in 1 .. patlength : a # s[k]}

\* Driver 3 "should result in the program changing the mode of one of the
\* matches but not the location" (AS1/tests/TEST.txt:15-16): if the first search
\* had room for all it found, only matches on the mapping are flagged C, and,
\* although what the driver prints changes the memory it searches, every
\* settled match that is printed is flagged C there and U elsewhere; they all are
\* printed if there is room for all the second search found.
OnlyMappingChanges ==
  Compared /\ driver = 3 /\ first.occurances <= Len(first.locations) =>
    /\ \A n \in DOMAIN flags : flags[n] = "C" => OnMapping(EndOf(locations[n]))
    /\ \A s \in Settled, n \in DOMAIN flags :
         EndOf(locations[n]) = s[patlength] =>
           flags[n] = IF OnMapping(s[patlength]) THEN "C" ELSE "U"
    /\ occurances <= loclength =>
         \A s \in Settled : \E n \in DOMAIN flags : EndOf(locations[n]) = s[patlength]

\* "C - The mode of the location has changed" (AS1/README.txt:17): drivers 1
\* and 2 change no page's mode.
NoModeChanges == Compared /\ driver # 3 => \A n \in DOMAIN flags : flags[n] # "C"

\* Every driver ends.
Ends == <>Compared
=============================================================================
