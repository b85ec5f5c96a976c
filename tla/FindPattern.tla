---------------------------- MODULE FindPattern ----------------------------
(***************************************************************************)
(* findpattern of AS1/findpattern.c: it walks the address space page by    *)
(* page, finds out by trying whether a page can be read and written, and   *)
(* searches the pages that can be read for a pattern.  A try that is not   *)
(* permitted raises SIGSEGV; seg_handler sets `flag` and goes back by      *)
(* siglongjmp to the last sigsetjmp.  The functions are compiled without   *)
(* optimisation (AS1/Makefile), so the locals keep their values over the   *)
(* jump.                                                                   *)
(*                                                                         *)
(* `pat` always points `count` bytes into the pattern, so count stands for *)
(* both.  The stack and the array of matches are left out of the memory    *)
(* that is searched.                                                       *)
(***************************************************************************)
EXTENDS Integers, Sequences, FiniteSets, SequencesExt

CONSTANTS
  NumPages,     \* pages of the address space, numbered from 0
  pagesize,     \* bytes of a page
  Bytes,        \* the values of a byte the search tells apart
  W,            \* the byte 'w' the probe writes
  Contents,     \* what a page may hold
  pattern,      \* the bytes searched for
  Limits        \* the values of loclength

Pages == 0 .. NumPages - 1
Addresses == 0 .. NumPages * pagesize - 1
patlength == Len(pattern)
PageOf(a) == a \div pagesize
First(p)  == p * pagesize

ASSUME SpaceAssumption == NumPages \in Nat \ {0, 1} /\ pagesize \in Nat \ {0}
ASSUME BytesAssumption == W \in Bytes /\ Contents \subseteq [0 .. pagesize - 1 -> Bytes]
ASSUME PatternAssumption == pattern \in Seq(Bytes) /\ patlength > 0
ASSUME LimitsAssumption == Limits \subseteq Nat \ {0}

VARIABLES
  mem,          \* mem[a]: the byte at address a
  perm,         \* perm[p]: "none", "read" or "write"
  loclength,    \* the argument: how many matches the caller has room for
  pc,           \* where findpattern is
  flag,         \* the global a fault sets
  jump,         \* readonly_memory: which sigsetjmp siglongjmp goes back to
  handler,      \* the handler of SIGSEGV
  data,         \* the byte the probe has read
  address,      \* the page at hand
  mode,         \* the mode found for it
  i,            \* the next byte of the page
  count,        \* how many bytes of the pattern have been matched
  occurances,   \* how many matches have been counted
  locations     \* the matches recorded, from 0 on

probed  == <<flag, jump, data, mode>>
matched == <<count, occurances, locations>>
caller  == <<mem, perm, loclength>>
searchVars == <<caller, pc, probed, handler, address, i, matched>>

Match == [location : Int, mode : {"MEM_RW", "MEM_RO"}]

\* The process as it calls findpattern: the first and the last page are never
\* mapped (vm.mmap_min_addr; the kernel's end of the address space).
Mapped == 1 .. NumPages - 2
Space  == {s \in [Pages -> {"none", "read", "write"}] :
             \A p \in Pages \ Mapped : s[p] = "none"}

SearchInit ==
  /\ perm \in Space
  /\ \E held \in [{p \in Pages : perm[p] # "none"} -> Contents] :
       mem = [a \in Addresses |-> IF perm[PageOf(a)] = "none" THEN W
                                  ELSE held[PageOf(a)][a % pagesize]]
  /\ loclength \in Limits
  /\ pc = "called"
  /\ flag = 0
  /\ jump = "none"
  /\ handler = "default"
  /\ data = W
  /\ address = 0
  /\ mode = "MEM_RO"
  /\ i = 0
  /\ count = 0
  /\ occurances = 0
  /\ locations = <<>>

----------------------------------------------------------------------------
Begin ==
  /\ pc = "called"
  /\ handler' = "seg_handler"
  /\ address' = 0
  /\ mode' = "MEM_RO"
  /\ i' = 0
  /\ count' = 0
  /\ occurances' = 0
  /\ locations' = <<>>
  /\ jump' = "probe"
  /\ pc' = "probe"
  /\ UNCHANGED <<caller, flag, data>>

\* An access the page does not permit, at the read or at the write.
Fault ==
  /\ flag = 0 /\ handler = "seg_handler"
  /\ \/ pc = "probe" /\ perm[address] = "none"
     \/ pc = "write" /\ perm[address] # "write"
  /\ flag' = 1
  /\ pc' = jump
  /\ UNCHANGED <<caller, jump, handler, data, address, mode, i, matched>>

\* Mutant of Load: the byte that is put back is that of an earlier page.
LoadOnce ==
  /\ pc = "probe" /\ flag = 0
  /\ perm[address] # "none"
  /\ data' = IF data = W THEN mem[First(address)] ELSE data
  /\ jump' = "write"
  /\ pc' = "write"
  /\ UNCHANGED <<caller, flag, handler, address, mode, i, matched>>

Load ==
  /\ pc = "probe" /\ flag = 0
  /\ perm[address] # "none"
  /\ data' = mem[First(address)]
  /\ jump' = "write"
  /\ pc' = "write"
  /\ UNCHANGED <<caller, flag, handler, address, mode, i, matched>>

NextAddress == (address + 1) % NumPages

\* Mutant of Skip: the page that cannot be read is tried again.
SkipInPlace ==
  /\ pc = "probe" /\ flag = 1
  /\ flag' = 0
  /\ UNCHANGED <<caller, pc, jump, data, mode, handler, address, i, matched>>

\* The page cannot be read.  The address wraps around to 0 at the end.
Skip ==
  /\ pc = "probe" /\ flag = 1
  /\ flag' = 0
  /\ address' = NextAddress
  /\ pc' = IF NextAddress = 0 THEN "restore" ELSE "probe"
  /\ UNCHANGED <<caller, jump, data, mode, handler, i, matched>>

Overwrite ==
  /\ pc = "write" /\ flag = 0
  /\ perm[address] = "write"
  /\ mem' = [mem EXCEPT ![First(address)] = W]
  /\ pc' = "put_back"
  /\ UNCHANGED <<perm, loclength, probed, handler, address, i, matched>>

PutBack ==
  /\ pc = "put_back"
  /\ mem' = [mem EXCEPT ![First(address)] = data]
  /\ mode' = "MEM_RW"
  /\ i' = 0
  /\ pc' = "scan"
  /\ UNCHANGED <<perm, loclength, flag, jump, data, handler, address, matched>>

\* Mutant of ReadOnly: the mode is left as the last page had it.
ReadOnlyKept ==
  /\ pc = "write" /\ flag = 1
  /\ i' = 0
  /\ pc' = "scan"
  /\ UNCHANGED <<caller, probed, handler, address, matched>>

\* The write has faulted; flag stays set while the page is searched.
ReadOnly ==
  /\ pc = "write" /\ flag = 1
  /\ mode' = "MEM_RO"
  /\ i' = 0
  /\ pc' = "scan"
  /\ UNCHANGED <<caller, flag, jump, data, handler, address, matched>>

Scanning == pc = "scan" /\ i < pagesize
Matches  == mem[First(address) + i] = pattern[count + 1]

\* A byte of the pattern, not the last one.
Advance ==
  /\ Scanning /\ Matches /\ count + 1 < patlength
  /\ count' = count + 1
  /\ i' = i + 1
  /\ UNCHANGED <<caller, pc, probed, handler, address, occurances, locations>>

\* Mutant of Complete: the next match is looked for in the middle of the pattern.
CompleteUncleared ==
  /\ Scanning /\ Matches /\ count + 1 = patlength
  /\ count' = count + 1
  /\ occurances' = occurances + 1
  /\ i' = i + 1
  /\ UNCHANGED <<caller, pc, probed, handler, address, locations>>

\* The last byte: the match is counted and, up to one more than loclength,
\* recorded, one byte before where it starts.
Complete ==
  /\ Scanning /\ Matches /\ count + 1 = patlength
  /\ locations' = IF occurances <= loclength
                  THEN Append(locations, [location |-> First(address) + i - patlength,
                                          mode |-> mode])
                  ELSE locations
  /\ occurances' = occurances + 1
  /\ count' = 0
  /\ i' = i + 1
  /\ UNCHANGED <<caller, pc, probed, handler, address>>

\* The search starts over, behind this byte.
Mismatch ==
  /\ Scanning /\ ~ Matches
  /\ count' = 0
  /\ i' = i + 1
  /\ UNCHANGED <<caller, pc, probed, handler, address, occurances, locations>>

\* Mutant of NextPage: flag stays set behind a page that is read-only.
NextPageFlagged ==
  /\ pc = "scan" /\ i = pagesize
  /\ address' = NextAddress
  /\ jump' = "probe"
  /\ pc' = "probe"
  /\ UNCHANGED <<caller, flag, data, mode, handler, i, matched>>

\* What has been matched of the pattern is carried over to the next page.
NextPage ==
  /\ pc = "scan" /\ i = pagesize
  /\ address' = NextAddress
  /\ flag' = 0
  /\ jump' = "probe"
  /\ pc' = "probe"
  /\ UNCHANGED <<caller, data, mode, handler, i, matched>>

\* restore_handler installs what seg_act2 has always held, the default.
Return ==
  /\ pc = "restore"
  /\ handler' = "default"
  /\ pc' = "returned"
  /\ UNCHANGED <<caller, probed, address, i, matched>>

Probe == Fault \/ Load \/ Skip \/ Overwrite \/ PutBack \/ ReadOnly
Scan  == Advance \/ Complete \/ Mismatch \/ NextPage
Search == Begin \/ Probe \/ Scan \/ Return

----------------------------------------------------------------------------
(* Properties *)

SearchTypeOK ==
  /\ mem \in [Addresses -> Bytes]
  /\ perm \in Space
  /\ loclength \in Limits
  /\ pc \in {"called", "probe", "write", "put_back", "scan", "restore", "returned"}
  /\ flag \in {0, 1}
  /\ jump \in {"none", "probe", "write"}
  /\ handler \in {"default", "seg_handler"}
  /\ data \in Bytes
  /\ address \in Pages
  /\ mode \in {"MEM_RW", "MEM_RO"}
  /\ i \in 0 .. pagesize
  /\ count \in 0 .. patlength - 1
  /\ occurances \in Nat
  /\ locations \in Seq(Match) /\ Len(locations) <= loclength + 1

\* The memory as the process knows it: without the byte the probe has in hand.
Kept == IF pc = "put_back" THEN [mem EXCEPT ![First(address)] = data] ELSE mem

\* The readable addresses, and the sequences of them that leave none out.
Readable == {a \in Addresses : perm[PageOf(a)] # "none"}
Follows(a, b) == a < b /\ \A c \in Readable : ~(a < c /\ c < b)
Runs == {s \in [1 .. patlength -> Readable] :
           \A k \in 1 .. patlength - 1 : Follows(s[k], s[k + 1])}

\* Where the pattern stands in the readable bytes.
Standing == {s \in Runs : \A k \in 1 .. patlength : mem[s[k]] = pattern[k]}

ModeOf(a) == IF perm[PageOf(a)] = "write" THEN "MEM_RW" ELSE "MEM_RO"

Returned == pc = "returned"

\* The byte a recorded match ends on.  The location itself is none of the match's
\* bytes: it lies one byte before where a match without gaps starts.
EndOf(match) == match.location + patlength

\* Every match that is recorded ends where the pattern ends in the readable
\* bytes, it has the mode of the page it ends on, and matches do not overlap: the
\* probes of a page, the jumps out of the handler and the pages that are left out
\* never shift what is compared.  Where a match starts is not said; see LocationIsStart.
RecordedAreMatches ==
  Returned =>
    /\ \A n \in DOMAIN locations : \E s \in Standing :
         EndOf(locations[n]) = s[patlength] /\ locations[n].mode = ModeOf(s[patlength])
    /\ \A n \in 2 .. Len(locations) :
         EndOf(locations[n]) - EndOf(locations[n - 1]) >= patlength

\* No byte of the pattern comes before s.
Clear(s) == \A a \in Readable : Follows(a, s[1]) => ~ Contains(pattern, mem[a])

\* A match behind a byte the pattern does not hold, or at the start, is always
\* counted, whatever pages come before it, and recorded if there is room.
MatchesAreCounted ==
  Returned =>
    LET Found == {s[patlength] : s \in {t \in Standing : Clear(t)}}
    IN  /\ occurances >= Cardinality(Found)
        /\ occurances <= Len(locations) =>
             \A a \in Found : \E n \in DOMAIN locations : EndOf(locations[n]) = a

\* "... it will find the location and addressing mode of each match"
\* (AS1/README.txt:8-9): the pattern stands where a match is said to be.
LocationIsStart ==
  Returned => \A n \in DOMAIN locations, k \in 1 .. patlength :
                LET a == locations[n].location + k - 1
                IN  a \in Readable /\ mem[a] = pattern[k]

\* "It will find the location and addressing mode of each match"
\* (AS1/README.txt:8-9): a pattern that cannot overlap itself is counted as
\* often as it stands in the pages that can be read.
EachMatchIsFound ==
  Returned => occurances >= Cardinality({s \in Standing : s[patlength] = s[1] + patlength - 1})
=============================================================================
