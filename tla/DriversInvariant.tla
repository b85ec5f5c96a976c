-------------------------- MODULE DriversInvariant --------------------------
(***************************************************************************)
(* The inductive invariant of Drivers.  Seen from the bytes, the search is *)
(* a single pass: each readable address is compared once, in order, and    *)
(* what the probes of the pages do in between does not show.  Position is  *)
(* how far the pass has come, and Kept the memory it goes over.            *)
(***************************************************************************)
EXTENDS Drivers

AllBytes == NumPages * pagesize

Position ==
  IF pc = "called" THEN 0
  ELSE IF pc = "scan" THEN First(address) + i
  ELSE IF pc \in {"restore", "returned"} THEN AllBytes
  ELSE First(address)

Underway == pc # "called"

----------------------------------------------------------------------------
(* The search *)

\* What has been found out about the page at hand, and where a fault leads.
Control ==
  /\ pc \in {"called", "put_back", "restore", "returned"} => flag = 0
  /\ pc = "probe" => jump = "probe" /\ (flag = 1 => perm[address] = "none")
  /\ pc = "write" => /\ jump = "write" /\ data = mem[First(address)]
                     /\ perm[address] # "none"
                     /\ flag = 1 => perm[address] = "read"
  /\ pc = "put_back" => perm[address] = "write"
  /\ pc = "scan" => perm[address] # "none" /\ (mode = "MEM_RW" <=> perm[address] = "write")

\* No readable byte lies between a and b.
Gap(a, b) == \A c \in Readable : ~ (a < c /\ c < b)

Matched(s, n) == \A k \in 1 .. n : Kept[s[k]] = pattern[k]
Runs1(n) == {s \in [1 .. n -> Readable] : \A k \in 1 .. n - 1 : Follows(s[k], s[k + 1])}

\* The last `count` readable bytes are the beginning of the pattern.
Partial ==
  \E s \in Runs1(count) :
    /\ Matched(s, count)
    /\ \A k \in 1 .. count : s[k] < Position
    /\ count > 0 => Gap(s[count], Position)

\* Of n matches one more than loclength are recorded at most.
Held(n) == IF n <= loclength THEN n ELSE loclength + 1

\* The matches recorded lie behind, each behind the one before.
Recorded ==
  /\ \A n \in DOMAIN locations : \E s \in Runs :
       /\ Matched(s, patlength) /\ s[patlength] < Position
       /\ locations[n] = [location |-> s[patlength] - patlength, mode |-> ModeOf(s[patlength])]
  /\ \A n \in DOMAIN locations :
       locations[n].location + patlength + count < Position
  /\ \A m, n \in DOMAIN locations :
       m < n => locations[n].location - locations[m].location >= patlength
  /\ Len(locations) = Held(occurances)

\* Behind a byte that is not in the pattern, or at the start, nothing is matched;
\* from there on the search is in step with the pattern.
ClearAt(b) == \A a \in Readable : a < b /\ Gap(a, b) => ~ Contains(pattern, Kept[a])
InStepAt(q, n) ==
  /\ ClearAt(q) => n = 0
  /\ \A s \in Runs, j \in 1 .. patlength - 1 :
       ClearAt(s[1]) /\ Matched(s, j) /\ s[j] < q /\ q <= s[j + 1] => n = j
InStep == InStepAt(Position, count)

\* So no match from there has been missed.
FoundEnds == {s[patlength] : s \in {t \in Runs : Matched(t, patlength) /\ ClearAt(t[1])}}
Passed == {a \in FoundEnds : a < Position}
NoneMissed ==
  /\ Cardinality(Passed) <= occurances
  /\ occurances <= Len(locations) =>
       \A a \in Passed : \E n \in DOMAIN locations : locations[n].location = a - patlength

SearchInv ==
  /\ SearchTypeOK /\ Control
  /\ Underway => Partial /\ Recorded /\ InStep /\ NoneMissed

\* The steps of the search, seen from the bytes: nothing readable is passed, or
\* the readable byte a is compared.
Nothing ==
  /\ Position' \in Nat /\ Position <= Position'
  /\ \A a \in Readable : ~ (Position <= a /\ a < Position')
  /\ UNCHANGED matched

Compares(a) ==
  /\ a \in Readable /\ Position = a /\ Position' = a + 1
  /\ \/ /\ Kept[a] = pattern[count + 1] /\ count + 1 < patlength
        /\ count' = count + 1 /\ UNCHANGED <<occurances, locations>>
     \/ /\ Kept[a] = pattern[count + 1] /\ count + 1 = patlength
        /\ count' = 0 /\ occurances' = occurances + 1
        /\ locations' = IF occurances <= loclength
                        THEN Append(locations, [location |-> a - patlength, mode |-> ModeOf(a)])
                        ELSE locations
     \/ /\ Kept[a] # pattern[count + 1]
        /\ count' = 0 /\ UNCHANGED <<occurances, locations>>

Begins == /\ Underway' /\ Position' = 0
          /\ count' = 0 /\ occurances' = 0 /\ locations' = <<>>

Passes == Underway /\ Underway' /\ (Nothing \/ \E a \in Addresses : Compares(a))

----------------------------------------------------------------------------
(* The drivers *)

Phases ==
  /\ phase \in {"reported", "compared"} => Returned

Early == phase \in {"first", "reported"}

\* The block of driver 1, and what it holds once the pattern has been copied.
HeapInv ==
  driver = 1 =>
    /\ perm[PageOf(block)] = "write" /\ Room(block) /\ block % pagesize > 0
    /\ Kept[block - 1] = Zero /\ block - 1 \notin stdio
    /\ ~ Early => \A k \in 1 .. patlength : Kept[block + k - 1] = pattern[k]

MappingInv ==
  driver = 3 => perm[PageOf(block)] = IF Early THEN "read" ELSE "write"

IInv == TypeOK /\ SearchInv /\ Phases /\ HeapInv /\ MappingInv /\ HeapMatchIsFound

----------------------------------------------------------------------------
(* The two searches of driver 3 *)

\* The mode of an address as the first search of driver 3 finds it.
ModeBefore(a) == IF PageOf(a) = PageOf(block) THEN "MEM_RO" ELSE ModeOf(a)

\* The settled matches, seen while the second search is under way.
SettledRuns ==
  {s \in Runs : Matched(s, patlength) /\ ClearAt(s[1]) /\ \A a \in stdio :
                  ~ Follows(a, s[1]) /\ \A k \in 1 .. patlength : a # s[k]}

\* What the first search has recorded has the mode it had then, and no settled match
\* is missing from it if there was room.
FirstFound ==
  driver = 3 /\ phase # "first" =>
    /\ \A n \in DOMAIN first.locations :
         first.locations[n].mode = ModeBefore(EndOf(first.locations[n]))
    /\ first.occurances <= Len(first.locations) =>
         \A s \in SettledRuns : \E n \in DOMAIN first.locations :
           EndOf(first.locations[n]) = s[patlength]

SameInv == FirstFound /\ OnlyMappingChanges
=============================================================================
