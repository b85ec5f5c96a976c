---------------------------- MODULE MCEntryLock ----------------------------
(* Small boards for TLC: EntryLock with threads and messages as model values. *)
EXTENDS EntryLockRefinement, TLC

CONSTANTS t1, t2, t3, v1, v2

ThreeThreads == {t1, t2, t3}
TwoValues    == {v1, v2}
TwoEntries   == {1, 2}
FirstAndMissing == {1, WHITEBOARD_SIZE + 1}
TwoBuffers   == 1 .. 2
ThreeBuffers == 1 .. 3
FiveBuffers  == 1 .. 5

Symmetry == Permutations(Threads) \cup Permutations(Values)
============================================================================
