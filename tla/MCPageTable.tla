---------------------------- MODULE MCPageTable ----------------------------
(* Small page tables for TLC. *)
EXTENDS PageTable

CONSTANT MaxFaults   \* bound: the page faults of a process

TwoProcesses == {0, 1}
FourPages == 0 .. 3
FivePages == 0 .. 4

FaultBound == \A p \in Processes : pageFaults[p] < MaxFaults
=============================================================================
