------------------------------- MODULE MCTvm -------------------------------
(* Two short traces for TLC. *)
EXTENDS Tvm

TwoProcesses == {0, 1}
\* As ints 6 is -2, of the bucket of 0, and 7 is -1, outside the hash table.
FivePages    == {0, 1, 3, 6, 7}
============================================================================
