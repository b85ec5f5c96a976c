------------------------------- MODULE MCTlb -------------------------------
(* Small translation buffers for TLC. *)
EXTENDS Tlb

\* As ints 15 is -1, outside the hash table, and 13 is -3, of the bucket of 0.
SevenPages == {0, 1, 2, 4, 5, 13, 15}
============================================================================
