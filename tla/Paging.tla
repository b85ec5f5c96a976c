------------------------------- MODULE Paging -------------------------------
(***************************************************************************)
(* What the translation buffer and the page table of AS3/tvm379.c share:   *)
(* the page numbers, which main computes from the addresses in the traces. *)
(***************************************************************************)
EXTENDS Naturals

CONSTANTS
  INT_MAX,   \* the largest int; the largest unsigned int is 2 * INT_MAX + 1
  Pages      \* the page numbers of the traces, which are unsigned

ASSUME IntAssumption   == INT_MAX \in Nat
ASSUME PagesAssumption == Pages \subseteq {pn \in Nat : pn <= 2 * INT_MAX + 1}
=============================================================================
