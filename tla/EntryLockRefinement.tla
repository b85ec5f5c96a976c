------------------------- MODULE EntryLockRefinement -------------------------
(***************************************************************************)
(* EntryLock implements Whiteboard: an update takes effect when it starts  *)
(* to erase the entry, a query when it copies the text.                    *)
(***************************************************************************)
EXTENDS EntryLockInvariant

Updaters(e) == {t \in Threads : pc[t] \in ErasePcs /\ req[t].entry = e}

boardBar == [e \in Entries |-> IF Updaters(e) # {}
                               THEN req[CHOOSE t \in Updaters(e) : TRUE].value
                               ELSE heap[entries[e].entry]]

answerBar == [t \in Threads |-> IF pc[t] \in ErasePcs
                                THEN Status("updated", req[t].entry)
                                ELSE reply[t]]

WB == INSTANCE Whiteboard WITH board <- boardBar, request <- req, answer <- answerBar

\* Queries and updates are atomic: every behaviour of the threads is, seen by
\* the clients, one in which each call took effect at a single moment.
Atomic == WB!Spec
=============================================================================
