--------------------------- MODULE MCConnections ---------------------------
(* A few clients of the whiteboard for TLC. *)
EXTENDS Connections, TLC

CONSTANTS c1, c2, c3

OneClient    == {c1}
TwoClients   == {c1, c2}
ThreeClients == {c1, c2, c3}

TwoRequests    == c1 :> 2
NoRequests     == c1 :> 0 @@ c2 :> 0
OneAsks        == c1 :> 1 @@ c2 :> 0 @@ c3 :> 0
============================================================================
