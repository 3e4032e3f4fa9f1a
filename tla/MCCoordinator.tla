--------------------------- MODULE MCCoordinator ----------------------------
(* A small instance of Coordinator for TLC. *)
EXTENDS Coordinator

CONSTANTS h1, h2, h3

\* Two hosts in part 0 and one in part 1.
ThreeTargets == <<h1, h2, h3>>

\* h3 has an open port, h2 none, and h1 one that not every sweep finds.
SomeOpen == [h \in Hosts |-> IF h = h1 THEN BOOLEAN ELSE IF h = h2 THEN {FALSE} ELSE {TRUE}]
=============================================================================
