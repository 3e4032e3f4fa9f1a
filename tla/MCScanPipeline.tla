--------------------------- MODULE MCScanPipeline ---------------------------
(* A small instance of ScanPipeline for TLC. *)
EXTENDS ScanPipeline

CONSTANTS h1, h2, d1, d2, p1, p2, f1

Pair == <<h1, h2>>

\* Port 80 is selected; h1 also has known C2 ports outside the selection.  Four jobs in
\* all: when both protocol workers have panicked with one each, and the queue holds the
\* third, the fourth has nowhere to go.
OnePort == {80}
KnownOfFirst == [h \in Hosts |-> IF h = h1 THEN {4444, 8443} ELSE {}]
=============================================================================
