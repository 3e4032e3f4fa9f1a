----------------------------- MODULE ScanLedger -----------------------------
(***************************************************************************)
(* What survives the runs of a resumable scan: a set of finished hosts and *)
(* the set of those whose result is published in the output.  Neither ever *)
(* loses a host, whatever crashes, cancels and resumes lie in between, and *)
(* nothing is published that is not finished.  Only another fresh scan     *)
(* begins with nothing again.                                              *)
(***************************************************************************)
EXTENDS Naturals

CONSTANT Hosts

VARIABLES
  finished, published,
  scans                 \* how many fresh scans there have been

vars == <<finished, published, scans>>

Init == finished = {} /\ published = {} /\ scans = 0

\* One more host is finished; its result is published, or it had nothing to publish.
FinishHost(h) ==
  /\ h \notin finished
  /\ finished' = finished \cup {h}
  /\ published' \in {published, published \cup {h}}
  /\ UNCHANGED scans

FreshScan ==
  /\ scans' = scans + 1
  /\ finished' = {} /\ published' = {}

Next == FreshScan \/ \E h \in Hosts : FinishHost(h)

Spec == Init /\ [][Next]_vars

=============================================================================
