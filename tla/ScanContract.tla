---------------------------- MODULE ScanContract ----------------------------
(***************************************************************************)
(* What one scan run promises to the operator, with no queue, worker or    *)
(* task in it: every target that the checkpoint does not list as completed *)
(* is recorded at most once; the run may end well only when every such     *)
(* target has been recorded or the operator has asked it to stop; and a    *)
(* run that ended records nothing more.  It does not promise that a run    *)
(* ends: one whose workers panic may not.                                  *)
(***************************************************************************)
EXTENDS Naturals, Sequences

CONSTANT Hosts      \* the addresses the run was given

VARIABLES
  before,           \* hosts the checkpoint listed as completed at the start
  records,          \* what was recorded, in order: [host, complete]
  stopped,          \* the operator has asked the run to stop
  outcome           \* "running", "ok" or "failed"

vars == <<before, records, stopped, outcome>>

Recorded == {records[i].host : i \in DOMAIN records}

Init ==
  /\ before \in SUBSET Hosts
  /\ records = <<>>
  /\ stopped = FALSE
  /\ outcome = "running"

Record(h, complete) ==
  /\ outcome = "running"
  /\ h \notin before \cup Recorded
  /\ records' = Append(records, [host |-> h, complete |-> complete])
  /\ UNCHANGED <<before, stopped, outcome>>

Stop ==
  /\ outcome = "running"
  /\ ~stopped
  /\ stopped' = TRUE
  /\ UNCHANGED <<before, records, outcome>>

Finish ==
  /\ outcome = "running"
  /\ stopped \/ Hosts = before \cup Recorded
  /\ outcome' = "ok"
  /\ UNCHANGED <<before, records, stopped>>

Fail ==
  /\ outcome = "running"
  /\ outcome' = "failed"
  /\ UNCHANGED <<before, records, stopped>>

Next ==
  \/ \E h \in Hosts, complete \in BOOLEAN : Record(h, complete)
  \/ Stop
  \/ Finish
  \/ Fail

Spec == Init /\ [][Next]_vars

=============================================================================
