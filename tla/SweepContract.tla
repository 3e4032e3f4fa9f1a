--------------------------- MODULE SweepContract ---------------------------
(***************************************************************************)
(* What ScannerBackend::discover promises to the pipeline for one host,    *)
(* whichever backend is behind it: one outcome, whose open ports do accept *)
(* connections, and which claims neither a port nor completeness when the  *)
(* scan had been cancelled before the call.  ScanPipeline assumes no more. *)
(***************************************************************************)
CONSTANT Ports

VARIABLES
  accepting,        \* the ports that may answer a probe by accepting it
  late,             \* the scan had been cancelled before the call
  outcome           \* NoOutcome until the call returns

vars == <<accepting, late, outcome>>

NoOutcome == [open |-> {}, complete |-> FALSE, returned |-> FALSE]

Init ==
  /\ accepting \in SUBSET Ports
  /\ late \in BOOLEAN
  /\ outcome = NoOutcome

Return ==
  /\ ~outcome.returned
  /\ \E o \in [open : SUBSET accepting, complete : BOOLEAN, returned : {TRUE}] :
       /\ late => o.open = {} /\ ~o.complete
       /\ outcome' = o
  /\ UNCHANGED <<accepting, late>>

Spec == Init /\ [][Return]_vars /\ WF_vars(Return)

=============================================================================
