--------------------------- MODULE MCConnectSweep ---------------------------
(* A small instance of ConnectSweep for TLC. *)
EXTENDS ConnectSweep

\* Two hosts with two ports: each kind of port, first and last.
MCHosts == {1, 2}
TwoHosts ==
  {<<<<"flaky", "closed">>, <<"silent", "open">>>>,
   <<<<"open", "silent">>, <<"closed", "flaky">>>>}

First == INSTANCE SweepContract WITH
  Ports <- Ports, accepting <- Accepting(1), late <- late, outcome <- outcome[1]
Second == INSTANCE SweepContract WITH
  Ports <- Ports, accepting <- Accepting(2), late <- late, outcome <- outcome[2]

\* Each host's discover keeps the contract of ScannerBackend, however the hosts compete
\* for tokens and sockets; above all, each of them returns.
KeepsContract == First!Spec /\ Second!Spec
=============================================================================
