---------------------------- MODULE MCScanStore -----------------------------
(* Small instances of ScanStore for TLC: hosts are interchangeable, since the *)
(* order in which they reach the writer is any.                               *)
EXTENDS ScanStore, TLC

HostSymmetry == Permutations(Hosts)
=============================================================================
