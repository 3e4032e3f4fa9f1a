----------------------------- MODULE MCWebProbe -----------------------------
(* Small instances of WebProbe for TLC. *)
EXTENDS WebProbe

\* A head that comes with the first read, one that takes several, one over the limit.
MCHeads == {1, 3, 6}
=============================================================================
