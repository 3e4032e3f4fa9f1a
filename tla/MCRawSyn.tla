------------------------------ MODULE MCRawSyn ------------------------------
(* Small instances of RawSyn for TLC. *)
EXTENDS RawSyn

\* Two ports: each kind of answer, first and last in the order of the sweep.
TwoPorts == {<<"fickle", "silent">>, <<"silent", "open">>, <<"open", "closed">>,
             <<"odd", "fickle">>}
OnePort == {<<"open">>, <<"silent">>}
=============================================================================
