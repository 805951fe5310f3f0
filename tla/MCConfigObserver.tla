-------------------------- MODULE MCConfigObserver --------------------------
(* A small instance of ConfigObserver.                                     *)
EXTENDS ConfigObserver

CONSTANTS n1, n2

TwoNames == {n1, n2}
OneName == {n1}
=============================================================================
