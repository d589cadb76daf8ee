---------------------------- MODULE MCIndexQuery ----------------------------
(***************************************************************************)
(* A small instance of IndexQuery.                                         *)
(***************************************************************************)
EXTENDS IndexQuery

CONSTANTS c1, c2

MCConsumers == {c1, c2}

\* Every third page is asked for on the second node.
MCHostOf == [p \in Pages |-> IF p % 3 = 0 THEN c2 ELSE c1]

=============================================================================
