--------------------------- MODULE MCProductIndex ---------------------------
(***************************************************************************)
(* A small instance of ProductIndex.                                       *)
(***************************************************************************)
EXTENDS ProductIndex

CONSTANTS p1, p2

MCProducts == {p1, p2}

\* The first two events are of one instant.
MCInstantOf == [k \in 1 .. MaxEvents |-> IF k = 2 THEN 1 ELSE k]

=============================================================================
