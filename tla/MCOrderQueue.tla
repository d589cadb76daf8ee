---------------------------- MODULE MCOrderQueue ----------------------------
(***************************************************************************)
(* Small instances of OrderQueue.                                          *)
(***************************************************************************)
EXTENDS OrderQueue, TLC

CONSTANTS o1, o2, p1

MCTwo == {o1, o2}
MCProducts ==  {p1}

\* Both orders are of one product, whose crash takes them together.
MCProductOf == [o \in Orders |-> p1]

=============================================================================
