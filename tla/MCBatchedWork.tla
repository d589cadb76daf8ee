---------------------------- MODULE MCBatchedWork ----------------------------
(***************************************************************************)
(* A small instance of BatchedWork.                                        *)
(***************************************************************************)
EXTENDS BatchedWork, TLC

CONSTANTS w1, w2

MCWorkers == {w1, w2}

=============================================================================
