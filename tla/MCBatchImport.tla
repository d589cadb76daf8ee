---------------------------- MODULE MCBatchImport ----------------------------
(***************************************************************************)
(* Small instances of BatchImport.                                         *)
(***************************************************************************)
EXTENDS BatchImport

\* An import of one batch can end while one of two is under way.
MCSizes == {1, 2}

=============================================================================
