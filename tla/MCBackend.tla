------------------------------ MODULE MCBackend ------------------------------
(***************************************************************************)
(* Small instances of Backend for TLC.                                     *)
(***************************************************************************)
EXTENDS Backend

CONSTANTS n1, n2

\* n1's directory is found before n2's.
WalkRank == [n \in Names |-> IF n = n1 THEN 1 ELSE 2]
=============================================================================
