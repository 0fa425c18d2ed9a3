---------------------------- MODULE MCEsamServer ----------------------------
(***************************************************************************)
(* Finite instances of EsamServer.                                         *)
(***************************************************************************)
EXTENDS EsamServer, TLC

CONSTANTS c1, c2, r1, r2

\* Rows of one table are interchangeable, which safety runs may exploit.
RowSymmetry == Permutations({c1, c2}) \cup Permutations({r1, r2})
=============================================================================
