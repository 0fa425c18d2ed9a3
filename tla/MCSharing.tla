----------------------------- MODULE MCSharing -----------------------------
(***************************************************************************)
(* Finite instances of Sharing.                                            *)
(***************************************************************************)
EXTENDS Sharing, TLC

CONSTANTS g1, g2, k1, k2

\* Groups are interchangeable, and so are calls of the same kind.
SharingSymmetry == Permutations({g1, g2}) \cup Permutations({k1, k2})
=============================================================================
