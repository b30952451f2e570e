---------------------------- MODULE MCAccessCache ----------------------------
(***************************************************************************)
(* Values of the constants of AccessCache for TLC: the user has one        *)
(* permission on a collection and one on a document.                       *)
(***************************************************************************)
EXTENDS AccessCache, TLC

CONSTANTS c1, d1, p1, p2

MCResource == (p1 :> c1) @@ (p2 :> d1)

ClientSymmetry == Permutations(Clients)

=============================================================================
