--------------------------- MODULE MCPortalSession ---------------------------
(* An instance of PortalSession for TLC. *)
EXTENDS PortalSession, TLC

CONSTANTS r1, r2, r3

ThreeRequests == {r1, r2, r3}
Symmetry == Permutations(ThreeRequests)
=============================================================================
