-------------------------- MODULE MCMobileGateway --------------------------
(* Values of the constants of MobileGateway for TLC. *)
EXTENDS MobileGateway, TLC

CONSTANTS p1, p2

Both == {p1, p2}

Symmetry == Permutations(Phone)

=============================================================================
