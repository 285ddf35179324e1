---------------------------- MODULE MCBlobCache ----------------------------
(* Values of the constants of BlobCache for TLC. *)
EXTENDS BlobCache, TLC

CONSTANTS r1, r2

Symmetry == Permutations({r1, r2})

=============================================================================
