-------------------------- MODULE MCTransferQueue --------------------------
(* Values of the constants of TransferQueue for TLC. *)
EXTENDS TransferQueue

FirstSends == {1}

=============================================================================
