--------------------------- MODULE MCFileDownload ---------------------------
(* Values of the constants of FileDownload for TLC. *)
EXTENDS FileDownload

OneAndTwo == [v \in Version |-> v]

=============================================================================
