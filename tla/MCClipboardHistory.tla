------------------------- MODULE MCClipboardHistory -------------------------
(* Values of the constants of ClipboardHistory for TLC. *)
EXTENDS ClipboardHistory

(* All entries are copies of each other.                                   *)
SomeContent == [id \in 1..3 |-> "a"]

=============================================================================
