---------------------------- MODULE MCAiReceiver ----------------------------
(* Values of the constants of AiReceiver for TLC. *)
EXTENDS AiReceiver

CONSTANTS d1, d2, g1, g2

OneGroup == [d \in Desktop |-> g1]
AtSecond == [e \in Event |-> d2]
FirstSession == [e \in Event |-> 1]

=============================================================================
