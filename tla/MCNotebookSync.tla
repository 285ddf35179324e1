--------------------------- MODULE MCNotebookSync ---------------------------
(* Values of the constants of NotebookSync for TLC. *)
EXTENDS NotebookSync, TLC

CONSTANTS r1, r2

(* Replica, Pulling, Faulty *)
Both == {r1, r2}
OnlySecond == {r2}

(* InitialPeers *)
Mutual == [r \in Replica |-> Replica \ {r}]

(* Ids *)
AnyId == [r \in Replica |-> VersionId]
TwoAndOne == (r1 :> {1, 3}) @@ (r2 :> {2})
Alternating == (r1 :> {1, 3}) @@ (r2 :> {2, 4})
MostlyFirst == (r1 :> {1, 2, 3}) @@ (r2 :> {4})

(* MaxGeneration *)
NoChanges == [r \in Replica |-> 0]
SecondTwice == [r \in Replica |-> IF r = r2 THEN 2 ELSE 0]

(* Observed *)
SecondOfFirst == {<<r2, r1>>}

Symmetry == Permutations(Replica)

=============================================================================
