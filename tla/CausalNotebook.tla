--------------------------- MODULE CausalNotebook ---------------------------
(***************************************************************************)
(* What the notebook synchronisation promises, without pages, cursors,     *)
(* settings or workers: every device holds a growing set of versions; a    *)
(* local write is a causal successor of everything the device had of that  *)
(* note; versions otherwise only travel between devices; and what a device *)
(* shows of a note is the preferred one of the versions that no other one  *)
(* it had succeeds.                                                        *)
(***************************************************************************)
EXTENDS NotebookVersions

VARIABLES
  known,      \* the versions each device has ever held
  display     \* the version each device shows of each of its notes

vars == <<known, display>>

Everywhere == UNION {known[q] : q \in Replica}

Init ==
  /\ known = [r \in Replica |-> {}]
  /\ display = [r \in Replica |-> {}]

Redisplay == display' = [r \in Replica |-> Primaries(Maxima(known'[r]))]

Write(r, v) ==
  /\ v.author = r
  /\ v.id \notin {w.id : w \in Everywhere}
  /\ v.past = PastOf(OnNote(known[r], v.note))
  /\ \A w \in OnNote(known[r], v.note) : Dominates(v, w)
  /\ known' = [known EXCEPT ![r] = @ \cup {v}]
  /\ Redisplay

Learn(r, S) ==
  /\ S # {}
  /\ known' = [known EXCEPT ![r] = @ \cup S]
  /\ Redisplay

Next ==
  \E r \in Replica :
    \/ \E v \in known'[r] \ known[r] : Write(r, v)
    \/ \E S \in SUBSET (Everywhere \ known[r]) : Learn(r, S)

Spec == Init /\ [][Next]_vars

=============================================================================
