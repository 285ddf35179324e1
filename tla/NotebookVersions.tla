-------------------------- MODULE NotebookVersions --------------------------
(***************************************************************************)
(* The causal versions exchanged by the notebook synchronisation of        *)
(* peercarry-core, and the pure functions of notebook_sync.rs on them.     *)
(*                                                                         *)
(* A version id is the SHA-256 of a version's clock, author and content.   *)
(* It is abstracted to a number that is unique per version: what the code  *)
(* uses of it is equality and its text order, which says nothing about     *)
(* causality, so any order of the ids is possible.  Note ids (UUIDs) are   *)
(* likewise numbers.  Of the content only the trash flag matters here.     *)
(***************************************************************************)
EXTENDS Naturals, FiniteSets

CONSTANTS
  Replica,            \* the devices; each has one replica id of its own
  Note,               \* the note ids that may come into existence
  VersionId,          \* the version ids that may come into existence
  MaxHeads,           \* MAX_SYNC_HEADS
  MaxClockReplicas    \* MAX_CLOCK_REPLICAS

ASSUME IdAssumption == Note \subseteq Nat \ {0} /\ VersionId \subseteq Nat \ {0}
ASSUME LimitAssumption == MaxHeads \in Nat \ {0} /\ MaxClockReplicas \in Nat

(* A clock has no zero entries in the code; a replica that is absent there *)
(* counts 0 here, which is how compare_clocks reads it.                    *)
Clock == [Replica -> Nat]

(* `past` is a history field, not part of the program: the ids of the      *)
(* versions this one was written in knowledge of, those that its author    *)
(* had and those that these were written in knowledge of.                  *)
Version == [id : VersionId, note : Note, clock : Clock, author : Replica,
            trashed : BOOLEAN, past : SUBSET VersionId]

OnNote(S, n) == {v \in S : v.note = n}

PastOf(S) == {v.id : v \in S} \cup UNION {v.past : v \in S}

NotesOf(S) == {v.note : v \in S}

-----------------------------------------------------------------------------
(* Clocks *)

(* compare_clocks(c, d) = ClockOrder::After *)
After(c, d) ==
  /\ \E q \in Replica : c[q] > d[q]
  /\ \A q \in Replica : c[q] >= d[q]

Dominates(v, w) == v.note = w.note /\ After(v.clock, w.clock)

(* increment_clock refuses to add one replica too many to a clock.         *)
CanIncrement(c, r) ==
  c[r] > 0 \/ Cardinality({q \in Replica : c[q] > 0}) < MaxClockReplicas

(* Mutant of Increment: a replica counts only its first write.             *)
IncrementOnce(c, r) == [c EXCEPT ![r] = 1]

Increment(c, r) == [c EXCEPT ![r] = @ + 1]

NoClock == [q \in Replica |-> 0]

(* Mutant of Joins: a resolution continues one of the heads only.          *)
JoinsForgetful(H) == {h.clock : h \in H}

(* The clocks that are the pointwise maximum of those of H: exactly one    *)
(* when H is finite and not empty.                                         *)
Joins(H) ==
  {c \in [Replica -> {h.clock[q] : h \in H, q \in Replica}] :
     \A q \in Replica : /\ \A h \in H : h.clock[q] <= c[q]
                        /\ \E h \in H : h.clock[q] = c[q]}

-----------------------------------------------------------------------------
(* Heads *)

Maxima(S) == {v \in S : \A w \in S : ~Dominates(w, v)}

(* The heads H of the versions S in the form that a step can be shown to   *)
(* keep: none succeeds another, and every version is one of them or        *)
(* succeeded by one.                                                       *)
Frontier(H, S) ==
  /\ H \subseteq S
  /\ \A g, h \in H : ~Dominates(g, h)
  /\ \A v \in S : v \in H \/ \E h \in H : Dominates(h, v)

(* choose_primary: untrashed before trashed, then the smaller version id.  *)
PreferredTo(v, w) ==
  \/ ~v.trashed /\ w.trashed
  \/ v.trashed = w.trashed /\ v.id < w.id

(* The primary of each note of H.                                          *)
Primaries(H) ==
  {v \in H : \A w \in OnNote(H, v.note) : w = v \/ PreferredTo(v, w)}

(* merge_version: a known or older version changes nothing, a newer one    *)
(* takes the place of the heads it succeeds, a concurrent one joins them.  *)
Ignored(H, v) == v \in H \/ \E h \in H : Dominates(h, v)

Survivors(H, v) == {h \in H : ~Dominates(v, h)}

Overflows(H, v) ==
  /\ ~Ignored(H, v)
  /\ Cardinality(OnNote(Survivors(H, v), v.note)) >= MaxHeads

(* Mutants of MergeVersion: late copies of older versions are taken for    *)
(* concurrent ones; the first of several concurrent versions wins.         *)
MergeRevives(H, v) == Survivors(H, v) \cup {v}

MergeFirstWins(H, v) ==
  IF OnNote(H, v.note) = {} \/ OnNote(Survivors(H, v), v.note) = {}
  THEN Survivors(H, v) \cup {v} ELSE H

MergeVersion(H, v) ==
  IF Ignored(H, v) THEN H ELSE Survivors(H, v) \cup {v}

-----------------------------------------------------------------------------
(* The feed order of sync_records: by note id, then by version id.         *)

Key(v) == <<v.note, v.id>>

NoCursor == <<0, 0>>

Cursor == (Note \cup {0}) \X (VersionId \cup {0})

KeyLess(a, b) == a[1] < b[1] \/ (a[1] = b[1] /\ a[2] < b[2])

=============================================================================
