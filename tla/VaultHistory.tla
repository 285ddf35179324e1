---------------------------- MODULE VaultHistory ----------------------------
(***************************************************************************)
(* The history of one entry in copies of a vault: revisions that name the  *)
(* ones they supersede, merged from snapshots, saved and loaded. Ciphers   *)
(* are left out: a revision that does not authenticate is refused.         *)
(***************************************************************************)
EXTENDS Naturals, FiniteSets, Sequences

CONSTANTS
  Copy,
  MaxOps,    \* 4096 operations of a copy
  MaxParents \* 32 parents of a revision

VARIABLES
  made,       \* the revisions in the order they are made, with their parents
  operations, \* Copy -> the revisions it holds
  unlocked,   \* the copies whose key is there
  shown,      \* Copy -> the heads its editor was shown
  snapshots   \* what was saved or sent: sets of revisions

vaultVars == <<made, operations, unlocked, shown, snapshots>>

VaultInit ==
  /\ made = <<>>
  /\ operations = [c \in Copy |-> {}]
  /\ unlocked = Copy
  /\ shown = [c \in Copy |-> {}]
  /\ snapshots = {}

Parents(i) == made[i].parents

(* heads *)
HeadsOf(ops) == {i \in ops : \A j \in ops : i \notin Parents(j)}

(* entry_ids, heads and read_revision, for an editor.                      *)
Show(c) ==
  /\ c \in unlocked /\ shown[c] # HeadsOf(operations[c])
  /\ shown' = [shown EXCEPT ![c] = HeadsOf(operations[c])]
  /\ UNCHANGED <<made, operations, unlocked, snapshots>>

MayWrite(c) == shown[c] = HeadsOf(operations[c])

(* write, of an account or a tombstone.                                    *)
Write(c) ==
  /\ c \in unlocked /\ Len(made) < MaxOps
  /\ MayWrite(c) /\ Cardinality(shown[c]) <= MaxParents
  /\ made' = Append(made, [parents |-> shown[c]])
  /\ operations' = [operations EXCEPT ![c] = @ \cup {Len(made')}]
  /\ shown' = [shown EXCEPT ![c] = {Len(made')}]
  /\ UNCHANGED <<unlocked, snapshots>>

(* storage::save, or a snapshot for a peer.                                *)
Save(c) ==
  /\ operations[c] \notin snapshots
  /\ snapshots' = snapshots \cup {operations[c]}
  /\ UNCHANGED <<made, operations, unlocked, shown>>

(* Mutant of IsWhole: revisions are taken without the ones they supersede. *)
IsWholeAnyway(ops) == Cardinality(ops) <= MaxOps

IsWhole(ops) == Cardinality(ops) <= MaxOps /\ \A i \in ops : Parents(i) \subseteq ops

(* merge, of a snapshot some of whose operations may be lacking: all of it *)
(* or nothing.                                                             *)
Merge(c, arrived) ==
  /\ c \in unlocked /\ ~(arrived \subseteq operations[c])
  /\ IsWhole(operations[c] \cup arrived)
  /\ operations' = [operations EXCEPT ![c] = @ \cup arrived]
  /\ UNCHANGED <<made, unlocked, shown, snapshots>>

(* storage::load, decode: a process that starts again on a saved revision. *)
Load(c, saved) ==
  /\ saved # operations[c] /\ IsWhole(saved)
  /\ operations' = [operations EXCEPT ![c] = saved]
  /\ unlocked' = unlocked \cup {c}
  /\ shown' = [shown EXCEPT ![c] = {}]
  /\ UNCHANGED <<made, snapshots>>

(* lock; unlock, which locks first and stays locked if the password fails. *)
Lock(c) ==
  /\ unlocked' \in {unlocked \ {c}, unlocked \cup {c}} \ {unlocked}
  /\ UNCHANGED <<made, operations, shown, snapshots>>

VaultNext ==
  \E c \in Copy :
    \/ Show(c) \/ Write(c) \/ Save(c) \/ Lock(c)
    \/ \E s \in snapshots : Load(c, s)
    \/ \E s \in snapshots : \E lacking \in SUBSET s : Merge(c, s \ lacking)

VaultSpec == VaultInit /\ [][VaultNext]_vaultVars

-----------------------------------------------------------------------------
(* Revision i is superseded by j, directly or through others.              *)
Supersedes ==
  LET before[j \in DOMAIN made] ==
        Parents(j) \cup UNION {before[i] : i \in Parents(j)}
  IN before

(* A superseded revision, a deleted account above all, does not come back: *)
(* among the heads of a copy none supersedes another, whatever was merged  *)
(* and in whatever order, and each revision is a head or superseded by one.*)
HeadsAreLatest ==
  \A c \in Copy :
    LET heads == HeadsOf(operations[c]) IN
    /\ \A i, j \in heads : i \notin Supersedes[j]
    /\ \A i \in operations[c] : i \in heads \/ \E j \in heads : i \in Supersedes[j]

=============================================================================
