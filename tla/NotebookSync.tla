---------------------------- MODULE NotebookSync ----------------------------
(***************************************************************************)
(* Notebook synchronisation between desktops: the note and sync tables of  *)
(* store.rs, the local edit API of notebook.rs, and the sync worker and    *)
(* feed of notebook_sync.rs.                                               *)
(*                                                                         *)
(* Every store operation is one redb transaction under the store's mutex   *)
(* and therefore one action, except the merge of a received page: its loop *)
(* over the page is unfolded into one step per version, with the mutex     *)
(* held (phase "merge") and nothing visible before Commit.  Between the    *)
(* steps of a worker (read the settings, send, pass the peer's gate, read  *)
(* the peer's feed, receive, apply) anything else may happen anywhere.     *)
(***************************************************************************)
EXTENDS NotebookVersions

CONSTANTS
  PageItems,        \* MAX_SYNC_PAGE_ITEMS
  PagesPerRun,      \* MAX_SYNC_PAGES_PER_RUN
  MaxNotes,         \* MAX_NOTEBOOK_ITEMS
  InitialPeers,     \* the peers each device has selected at the start
  Ids,              \* bound: the version ids the edits of a device may get
  Pulling,          \* bound: the devices whose worker gets to run
  MaxGeneration,    \* bound: how many settings changes each device may make
  Faulty,           \* bound: the devices whose requests fail and that restart
  Settling,         \* bound: whether the environment may settle
  Observed          \* bound: the <<device, peer>> pairs that `sweep` follows

ASSUME SyncAssumption ==
  /\ PageItems \in Nat \ {0} /\ PagesPerRun \in Nat \ {0} /\ MaxNotes \in Nat
  /\ InitialPeers \in [Replica -> SUBSET Replica]
  /\ \A r \in Replica : r \notin InitialPeers[r]
  /\ Ids \in [Replica -> SUBSET VersionId] /\ Pulling \subseteq Replica
  /\ MaxGeneration \in [Replica -> Nat]
  /\ Faulty \subseteq Replica /\ Settling \in BOOLEAN
  /\ Observed \subseteq Replica \X Replica

VARIABLES
  heads,      \* per device, the heads of all its notes (NOTEBOOK_SYNC rows)
  shown,      \* per device, the content of its note rows, as versions
  revision,   \* per device and note, the row's revision, 0 for no row
  settings,   \* per device, the sync settings and their generation
  progress,   \* per device and peer, the persisted feed cursor and backoff
  worker,     \* per device, the state of run_worker
  editor,     \* per device, what the desktop page holds of the open note
  quiet,      \* environment: no edits, faults or restarts from here on
  seen,       \* history: the versions a device has written or acknowledged
  revoked,    \* history: the settings changed since the worker's round began
  sweep       \* history: what a peer held when the traversal of it began

store == <<heads, shown, revision>>
vars == <<heads, shown, revision, settings, progress, worker, editor, quiet,
          seen, revoked, sweep>>

AllVersions == UNION {seen[q] : q \in Replica}

FreshIds(r) == Ids[r] \ {v.id : v \in AllVersions}

NoProgress == [cursor |-> NoCursor, backoff |-> FALSE]

IdleWorker ==
  [phase |-> "idle", gen |-> 0, todo |-> {}, peer |-> {}, pages |-> 0,
   cursor |-> NoCursor, page |-> {}, next |-> NoCursor, merged |-> {},
   staged |-> {}]

NoEditor == [state |-> "closed", note |-> 0, revision |-> 0, read |-> {}]

NoSweep == [held |-> {}, done |-> FALSE]

(* The store mutex is held by the worker only while it merges a page.      *)
StoreUnlocked(r) == worker[r].phase # "merge"

Init ==
  /\ heads = [r \in Replica |-> {}]
  /\ shown = [r \in Replica |-> {}]
  /\ revision = [r \in Replica |-> [n \in Note |-> 0]]
  /\ settings = [r \in Replica |-> [enabled |-> InitialPeers[r] # {},
                                    peers |-> InitialPeers[r],
                                    generation |-> 0]]
  /\ progress = [r \in Replica |-> [p \in Replica |-> NoProgress]]
  /\ worker = [r \in Replica |-> IdleWorker]
  /\ editor = [r \in Replica |-> NoEditor]
  /\ quiet = FALSE
  /\ seen = [r \in Replica |-> {}]
  /\ revoked = [r \in Replica |-> FALSE]
  /\ sweep = [r \in Replica |-> [p \in Replica |-> NoSweep]]

-----------------------------------------------------------------------------
(* The desktop page: it reads a note, lists its conflicting versions and   *)
(* sends back the revision it read.                                        *)

(* GET /v1/notebook/{id}: the row's content and revision.  (Bound: only by *)
(* users who may still write.)                                             *)
OpenNote(r, n) ==
  /\ ~quiet /\ StoreUnlocked(r) /\ FreshIds(r) # {}
  /\ revision[r][n] > 0
  /\ editor' = [editor EXCEPT
                  ![r] = [state |-> "open", note |-> n,
                          revision |-> revision[r][n],
                          read |-> OnNote(shown[r], n)]]
  /\ UNCHANGED <<store, settings, progress, worker, quiet, seen, revoked, sweep>>

(* GET /v1/notebook/{id}/conflicts, after the note itself was read.        *)
ListConflicts(r) ==
  /\ ~quiet /\ StoreUnlocked(r)
  /\ editor[r].state = "open"
  /\ Cardinality(OnNote(heads[r], editor[r].note)) > 1
  /\ editor' = [editor EXCEPT ![r].state = "listed",
                              ![r].read = @ \cup OnNote(heads[r], editor[r].note)]
  /\ UNCHANGED <<store, settings, progress, worker, quiet, seen, revoked, sweep>>

(* The versions that r may write of note n with this clock.                *)
NewVersions(r, n, clock, trashed) ==
  {[id |-> i, note |-> n, clock |-> clock, author |-> r, trashed |-> trashed,
    past |-> PastOf(OnNote(seen[r], n))] : i \in FreshIds(r)}

(* The note row and its metadata are replaced by the one new version.      *)
Deposit(r, v) ==
  /\ heads' = [heads EXCEPT ![r] = {h \in @ : h.note # v.note} \cup {v}]
  /\ shown' = [shown EXCEPT ![r] = {h \in @ : h.note # v.note} \cup {v}]
  /\ revision' = [revision EXCEPT ![r][v.note] = @ + 1]
  /\ seen' = [seen EXCEPT ![r] = @ \cup {v}]
  /\ UNCHANGED <<settings, progress, worker, quiet, revoked, sweep>>

(* Mutant of CloseEditor: the state of the page is left behind.            *)
CloseEditorHalf(r) == editor' = [editor EXCEPT ![r].note = 0]

(* The page shows the whole reply of these operations, which was read after*)
(* the write: as if it were closed and opened again.                       *)
CloseEditor(r) == editor' = [editor EXCEPT ![r] = NoEditor]

(* create_item: a note id is a fresh UUID.                                 *)
Create(r, n) ==
  /\ ~quiet /\ StoreUnlocked(r)
  /\ n \notin NotesOf(AllVersions)
  /\ Cardinality(NotesOf(heads[r])) < MaxNotes
  /\ CanIncrement(NoClock, r)
  /\ \E v \in NewVersions(r, n, Increment(NoClock, r), FALSE) : Deposit(r, v)
  /\ CloseEditor(r)

(* Mutant of RevisionMatches: last writer wins.                            *)
RevisionIgnored(r) == editor[r].note \in Note

(* The revision the page sends is the one the store has: the compare and   *)
(* swap of save_notebook_local and resolve_notebook_conflict.              *)
RevisionMatches(r) == editor[r].revision = revision[r][editor[r].note]

(* save_notebook_local of an existing note: refused when it has several    *)
(* heads, else the new version succeeds the only one.                      *)
Replace(r, h, trashed) ==
  /\ ~quiet /\ StoreUnlocked(r)
  /\ RevisionMatches(r)
  /\ OnNote(heads[r], editor[r].note) = {h}
  /\ CanIncrement(h.clock, r)
  /\ \E v \in NewVersions(r, h.note, Increment(h.clock, r), trashed) : Deposit(r, v)

(* update_item, sent by the autosave of the page.                          *)
Save(r) ==
  /\ editor[r].state \in {"open", "ahead"}
  /\ \E h \in heads[r] :
       /\ ~h.trashed
       /\ Replace(r, h, FALSE)
       /\ editor' = [editor EXCEPT ![r].state = "saving", ![r].read = seen'[r] \ seen[r]]

(* The reply to a save is a second read of the store.  The page takes its  *)
(* revision and keeps its own text, so it is "ahead" of what it has read   *)
(* when the note changed in between.                                       *)
SaveReply(r) ==
  /\ ~quiet /\ StoreUnlocked(r)
  /\ editor[r].state = "saving"
  /\ LET n == editor[r].note IN
     editor' = [editor EXCEPT
                  ![r].state = IF OnNote(heads[r], n) = editor[r].read
                               THEN "open" ELSE "ahead",
                  ![r].revision = revision[r][n]]
  /\ UNCHANGED <<store, settings, progress, worker, quiet, seen, revoked, sweep>>

(* trash_item and restore_item, of a note the page has just read.          *)
TrashOrRestore(r) ==
  /\ editor[r].state = "open"
  /\ \E h \in heads[r] : Replace(r, h, ~h.trashed)
  /\ CloseEditor(r)

(* resolve_notebook_conflict: one version, with the content of the one kept,*)
(* succeeds all heads of a note that has several.                          *)
Supersede(r, n, kept) ==
  /\ ~quiet /\ StoreUnlocked(r)
  /\ Cardinality(OnNote(heads[r], n)) > 1
  /\ RevisionMatches(r)
  /\ \E clock \in Joins(OnNote(heads[r], n)) :
       /\ CanIncrement(clock, r)
       /\ \E v \in NewVersions(r, n, Increment(clock, r), kept.trashed) : Deposit(r, v)

(* resolve_conflict: the user keeps one of the listed versions.            *)
Resolve(r) ==
  /\ editor[r].state = "listed"
  /\ \E kept \in editor[r].read \cap heads[r] : Supersede(r, editor[r].note, kept)
  /\ CloseEditor(r)

-----------------------------------------------------------------------------
(* Settings *)

(* update_sync_settings: a peer that stays selected keeps its cursor.      *)
KeptProgress(r, peers) ==
  [p \in Replica |-> IF p \in peers THEN progress[r][p] ELSE NoProgress]

(* put_settings: known devices other than this one, and some to enable it. *)
UpdateSettings(r, on, peers) ==
  /\ ~quiet /\ StoreUnlocked(r)
  /\ r \notin peers /\ (on => peers # {})
  /\ settings[r].generation < MaxGeneration[r]
  /\ <<on, peers>> # <<settings[r].enabled, settings[r].peers>>
  /\ settings' = [settings EXCEPT
                    ![r] = [enabled |-> on, peers |-> peers,
                            generation |-> settings[r].generation + 1]]
  /\ progress' = [progress EXCEPT ![r] = KeptProgress(r, peers)]
  /\ revoked' = [revoked EXCEPT ![r] = TRUE]
  /\ UNCHANGED <<store, worker, editor, quiet, seen, sweep>>

-----------------------------------------------------------------------------
(* The worker: rounds over the selected peers *)

Selected(r, p) == settings[r].enabled /\ p \in settings[r].peers

(* Mutant of Current: a change that was undone goes unnoticed.             *)
CurrentByValue(r, p) == Selected(r, p)

(* The settings are still those the round was started under, and p is      *)
(* selected: the check of run_worker, sync_peer_pages, update_peer_progress*)
(* and apply_sync_page.                                                    *)
Current(r, p) == Selected(r, p) /\ settings[r].generation = worker[r].gen

(* set_peer_error *)
Failed(r, p) ==
  IF Current(r, p) THEN [progress EXCEPT ![r][p].backoff = TRUE] ELSE progress

(* Back to the loop over the peers that this round has not visited.        *)
ToNextPeer(r) ==
  worker' = [worker EXCEPT
               ![r] = [IdleWorker EXCEPT !.phase = "round", !.gen = worker[r].gen,
                                         !.todo = worker[r].todo]]

(* A tick or a notification starts a round.                                *)
StartRound(r) ==
  /\ r \in Pulling /\ worker[r].phase = "idle"
  /\ settings[r].enabled /\ settings[r].peers # {}
  /\ worker' = [worker EXCEPT
                  ![r] = [IdleWorker EXCEPT !.phase = "round",
                            !.gen = settings[r].generation,
                            !.todo = settings[r].peers]]
  /\ revoked' = [revoked EXCEPT ![r] = FALSE]
  /\ UNCHANGED <<store, settings, progress, editor, quiet, seen, sweep>>

(* Discovery gave no answer: every peer of the round backs off.            *)
DiscoveryFails(r) ==
  /\ worker[r].phase = "round" /\ worker[r].todo = settings[r].peers
  /\ worker' = [worker EXCEPT ![r] = IdleWorker]
  /\ progress' = [progress EXCEPT
                    ![r] = [p \in Replica |->
                              IF p \in worker[r].todo /\ Current(r, p)
                              THEN [@[p] EXCEPT !.backoff = TRUE] ELSE @[p]]]
  /\ UNCHANGED <<store, settings, editor, quiet, seen, revoked, sweep>>

(* All peers visited, or the settings changed under the round.             *)
EndRound(r) ==
  /\ worker[r].phase = "round"
  /\ worker[r].todo = {} \/ \E p \in worker[r].todo : ~Current(r, p)
  /\ worker' = [worker EXCEPT ![r] = IdleWorker]
  /\ UNCHANGED <<store, settings, progress, editor, quiet, seen, revoked, sweep>>

(* The peer is offline, unknown or has no usable address.                  *)
PeerUnavailable(r, p) ==
  /\ worker[r].phase = "round" /\ p \in worker[r].todo /\ Current(r, p)
  /\ progress' = Failed(r, p)
  /\ worker' = [worker EXCEPT ![r].todo = @ \ {p}]
  /\ UNCHANGED <<store, settings, editor, quiet, seen, revoked, sweep>>

(* A round that nobody asked for leaves a peer alone until its retry time. *)
SkipPeer(r, p) ==
  /\ worker[r].phase = "round" /\ p \in worker[r].todo /\ Current(r, p)
  /\ progress[r][p].backoff
  /\ worker' = [worker EXCEPT ![r].todo = @ \ {p}]
  /\ UNCHANGED <<store, settings, progress, editor, quiet, seen, revoked, sweep>>

VisitPeer(r, p) ==
  /\ worker[r].phase = "round" /\ p \in worker[r].todo /\ Current(r, p)
  /\ worker' = [worker EXCEPT ![r].phase = "request", ![r].peer = {p},
                              ![r].todo = @ \ {p}, ![r].pages = PagesPerRun]
  /\ UNCHANGED <<store, settings, progress, editor, quiet, seen, revoked, sweep>>

(* The retry time of a peer passes.                                        *)
RetryDue(r, p) ==
  /\ progress[r][p].backoff
  /\ progress' = [progress EXCEPT ![r][p].backoff = FALSE]
  /\ UNCHANGED <<store, settings, worker, editor, quiet, seen, revoked, sweep>>

-----------------------------------------------------------------------------
(* The worker: pages of one peer *)

(* The top of the loop of sync_peer_pages_at_endpoint.                     *)
SendRequest(r, p) ==
  /\ worker[r].phase = "request" /\ p \in worker[r].peer
  /\ IF Current(r, p)
     THEN worker' = [worker EXCEPT ![r].phase = "sent",
                                   ![r].cursor = progress[r][p].cursor]
     ELSE ToNextPeer(r)
  /\ UNCHANGED <<store, settings, progress, editor, quiet, seen, revoked, sweep>>

(* network_gate at the peer: it must have selected r, too.                 *)
Admit(r, p) ==
  /\ worker[r].phase = "sent" /\ p \in worker[r].peer /\ StoreUnlocked(p)
  /\ IF Selected(p, r)
     THEN worker' = [worker EXCEPT ![r].phase = "admitted"] /\ UNCHANGED progress
     ELSE ToNextPeer(r) /\ progress' = Failed(r, p)
  /\ UNCHANGED <<store, settings, editor, quiet, seen, revoked, sweep>>

Beyond(cursor, S) == {v \in S : KeyLess(cursor, Key(v))}

(* sync_records: the versions after the cursor in key order, at most       *)
(* PageItems of them and fewer when the page grows too large in bytes, but *)
(* at least one.                                                           *)
FeedPages(rest) ==
  {P \in SUBSET rest :
     /\ Cardinality(P) <= PageItems
     /\ P = {} => rest = {}
     /\ \A v \in P, w \in rest \ P : KeyLess(Key(v), Key(w))}

(* Mutant of NextAfter: the first version left out is taken for sent.      *)
NextAfterSkips(P, rest) ==
  IF P = rest THEN {NoCursor}
  ELSE {Key(v) : v \in {u \in rest \ P : \A w \in rest \ P : w = u \/ KeyLess(Key(u), Key(w))}}

(* next_after: the key of the last version when there are more.            *)
NextAfter(P, rest) ==
  IF P = rest THEN {NoCursor}
  ELSE {Key(v) : v \in {u \in P : \A w \in P : w = u \/ KeyLess(Key(w), Key(u))}}

ServePage(r, p) ==
  /\ worker[r].phase = "admitted" /\ p \in worker[r].peer /\ StoreUnlocked(p)
  /\ LET rest == Beyond(worker[r].cursor, heads[p]) IN
     \E P \in FeedPages(rest) : \E next \in NextAfter(P, rest) :
       worker' = [worker EXCEPT ![r].phase = "received", ![r].page = P,
                                ![r].next = next]
  /\ sweep' = IF worker[r].cursor = NoCursor /\ <<r, p>> \in Observed
              THEN [sweep EXCEPT ![r][p] = [held |-> heads[p], done |-> FALSE]]
              ELSE sweep
  /\ UNCHANGED <<store, settings, progress, editor, quiet, seen, revoked>>

(* The answer is cut short, too large, or no page of the feed that follows *)
(* the cursor.                                                             *)
Unusable(r) == worker[r].phase = "received"

(* The request or its answer is lost, times out, is refused or unusable.   *)
RequestFails(r, p) ==
  /\ worker[r].phase \in {"sent", "admitted"} \/ Unusable(r)
  /\ p \in worker[r].peer
  /\ progress' = Failed(r, p)
  /\ ToNextPeer(r)
  /\ UNCHANGED <<store, settings, editor, quiet, seen, revoked, sweep>>

(* apply_sync_page, first part: SettingsRevoked and CursorChanged end the  *)
(* visit and change nothing.                                               *)
BeginApply(r, p) ==
  /\ worker[r].phase = "received" /\ p \in worker[r].peer
  /\ IF Current(r, p) /\ progress[r][p].cursor = worker[r].cursor
     THEN worker' = [worker EXCEPT ![r].phase = "merge", ![r].staged = heads[r]]
     ELSE ToNextPeer(r)
  /\ UNCHANGED <<store, settings, progress, editor, quiet, seen, revoked, sweep>>

(* The next version of the page in key order.                              *)
NextInPage(r) ==
  {v \in worker[r].page : \A w \in worker[r].page : w = v \/ KeyLess(Key(v), Key(w))}

MergeNext(r) ==
  /\ worker[r].phase = "merge"
  /\ \E v \in NextInPage(r) :
       /\ ~Overflows(worker[r].staged, v)
       /\ worker' = [worker EXCEPT ![r].staged = MergeVersion(@, v),
                                   ![r].merged = @ \cup {v},
                                   ![r].page = @ \ {v}]
  /\ UNCHANGED <<store, settings, progress, editor, quiet, seen, revoked, sweep>>

(* Too many heads or too many notes: the transaction is dropped with all   *)
(* that was staged, and the peer backs off.                                *)
AbortApply(r, p) ==
  /\ worker[r].phase = "merge" /\ p \in worker[r].peer
  /\ \/ \E v \in NextInPage(r) : Overflows(worker[r].staged, v)
     \/ worker[r].page = {} /\ Cardinality(NotesOf(worker[r].staged)) > MaxNotes
  /\ progress' = Failed(r, p)
  /\ ToNextPeer(r)
  /\ UNCHANGED <<store, settings, editor, quiet, seen, revoked, sweep>>

(* Mutants of ChangedNotes: a note changed when its heads became more or   *)
(* fewer; every note of the page changed.                                  *)
ChangedByCount(r) ==
  {n \in Note : Cardinality(OnNote(worker[r].staged, n)) # Cardinality(OnNote(heads[r], n))}

ChangedByPage(r) == NotesOf(worker[r].merged)

(* The notes whose heads the page changed.                                 *)
ChangedNotes(r) ==
  {n \in Note : OnNote(worker[r].staged, n) # OnNote(heads[r], n)}

CommitApply(r, p) ==
  /\ worker[r].phase = "merge" /\ p \in worker[r].peer
  /\ worker[r].page = {} /\ Cardinality(NotesOf(worker[r].staged)) <= MaxNotes
  /\ heads' = [heads EXCEPT ![r] = worker[r].staged]
  /\ shown' = [shown EXCEPT
                 ![r] = {h \in @ : h.note \notin ChangedNotes(r)}
                        \cup {h \in Primaries(worker[r].staged) : h.note \in ChangedNotes(r)}]
  /\ revision' = [revision EXCEPT
                    ![r] = [n \in Note |-> IF n \in ChangedNotes(r) THEN @[n] + 1 ELSE @[n]]]
  /\ progress' = [progress EXCEPT ![r][p] = [cursor |-> worker[r].next, backoff |-> FALSE]]
  /\ IF worker[r].next = NoCursor \/ worker[r].pages <= 1
     THEN ToNextPeer(r)
     ELSE worker' = [worker EXCEPT
                       ![r] = [IdleWorker EXCEPT !.phase = "request",
                                 !.gen = worker[r].gen, !.todo = worker[r].todo,
                                 !.peer = {p}, !.pages = worker[r].pages - 1]]
  /\ seen' = [seen EXCEPT ![r] = @ \cup worker[r].merged]
  /\ sweep' = [sweep EXCEPT ![r][p].done =
                               @ \/ (<<r, p>> \in Observed /\ worker[r].next = NoCursor)]
  /\ UNCHANGED <<settings, editor, quiet, revoked>>

-----------------------------------------------------------------------------
(* The service stops at any moment and starts again on its database.       *)
Restart(r) ==
  /\ worker[r] # IdleWorker
  /\ worker' = [worker EXCEPT ![r] = IdleWorker]
  /\ UNCHANGED <<store, settings, progress, editor, quiet, seen, revoked, sweep>>

(* The environment settles; the workers go on.                             *)
Settle ==
  /\ Settling /\ ~quiet
  /\ quiet' = TRUE
  /\ editor' = [r \in Replica |-> NoEditor]
  /\ UNCHANGED <<store, settings, progress, worker, seen, revoked, sweep>>

UserStep(r) ==
  \/ \E n \in Note : OpenNote(r, n) \/ Create(r, n)
  \/ ListConflicts(r) \/ Save(r) \/ SaveReply(r) \/ TrashOrRestore(r) \/ Resolve(r)
  \/ \E on \in BOOLEAN, peers \in SUBSET Replica : UpdateSettings(r, on, peers)

(* What the worker of r does without help from the environment.            *)
WorkerStep(r) ==
  \/ StartRound(r)
  \/ EndRound(r)
  \/ MergeNext(r)
  \/ \E p \in Replica :
       \/ SkipPeer(r, p) \/ VisitPeer(r, p) \/ SendRequest(r, p)
       \/ Admit(r, p) \/ ServePage(r, p)
       \/ BeginApply(r, p) \/ AbortApply(r, p) \/ CommitApply(r, p)

FaultStep(r) ==
  /\ ~quiet /\ r \in Faulty
  /\ \/ DiscoveryFails(r)
     \/ Restart(r)
     \/ \E p \in Replica : PeerUnavailable(r, p) \/ RequestFails(r, p)

Next ==
  \/ Settle
  \/ \E r \in Replica :
       \/ UserStep(r) \/ WorkerStep(r) \/ FaultStep(r)
       \/ \E p \in Replica : RetryDue(r, p)

Spec == Init /\ [][Next]_vars

(* The service keeps its worker running and time passes; users, faults and *)
(* settings are not fair.  A request that waits for a store gets it in the *)
(* end although its mutex is taken again and again: a merge is short and   *)
(* the worker that does it sleeps between its rounds.                      *)
Fairness ==
  \A r \in Replica :
    /\ SF_vars(WorkerStep(r))
    /\ \A p \in Replica : WF_vars(RetryDue(r, p))

FairSpec == Spec /\ Fairness

-----------------------------------------------------------------------------
(* Properties *)

WorkerType ==
  [phase : {"idle", "round", "request", "sent", "admitted", "received", "merge"},
   gen : Nat, todo : SUBSET Replica, peer : SUBSET Replica, pages : Nat,
   cursor : Cursor, page : SUBSET Version, next : Cursor,
   merged : SUBSET Version, staged : SUBSET Version]

ProgressType == [cursor : Cursor, backoff : BOOLEAN]

SweepType == [held : SUBSET Version, done : BOOLEAN]

OpenEditorType ==
  [state : {"open", "listed", "saving", "ahead"}, note : Note, revision : Nat,
   read : SUBSET Version]

EditorType == OpenEditorType \cup {NoEditor}

(* Every variable has its type.                                            *)
TypeOK ==
  /\ heads \in [Replica -> SUBSET Version]
  /\ shown \in [Replica -> SUBSET Version]
  /\ revision \in [Replica -> [Note -> Nat]]
  /\ settings \in [Replica -> [enabled : BOOLEAN, peers : SUBSET Replica,
                               generation : Nat]]
  /\ progress \in [Replica -> [Replica -> ProgressType]]
  /\ worker \in [Replica -> WorkerType]
  /\ editor \in [Replica -> EditorType]
  /\ quiet \in BOOLEAN
  /\ seen \in [Replica -> SUBSET Version]
  /\ revoked \in [Replica -> BOOLEAN]
  /\ sweep \in [Replica -> [Replica -> SweepType]]

(* Whatever the order, repetition or interruption of edits and pages, the  *)
(* heads of a device are exactly the versions it ever wrote or             *)
(* acknowledged that no other of these succeeds: no concurrent edit is     *)
(* lost, and no late copy of an older version comes back (a trashed note   *)
(* is not revived by one).                                                 *)
HeadsAreMaxima == \A r \in Replica : heads[r] = Maxima(seen[r])

(* The inductive form of HeadsAreMaxima: the heads are the frontier of     *)
(* what the device has seen, and those that a merge has staged the         *)
(* frontier of that and the part of the page merged so far.                *)
FrontierInvariant ==
  \A r \in Replica :
    /\ Frontier(heads[r], seen[r])
    /\ worker[r].phase = "merge" =>
         Frontier(worker[r].staged, seen[r] \cup worker[r].merged)
    /\ worker[r].phase # "merge" => worker[r].merged = {}

(* A version succeeds another exactly when its author had the other one    *)
(* when writing: the clocks never order two edits made in ignorance of     *)
(* each other, and two different versions never have equal clocks.         *)
ClocksAreCausal ==
  \A v, w \in AllVersions :
    v.note = w.note =>
      /\ After(w.clock, v.clock) <=> v.id \in w.past
      /\ v.clock = w.clock => v = w

(* The note rows hold the primary of each note's heads, which is what      *)
(* materialize_heads demands of them before it accepts the metadata, and   *)
(* every note with heads has a row with a revision.                        *)
RowsMatchHeads ==
  \A r \in Replica :
    /\ shown[r] = Primaries(heads[r])
    /\ \A n \in Note : (revision[r][n] > 0) <=> (\E s \in shown[r] : s.note = n)

(* The limits hold whatever is received, written and resolved.             *)
LimitsHold ==
  \A r \in Replica :
    /\ Cardinality(NotesOf(heads[r])) <= MaxNotes
    /\ \A n \in Note : Cardinality(OnNote(heads[r], n)) <= MaxHeads

(* A local write gets rid only of versions that the page had read: an edit *)
(* based on an old reading, or the choice among a list that has changed    *)
(* since, never replaces a version the user has not seen.                  *)
NoSilentOverwrite ==
  [][\A r \in Replica :
       (\E v \in seen'[r] : v \notin AllVersions) =>
         heads[r] \ heads'[r] \subseteq editor[r].read]_vars

(* The same except for the saves of a page that took over a revision from  *)
(* the reply to its previous save without the content that came with it.   *)
WritesReplaceWhatWasRead ==
  [][\A r \in Replica :
       (\E v \in seen'[r] : v \notin AllVersions) =>
         \/ heads[r] \ heads'[r] \subseteq editor[r].read
         \/ editor[r].state = "ahead"]_vars

(* The revision of a note changes when, and only when, its heads do, and   *)
(* only upwards: pages that bring nothing new are not edits.               *)
RevisionFollowsHeads ==
  [][\A r \in Replica, n \in Note :
       /\ revision'[r][n] >= revision[r][n]
       /\ (revision'[r][n] = revision[r][n]) <=> (OnNote(heads'[r], n) = OnNote(heads[r], n))]_vars

(* After a change of the settings nothing of a visit begun before it is    *)
(* merged, even if the change was undone in between.                       *)
RevocationIsFinal ==
  [][\A r \in Replica :
       (\E v \in seen'[r] \ seen[r] : v \in AllVersions) => ~revoked[r]]_vars

(* Why that is so: the settings a round runs under are never newer than    *)
(* the stored ones, they are older once these have changed, and a merge    *)
(* only begins, and only goes on, while they are the same.                 *)
RoundInvariant ==
  \A r \in Replica :
    /\ worker[r].gen <= settings[r].generation
    /\ worker[r].phase = "merge" => worker[r].gen = settings[r].generation
    /\ revoked[r] /\ worker[r].phase # "idle" =>
         worker[r].gen < settings[r].generation

(* The cursor never moves past a version that the peer has held since the  *)
(* traversal began and the device has not acknowledged; when a traversal   *)
(* is complete, none is left.  Failures, restarts, and edits on both sides *)
(* between its pages do not change that.                                   *)
SweepMissesNothing ==
  \A r, p \in Replica :
    \A v \in sweep[r][p].held \cap heads[p] :
      \/ v \in seen[r]
      \/ ~sweep[r][p].done /\ KeyLess(progress[r][p].cursor, Key(v))

(* Once the environment settles, devices that have selected each other end *)
(* up with the same heads, and stay so.                                    *)
Convergence ==
  <>[](quiet => \A r, p \in Replica :
                  Selected(r, p) /\ Selected(p, r) => heads[r] = heads[p])

(* The devices implement the causal notebook.                              *)
Abstract == INSTANCE CausalNotebook WITH known <- seen, display <- shown

ImplementsCausalNotebook == Abstract!Spec

=============================================================================
