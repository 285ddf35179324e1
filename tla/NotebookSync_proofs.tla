------------------------ MODULE NotebookSync_proofs ------------------------
(***************************************************************************)
(* Theorems about NotebookSync that hold for any number of devices, notes  *)
(* and versions and for any limits.                                        *)
(***************************************************************************)
EXTENDS NotebookSync, TLAPS

-----------------------------------------------------------------------------
(* The operators of NotebookVersions: what they return *)

(* The place of a version in the feed is a cursor.                         *)
LEMMA KeyType == ASSUME NEW v \in Version PROVE Key(v) \in Cursor
BY DEF Key, Cursor, Version

(* Incremented clocks are clocks.                                          *)
LEMMA IncrementType ==
  ASSUME NEW c \in Clock, NEW r \in Replica PROVE Increment(c, r) \in Clock
BY DEF Increment, Clock

(* Joined clocks are clocks.                                               *)
LEMMA JoinsType ==
  ASSUME NEW H \in SUBSET Version, NEW c \in Joins(H) PROVE c \in Clock
BY DEF Joins, Version, Clock

(* Merged heads are versions.                                              *)
LEMMA MergeVersionType ==
  ASSUME NEW H \in SUBSET Version, NEW v \in Version
  PROVE  MergeVersion(H, v) \in SUBSET Version
BY DEF MergeVersion, Survivors

(* Pasts are sets of ids.                                                  *)
LEMMA PastOfType ==
  ASSUME NEW S \in SUBSET Version PROVE PastOf(S) \in SUBSET VersionId
BY DEF PastOf, Version

(* A new version is one, and knows what it was made from.                  *)
LEMMA NewVersionsType ==
  ASSUME TypeOK, NEW r \in Replica, NEW n \in Note, NEW clock \in Clock,
         NEW trashed \in BOOLEAN, NEW v \in NewVersions(r, n, clock, trashed)
  PROVE  /\ v \in Version
         /\ v.note = n /\ v.clock = clock /\ v.author = r
         /\ v.id \notin {w.id : w \in AllVersions}
         /\ v.past = PastOf(OnNote(seen[r], n))
<1>1. PastOf(OnNote(seen[r], n)) \in SUBSET VersionId
  BY PastOfType DEF TypeOK, OnNote
<1>2. FreshIds(r) \in SUBSET VersionId
  BY SyncAssumption DEF FreshIds
<1> QED
  BY <1>1, <1>2 DEF NewVersions, Version, FreshIds

(* The cursor after a page is one.                                         *)
LEMMA NextAfterType ==
  ASSUME NEW rest \in SUBSET Version, NEW P \in SUBSET rest,
         NEW next \in NextAfter(P, rest)
  PROVE  next \in Cursor
BY KeyType DEF NextAfter, NoCursor, Cursor

-----------------------------------------------------------------------------
(* Type correctness *)

(* A worker at rest is one.                                                *)
LEMMA IdleWorkerType == IdleWorker \in WorkerType
BY DEF IdleWorker, WorkerType, NoCursor, Cursor

(* Going on to the next peer of the round keeps the worker's type.         *)
LEMMA ToNextPeerType ==
  ASSUME TypeOK, NEW r \in Replica, ToNextPeer(r)
  PROVE  worker' \in [Replica -> WorkerType]
<1>1. worker[r] \in WorkerType
  BY DEF TypeOK
<1>2. [IdleWorker EXCEPT !.phase = "round", !.gen = worker[r].gen,
                         !.todo = worker[r].todo] \in WorkerType
  BY <1>1, IdleWorkerType DEF WorkerType
<1> QED
  BY <1>2 DEF ToNextPeer, TypeOK

(* Progress after a failure is progress.                                   *)
LEMMA FailedType ==
  ASSUME TypeOK, NEW r \in Replica, NEW p \in Replica
  PROVE  Failed(r, p) \in [Replica -> [Replica -> ProgressType]]
<1>1. progress[r] \in [Replica -> ProgressType]
  BY DEF TypeOK
<1>2. [progress[r][p] EXCEPT !.backoff = TRUE] \in ProgressType
  BY <1>1 DEF ProgressType
<1>3. [progress[r] EXCEPT ![p] = [@ EXCEPT !.backoff = TRUE]] \in [Replica -> ProgressType]
  BY <1>1, <1>2
<1>4. [progress EXCEPT ![r][p].backoff = TRUE] \in [Replica -> [Replica -> ProgressType]]
  BY <1>1, <1>2, <1>3 DEF TypeOK
<1> QED
  BY <1>4 DEF Failed, TypeOK

(* A local write keeps the types of what it changes.                       *)
LEMMA DepositType ==
  ASSUME TypeOK, NEW r \in Replica, NEW v \in Version, Deposit(r, v)
  PROVE  /\ heads' \in [Replica -> SUBSET Version]
         /\ shown' \in [Replica -> SUBSET Version]
         /\ revision' \in [Replica -> [Note -> Nat]]
         /\ seen' \in [Replica -> SUBSET Version]
         /\ UNCHANGED <<settings, progress, worker, quiet, revoked, sweep>>
<1>1. v.note \in Note
  BY DEF Version
<1> QED
  BY <1>1 DEF Deposit, TypeOK

(* The initial state has its type.                                         *)
LEMMA InitType == Init => TypeOK
<1> SUFFICES ASSUME Init PROVE TypeOK
  OBVIOUS
<1>1. /\ heads \in [Replica -> SUBSET Version]
      /\ shown \in [Replica -> SUBSET Version]
      /\ revision \in [Replica -> [Note -> Nat]]
      /\ quiet \in BOOLEAN
      /\ seen \in [Replica -> SUBSET Version]
      /\ revoked \in [Replica -> BOOLEAN]
  BY DEF Init
<1>2. settings \in [Replica -> [enabled : BOOLEAN, peers : SUBSET Replica,
                                generation : Nat]]
  BY SyncAssumption DEF Init
<1>3. progress \in [Replica -> [Replica -> ProgressType]]
  BY DEF Init, NoProgress, ProgressType, NoCursor, Cursor
<1>4. worker \in [Replica -> WorkerType]
  BY IdleWorkerType DEF Init
<1>5. editor \in [Replica -> EditorType]
  BY DEF Init, EditorType
<1>6. sweep \in [Replica -> [Replica -> SweepType]]
  BY DEF Init, NoSweep, SweepType
<1> QED
  BY <1>1, <1>2, <1>3, <1>4, <1>5, <1>6 DEF TypeOK

(* The steps of the user.                                                  *)
LEMMA UserStepType ==
  ASSUME TypeOK, NEW r \in Replica, UserStep(r) PROVE TypeOK'
<1>0. editor[r].state # "closed" => editor[r] \in OpenEditorType
  BY DEF TypeOK, EditorType, NoEditor
<1>1. ASSUME NEW n \in Note, OpenNote(r, n) PROVE TypeOK'
  <2>1. OnNote(shown[r], n) \in SUBSET Version
    BY DEF TypeOK, OnNote
  <2>2. [state |-> "open", note |-> n, revision |-> revision[r][n],
         read |-> OnNote(shown[r], n)] \in EditorType
    BY <2>1 DEF TypeOK, OpenEditorType, EditorType
  <2>3. editor' \in [Replica -> EditorType]
    BY <1>1, <2>2 DEF OpenNote, TypeOK
  <2> QED
    BY <1>1, <2>3 DEF OpenNote, store, TypeOK
<1>2. ASSUME NEW n \in Note, Create(r, n) PROVE TypeOK'
  <2>1. NoClock \in Clock
    BY DEF NoClock, Clock
  <2>2. PICK v \in NewVersions(r, n, Increment(NoClock, r), FALSE) : Deposit(r, v)
    BY <1>2 DEF Create
  <2>3. v \in Version
    BY <2>1, <2>2, IncrementType, NewVersionsType
  <2>4. editor' \in [Replica -> EditorType]
    BY <1>2 DEF Create, CloseEditor, EditorType, TypeOK
  <2> QED
    BY <2>2, <2>3, <2>4, DepositType DEF TypeOK
<1>3. CASE ListConflicts(r)
  <2>1. editor[r].note \in Note
    BY <1>0, <1>3 DEF ListConflicts, OpenEditorType
  <2>2. editor[r].read \cup OnNote(heads[r], editor[r].note) \in SUBSET Version
    BY <1>0, <1>3 DEF ListConflicts, OpenEditorType, OnNote, TypeOK
  <2>3. [editor[r] EXCEPT !.state = "listed",
                          !.read = @ \cup OnNote(heads[r], editor[r].note)] \in OpenEditorType
    BY <1>0, <1>3, <2>2 DEF ListConflicts, OpenEditorType
  <2>4. editor' \in [Replica -> EditorType]
    BY <1>3, <2>3 DEF ListConflicts, EditorType, TypeOK
  <2> QED
    BY <1>3, <2>4 DEF ListConflicts, store, TypeOK
<1>4. ASSUME NEW h \in heads[r], NEW trashed \in BOOLEAN,
             editor[r].state # "closed", Replace(r, h, trashed)
      PROVE  \E v \in Version : Deposit(r, v)
  <2>1. h \in Version /\ h.note \in Note /\ h.clock \in Clock
    BY DEF TypeOK, Version
  <2>2. PICK v \in NewVersions(r, h.note, Increment(h.clock, r), trashed) : Deposit(r, v)
    BY <1>4 DEF Replace
  <2> QED
    BY <2>1, <2>2, IncrementType, NewVersionsType
<1>5. CASE Save(r)
  <2>1. PICK h \in heads[r] :
          /\ Replace(r, h, FALSE)
          /\ editor' = [editor EXCEPT ![r].state = "saving", ![r].read = seen'[r] \ seen[r]]
    BY <1>5 DEF Save
  <2>2. PICK v \in Version : Deposit(r, v)
    BY <1>4, <1>5, <2>1 DEF Save
  <2>3. seen'[r] \ seen[r] \in SUBSET Version
    BY <2>2, DepositType
  <2>4. [editor[r] EXCEPT !.state = "saving", !.read = seen'[r] \ seen[r]] \in OpenEditorType
    BY <1>0, <1>5, <2>3 DEF Save, OpenEditorType
  <2>5. editor' \in [Replica -> EditorType]
    BY <2>1, <2>4 DEF EditorType, TypeOK
  <2> QED
    BY <2>2, <2>5, DepositType DEF TypeOK
<1>6. CASE SaveReply(r)
  <2>1. editor[r] \in OpenEditorType /\ revision[r][editor[r].note] \in Nat
    BY <1>0, <1>6 DEF SaveReply, OpenEditorType, TypeOK
  <2>2. PICK s \in {"open", "ahead"} :
          editor' = [editor EXCEPT ![r].state = s, ![r].revision = revision[r][editor[r].note]]
    BY <1>6 DEF SaveReply
  <2>3. [editor[r] EXCEPT !.state = s, !.revision = revision[r][editor[r].note]] \in OpenEditorType
    BY <2>1 DEF OpenEditorType
  <2>4. editor' \in [Replica -> EditorType]
    BY <2>2, <2>3 DEF EditorType, TypeOK
  <2> QED
    BY <1>6, <2>4 DEF SaveReply, store, TypeOK
<1>7. CASE TrashOrRestore(r)
  <2>1. PICK h \in heads[r] : Replace(r, h, ~h.trashed)
    BY <1>7 DEF TrashOrRestore
  <2>2. PICK v \in Version : Deposit(r, v)
    BY <1>4, <1>7, <2>1 DEF TrashOrRestore
  <2>3. editor' \in [Replica -> EditorType]
    BY <1>7 DEF TrashOrRestore, CloseEditor, EditorType, TypeOK
  <2> QED
    BY <2>2, <2>3, DepositType DEF TypeOK
<1>8. CASE Resolve(r)
  <2>1. editor[r].note \in Note
    BY <1>0, <1>8 DEF Resolve, Supersede, OpenEditorType
  <2>2. PICK kept \in editor[r].read \cap heads[r],
             clock \in Joins(OnNote(heads[r], editor[r].note)) :
          \E v \in NewVersions(r, editor[r].note, Increment(clock, r), kept.trashed) :
            Deposit(r, v)
    BY <1>8 DEF Resolve, Supersede
  <2>3. kept.trashed \in BOOLEAN
    BY DEF TypeOK, Version
  <2>4. OnNote(heads[r], editor[r].note) \in SUBSET Version
    BY DEF TypeOK, OnNote
  <2>5. PICK v \in Version : Deposit(r, v)
    BY <2>1, <2>2, <2>3, <2>4, JoinsType, IncrementType, NewVersionsType
  <2>6. editor' \in [Replica -> EditorType]
    BY <1>8 DEF Resolve, Supersede, CloseEditor, EditorType, TypeOK
  <2> QED
    BY <2>5, <2>6, DepositType DEF TypeOK
<1>9. ASSUME NEW on \in BOOLEAN, NEW peers \in SUBSET Replica, UpdateSettings(r, on, peers)
      PROVE  TypeOK'
  <2>1. settings[r].generation + 1 \in Nat
    BY DEF TypeOK
  <2>2. settings' \in [Replica -> [enabled : BOOLEAN, peers : SUBSET Replica,
                                   generation : Nat]]
    BY <1>9, <2>1 DEF UpdateSettings, KeptProgress, TypeOK
  <2>3. NoProgress \in ProgressType
    BY DEF NoProgress, ProgressType, NoCursor, Cursor
  <2>4. progress' \in [Replica -> [Replica -> ProgressType]]
    BY <1>9, <2>3 DEF UpdateSettings, KeptProgress, TypeOK
  <2>5. revoked' \in [Replica -> BOOLEAN]
    BY <1>9 DEF UpdateSettings, KeptProgress, TypeOK
  <2> QED
    BY <1>9, <2>2, <2>4, <2>5 DEF UpdateSettings, KeptProgress, store, TypeOK
<1> QED
  BY <1>1, <1>2, <1>3, <1>5, <1>6, <1>7, <1>8, <1>9 DEF UserStep

(* The steps of the worker.                                                *)
LEMMA WorkerStepType ==
  ASSUME TypeOK, NEW r \in Replica, WorkerStep(r) PROVE TypeOK'
<1>0. /\ worker[r] \in WorkerType
      /\ worker[r].page \in SUBSET Version /\ worker[r].staged \in SUBSET Version
      /\ worker[r].merged \in SUBSET Version /\ worker[r].next \in Cursor
      /\ worker[r].todo \in SUBSET Replica /\ worker[r].gen \in Nat
      /\ worker[r].pages \in Nat
  BY DEF TypeOK, WorkerType
<1>1. CASE StartRound(r)
  <2>1. [IdleWorker EXCEPT !.phase = "round", !.gen = settings[r].generation,
                           !.todo = settings[r].peers] \in WorkerType
    BY IdleWorkerType DEF WorkerType, TypeOK
  <2>2. worker' \in [Replica -> WorkerType]
    BY <1>1, <2>1 DEF StartRound, TypeOK
  <2>3. revoked' \in [Replica -> BOOLEAN]
    BY <1>1 DEF StartRound, TypeOK
  <2> QED
    BY <1>1, <2>2, <2>3 DEF StartRound, store, TypeOK
<1>2. CASE EndRound(r)
  <2>1. worker' \in [Replica -> WorkerType]
    BY <1>2, IdleWorkerType DEF EndRound, TypeOK
  <2> QED
    BY <1>2, <2>1 DEF EndRound, store, TypeOK
<1>3. CASE MergeNext(r)
  <2>1. PICK v \in worker[r].page :
          worker' = [worker EXCEPT ![r].staged = MergeVersion(@, v),
                                   ![r].merged = @ \cup {v},
                                   ![r].page = @ \ {v}]
    BY <1>3 DEF MergeNext, NextInPage
  <2>2. MergeVersion(worker[r].staged, v) \in SUBSET Version
    BY <1>0, MergeVersionType
  <2>3. [worker[r] EXCEPT !.staged = MergeVersion(@, v), !.merged = @ \cup {v},
                          !.page = @ \ {v}] \in WorkerType
    BY <1>0, <2>2 DEF WorkerType
  <2>4. worker' \in [Replica -> WorkerType]
    BY <2>1, <2>3 DEF TypeOK
  <2> QED
    BY <1>3, <2>4 DEF MergeNext, store, TypeOK
<1>4. ASSUME NEW p \in Replica, SkipPeer(r, p) PROVE TypeOK'
  <2>1. [worker[r] EXCEPT !.todo = @ \ {p}] \in WorkerType
    BY <1>0 DEF WorkerType
  <2>2. worker' \in [Replica -> WorkerType]
    BY <1>4, <2>1 DEF SkipPeer, TypeOK
  <2> QED
    BY <1>4, <2>2 DEF SkipPeer, store, TypeOK
<1>5. ASSUME NEW p \in Replica, VisitPeer(r, p) PROVE TypeOK'
  <2>1. [worker[r] EXCEPT !.phase = "request", !.peer = {p}, !.todo = @ \ {p},
                          !.pages = PagesPerRun] \in WorkerType
    BY <1>0, SyncAssumption DEF WorkerType
  <2>2. worker' \in [Replica -> WorkerType]
    BY <1>5, <2>1 DEF VisitPeer, TypeOK
  <2> QED
    BY <1>5, <2>2 DEF VisitPeer, store, TypeOK
<1>6. ASSUME NEW p \in Replica, SendRequest(r, p) PROVE TypeOK'
  <2>1. progress[r][p].cursor \in Cursor
    BY DEF TypeOK, ProgressType
  <2>2. [worker[r] EXCEPT !.phase = "sent", !.cursor = progress[r][p].cursor] \in WorkerType
    BY <1>0, <2>1 DEF WorkerType
  <2>3. worker' \in [Replica -> WorkerType]
    BY <1>6, <2>2, ToNextPeerType DEF SendRequest, TypeOK
  <2> QED
    BY <1>6, <2>3 DEF SendRequest, store, TypeOK
<1>7. ASSUME NEW p \in Replica, Admit(r, p) PROVE TypeOK'
  <2>1. [worker[r] EXCEPT !.phase = "admitted"] \in WorkerType
    BY <1>0 DEF WorkerType
  <2>2. worker' \in [Replica -> WorkerType]
    BY <1>7, <2>1, ToNextPeerType DEF Admit, TypeOK
  <2>3. progress' \in [Replica -> [Replica -> ProgressType]]
    BY <1>7, FailedType DEF Admit, TypeOK
  <2> QED
    BY <1>7, <2>2, <2>3 DEF Admit, store, TypeOK
<1>8. ASSUME NEW p \in Replica, ServePage(r, p) PROVE TypeOK'
  <2> DEFINE rest == Beyond(worker[r].cursor, heads[p])
  <2>1. rest \in SUBSET Version
    BY DEF Beyond, TypeOK
  <2>2. PICK P \in FeedPages(rest) : \E next \in NextAfter(P, rest) :
          worker' = [worker EXCEPT ![r].phase = "received", ![r].page = P,
                                   ![r].next = next]
    BY <1>8 DEF ServePage
  <2>3. P \in SUBSET rest /\ P \in SUBSET Version
    BY <2>1 DEF FeedPages
  <2>4. PICK next \in Cursor :
          worker' = [worker EXCEPT ![r].phase = "received", ![r].page = P,
                                   ![r].next = next]
    BY <2>1, <2>2, <2>3, NextAfterType
  <2>5. [worker[r] EXCEPT !.phase = "received", !.page = P, !.next = next] \in WorkerType
    BY <1>0, <2>3 DEF WorkerType
  <2>6. worker' \in [Replica -> WorkerType]
    BY <2>4, <2>5 DEF TypeOK
  <2>7. [held |-> heads[p], done |-> FALSE] \in SweepType
    BY DEF TypeOK, SweepType
  <2>8. sweep' \in [Replica -> [Replica -> SweepType]]
    BY <1>8, <2>7 DEF ServePage, TypeOK
  <2> QED
    BY <1>8, <2>6, <2>8 DEF ServePage, store, TypeOK
<1>9. ASSUME NEW p \in Replica, BeginApply(r, p) PROVE TypeOK'
  <2>1. [worker[r] EXCEPT !.phase = "merge", !.staged = heads[r]] \in WorkerType
    BY <1>0 DEF WorkerType, TypeOK
  <2>2. worker' \in [Replica -> WorkerType]
    BY <1>9, <2>1, ToNextPeerType DEF BeginApply, TypeOK
  <2> QED
    BY <1>9, <2>2 DEF BeginApply, store, TypeOK
<1>10. ASSUME NEW p \in Replica, AbortApply(r, p) PROVE TypeOK'
  <2>1. worker' \in [Replica -> WorkerType]
    BY <1>10, ToNextPeerType DEF AbortApply
  <2>2. progress' \in [Replica -> [Replica -> ProgressType]]
    BY <1>10, FailedType DEF AbortApply
  <2> QED
    BY <1>10, <2>1, <2>2 DEF AbortApply, store, TypeOK
<1>11. ASSUME NEW p \in Replica, CommitApply(r, p) PROVE TypeOK'
  <2>1. heads' \in [Replica -> SUBSET Version]
    BY <1>0, <1>11 DEF CommitApply, TypeOK
  <2>2. shown' \in [Replica -> SUBSET Version]
    <3>1. Primaries(worker[r].staged) \in SUBSET Version
      BY <1>0 DEF Primaries
    <3> QED
      BY <1>11, <3>1 DEF CommitApply, TypeOK
  <2>3. revision' \in [Replica -> [Note -> Nat]]
    <3>1. [n \in Note |-> IF n \in ChangedNotes(r) THEN revision[r][n] + 1 ELSE revision[r][n]]
            \in [Note -> Nat]
      BY DEF TypeOK
    <3> QED
      BY <1>11, <3>1 DEF CommitApply, TypeOK
  <2>4. progress' \in [Replica -> [Replica -> ProgressType]]
    <3>1. [cursor |-> worker[r].next, backoff |-> FALSE] \in ProgressType
      BY <1>0 DEF ProgressType
    <3> QED
      BY <1>11, <3>1 DEF CommitApply, TypeOK
  <2>5. worker' \in [Replica -> WorkerType]
    <3>1. CASE worker[r].next = NoCursor \/ worker[r].pages <= 1
      BY <1>11, <3>1, ToNextPeerType DEF CommitApply
    <3>2. CASE ~(worker[r].next = NoCursor \/ worker[r].pages <= 1)
      <4>1. worker[r].pages - 1 \in Nat
        BY <1>0, <1>11, <3>2 DEF CommitApply
      <4>2. [IdleWorker EXCEPT !.phase = "request", !.gen = worker[r].gen,
                               !.todo = worker[r].todo, !.peer = {p},
                               !.pages = worker[r].pages - 1] \in WorkerType
        BY <1>0, <4>1, IdleWorkerType DEF WorkerType
      <4> QED
        BY <1>11, <3>2, <4>2 DEF CommitApply, TypeOK
    <3> QED
      BY <3>1, <3>2
  <2>6. seen' \in [Replica -> SUBSET Version]
    BY <1>0, <1>11 DEF CommitApply, TypeOK
  <2>7. sweep' \in [Replica -> [Replica -> SweepType]]
    <3>1. sweep[r] \in [Replica -> SweepType] /\ sweep[r][p] \in SweepType
      BY DEF TypeOK
    <3> DEFINE done == sweep[r][p].done \/ (<<r, p>> \in Observed /\ worker[r].next = NoCursor)
    <3>2. [sweep[r][p] EXCEPT !.done = done] \in SweepType
      BY <3>1 DEF SweepType
    <3> QED
      BY <1>11, <3>1, <3>2 DEF CommitApply, TypeOK
  <2> QED
    BY <1>11, <2>1, <2>2, <2>3, <2>4, <2>5, <2>6, <2>7 DEF CommitApply, TypeOK
<1> QED
  BY <1>1, <1>2, <1>3, <1>4, <1>5, <1>6, <1>7, <1>8, <1>9, <1>10, <1>11 DEF WorkerStep

(* Faults, the passing of time and the environment.                        *)
LEMMA EnvironmentStepType ==
  ASSUME TypeOK,
         \/ Settle
         \/ \E r \in Replica : FaultStep(r) \/ \E p \in Replica : RetryDue(r, p)
  PROVE  TypeOK'
<1>1. CASE Settle
  <2>1. editor' \in [Replica -> EditorType]
    BY <1>1 DEF Settle, EditorType
  <2> QED
    BY <1>1, <2>1 DEF Settle, store, TypeOK
<1>2. ASSUME NEW r \in Replica, NEW p \in Replica, RetryDue(r, p) PROVE TypeOK'
  <2>1. progress[r] \in [Replica -> ProgressType]
    BY DEF TypeOK
  <2>2. [progress[r][p] EXCEPT !.backoff = FALSE] \in ProgressType
    BY <2>1 DEF ProgressType
  <2>3. progress' \in [Replica -> [Replica -> ProgressType]]
    BY <1>2, <2>1, <2>2 DEF RetryDue, TypeOK
  <2> QED
    BY <1>2, <2>3 DEF RetryDue, store, TypeOK
<1>3. ASSUME NEW r \in Replica, DiscoveryFails(r) PROVE TypeOK'
  <2>1. worker' \in [Replica -> WorkerType]
    BY <1>3, IdleWorkerType DEF DiscoveryFails, TypeOK
  <2>2. ASSUME NEW p \in Replica
        PROVE  [progress[r][p] EXCEPT !.backoff = TRUE] \in ProgressType
    <3>1. progress[r][p] \in ProgressType
      BY DEF TypeOK
    <3> QED
      BY <3>1 DEF ProgressType
  <2>3. [p \in Replica |-> IF p \in worker[r].todo /\ Current(r, p)
                           THEN [progress[r][p] EXCEPT !.backoff = TRUE]
                           ELSE progress[r][p]] \in [Replica -> ProgressType]
    BY <2>2 DEF TypeOK
  <2>4. progress' \in [Replica -> [Replica -> ProgressType]]
    BY <1>3, <2>3 DEF DiscoveryFails, TypeOK
  <2> QED
    BY <1>3, <2>1, <2>4 DEF DiscoveryFails, store, TypeOK
<1>4. ASSUME NEW r \in Replica, Restart(r) PROVE TypeOK'
  <2>1. worker' \in [Replica -> WorkerType]
    BY <1>4, IdleWorkerType DEF Restart, TypeOK
  <2> QED
    BY <1>4, <2>1 DEF Restart, store, TypeOK
<1>5. ASSUME NEW r \in Replica, NEW p \in Replica, PeerUnavailable(r, p) PROVE TypeOK'
  <2>1. [worker[r] EXCEPT !.todo = @ \ {p}] \in WorkerType
    <3>1. worker[r] \in WorkerType
      BY DEF TypeOK
    <3> QED
      BY <3>1 DEF WorkerType
  <2>2. worker' \in [Replica -> WorkerType]
    BY <1>5, <2>1 DEF PeerUnavailable, TypeOK
  <2>3. progress' \in [Replica -> [Replica -> ProgressType]]
    BY <1>5, FailedType DEF PeerUnavailable
  <2> QED
    BY <1>5, <2>2, <2>3 DEF PeerUnavailable, store, TypeOK
<1>6. ASSUME NEW r \in Replica, NEW p \in Replica, RequestFails(r, p) PROVE TypeOK'
  <2>1. worker' \in [Replica -> WorkerType]
    BY <1>6, ToNextPeerType DEF RequestFails
  <2>2. progress' \in [Replica -> [Replica -> ProgressType]]
    BY <1>6, FailedType DEF RequestFails
  <2> QED
    BY <1>6, <2>1, <2>2 DEF RequestFails, store, TypeOK
<1> QED
  BY <1>1, <1>2, <1>3, <1>4, <1>5, <1>6 DEF FaultStep

(* Every step keeps the type.                                              *)
LEMMA StepType == TypeOK /\ [Next]_vars => TypeOK'
<1> SUFFICES ASSUME TypeOK, [Next]_vars PROVE TypeOK'
  OBVIOUS
<1>1. CASE Next
  BY <1>1, UserStepType, WorkerStepType, EnvironmentStepType DEF Next
<1>2. CASE UNCHANGED vars
  BY <1>2 DEF vars, store, TypeOK
<1> QED
  BY <1>1, <1>2

(* Every variable always has its type.                                     *)
THEOREM TypeCorrect == Spec => []TypeOK
BY InitType, StepType, PTL DEF Spec

-----------------------------------------------------------------------------
(* Versions: succession is a strict partial order *)

(* What succeeds a successor succeeds.                                     *)
LEMMA DominatesTransitive ==
  ASSUME NEW u \in Version, NEW v \in Version, NEW w \in Version,
         Dominates(u, v), Dominates(v, w)
  PROVE  Dominates(u, w)
<1>1. \A q \in Replica : u.clock[q] \in Nat /\ v.clock[q] \in Nat /\ w.clock[q] \in Nat
  BY DEF Version, Clock
<1>2. \A q \in Replica : u.clock[q] >= w.clock[q]
  BY <1>1 DEF Dominates, After
<1>3. PICK q \in Replica : u.clock[q] > v.clock[q]
  BY DEF Dominates, After
<1>4. u.clock[q] > w.clock[q]
  BY <1>1, <1>3 DEF Dominates, After
<1> QED
  BY <1>2, <1>4 DEF Dominates, After

(* Nothing succeeds itself.                                                *)
LEMMA DominatesIrreflexive ==
  ASSUME NEW v \in Version PROVE ~Dominates(v, v)
BY DEF Dominates, After, Version, Clock

(* A version with the incremented clock of another one succeeds it.        *)
LEMMA IncrementDominates ==
  ASSUME NEW v \in Version, NEW h \in Version, NEW r \in Replica, NEW c \in Clock,
         v.note = h.note, v.clock = Increment(c, r),
         \A q \in Replica : h.clock[q] <= c[q]
  PROVE  Dominates(v, h) /\ v.clock[r] > h.clock[r]
<1>1. \A q \in Replica : c[q] \in Nat /\ h.clock[q] \in Nat
  BY DEF Clock, Version
<1>2. v.clock = [c EXCEPT ![r] = c[r] + 1]
  BY DEF Increment
<1>3. v.clock[r] = c[r] + 1 /\ \A q \in Replica : v.clock[q] >= c[q]
  BY <1>1, <1>2 DEF Clock
<1>4. v.clock[r] \in Nat /\ v.clock[r] > h.clock[r]
  BY <1>1, <1>3
<1>5. \A q \in Replica : v.clock[q] >= h.clock[q]
  BY <1>1, <1>3 DEF Version, Clock
<1> QED
  BY <1>4, <1>5 DEF Dominates, After

(* An increment counts the own write and nobody else's.                    *)
LEMMA IncrementEntries ==
  ASSUME NEW c \in Clock, NEW r \in Replica
  PROVE  /\ Increment(c, r)[r] > 0
         /\ \A q \in Replica \ {r} : Increment(c, r)[q] = c[q]
<1>1. c[r] \in Nat
  BY DEF Clock
<1>2. Increment(c, r) = [c EXCEPT ![r] = c[r] + 1]
  BY DEF Increment
<1> QED
  BY <1>1, <1>2 DEF Clock

-----------------------------------------------------------------------------
(* Heads are the frontier of what a device has seen *)

(* A frontier is the set of the versions that nothing succeeds.            *)
LEMMA FrontierIsMaxima ==
  ASSUME NEW S \in SUBSET Version, NEW H, Frontier(H, S)
  PROVE  H = Maxima(S)
<1>1. ASSUME NEW h \in H PROVE h \in Maxima(S)
  <2>1. SUFFICES ASSUME NEW w \in S, Dominates(w, h) PROVE FALSE
    BY DEF Frontier, Maxima
  <2>2. w \notin H
    BY <2>1 DEF Frontier
  <2>3. PICK g \in H : Dominates(g, w)
    BY <2>2 DEF Frontier
  <2>4. Dominates(g, h)
    BY <2>1, <2>3, DominatesTransitive DEF Frontier
  <2> QED
    BY <2>4 DEF Frontier
<1>2. ASSUME NEW v \in Maxima(S) PROVE v \in H
  BY DEF Maxima, Frontier
<1> QED
  BY <1>1, <1>2

(* merge_version keeps the frontier, whatever arrives.                     *)
LEMMA MergeKeepsFrontier ==
  ASSUME NEW S \in SUBSET Version, NEW H, Frontier(H, S), NEW v \in Version
  PROVE  Frontier(MergeVersion(H, v), S \cup {v})
<1>1. CASE Ignored(H, v)
  BY <1>1 DEF MergeVersion, Ignored, Frontier
<1>2. CASE ~Ignored(H, v)
  <2> DEFINE M == Survivors(H, v) \cup {v}
  <2>1. MergeVersion(H, v) = M
    BY <1>2 DEF MergeVersion
  <2>2. M \subseteq S \cup {v}
    BY DEF Survivors, Frontier
  <2>3. ASSUME NEW g \in M, NEW h \in M PROVE ~Dominates(g, h)
    BY <1>2, DominatesIrreflexive DEF Survivors, Ignored, Frontier
  <2>4. ASSUME NEW w \in S \cup {v} PROVE w \in M \/ \E h \in M : Dominates(h, w)
    <3>1. CASE w = v
      BY <3>1
    <3>2. CASE w \in H
      BY <3>2 DEF Survivors
    <3>3. CASE w \in S /\ w \notin H
      <4>1. PICK h \in H : Dominates(h, w)
        BY <3>3 DEF Frontier
      <4>2. CASE Dominates(v, h)
        BY <3>3, <4>1, <4>2, DominatesTransitive DEF Frontier
      <4>3. CASE ~Dominates(v, h)
        BY <4>1, <4>3 DEF Survivors
      <4> QED
        BY <4>2, <4>3
    <3> QED
      BY <3>1, <3>2, <3>3
  <2> QED
    BY <2>1, <2>2, <2>3, <2>4 DEF Frontier
<1> QED
  BY <1>1, <1>2

(* A version that succeeds all heads of its note may take their place.     *)
LEMMA ReplaceKeepsFrontier ==
  ASSUME NEW S \in SUBSET Version, NEW H, Frontier(H, S), NEW v \in Version,
         \A h \in OnNote(H, v.note) : Dominates(v, h)
  PROVE  Frontier({h \in H : h.note # v.note} \cup {v}, S \cup {v})
<1> DEFINE N == {h \in H : h.note # v.note} \cup {v}
<1>1. N \subseteq S \cup {v}
  BY DEF Frontier
<1>2. ASSUME NEW g \in N, NEW h \in N PROVE ~Dominates(g, h)
  BY DominatesIrreflexive DEF Dominates, Frontier
<1>3. ASSUME NEW w \in S \cup {v} PROVE w \in N \/ \E h \in N : Dominates(h, w)
  <2>1. CASE w = v
    BY <2>1
  <2>2. CASE w \in S /\ w.note # v.note
    <3>1. CASE w \in H
      BY <2>2, <3>1
    <3>2. CASE w \notin H
      <4>1. PICK h \in H : Dominates(h, w)
        BY <2>2, <3>2 DEF Frontier
      <4>2. h \in N
        BY <2>2, <4>1 DEF Dominates
      <4> QED
        BY <4>1, <4>2
    <3> QED
      BY <3>1, <3>2
  <2>3. CASE w \in S /\ w.note = v.note
    <3>1. CASE w \in H
      BY <2>3, <3>1 DEF OnNote
    <3>2. CASE w \notin H
      <4>1. PICK h \in H : Dominates(h, w)
        BY <2>3, <3>2 DEF Frontier
      <4>2. h \in Version /\ h \in OnNote(H, v.note)
        BY <2>3, <4>1 DEF Dominates, OnNote, Frontier
      <4> QED
        BY <2>3, <4>1, <4>2, DominatesTransitive
    <3> QED
      BY <3>1, <3>2
  <2> QED
    BY <2>1, <2>2, <2>3
<1> QED
  BY <1>1, <1>2, <1>3 DEF Frontier

(* What the steps that touch neither versions nor a merge leave alone.     *)
LEMMA FrontierUnchanged ==
  ASSUME FrontierInvariant, NEW r \in Replica,
         UNCHANGED <<heads, seen>>,
         worker' \in [Replica -> WorkerType],
         \A q \in Replica \ {r} : worker'[q] = worker[q],
         worker'[r].phase # "merge" /\ worker'[r].merged = {}
  PROVE  FrontierInvariant'
BY DEF FrontierInvariant

(* Leaving a peer leaves the frontiers.                                    *)
LEMMA ToNextPeerFrontier ==
  ASSUME TypeOK, FrontierInvariant, NEW r \in Replica, ToNextPeer(r),
         UNCHANGED <<heads, seen>>
  PROVE  FrontierInvariant'
<1>1. worker' \in [Replica -> WorkerType]
  BY ToNextPeerType
<1>2. worker'[r].phase # "merge" /\ worker'[r].merged = {}
  BY DEF ToNextPeer, IdleWorker, TypeOK
<1>3. \A q \in Replica \ {r} : worker'[q] = worker[q]
  BY DEF ToNextPeer, TypeOK
<1> QED
  BY <1>1, <1>2, <1>3, FrontierUnchanged

(* A local write takes the place of the heads of its note.                 *)
LEMMA DepositFrontier ==
  ASSUME TypeOK, FrontierInvariant, NEW r \in Replica, NEW v \in Version,
         Deposit(r, v), StoreUnlocked(r),
         \A h \in OnNote(heads[r], v.note) : Dominates(v, h)
  PROVE  FrontierInvariant'
<1>1. seen[r] \in SUBSET Version /\ Frontier(heads[r], seen[r])
  BY DEF TypeOK, FrontierInvariant
<1>2. /\ heads'[r] = {h \in heads[r] : h.note # v.note} \cup {v}
      /\ seen'[r] = seen[r] \cup {v}
  BY DEF Deposit, TypeOK
<1>3. Frontier(heads'[r], seen'[r])
  BY <1>1, <1>2, ReplaceKeepsFrontier
<1>4. \A q \in Replica \ {r} : heads'[q] = heads[q] /\ seen'[q] = seen[q]
  BY DEF Deposit, TypeOK
<1>5. worker' = worker
  BY DEF Deposit
<1> QED
  BY <1>3, <1>4, <1>5 DEF FrontierInvariant, StoreUnlocked

(* What the page must have open to write a note that exists.               *)
Chosen(r, n) ==
  /\ editor[r].note = n /\ RevisionMatches(r)
  /\ \/ editor[r].state \in {"open", "ahead"} /\ \E h \in heads[r] : OnNote(heads[r], n) = {h}
     \/ editor[r].state = "listed"

(* What every local write of a version does: it replaces the heads of its  *)
(* note, all of which it succeeds and to whose clocks it adds one write.   *)
Written(r, v) ==
  /\ v \in Version /\ v.author = r
  /\ v.id \notin {w.id : w \in AllVersions}
  /\ v.past = PastOf(OnNote(seen[r], v.note))
  /\ v.clock[r] > 0
  /\ \A q \in Replica \ {r} :
       v.clock[q] = 0 \/ \E h \in OnNote(heads[r], v.note) : v.clock[q] = h.clock[q]
  /\ \/ OnNote(heads[r], v.note) = {} /\ Cardinality(NotesOf(heads[r])) < MaxNotes
     \/ OnNote(heads[r], v.note) # {} /\ Chosen(r, v.note)
  /\ \A h \in OnNote(heads[r], v.note) : Dominates(v, h) /\ v.clock[r] > h.clock[r]
  /\ StoreUnlocked(r) /\ Deposit(r, v)

(* A step of the user leaves the store alone or is such a write.           *)
LEMMA UserWrites ==
  ASSUME TypeOK, FrontierInvariant, NEW r \in Replica, UserStep(r)
  PROVE  UNCHANGED <<store, seen, worker>> \/ \E v : Written(r, v)
<1>2. ASSUME NEW n \in Note, Create(r, n) PROVE \E v : Written(r, v)
  <2>1. Increment(NoClock, r) \in Clock
    BY IncrementType DEF NoClock, Clock
  <2>2. PICK v \in NewVersions(r, n, Increment(NoClock, r), FALSE) : Deposit(r, v)
    BY <1>2 DEF Create
  <2>3. /\ v \in Version /\ v.note = n /\ v.author = r
        /\ v.id \notin {w.id : w \in AllVersions}
        /\ v.past = PastOf(OnNote(seen[r], n))
        /\ v.clock = Increment(NoClock, r)
    <3>1. ASSUME NEW t \in BOOLEAN, NEW w \in NewVersions(r, n, Increment(NoClock, r), t)
          PROVE  /\ w \in Version /\ w.note = n /\ w.author = r
                 /\ w.id \notin {u.id : u \in AllVersions}
                 /\ w.past = PastOf(OnNote(seen[r], n))
                 /\ w.clock = Increment(NoClock, r)
      BY <2>1, <3>1, NewVersionsType
    <3> QED
      BY <2>2, <3>1
  <2>4. OnNote(heads[r], n) = {}
    BY <1>2 DEF Create, NotesOf, AllVersions, OnNote, FrontierInvariant, Frontier
  <2>5. v.clock[r] > 0 /\ \A q \in Replica \ {r} : v.clock[q] = 0
    <3>1. NoClock \in Clock /\ \A q \in Replica : NoClock[q] = 0
      BY DEF NoClock, Clock
    <3> QED
      BY <2>3, <3>1, IncrementEntries
  <2> QED
    BY <1>2, <2>2, <2>3, <2>4, <2>5 DEF Create, Written
<1>3. ASSUME NEW h \in heads[r], NEW trashed \in BOOLEAN, Replace(r, h, trashed),
             editor[r].state \in {"open", "ahead"}
      PROVE  \E v : Written(r, v)
  <2>1. h \in Version /\ h.note \in Note /\ h.clock \in Clock
    BY DEF TypeOK, Version
  <2>2. PICK v \in NewVersions(r, h.note, Increment(h.clock, r), trashed) : Deposit(r, v)
    BY <1>3 DEF Replace
  <2>3. /\ v \in Version /\ v.note = h.note /\ v.author = r
        /\ v.id \notin {w.id : w \in AllVersions}
        /\ v.past = PastOf(OnNote(seen[r], v.note))
        /\ v.clock = Increment(h.clock, r)
    BY <2>1, <2>2, IncrementType, NewVersionsType
  <2>4. OnNote(heads[r], v.note) = {h}
    BY <1>3, <2>3 DEF Replace, OnNote
  <2>5. \A q \in Replica : h.clock[q] <= h.clock[q]
    BY <2>1 DEF Clock
  <2>6. Dominates(v, h) /\ v.clock[r] > h.clock[r]
    BY <2>1, <2>3, <2>5, IncrementDominates
  <2>7. v.clock[r] > 0 /\ \A q \in Replica \ {r} : v.clock[q] = h.clock[q]
    BY <2>1, <2>3, IncrementEntries
  <2>8. Chosen(r, v.note)
    <3>1. OnNote(heads[r], editor[r].note) = {h} /\ RevisionMatches(r)
      BY <1>3 DEF Replace
    <3>2. h.note = editor[r].note
      BY <3>1 DEF OnNote
    <3> QED
      BY <1>3, <2>3, <3>1, <3>2 DEF Chosen
  <2> QED
    BY <1>3, <2>2, <2>3, <2>4, <2>6, <2>7, <2>8 DEF Replace, Written
<1>4. CASE Resolve(r)
  <2> DEFINE n == editor[r].note
  <2>1. PICK kept \in editor[r].read \cap heads[r] : \E clock \in Joins(OnNote(heads[r], n)) :
          \E v \in NewVersions(r, n, Increment(clock, r), kept.trashed) : Deposit(r, v)
    BY <1>4 DEF Resolve, Supersede
  <2>2. n \in Note
    BY <1>4 DEF Resolve, Supersede, TypeOK, EditorType, OpenEditorType, NoEditor
  <2>3. OnNote(heads[r], n) \in SUBSET Version /\ kept.trashed \in BOOLEAN
    BY DEF TypeOK, OnNote, Version
  <2>4. PICK clock \in Joins(OnNote(heads[r], n)) :
          \E v \in NewVersions(r, n, Increment(clock, r), kept.trashed) : Deposit(r, v)
    BY <2>1
  <2>5. clock \in Clock
    BY <2>3, JoinsType
  <2>6. PICK v \in NewVersions(r, n, Increment(clock, r), kept.trashed) : Deposit(r, v)
    BY <2>4
  <2>7. /\ v \in Version /\ v.note = n /\ v.author = r
        /\ v.id \notin {w.id : w \in AllVersions}
        /\ v.past = PastOf(OnNote(seen[r], v.note))
        /\ v.clock = Increment(clock, r)
    BY <2>2, <2>3, <2>5, <2>6, IncrementType, NewVersionsType
  <2>8. ASSUME NEW h \in OnNote(heads[r], n)
        PROVE  Dominates(v, h) /\ v.clock[r] > h.clock[r]
    <3>1. \A q \in Replica : h.clock[q] <= clock[q]
      BY DEF Joins
    <3>2. h \in Version /\ h.note = n
      BY <2>3 DEF OnNote
    <3> QED
      BY <2>5, <2>7, <3>1, <3>2, IncrementDominates
  <2>9. /\ v.clock[r] > 0
        /\ \A q \in Replica \ {r} : \E h \in OnNote(heads[r], n) : v.clock[q] = h.clock[q]
    <3>1. v.clock[r] > 0 /\ \A q \in Replica \ {r} : v.clock[q] = clock[q]
      BY <2>5, <2>7, IncrementEntries
    <3>2. \A q \in Replica : \E h \in OnNote(heads[r], n) : h.clock[q] = clock[q]
      BY DEF Joins
    <3> QED
      BY <3>1, <3>2
  <2>10. OnNote(heads[r], n) # {} /\ Chosen(r, n)
    <3>1. OnNote(heads[r], n) # {}
      BY DEF Joins
    <3> QED
      BY <1>4, <3>1 DEF Resolve, Supersede, Chosen
  <2> QED
    BY <1>4, <2>6, <2>7, <2>8, <2>9, <2>10 DEF Resolve, Supersede, Written
<1>5. CASE \/ \E n \in Note : OpenNote(r, n)
           \/ ListConflicts(r) \/ SaveReply(r)
           \/ \E on \in BOOLEAN, peers \in SUBSET Replica : UpdateSettings(r, on, peers)
  BY <1>5 DEF OpenNote, ListConflicts, SaveReply, UpdateSettings, store
<1>6. CASE Save(r) \/ TrashOrRestore(r)
  BY <1>3, <1>6 DEF Save, TrashOrRestore, TypeOK, Version
<1> QED
  BY <1>2, <1>4, <1>5, <1>6 DEF UserStep

(* The user's steps keep the frontier.                                     *)
LEMMA UserStepFrontier ==
  ASSUME TypeOK, FrontierInvariant, NEW r \in Replica, UserStep(r)
  PROVE  FrontierInvariant'
<1>1. CASE UNCHANGED <<store, seen, worker>>
  BY <1>1 DEF FrontierInvariant, store
<1>2. CASE \E v : Written(r, v)
  BY <1>2, DepositFrontier DEF Written
<1> QED
  BY <1>1, <1>2, UserWrites

(* A worker keeps the frontiers.                                           *)
LEMMA WorkerStepFrontier ==
  ASSUME TypeOK, FrontierInvariant, NEW r \in Replica, WorkerStep(r)
  PROVE  FrontierInvariant'
<1>0. /\ worker[r].page \in SUBSET Version /\ seen[r] \in SUBSET Version
      /\ worker[r].merged \in SUBSET Version
      /\ Frontier(heads[r], seen[r])
      /\ worker[r].phase # "merge" => worker[r].merged = {}
  BY DEF TypeOK, WorkerType, FrontierInvariant
<1>1. CASE \/ StartRound(r) \/ EndRound(r)
           \/ \E p \in Replica : \/ SkipPeer(r, p) \/ VisitPeer(r, p) \/ SendRequest(r, p)
                                \/ Admit(r, p) \/ ServePage(r, p)
  <2>1. worker' \in [Replica -> WorkerType] /\ UNCHANGED <<heads, seen>>
    BY <1>1, WorkerStepType
    DEF TypeOK, store, StartRound, EndRound, SkipPeer, VisitPeer, SendRequest, Admit, ServePage
  <2>2. CASE ToNextPeer(r)
    BY <2>1, <2>2, ToNextPeerFrontier
  <2>3. CASE ~ToNextPeer(r)
    <3>1. \A q \in Replica \ {r} : worker'[q] = worker[q]
      BY <1>1, <2>3
      DEF TypeOK, StartRound, EndRound, SkipPeer, VisitPeer, SendRequest, Admit, ServePage
    <3>2. worker'[r].phase # "merge" /\ worker'[r].merged = {}
      <4>1. CASE StartRound(r) \/ EndRound(r)
        <5>1. CASE StartRound(r)
          <6>1. worker' = [worker EXCEPT ![r] = [IdleWorker EXCEPT !.phase = "round",
                                                   !.gen = settings[r].generation,
                                                   !.todo = settings[r].peers]]
            BY <5>1 DEF StartRound
          <6> QED
            BY <6>1 DEF IdleWorker, TypeOK
        <5>2. CASE EndRound(r)
          <6>1. worker' = [worker EXCEPT ![r] = IdleWorker]
            BY <5>2 DEF EndRound
          <6> QED
            BY <6>1 DEF IdleWorker, TypeOK
        <5> QED
          BY <4>1, <5>1, <5>2
      <4>2. ASSUME NEW p \in Replica, SkipPeer(r, p) \/ VisitPeer(r, p)
            PROVE  worker'[r].phase # "merge" /\ worker'[r].merged = {}
        <5>1. worker[r].phase = "round" /\ worker[r].merged = {} /\ worker[r] \in WorkerType
          BY <1>0, <4>2 DEF SkipPeer, VisitPeer, TypeOK
        <5>2. CASE SkipPeer(r, p)
          BY <5>1, <5>2 DEF SkipPeer, TypeOK, WorkerType
        <5>3. CASE VisitPeer(r, p)
          BY <5>1, <5>3 DEF VisitPeer, TypeOK, WorkerType
        <5> QED
          BY <4>2, <5>2, <5>3
      <4>3. ASSUME NEW p \in Replica, SendRequest(r, p) \/ Admit(r, p)
            PROVE  worker'[r].phase # "merge" /\ worker'[r].merged = {}
        <5>1. worker[r].merged = {} /\ worker[r] \in WorkerType
          BY <1>0, <4>3 DEF SendRequest, Admit, TypeOK
        <5>2. CASE SendRequest(r, p)
          <6>1. worker' = [worker EXCEPT ![r].phase = "sent",
                                         ![r].cursor = progress[r][p].cursor]
            BY <2>3, <5>2 DEF SendRequest
          <6> QED
            BY <5>1, <6>1 DEF TypeOK, WorkerType
        <5>3. CASE Admit(r, p)
          <6>1. worker' = [worker EXCEPT ![r].phase = "admitted"]
            BY <2>3, <5>3 DEF Admit
          <6> QED
            BY <5>1, <6>1 DEF TypeOK, WorkerType
        <5> QED
          BY <4>3, <5>2, <5>3
      <4>4. ASSUME NEW p \in Replica, ServePage(r, p)
            PROVE  worker'[r].phase # "merge" /\ worker'[r].merged = {}
        <5>1. worker[r].merged = {} /\ worker[r] \in WorkerType
          BY <1>0, <4>4 DEF ServePage, TypeOK
        <5>2. PICK P, next :
                worker' = [worker EXCEPT ![r].phase = "received", ![r].page = P,
                                         ![r].next = next]
          BY <4>4 DEF ServePage
        <5> QED
          BY <5>1, <5>2 DEF TypeOK, WorkerType
      <4> QED
        BY <1>1, <4>1, <4>2, <4>3, <4>4
    <3> QED
      BY <2>1, <3>1, <3>2, FrontierUnchanged
  <2> QED
    BY <2>2, <2>3
<1>2. ASSUME NEW p \in Replica, BeginApply(r, p) PROVE FrontierInvariant'
  <2>1. CASE ToNextPeer(r)
    BY <1>2, <2>1, ToNextPeerFrontier DEF BeginApply, store
  <2>2. CASE ~ToNextPeer(r)
    <3>1. worker' = [worker EXCEPT ![r].phase = "merge", ![r].staged = heads[r]]
      BY <1>2, <2>2 DEF BeginApply
    <3>2. /\ worker'[r].phase = "merge" /\ worker'[r].staged = heads[r]
          /\ worker'[r].merged = {}
      BY <1>0, <1>2, <3>1 DEF BeginApply, TypeOK, WorkerType
    <3>3. \A q \in Replica \ {r} : worker'[q] = worker[q]
      BY <3>1 DEF TypeOK
    <3>4. seen[r] \cup {} = seen[r]
      OBVIOUS
    <3> QED
      BY <1>0, <1>2, <3>2, <3>3, <3>4 DEF BeginApply, store, FrontierInvariant
  <2> QED
    BY <2>1, <2>2
<1>3. CASE MergeNext(r)
  <2>1. PICK v \in worker[r].page :
          worker' = [worker EXCEPT ![r].staged = MergeVersion(@, v),
                                   ![r].merged = @ \cup {v},
                                   ![r].page = @ \ {v}]
    BY <1>3 DEF MergeNext, NextInPage
  <2>2. /\ worker'[r].phase = "merge"
        /\ worker'[r].staged = MergeVersion(worker[r].staged, v)
        /\ worker'[r].merged = worker[r].merged \cup {v}
    BY <1>3, <2>1 DEF MergeNext, TypeOK, WorkerType
  <2>3. Frontier(worker[r].staged, seen[r] \cup worker[r].merged)
    BY <1>3 DEF MergeNext, FrontierInvariant
  <2>4. Frontier(worker'[r].staged, (seen[r] \cup worker[r].merged) \cup {v})
    BY <1>0, <2>2, <2>3, MergeKeepsFrontier
  <2>5. (seen[r] \cup worker[r].merged) \cup {v} = seen[r] \cup worker'[r].merged
    BY <2>2
  <2>6. \A q \in Replica \ {r} : worker'[q] = worker[q]
    BY <2>1 DEF TypeOK
  <2> QED
    BY <1>3, <2>2, <2>4, <2>5, <2>6 DEF MergeNext, store, FrontierInvariant
<1>4. ASSUME NEW p \in Replica, AbortApply(r, p) PROVE FrontierInvariant'
  BY <1>4, ToNextPeerFrontier DEF AbortApply, store
<1>5. ASSUME NEW p \in Replica, CommitApply(r, p) PROVE FrontierInvariant'
  <2>1. Frontier(worker[r].staged, seen[r] \cup worker[r].merged)
    BY <1>5 DEF CommitApply, FrontierInvariant
  <2>2. heads'[r] = worker[r].staged /\ seen'[r] = seen[r] \cup worker[r].merged
    BY <1>5 DEF CommitApply, TypeOK
  <2>3. \A q \in Replica \ {r} : heads'[q] = heads[q] /\ seen'[q] = seen[q]
    BY <1>5 DEF CommitApply, TypeOK
  <2>4. worker'[r].phase # "merge" /\ worker'[r].merged = {}
    <3>1. CASE worker[r].next = NoCursor \/ worker[r].pages <= 1
      <4>1. ToNextPeer(r)
        BY <1>5, <3>1 DEF CommitApply
      <4> QED
        BY <4>1 DEF ToNextPeer, IdleWorker, TypeOK
    <3>2. CASE ~(worker[r].next = NoCursor \/ worker[r].pages <= 1)
      <4>1. worker' = [worker EXCEPT
                         ![r] = [IdleWorker EXCEPT !.phase = "request",
                                   !.gen = worker[r].gen, !.todo = worker[r].todo,
                                   !.peer = {p}, !.pages = worker[r].pages - 1]]
        BY <1>5, <3>2 DEF CommitApply
      <4> QED
        BY <4>1 DEF IdleWorker, TypeOK
    <3> QED
      BY <3>1, <3>2
  <2>5. \A q \in Replica \ {r} : worker'[q] = worker[q]
    BY <1>5 DEF CommitApply, ToNextPeer, TypeOK
  <2> QED
    BY <2>1, <2>2, <2>3, <2>4, <2>5 DEF FrontierInvariant
<1> QED
  BY <1>1, <1>2, <1>3, <1>4, <1>5 DEF WorkerStep

(* Faults, retries and the end of edits keep the frontiers.                *)
LEMMA EnvironmentStepFrontier ==
  ASSUME TypeOK, FrontierInvariant,
         \/ Settle
         \/ \E r \in Replica : FaultStep(r) \/ \E p \in Replica : RetryDue(r, p)
  PROVE  FrontierInvariant'
<1>1. CASE UNCHANGED <<heads, seen, worker>>
  BY <1>1 DEF FrontierInvariant
<1>2. ASSUME NEW r \in Replica,
             \/ DiscoveryFails(r) \/ Restart(r)
             \/ \E p \in Replica : PeerUnavailable(r, p)
      PROVE  FrontierInvariant'
  <2>1. worker' \in [Replica -> WorkerType] /\ UNCHANGED <<heads, seen>>
    BY <1>2, IdleWorkerType, EnvironmentStepType
    DEF store, DiscoveryFails, Restart, PeerUnavailable, TypeOK, WorkerType
  <2>2. \A q \in Replica \ {r} : worker'[q] = worker[q]
    BY <1>2 DEF DiscoveryFails, Restart, PeerUnavailable, TypeOK
  <2>3. worker'[r].phase # "merge" /\ worker'[r].merged = {}
    <3>1. CASE DiscoveryFails(r) \/ Restart(r)
      BY <3>1 DEF DiscoveryFails, Restart, IdleWorker, TypeOK
    <3>2. ASSUME NEW p \in Replica, PeerUnavailable(r, p)
          PROVE  worker'[r].phase # "merge" /\ worker'[r].merged = {}
      <4>1. worker[r].phase = "round" /\ worker[r].merged = {} /\ worker[r] \in WorkerType
        BY <3>2 DEF PeerUnavailable, FrontierInvariant, TypeOK
      <4> QED
        BY <3>2, <4>1 DEF PeerUnavailable, TypeOK, WorkerType
    <3> QED
      BY <1>2, <3>1, <3>2
  <2> QED
    BY <2>1, <2>2, <2>3, FrontierUnchanged
<1>3. ASSUME NEW r \in Replica, NEW p \in Replica, RequestFails(r, p)
      PROVE  FrontierInvariant'
  BY <1>3, ToNextPeerFrontier DEF RequestFails, store
<1> QED
  BY <1>1, <1>2, <1>3 DEF FaultStep, Settle, RetryDue, store

(* Every step keeps the frontiers.                                         *)
LEMMA StepFrontier == TypeOK /\ FrontierInvariant /\ [Next]_vars => FrontierInvariant'
<1> SUFFICES ASSUME TypeOK, FrontierInvariant, [Next]_vars PROVE FrontierInvariant'
  OBVIOUS
<1>1. CASE Next
  BY <1>1, UserStepFrontier, WorkerStepFrontier, EnvironmentStepFrontier DEF Next
<1>2. CASE UNCHANGED vars
  BY <1>2 DEF vars, store, FrontierInvariant
<1> QED
  BY <1>1, <1>2

(* The heads of a device, and those staged while it merges a page, are     *)
(* always the frontier of what it has seen.                                *)
THEOREM FrontierKept == Spec => []FrontierInvariant
<1>1. Init => FrontierInvariant
  BY DEF Init, FrontierInvariant, Frontier, IdleWorker
<1> QED
  BY <1>1, TypeCorrect, StepFrontier, PTL DEF Spec

(* No concurrent edit is lost and no superseded version comes back, in any *)
(* number of devices, notes and versions, whatever is lost or repeated.    *)
THEOREM HeadsAreAlwaysMaxima == Spec => []HeadsAreMaxima
<1>1. TypeOK /\ FrontierInvariant => HeadsAreMaxima
  BY FrontierIsMaxima DEF TypeOK, FrontierInvariant, HeadsAreMaxima
<1> QED
  BY <1>1, TypeCorrect, FrontierKept, PTL

-----------------------------------------------------------------------------
(* Settings and rounds *)

(* Any step of a worker but the start of a round either ends the round or  *)
(* keeps its settings, and begins a merge only under the current ones.     *)
RoundGoesOn(r) ==
  \/ worker'[r].phase = "idle" /\ worker'[r].gen = 0
  \/ /\ worker[r].phase # "idle"
     /\ worker'[r].gen = worker[r].gen
     /\ worker'[r].phase = "merge" =>
          worker[r].phase = "merge" \/ worker[r].gen = settings[r].generation

(* A round that goes on under the same settings remembers them rightly.    *)
LEMMA RoundGoesOnKeeps ==
  ASSUME TypeOK, RoundInvariant, NEW r \in Replica, RoundGoesOn(r),
         UNCHANGED <<settings, revoked>>,
         \A q \in Replica \ {r} : worker'[q] = worker[q]
  PROVE  RoundInvariant'
<1>1. \A q \in Replica : settings[q].generation \in Nat
  BY DEF TypeOK
<1>2. ASSUME NEW q \in Replica
      PROVE  /\ worker'[q].gen <= settings[q].generation
             /\ worker'[q].phase = "merge" => worker'[q].gen = settings[q].generation
             /\ revoked[q] /\ worker'[q].phase # "idle" =>
                  worker'[q].gen < settings[q].generation
  <2>1. CASE q # r
    BY <2>1 DEF RoundInvariant
  <2>2. CASE q = r
    BY <1>1, <2>2 DEF RoundInvariant, RoundGoesOn
  <2> QED
    BY <2>1, <2>2
<1> QED
  BY <1>2 DEF RoundInvariant

(* Leaving a peer leaves what the round remembers.                         *)
LEMMA ToNextPeerRound ==
  ASSUME TypeOK, NEW r \in Replica, ToNextPeer(r), worker[r].phase # "idle"
  PROVE  RoundGoesOn(r) /\ \A q \in Replica \ {r} : worker'[q] = worker[q]
<1>1. worker'[r].phase = "round" /\ worker'[r].gen = worker[r].gen
  BY DEF ToNextPeer, IdleWorker, TypeOK
<1>2. \A q \in Replica \ {r} : worker'[q] = worker[q]
  BY DEF ToNextPeer, TypeOK
<1> QED
  BY <1>1, <1>2 DEF RoundGoesOn

(* A user only raises the generation.                                      *)
LEMMA UserStepRound ==
  ASSUME TypeOK, RoundInvariant, NEW r \in Replica, UserStep(r)
  PROVE  RoundInvariant'
<1>1. CASE UNCHANGED <<worker, settings, revoked>>
  BY <1>1 DEF RoundInvariant
<1>2. ASSUME NEW on \in BOOLEAN, NEW peers \in SUBSET Replica, UpdateSettings(r, on, peers)
      PROVE  RoundInvariant'
  <2>1. /\ settings[r].generation \in Nat /\ worker[r].gen \in Nat
        /\ worker[r].phase # "merge"
    BY <1>2 DEF UpdateSettings, KeptProgress, StoreUnlocked, TypeOK, WorkerType
  <2>2. settings'[r].generation = settings[r].generation + 1 /\ worker' = worker
    BY <1>2 DEF UpdateSettings, KeptProgress, TypeOK
  <2>3. \A q \in Replica \ {r} : settings'[q] = settings[q] /\ revoked'[q] = revoked[q]
    BY <1>2 DEF UpdateSettings, KeptProgress, TypeOK
  <2> QED
    BY <2>1, <2>2, <2>3 DEF RoundInvariant
<1> QED
  BY <1>1, <1>2
  DEF UserStep, OpenNote, Create, ListConflicts, Save, SaveReply, TrashOrRestore, Resolve, Supersede,
      Replace, Deposit

(* A worker keeps what the round remembers, or takes the stored            *)
(* generation.                                                             *)
LEMMA WorkerStepRound ==
  ASSUME TypeOK, RoundInvariant, NEW r \in Replica, WorkerStep(r)
  PROVE  RoundInvariant'
<1>0. worker[r] \in WorkerType
  BY DEF TypeOK
<1>1. CASE StartRound(r)
  <2>1. worker' = [worker EXCEPT ![r] = [IdleWorker EXCEPT !.phase = "round",
                                           !.gen = settings[r].generation,
                                           !.todo = settings[r].peers]]
    BY <1>1 DEF StartRound
  <2>2. worker'[r].phase = "round" /\ worker'[r].gen = settings[r].generation
    BY <2>1 DEF IdleWorker, TypeOK
  <2>3. \A q \in Replica \ {r} : worker'[q] = worker[q] /\ revoked'[q] = revoked[q]
    BY <1>1, <2>1 DEF StartRound, TypeOK
  <2>4. revoked'[r] = FALSE /\ settings' = settings
    BY <1>1 DEF StartRound, TypeOK
  <2>5. settings[r].generation \in Nat
    BY DEF TypeOK
  <2> QED
    BY <2>2, <2>3, <2>4, <2>5 DEF RoundInvariant
<1>2. CASE EndRound(r)
  <2>1. worker' = [worker EXCEPT ![r] = IdleWorker]
    BY <1>2 DEF EndRound
  <2>2. worker'[r].phase = "idle" /\ worker'[r].gen = 0
    BY <2>1 DEF IdleWorker, TypeOK
  <2>3. \A q \in Replica \ {r} : worker'[q] = worker[q]
    BY <2>1 DEF TypeOK
  <2> QED
    BY <1>2, <2>2, <2>3, RoundGoesOnKeeps DEF EndRound, RoundGoesOn
<1>3. ASSUME NEW w, worker[r].phase # "idle",
             \/ /\ worker' = [worker EXCEPT ![r] = w]
                /\ w.gen = worker[r].gen
                /\ w.phase = "merge" =>
                     worker[r].phase = "merge" \/ worker[r].gen = settings[r].generation
             \/ ToNextPeer(r),
             UNCHANGED <<settings, revoked>>
      PROVE  RoundInvariant'
  <2>1. RoundGoesOn(r) /\ \A q \in Replica \ {r} : worker'[q] = worker[q]
    <3>1. CASE ToNextPeer(r)
      BY <1>3, <3>1, ToNextPeerRound
    <3>2. CASE ~ToNextPeer(r)
      <4>1. worker'[r] = w /\ \A q \in Replica \ {r} : worker'[q] = worker[q]
        BY <1>3, <3>2 DEF TypeOK
      <4> QED
        BY <1>3, <3>2, <4>1 DEF RoundGoesOn
    <3> QED
      BY <3>1, <3>2
  <2> QED
    BY <1>3, <2>1, RoundGoesOnKeeps
<1>4. CASE MergeNext(r)
  <2>1. PICK v : worker' = [worker EXCEPT ![r].staged = MergeVersion(@, v),
                                          ![r].merged = @ \cup {v},
                                          ![r].page = @ \ {v}]
    BY <1>4 DEF MergeNext
  <2> DEFINE w == [worker[r] EXCEPT !.staged = MergeVersion(@, v), !.merged = @ \cup {v},
                                    !.page = @ \ {v}]
  <2>2. worker' = [worker EXCEPT ![r] = w]
    BY <2>1 DEF TypeOK
  <2>3. w.gen = worker[r].gen
    BY <1>0 DEF WorkerType
  <2>4. worker[r].phase = "merge" /\ UNCHANGED <<settings, revoked>>
    BY <1>4 DEF MergeNext
  <2> HIDE DEF w
  <2> QED
    BY <1>3, <2>2, <2>3, <2>4
<1>5. ASSUME NEW p \in Replica, SkipPeer(r, p) \/ VisitPeer(r, p) PROVE RoundInvariant'
  <2>1. worker[r].phase = "round" /\ UNCHANGED <<settings, revoked>>
    BY <1>5 DEF SkipPeer, VisitPeer
  <2>2. CASE SkipPeer(r, p)
    <3> DEFINE w == [worker[r] EXCEPT !.todo = @ \ {p}]
    <3>1. worker' = [worker EXCEPT ![r] = w]
      BY <2>2 DEF SkipPeer, TypeOK
    <3>2. w.gen = worker[r].gen /\ w.phase = "round"
      BY <1>0, <2>1 DEF WorkerType
    <3> HIDE DEF w
    <3> QED
      BY <1>3, <2>1, <3>1, <3>2
  <2>3. CASE VisitPeer(r, p)
    <3> DEFINE w == [worker[r] EXCEPT !.phase = "request", !.peer = {p},
                                      !.todo = @ \ {p}, !.pages = PagesPerRun]
    <3>1. worker' = [worker EXCEPT ![r] = w]
      BY <2>3 DEF VisitPeer, TypeOK
    <3>2. w.gen = worker[r].gen /\ w.phase = "request"
      BY <1>0 DEF WorkerType
    <3> HIDE DEF w
    <3> QED
      BY <1>3, <2>1, <3>1, <3>2
  <2> QED
    BY <1>5, <2>2, <2>3
<1>6. ASSUME NEW p \in Replica, SendRequest(r, p) PROVE RoundInvariant'
  <2> DEFINE w == [worker[r] EXCEPT !.phase = "sent", !.cursor = progress[r][p].cursor]
  <2>1. worker' = [worker EXCEPT ![r] = w] \/ ToNextPeer(r)
    BY <1>6 DEF SendRequest, TypeOK
  <2>2. w.gen = worker[r].gen /\ w.phase = "sent"
    BY <1>0 DEF WorkerType
  <2>3. worker[r].phase = "request" /\ UNCHANGED <<settings, revoked>>
    BY <1>6 DEF SendRequest
  <2> HIDE DEF w
  <2> QED
    BY <1>3, <2>1, <2>2, <2>3
<1>7. ASSUME NEW p \in Replica, Admit(r, p) PROVE RoundInvariant'
  <2> DEFINE w == [worker[r] EXCEPT !.phase = "admitted"]
  <2>1. worker' = [worker EXCEPT ![r] = w] \/ ToNextPeer(r)
    BY <1>7 DEF Admit, TypeOK
  <2>2. w.gen = worker[r].gen /\ w.phase = "admitted"
    BY <1>0 DEF WorkerType
  <2>3. worker[r].phase = "sent" /\ UNCHANGED <<settings, revoked>>
    BY <1>7 DEF Admit
  <2> HIDE DEF w
  <2> QED
    BY <1>3, <2>1, <2>2, <2>3
<1>8. ASSUME NEW p \in Replica, ServePage(r, p) PROVE RoundInvariant'
  <2>1. PICK P, next : worker' = [worker EXCEPT ![r].phase = "received", ![r].page = P,
                                                ![r].next = next]
    BY <1>8 DEF ServePage
  <2> DEFINE w == [worker[r] EXCEPT !.phase = "received", !.page = P, !.next = next]
  <2>2. worker' = [worker EXCEPT ![r] = w]
    BY <2>1 DEF TypeOK
  <2>3. w.gen = worker[r].gen /\ w.phase = "received"
    BY <1>0 DEF WorkerType
  <2>4. worker[r].phase = "admitted" /\ UNCHANGED <<settings, revoked>>
    BY <1>8 DEF ServePage
  <2> HIDE DEF w
  <2> QED
    BY <1>3, <2>2, <2>3, <2>4
<1>9. ASSUME NEW p \in Replica, BeginApply(r, p) PROVE RoundInvariant'
  <2> DEFINE w == [worker[r] EXCEPT !.phase = "merge", !.staged = heads[r]]
  <2>1. \/ worker' = [worker EXCEPT ![r] = w] /\ worker[r].gen = settings[r].generation
        \/ ToNextPeer(r)
    BY <1>9 DEF BeginApply, Current, TypeOK
  <2>2. w.gen = worker[r].gen
    BY <1>0 DEF WorkerType
  <2>3. worker[r].phase = "received" /\ UNCHANGED <<settings, revoked>>
    BY <1>9 DEF BeginApply
  <2> HIDE DEF w
  <2> QED
    BY <1>3, <2>1, <2>2, <2>3
<1>10. ASSUME NEW p \in Replica, AbortApply(r, p) PROVE RoundInvariant'
  <2>1. ToNextPeer(r) /\ worker[r].phase = "merge" /\ UNCHANGED <<settings, revoked>>
    BY <1>10 DEF AbortApply
  <2> QED
    BY <1>3, <2>1
<1>11. ASSUME NEW p \in Replica, CommitApply(r, p) PROVE RoundInvariant'
  <2> DEFINE w == [IdleWorker EXCEPT !.phase = "request", !.gen = worker[r].gen,
                                     !.todo = worker[r].todo, !.peer = {p},
                                     !.pages = worker[r].pages - 1]
  <2>1. worker' = [worker EXCEPT ![r] = w] \/ ToNextPeer(r)
    BY <1>11 DEF CommitApply
  <2>2. w.gen = worker[r].gen /\ w.phase = "request"
    BY DEF IdleWorker
  <2>3. worker[r].phase = "merge" /\ UNCHANGED <<settings, revoked>>
    BY <1>11 DEF CommitApply
  <2> HIDE DEF w
  <2> QED
    BY <1>3, <2>1, <2>2, <2>3
<1> QED
  BY <1>1, <1>2, <1>4, <1>5, <1>6, <1>7, <1>8, <1>9, <1>10, <1>11 DEF WorkerStep

(* Faults, retries and the end of edits keep what the round remembers.     *)
LEMMA EnvironmentStepRound ==
  ASSUME TypeOK, RoundInvariant,
         \/ Settle
         \/ \E r \in Replica : FaultStep(r) \/ \E p \in Replica : RetryDue(r, p)
  PROVE  RoundInvariant'
<1>1. CASE UNCHANGED <<worker, settings, revoked>>
  BY <1>1 DEF RoundInvariant
<1>2. ASSUME NEW r \in Replica, DiscoveryFails(r) \/ Restart(r) PROVE RoundInvariant'
  <2>1. worker' = [worker EXCEPT ![r] = IdleWorker] /\ UNCHANGED <<settings, revoked>>
    BY <1>2 DEF DiscoveryFails, Restart
  <2>2. worker'[r].phase = "idle" /\ worker'[r].gen = 0
    BY <2>1 DEF IdleWorker, TypeOK
  <2>3. \A q \in Replica \ {r} : worker'[q] = worker[q]
    BY <2>1 DEF TypeOK
  <2> QED
    BY <2>1, <2>2, <2>3, RoundGoesOnKeeps DEF RoundGoesOn
<1>3. ASSUME NEW r \in Replica, NEW p \in Replica, PeerUnavailable(r, p)
      PROVE  RoundInvariant'
  <2>1. worker[r].phase = "round" /\ worker[r] \in WorkerType
    BY <1>3 DEF PeerUnavailable, TypeOK
  <2>2. worker' = [worker EXCEPT ![r].todo = @ \ {p}] /\ UNCHANGED <<settings, revoked>>
    BY <1>3 DEF PeerUnavailable
  <2>3. worker'[r].phase = "round" /\ worker'[r].gen = worker[r].gen
    BY <2>1, <2>2 DEF TypeOK, WorkerType
  <2>4. \A q \in Replica \ {r} : worker'[q] = worker[q]
    BY <2>2 DEF TypeOK
  <2> QED
    BY <2>1, <2>2, <2>3, <2>4, RoundGoesOnKeeps DEF RoundGoesOn
<1>4. ASSUME NEW r \in Replica, NEW p \in Replica, RequestFails(r, p)
      PROVE  RoundInvariant'
  <2>1. ToNextPeer(r) /\ worker[r].phase # "idle" /\ UNCHANGED <<settings, revoked>>
    BY <1>4 DEF RequestFails, Unusable
  <2> QED
    BY <2>1, ToNextPeerRound, RoundGoesOnKeeps
<1> QED
  BY <1>1, <1>2, <1>3, <1>4 DEF FaultStep, Settle, RetryDue

(* Every step keeps the invariant of the round.                            *)
LEMMA StepRound == TypeOK /\ RoundInvariant /\ [Next]_vars => RoundInvariant'
<1> SUFFICES ASSUME TypeOK, RoundInvariant, [Next]_vars PROVE RoundInvariant'
  OBVIOUS
<1>1. CASE Next
  BY <1>1, UserStepRound, WorkerStepRound, EnvironmentStepRound DEF Next
<1>2. CASE UNCHANGED vars
  BY <1>2 DEF vars, RoundInvariant
<1> QED
  BY <1>1, <1>2

(* A round never outlives the settings it was started under unnoticed.     *)
THEOREM RoundKept == Spec => []RoundInvariant
<1>1. Init => RoundInvariant
  BY DEF Init, RoundInvariant, IdleWorker
<1> QED
  BY <1>1, TypeCorrect, StepRound, PTL DEF Spec

(* What a local write adds is new everywhere.                              *)
LEMMA DepositIsNew ==
  ASSUME TypeOK, NEW r \in Replica, UserStep(r), NEW q \in Replica,
         NEW v \in seen'[q] \ seen[q]
  PROVE  v \notin AllVersions
<1>1. ASSUME NEW n, NEW clock, NEW trashed, NEW w \in NewVersions(r, n, clock, trashed),
             Deposit(r, w)
      PROVE  v \notin AllVersions
  <2>1. v = w
    BY <1>1 DEF Deposit, TypeOK
  <2>2. w.id \notin {u.id : u \in AllVersions}
    BY DEF NewVersions, FreshIds
  <2> QED
    BY <2>1, <2>2
<1>2. CASE UNCHANGED seen
  BY <1>2
<1> QED
  BY <1>1, <1>2
  DEF UserStep, OpenNote, Create, ListConflicts, Save, SaveReply, TrashOrRestore, Resolve, Supersede,
      Replace, UpdateSettings, KeptProgress

(* Nothing of a visit begun under settings that have changed since is      *)
(* merged, for any number of changes and of devices.                       *)
THEOREM RevocationIsAlwaysFinal == Spec => RevocationIsFinal
<1>1. ASSUME TypeOK, RoundInvariant, [Next]_vars, NEW q \in Replica,
             NEW v \in seen'[q] \ seen[q], v \in AllVersions
      PROVE  ~revoked[q]
  <2>1. CASE UNCHANGED seen
    BY <1>1, <2>1
  <2>2. ASSUME NEW r \in Replica, NEW p \in Replica, CommitApply(r, p)
        PROVE  ~revoked[q]
    <3>1. q = r
      <4>1. seen' = [seen EXCEPT ![r] = @ \cup worker[r].merged]
        BY <2>2 DEF CommitApply
      <4> QED
        BY <1>1, <4>1 DEF TypeOK
    <3>2. worker[r].phase = "merge" /\ settings[r].generation \in Nat
      BY <1>1, <2>2 DEF CommitApply, TypeOK
    <3> QED
      BY <1>1, <3>1, <3>2 DEF RoundInvariant
  <2>3. ASSUME NEW r \in Replica, UserStep(r) PROVE ~revoked[q]
    BY <1>1, <2>3, DepositIsNew
  <2>4. ASSUME NEW r \in Replica, WorkerStep(r) PROVE ~revoked[q]
    BY <2>1, <2>2, <2>4
    DEF WorkerStep, StartRound, EndRound, MergeNext, SkipPeer, VisitPeer, SendRequest,
        Admit, ServePage, BeginApply, AbortApply
  <2>5. ASSUME NEW r \in Replica, FaultStep(r) PROVE ~revoked[q]
    BY <2>1, <2>5 DEF FaultStep, DiscoveryFails, Restart, PeerUnavailable, RequestFails
  <2> QED
    BY <1>1, <2>1, <2>3, <2>4, <2>5 DEF Next, vars, Settle, RetryDue
<1>2. TypeOK /\ RoundInvariant /\ [Next]_vars =>
        [\A r \in Replica :
           (\E v \in seen'[r] \ seen[r] : v \in AllVersions) => ~revoked[r]]_vars
  BY <1>1
<1> QED
  BY <1>2, TypeCorrect, RoundKept, PTL DEF Spec, RevocationIsFinal

=============================================================================
