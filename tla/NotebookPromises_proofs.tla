---------------------- MODULE NotebookPromises_proofs ----------------------
(***************************************************************************)
(* What NotebookSync promises, for any number of devices, notes, versions  *)
(* and any limits: it implements CausalNotebook; its clocks order exactly  *)
(* the edits made in knowledge of each other; rows and revisions follow    *)
(* the heads; writes replace only what the page has read; traversals of a  *)
(* feed miss nothing; limits hold.                                         *)
(***************************************************************************)
EXTENDS NotebookSync_proofs, WellFoundedInduction, FiniteSetTheorems

-----------------------------------------------------------------------------
(* What a step does to the store *)

(* A worker changes the store only by committing a page.                   *)
LEMMA WorkerCommits ==
  ASSUME NEW r \in Replica, WorkerStep(r)
  PROVE  UNCHANGED <<store, seen>> \/ \E p \in Replica : CommitApply(r, p)
BY DEF WorkerStep, StartRound, EndRound, MergeNext, SkipPeer, VisitPeer, SendRequest, Admit,
       ServePage, BeginApply, AbortApply

(* A step leaves the store alone, writes one version, or commits a page.   *)
LEMMA StoreSteps ==
  ASSUME TypeOK, FrontierInvariant, [Next]_vars
  PROVE  \/ UNCHANGED <<store, seen>>
         \/ \E r \in Replica : \E v : Written(r, v)
         \/ \E r, p \in Replica : CommitApply(r, p)
<1>1. ASSUME NEW r \in Replica, UserStep(r)
      PROVE  UNCHANGED <<store, seen>> \/ \E v : Written(r, v)
  BY <1>1, UserWrites
<1>2. ASSUME NEW r \in Replica, FaultStep(r) \/ \E p \in Replica : RetryDue(r, p)
      PROVE  UNCHANGED <<store, seen>>
  BY <1>2 DEF FaultStep, DiscoveryFails, Restart, PeerUnavailable, RequestFails, RetryDue
<1>3. Settle => UNCHANGED <<store, seen>>
  BY DEF Settle
<1>4. UNCHANGED vars => UNCHANGED <<store, seen>>
  BY DEF vars, store
<1> QED
  BY <1>1, <1>2, <1>3, <1>4, WorkerCommits DEF Next

-----------------------------------------------------------------------------
(* Rows and heads *)

ShownInvariant == \A r \in Replica : shown[r] = Primaries(heads[r])

(* A write makes its version the primary of its note and leaves the others.*)
LEMMA PrimariesOfWrite ==
  ASSUME NEW H \in SUBSET Version, NEW v \in Version
  PROVE  Primaries({h \in H : h.note # v.note} \cup {v})
           = {h \in Primaries(H) : h.note # v.note} \cup {v}
BY DEF Primaries, OnNote, PreferredTo

(* The primaries change only on the notes whose heads do.                  *)
LEMMA PrimariesOfPage ==
  ASSUME NEW H \in SUBSET Version, NEW S \in SUBSET Version, NEW C,
         \A n \in Note : n \notin C => OnNote(S, n) = OnNote(H, n)
  PROVE  Primaries(S) = {h \in Primaries(H) : h.note \notin C}
                        \cup {h \in Primaries(S) : h.note \in C}
<1>1. ASSUME NEW h \in Version, h.note \notin C
      PROVE  h \in Primaries(S) <=> h \in Primaries(H)
  <2>1. h.note \in Note
    BY DEF Version
  <2>2. OnNote(S, h.note) = OnNote(H, h.note)
    BY <1>1, <2>1
  <2>3. h \in S <=> h \in H
    BY <2>2 DEF OnNote
  <2> QED
    BY <2>2, <2>3 DEF Primaries
<1>2. Primaries(S) \subseteq Version /\ Primaries(H) \subseteq Version
  BY DEF Primaries
<1> QED
  BY <1>1, <1>2

(* The rows hold the primary versions after every step.                    *)
LEMMA StepShown ==
  TypeOK /\ FrontierInvariant /\ ShownInvariant /\ [Next]_vars => ShownInvariant'
<1> SUFFICES ASSUME TypeOK, FrontierInvariant, ShownInvariant, [Next]_vars
             PROVE  ShownInvariant'
  OBVIOUS
<1>1. CASE UNCHANGED <<store, seen>>
  BY <1>1 DEF store, ShownInvariant
<1>2. ASSUME NEW r \in Replica, NEW v, Written(r, v) PROVE ShownInvariant'
  <2>1. \A q \in Replica \ {r} : heads'[q] = heads[q] /\ shown'[q] = shown[q]
    BY <1>2 DEF Written, Deposit, TypeOK
  <2>2. /\ heads'[r] = {h \in heads[r] : h.note # v.note} \cup {v}
        /\ shown'[r] = {h \in shown[r] : h.note # v.note} \cup {v}
    BY <1>2 DEF Written, Deposit, TypeOK
  <2>3. heads[r] \in SUBSET Version /\ v \in Version
    BY <1>2 DEF Written, TypeOK
  <2>4. shown'[r] = Primaries(heads'[r])
    BY <2>2, <2>3, PrimariesOfWrite DEF ShownInvariant
  <2> QED
    BY <2>1, <2>4 DEF ShownInvariant
<1>3. ASSUME NEW r \in Replica, NEW p \in Replica, CommitApply(r, p) PROVE ShownInvariant'
  <2>1. \A q \in Replica \ {r} : heads'[q] = heads[q] /\ shown'[q] = shown[q]
    BY <1>3 DEF CommitApply, TypeOK
  <2>2. /\ heads'[r] = worker[r].staged
        /\ shown'[r] = {h \in shown[r] : h.note \notin ChangedNotes(r)}
                       \cup {h \in Primaries(worker[r].staged) : h.note \in ChangedNotes(r)}
    BY <1>3 DEF CommitApply, TypeOK
  <2>3. heads[r] \in SUBSET Version /\ worker[r].staged \in SUBSET Version
    BY DEF TypeOK, WorkerType
  <2>4. \A n \in Note : n \notin ChangedNotes(r) =>
                          OnNote(worker[r].staged, n) = OnNote(heads[r], n)
    BY DEF ChangedNotes
  <2>5. shown'[r] = Primaries(heads'[r])
    BY <2>2, <2>3, <2>4, PrimariesOfPage DEF ShownInvariant
  <2> QED
    BY <2>1, <2>5 DEF ShownInvariant
<1> QED
  BY <1>1, <1>2, <1>3, StoreSteps

-----------------------------------------------------------------------------
(* What travels between the devices *)

Carried(r) == worker[r].page \cup worker[r].merged

LearntInvariant == \A r \in Replica : Carried(r) \subseteq AllVersions

(* A worker that goes on to another peer carries nothing.                  *)
LEMMA ToNextPeerCarries ==
  ASSUME TypeOK, NEW r \in Replica, ToNextPeer(r)
  PROVE  Carried(r)' = {} /\ \A q \in Replica \ {r} : worker'[q] = worker[q]
<1>1. worker'[r] = [IdleWorker EXCEPT !.phase = "round", !.gen = worker[r].gen,
                                      !.todo = worker[r].todo]
  BY DEF ToNextPeer, TypeOK
<1>2. worker'[r].page = {} /\ worker'[r].merged = {}
  BY <1>1 DEF IdleWorker
<1> QED
  BY <1>2 DEF ToNextPeer, TypeOK, Carried

(* A worker carries only what a peer has or had.                           *)
LEMMA WorkerCarries ==
  ASSUME TypeOK, FrontierInvariant, NEW r \in Replica, WorkerStep(r)
  PROVE  /\ Carried(r)' \subseteq Carried(r) \cup AllVersions
         /\ \A q \in Replica \ {r} : worker'[q] = worker[q]
<1>0. worker[r] \in WorkerType
  BY DEF TypeOK
<1>1. CASE ToNextPeer(r)
  BY <1>1, ToNextPeerCarries
<1>2. CASE StartRound(r) \/ EndRound(r)
  <2>1. CASE StartRound(r)
    <3>1. worker' = [worker EXCEPT ![r] = [IdleWorker EXCEPT !.phase = "round",
                                             !.gen = settings[r].generation,
                                             !.todo = settings[r].peers]]
      BY <2>1 DEF StartRound
    <3> QED
      BY <3>1 DEF IdleWorker, TypeOK, Carried
  <2>2. CASE EndRound(r)
    <3>1. worker' = [worker EXCEPT ![r] = IdleWorker]
      BY <2>2 DEF EndRound
    <3> QED
      BY <3>1 DEF IdleWorker, TypeOK, Carried
  <2> QED
    BY <1>2, <2>1, <2>2
<1>3. CASE MergeNext(r)
  <2>1. PICK v \in worker[r].page :
          worker' = [worker EXCEPT ![r].staged = MergeVersion(@, v),
                                   ![r].merged = @ \cup {v},
                                   ![r].page = @ \ {v}]
    BY <1>3 DEF MergeNext, NextInPage
  <2>2. /\ worker'[r].page = worker[r].page \ {v}
        /\ worker'[r].merged = worker[r].merged \cup {v}
    BY <1>0, <2>1 DEF TypeOK, WorkerType
  <2> QED
    BY <2>1, <2>2 DEF TypeOK, Carried
<1>4. ASSUME NEW p \in Replica, SkipPeer(r, p) \/ VisitPeer(r, p)
      PROVE  Carried(r)' = Carried(r) /\ \A q \in Replica \ {r} : worker'[q] = worker[q]
  <2>1. CASE SkipPeer(r, p)
    BY <1>0, <2>1 DEF SkipPeer, TypeOK, WorkerType, Carried
  <2>2. CASE VisitPeer(r, p)
    BY <1>0, <2>2 DEF VisitPeer, TypeOK, WorkerType, Carried
  <2> QED
    BY <1>4, <2>1, <2>2
<1>5. ASSUME NEW p \in Replica, ~ToNextPeer(r),
             SendRequest(r, p) \/ Admit(r, p) \/ BeginApply(r, p)
      PROVE  Carried(r)' = Carried(r) /\ \A q \in Replica \ {r} : worker'[q] = worker[q]
  <2>1. CASE SendRequest(r, p)
    <3>1. worker' = [worker EXCEPT ![r].phase = "sent",
                                   ![r].cursor = progress[r][p].cursor]
      BY <1>5, <2>1 DEF SendRequest
    <3> QED
      BY <1>0, <3>1 DEF TypeOK, WorkerType, Carried
  <2>2. CASE Admit(r, p)
    <3>1. worker' = [worker EXCEPT ![r].phase = "admitted"]
      BY <1>5, <2>2 DEF Admit
    <3> QED
      BY <1>0, <3>1 DEF TypeOK, WorkerType, Carried
  <2>3. CASE BeginApply(r, p)
    <3>1. worker' = [worker EXCEPT ![r].phase = "merge", ![r].staged = heads[r]]
      BY <1>5, <2>3 DEF BeginApply
    <3> QED
      BY <1>0, <3>1 DEF TypeOK, WorkerType, Carried
  <2> QED
    BY <1>5, <2>1, <2>2, <2>3
<1>6. ASSUME NEW p \in Replica, ServePage(r, p)
      PROVE  /\ Carried(r)' \subseteq Carried(r) \cup AllVersions
             /\ \A q \in Replica \ {r} : worker'[q] = worker[q]
  <2>0. PICK P \in FeedPages(Beyond(worker[r].cursor, heads[p])) :
          \E next : worker' = [worker EXCEPT ![r].phase = "received", ![r].page = P,
                                             ![r].next = next]
    BY <1>6 DEF ServePage
  <2>1. PICK next : worker' = [worker EXCEPT ![r].phase = "received", ![r].page = P,
                                             ![r].next = next]
    BY <2>0
  <2>2. P \subseteq heads[p]
    BY DEF FeedPages, Beyond
  <2>3. heads[p] \subseteq AllVersions
    BY DEF FrontierInvariant, Frontier, AllVersions
  <2>4. worker'[r].page = P /\ worker'[r].merged = worker[r].merged
    BY <1>0, <2>1 DEF TypeOK, WorkerType
  <2> QED
    BY <2>1, <2>2, <2>3, <2>4 DEF TypeOK, Carried
<1>7. ASSUME NEW p \in Replica, AbortApply(r, p) PROVE ToNextPeer(r)
  BY <1>7 DEF AbortApply
<1>8. ASSUME NEW p \in Replica, CommitApply(r, p), ~ToNextPeer(r)
      PROVE  Carried(r)' = {} /\ \A q \in Replica \ {r} : worker'[q] = worker[q]
  <2>1. worker' = [worker EXCEPT
                     ![r] = [IdleWorker EXCEPT !.phase = "request", !.gen = worker[r].gen,
                               !.todo = worker[r].todo, !.peer = {p},
                               !.pages = worker[r].pages - 1]]
    BY <1>8 DEF CommitApply
  <2> QED
    BY <2>1 DEF IdleWorker, TypeOK, Carried
<1> QED
  BY <1>1, <1>2, <1>3, <1>4, <1>5, <1>6, <1>7, <1>8 DEF WorkerStep

(* Faults make a worker forget what it carries.                            *)
LEMMA FaultCarries ==
  ASSUME TypeOK, NEW r \in Replica, FaultStep(r)
  PROVE  /\ Carried(r)' \subseteq Carried(r)
         /\ \A q \in Replica \ {r} : worker'[q] = worker[q]
<1>1. CASE DiscoveryFails(r) \/ Restart(r)
  <2>1. worker' = [worker EXCEPT ![r] = IdleWorker]
    BY <1>1 DEF DiscoveryFails, Restart
  <2> QED
    BY <2>1 DEF IdleWorker, TypeOK, Carried
<1>2. ASSUME NEW p \in Replica, PeerUnavailable(r, p)
      PROVE  Carried(r)' = Carried(r) /\ \A q \in Replica \ {r} : worker'[q] = worker[q]
  <2>1. worker[r] \in WorkerType
    BY DEF TypeOK
  <2> QED
    BY <1>2, <2>1 DEF PeerUnavailable, TypeOK, WorkerType, Carried
<1>3. ASSUME NEW p \in Replica, RequestFails(r, p) PROVE ToNextPeer(r)
  BY <1>3 DEF RequestFails
<1> QED
  BY <1>1, <1>2, <1>3, ToNextPeerCarries DEF FaultStep

(* Devices forget nothing they have seen.                                  *)
LEMMA SeenGrows ==
  ASSUME TypeOK, FrontierInvariant, [Next]_vars
  PROVE  /\ \A q \in Replica : seen[q] \subseteq seen'[q]
         /\ AllVersions \subseteq AllVersions'
<1>1. \A q \in Replica : seen[q] \subseteq seen'[q]
  <2>1. ASSUME NEW r \in Replica, NEW v, Written(r, v)
        PROVE  \A q \in Replica : seen[q] \subseteq seen'[q]
    BY <2>1 DEF Written, Deposit, TypeOK
  <2>2. ASSUME NEW r \in Replica, NEW p \in Replica, CommitApply(r, p)
        PROVE  \A q \in Replica : seen[q] \subseteq seen'[q]
    BY <2>2 DEF CommitApply, TypeOK
  <2> QED
    BY <2>1, <2>2, StoreSteps
<1> QED
  BY <1>1 DEF AllVersions

(* No step gives a worker a version that no device has.                    *)
LEMMA StepLearnt ==
  TypeOK /\ FrontierInvariant /\ LearntInvariant /\ [Next]_vars => LearntInvariant'
<1> SUFFICES ASSUME TypeOK, FrontierInvariant, LearntInvariant, [Next]_vars,
                    NEW q \in Replica
             PROVE  Carried(q)' \subseteq Carried(q) \cup AllVersions
  BY SeenGrows DEF LearntInvariant
<1>1. CASE worker' = worker
  BY <1>1 DEF Carried
<1>2. ASSUME NEW r \in Replica, UserStep(r) PROVE worker' = worker
  BY <1>2, UserWrites DEF Written, Deposit
<1>3. ASSUME NEW r \in Replica, WorkerStep(r) \/ FaultStep(r)
      PROVE  Carried(q)' \subseteq Carried(q) \cup AllVersions
  BY <1>3, WorkerCarries, FaultCarries DEF Carried
<1> QED
  BY <1>1, <1>2, <1>3 DEF Next, Settle, RetryDue, vars

-----------------------------------------------------------------------------
(* Every step is one of the causal notebook or changes nothing it shows    *)

IInv == TypeOK /\ FrontierInvariant /\ ShownInvariant /\ LearntInvariant

(* New devices satisfy the invariant.                                      *)
LEMMA InitInvariant == Init => IInv
<1> SUFFICES ASSUME Init PROVE IInv
  OBVIOUS
<1>1. FrontierInvariant
  BY DEF Init, FrontierInvariant, Frontier, IdleWorker
<1>2. ShownInvariant
  BY DEF Init, ShownInvariant, Primaries
<1>3. LearntInvariant
  BY DEF Init, LearntInvariant, Carried, IdleWorker
<1> QED
  BY <1>1, <1>2, <1>3, InitType DEF IInv

(* Every step keeps it.                                                    *)
LEMMA StepInvariant == IInv /\ [Next]_vars => IInv'
BY StepType, StepFrontier, StepShown, StepLearnt DEF IInv

ShowsMaxima == shown = [r \in Replica |-> Primaries(Maxima(seen[r]))]

(* What the devices show is what the causal notebook shows.                *)
LEMMA Displayed == IInv => ShowsMaxima
<1> SUFFICES ASSUME IInv, NEW r \in Replica PROVE shown[r] = Primaries(Maxima(seen[r]))
  BY DEF IInv, TypeOK, ShowsMaxima
<1>1. heads[r] = Maxima(seen[r])
  BY FrontierIsMaxima DEF IInv, TypeOK, FrontierInvariant
<1> QED
  BY <1>1 DEF IInv, ShownInvariant

(* A local write succeeds everything its device has seen of the note.      *)
LEMMA WrittenSucceedsAll ==
  ASSUME TypeOK, FrontierInvariant, NEW r \in Replica, NEW v, Written(r, v)
  PROVE  \A w \in OnNote(seen[r], v.note) : Dominates(v, w)
<1> SUFFICES ASSUME NEW w \in OnNote(seen[r], v.note) PROVE Dominates(v, w)
  OBVIOUS
<1>1. w \in seen[r] /\ w.note = v.note /\ w \in Version /\ v \in Version
  BY DEF OnNote, Written, TypeOK
<1>2. CASE w \in heads[r]
  BY <1>1, <1>2 DEF Written, OnNote
<1>3. CASE w \notin heads[r]
  <2>1. PICK h \in heads[r] : Dominates(h, w)
    BY <1>1, <1>3 DEF FrontierInvariant, Frontier
  <2>2. h \in Version /\ h.note = v.note
    BY <1>1, <2>1 DEF Dominates, TypeOK
  <2>3. Dominates(v, h)
    BY <2>2 DEF Written, OnNote
  <2> QED
    BY <1>1, <2>1, <2>2, <2>3, DominatesTransitive
<1> QED
  BY <1>2, <1>3

(* The operators of the instance are those of the devices.                 *)
LEMMA SameOperators ==
  /\ \A S : Abstract!Primaries(Abstract!Maxima(S)) = Primaries(Maxima(S))
  /\ \A S : Abstract!PastOf(S) = PastOf(S)
  /\ \A S, n : Abstract!OnNote(S, n) = OnNote(S, n)
  /\ \A v, w : Abstract!Dominates(v, w) <=> Dominates(v, w)
<1>1. \A S, n : Abstract!OnNote(S, n) = OnNote(S, n)
  BY DEF OnNote, Abstract!OnNote
<1>2. \A v, w : Abstract!Dominates(v, w) <=> Dominates(v, w)
  BY DEF Dominates, After, Abstract!Dominates, Abstract!After
<1>3. \A S : Abstract!PastOf(S) = PastOf(S)
  BY DEF PastOf, Abstract!PastOf
<1>4. \A S : Abstract!Maxima(S) = Maxima(S)
  BY <1>2 DEF Maxima, Abstract!Maxima
<1>5. \A v, w : Abstract!PreferredTo(v, w) <=> PreferredTo(v, w)
  BY DEF PreferredTo, Abstract!PreferredTo
<1>6. \A S : Abstract!Primaries(S) = Primaries(S)
  BY <1>1, <1>5 DEF Primaries, Abstract!Primaries
<1> QED
  BY <1>1, <1>2, <1>3, <1>4, <1>6

(* An unchanged store is a stutter; a write is a Write, and the commit of  *)
(* a page a Learn, unless the page brought nothing new.                    *)
LEMMA StepImplements ==
  IInv /\ IInv' /\ [Next]_vars => [Abstract!Next]_(Abstract!vars)
<1> SUFFICES ASSUME IInv, IInv', [Next]_vars PROVE [Abstract!Next]_(Abstract!vars)
  OBVIOUS
<1>a. ShowsMaxima /\ ShowsMaxima'
  BY Displayed, PTL
<1>0. /\ seen \in [Replica -> SUBSET Version]
      /\ Abstract!Redisplay
  BY <1>a, SameOperators DEF IInv, TypeOK, ShowsMaxima, Abstract!Redisplay
<1>1. CASE UNCHANGED <<store, seen>>
  BY <1>1 DEF store, Abstract!vars
<1>2. ASSUME NEW r \in Replica, NEW v, Written(r, v) PROVE Abstract!Next
  <2>1. seen' = [seen EXCEPT ![r] = @ \cup {v}] /\ seen'[r] = seen[r] \cup {v}
    BY <1>0, <1>2 DEF Written, Deposit
  <2>2. v.id \notin {w.id : w \in Abstract!Everywhere} /\ v \notin seen[r]
    BY <1>2 DEF Written, AllVersions, Abstract!Everywhere
  <2>3. \A w \in OnNote(seen[r], v.note) : Dominates(v, w)
    BY <1>2, WrittenSucceedsAll DEF IInv
  <2>4. Abstract!Write(r, v)
    BY <1>0, <1>2, <2>1, <2>2, <2>3, SameOperators DEF Written, Abstract!Write
  <2> QED
    BY <2>1, <2>2, <2>4 DEF Abstract!Next
<1>3. ASSUME NEW r \in Replica, NEW p \in Replica, CommitApply(r, p)
      PROVE  [Abstract!Next]_(Abstract!vars)
  <2> DEFINE S == worker[r].merged \ seen[r]
  <2>1. seen' = [seen EXCEPT ![r] = @ \cup S]
    BY <1>0, <1>3 DEF CommitApply
  <2>2. S \in SUBSET (Abstract!Everywhere \ seen[r])
    BY DEF IInv, LearntInvariant, Carried, AllVersions, Abstract!Everywhere
  <2>3. CASE S = {}
    <3>1. seen' = seen
      BY <1>0, <2>1, <2>3
    <3>2. shown' = shown
      BY <1>a, <3>1 DEF ShowsMaxima
    <3> QED
      BY <3>1, <3>2 DEF Abstract!vars
  <2>4. CASE S # {}
    <3>1. Abstract!Learn(r, S)
      BY <1>0, <2>1, <2>4 DEF Abstract!Learn
    <3> QED
      BY <2>2, <3>1 DEF Abstract!Next
  <2> QED
    BY <2>3, <2>4
<1> QED
  BY <1>1, <1>2, <1>3, StoreSteps DEF IInv

(* The devices, their stores, workers, feeds and faults implement the      *)
(* causal notebook: every version is written once, as a successor of       *)
(* everything its author had of the note, then only travels, and what a    *)
(* device shows is always the preferred unsucceeded version it has seen.   *)
THEOREM DevicesImplementCausalNotebook == Spec => ImplementsCausalNotebook
<1>1. Init => Abstract!Init
  BY DEF Init, Abstract!Init
<1> QED
  BY <1>1, InitInvariant, StepInvariant, StepImplements, PTL
  DEF Spec, ImplementsCausalNotebook, Abstract!Spec

-----------------------------------------------------------------------------
(* Clocks and knowledge *)

UniqueIds == \A v, w \in AllVersions : v.id = w.id => v = w

(* Every version is kept by its author, counts itself, and counts of the   *)
(* others only writes that exist.                                          *)
AuthorsKeep ==
  \A v \in AllVersions :
    /\ v \in seen[v.author] /\ v.clock[v.author] > 0
    /\ \A q \in Replica : v.clock[q] > 0 =>
         \E u \in AllVersions : u.note = v.note /\ u.author = q /\ u.clock[q] = v.clock[q]

(* What a version was written in knowledge of is what its clock covers.    *)
PastIsCovered ==
  \A v \in AllVersions :
    /\ v.past \subseteq {u.id : u \in AllVersions}
    /\ \A u \in AllVersions :
         u.note = v.note =>
           /\ u.id \in v.past => After(v.clock, u.clock)
           /\ v.clock[u.author] >= u.clock[u.author] => u = v \/ u.id \in v.past

CausalInvariant == UniqueIds /\ AuthorsKeep /\ PastIsCovered

(* The versions change only by the writing of one.                         *)
LEMMA VersionsChange ==
  ASSUME IInv, [Next]_vars
  PROVE  \/ AllVersions' = AllVersions
         \/ \E r \in Replica, v \in Version :
              Written(r, v) /\ AllVersions' = AllVersions \cup {v}
<1>0. seen \in [Replica -> SUBSET Version]
  BY DEF IInv, TypeOK
<1>1. CASE UNCHANGED <<store, seen>>
  BY <1>1 DEF AllVersions
<1>2. ASSUME NEW r \in Replica, NEW v, Written(r, v)
      PROVE  v \in Version /\ AllVersions' = AllVersions \cup {v}
  <2>1. seen' = [seen EXCEPT ![r] = @ \cup {v}] /\ v \in Version
    BY <1>2 DEF Written, Deposit
  <2> QED
    BY <1>0, <2>1 DEF AllVersions
<1>3. ASSUME NEW r \in Replica, NEW p \in Replica, CommitApply(r, p)
      PROVE  AllVersions' = AllVersions
  <2>1. seen' = [seen EXCEPT ![r] = @ \cup worker[r].merged]
    BY <1>3 DEF CommitApply
  <2>2. worker[r].merged \subseteq AllVersions
    BY DEF IInv, LearntInvariant, Carried
  <2> QED
    BY <1>0, <2>1, <2>2 DEF AllVersions
<1> QED
  BY <1>1, <1>2, <1>3, StoreSteps DEF IInv

(* A version is counted by the author of a new one only if the new one     *)
(* covers it, and the new one covers only what its author knew.            *)
LEMMA WrittenCovers ==
  ASSUME IInv, CausalInvariant, NEW r \in Replica, NEW v \in Version, Written(r, v),
         NEW u \in AllVersions, u.note = v.note
  PROVE  /\ u.id \in v.past => After(v.clock, u.clock)
         /\ v.clock[u.author] >= u.clock[u.author] => u.id \in v.past
         /\ u.clock[r] < v.clock[r]
         /\ v.id \notin u.past
<1> DEFINE K == OnNote(seen[r], v.note)
<1>0. /\ u \in Version /\ u.author \in Replica /\ AllVersions \subseteq Version
      /\ K \subseteq AllVersions /\ \A k \in K : k.note = v.note
      /\ r \in Replica
  BY DEF IInv, TypeOK, AllVersions, Version, OnNote
<1>1. \A w \in Version : \A q \in Replica : w.clock[q] \in Nat
  BY DEF Version, Clock
<1>2. \A k \in K : Dominates(v, k)
  BY WrittenSucceedsAll DEF IInv
<1>3. v.past = PastOf(K)
  BY DEF Written
<1>4. \A h \in OnNote(heads[r], v.note) : h \in K
  BY DEF OnNote, IInv, FrontierInvariant, Frontier
<1>5. ASSUME u.id \in v.past PROVE After(v.clock, u.clock)
  <2>1. CASE \E k \in K : u.id = k.id
    <3>1. PICK k \in K : u.id = k.id
      BY <2>1
    <3>2. u = k
      BY <1>0, <3>1 DEF CausalInvariant, UniqueIds
    <3> QED
      BY <1>2, <3>2 DEF Dominates
  <2>2. CASE \E k \in K : u.id \in k.past
    <3>1. PICK k \in K : u.id \in k.past
      BY <2>2
    <3>2. After(k.clock, u.clock)
      BY <1>0, <3>1 DEF CausalInvariant, PastIsCovered
    <3>3. Dominates(k, u) /\ Dominates(v, k) /\ k \in Version
      BY <1>0, <1>2, <3>2 DEF Dominates
    <3>4. Dominates(v, u)
      BY <1>0, <3>3, DominatesTransitive
    <3> QED
      BY <3>4 DEF Dominates
  <2> QED
    BY <1>3, <1>5, <2>1, <2>2 DEF PastOf
<1>6. ASSUME v.clock[u.author] >= u.clock[u.author] PROVE u.id \in v.past
  <2>1. CASE u.author = r
    <3>1. u \in K
      BY <2>1 DEF CausalInvariant, AuthorsKeep, OnNote
    <3> QED
      BY <1>3, <3>1 DEF PastOf
  <2>2. CASE u.author # r
    <3>1. u.clock[u.author] > 0
      BY DEF CausalInvariant, AuthorsKeep
    <3>2. v.clock[u.author] # 0
      BY <1>0, <1>1, <1>6, <3>1
    <3>3. PICK h \in OnNote(heads[r], v.note) : v.clock[u.author] = h.clock[u.author]
      BY <1>0, <2>2, <3>2 DEF Written
    <3>4. h \in K /\ h.clock[u.author] >= u.clock[u.author]
      BY <1>4, <1>6, <3>3
    <3>5. u = h \/ u.id \in h.past
      BY <1>0, <3>4 DEF CausalInvariant, PastIsCovered
    <3> QED
      BY <1>3, <3>4, <3>5 DEF PastOf
  <2> QED
    BY <2>1, <2>2
<1>7. u.clock[r] < v.clock[r]
  <2>1. CASE u.clock[r] = 0
    BY <1>1, <2>1 DEF Written
  <2>2. CASE u.clock[r] > 0
    <3>1. PICK w \in AllVersions : w.note = u.note /\ w.author = r /\ w.clock[r] = u.clock[r]
      BY <2>2 DEF CausalInvariant, AuthorsKeep
    <3>2. w \in K
      BY <3>1 DEF CausalInvariant, AuthorsKeep, OnNote
    <3>3. PICK h \in heads[r] : h = w \/ Dominates(h, w)
      BY <3>2 DEF OnNote, IInv, FrontierInvariant, Frontier
    <3>4. h \in OnNote(heads[r], v.note) /\ h \in Version /\ w \in Version
      BY <1>0, <3>2, <3>3 DEF OnNote, Dominates, IInv, TypeOK
    <3>5. h.clock[r] >= w.clock[r]
      BY <1>0, <1>1, <3>3, <3>4 DEF Dominates, After
    <3>6. v.clock[r] > h.clock[r]
      BY <3>4 DEF Written
    <3> QED
      BY <1>0, <1>1, <3>1, <3>4, <3>5, <3>6
  <2> QED
    BY <1>0, <1>1, <2>1, <2>2
<1>8. v.id \notin u.past
  BY DEF Written, CausalInvariant, PastIsCovered
<1> QED
  BY <1>5, <1>6, <1>7, <1>8

(* Every step keeps ids unique, authors in possession and pasts covered.   *)
LEMMA StepCausal == IInv /\ CausalInvariant /\ [Next]_vars => CausalInvariant'
<1> SUFFICES ASSUME IInv, CausalInvariant, [Next]_vars PROVE CausalInvariant'
  OBVIOUS
<1>0. /\ AllVersions \subseteq Version /\ \A u \in AllVersions : u.author \in Replica
      /\ \A q \in Replica : seen[q] \subseteq seen'[q]
  BY SeenGrows DEF IInv, TypeOK, AllVersions, Version
<1>1. CASE AllVersions' = AllVersions
  <2>1. UniqueIds'
    BY <1>1 DEF CausalInvariant, UniqueIds
  <2>2. AuthorsKeep'
    BY <1>0, <1>1 DEF CausalInvariant, AuthorsKeep
  <2>3. PastIsCovered'
    BY <1>1 DEF CausalInvariant, PastIsCovered
  <2> QED
    BY <2>1, <2>2, <2>3 DEF CausalInvariant
<1>2. ASSUME NEW r \in Replica, NEW v \in Version, Written(r, v),
             AllVersions' = AllVersions \cup {v}
      PROVE  CausalInvariant'
  <2>0. v.author = r /\ v.note \in Note
    BY <1>2 DEF Written, Version
  <2>1. UniqueIds'
    BY <1>2 DEF CausalInvariant, UniqueIds, Written
  <2>2. AuthorsKeep'
    <3>1. ASSUME NEW w \in AllVersions
          PROVE  /\ w \in seen'[w.author] /\ w.clock[w.author] > 0
                 /\ \A q \in Replica : w.clock[q] > 0 =>
                      \E u \in AllVersions \cup {v} :
                        u.note = w.note /\ u.author = q /\ u.clock[q] = w.clock[q]
      BY <1>0 DEF CausalInvariant, AuthorsKeep
    <3>2. v \in seen'[r] /\ v.clock[r] > 0
      BY <1>2 DEF Written, Deposit, IInv, TypeOK
    <3>3. ASSUME NEW q \in Replica, v.clock[q] > 0
          PROVE  \E u \in AllVersions \cup {v} :
                   u.note = v.note /\ u.author = q /\ u.clock[q] = v.clock[q]
      <4>1. CASE q = r
        BY <2>0, <4>1
      <4>2. CASE q # r
        <5>1. v.clock[q] # 0
          BY <3>3
        <5>2. PICK h \in OnNote(heads[r], v.note) : v.clock[q] = h.clock[q]
          BY <1>2, <4>2, <5>1 DEF Written
        <5>3. h \in AllVersions /\ h.note = v.note
          BY DEF OnNote, AllVersions, IInv, FrontierInvariant, Frontier
        <5> QED
          BY <3>3, <5>2, <5>3 DEF CausalInvariant, AuthorsKeep
      <4> QED
        BY <4>1, <4>2
    <3> QED
      BY <1>2, <2>0, <3>1, <3>2, <3>3 DEF AuthorsKeep
  <2>3. PastIsCovered'
    <3>1. v.past \subseteq {u.id : u \in AllVersions}
      <4>1. OnNote(seen[r], v.note) \subseteq AllVersions
        BY DEF OnNote, AllVersions
      <4>2. v.past = PastOf(OnNote(seen[r], v.note))
        BY <1>2 DEF Written
      <4> QED
        BY <4>1, <4>2 DEF PastOf, CausalInvariant, PastIsCovered
    <3>2. v.id \notin v.past
      BY <1>2, <3>1 DEF Written
    <3>3. ASSUME NEW w \in AllVersions, w.note = v.note
          PROVE  v.id \notin w.past /\ ~(w.clock[r] >= v.clock[r])
      <4>1. w.clock[r] < v.clock[r] /\ v.id \notin w.past
        BY <1>2, <3>3, WrittenCovers
      <4>2. w.clock[r] \in Nat /\ v.clock[r] \in Nat
        BY <1>0 DEF Version, Clock
      <4> QED
        BY <4>1, <4>2
    <3>4. ASSUME NEW w \in AllVersions \cup {v}
          PROVE  /\ w.past \subseteq {u.id : u \in AllVersions \cup {v}}
                 /\ \A u \in AllVersions \cup {v} :
                      u.note = w.note =>
                        /\ u.id \in w.past => After(w.clock, u.clock)
                        /\ w.clock[u.author] >= u.clock[u.author] => u = w \/ u.id \in w.past
      <4>1. w.past \subseteq {u.id : u \in AllVersions \cup {v}}
        BY <3>1 DEF CausalInvariant, PastIsCovered
      <4>2. ASSUME NEW u \in AllVersions \cup {v}, u.note = w.note
            PROVE  /\ u.id \in w.past => After(w.clock, u.clock)
                   /\ w.clock[u.author] >= u.clock[u.author] => u = w \/ u.id \in w.past
        <5>1. CASE u = v /\ w = v
          BY <3>2, <5>1
        <5>2. CASE u = v /\ w \in AllVersions
          BY <2>0, <3>3, <4>2, <5>2
        <5>3. CASE w = v /\ u \in AllVersions
          BY <1>2, <4>2, <5>3, WrittenCovers
        <5>4. CASE u \in AllVersions /\ w \in AllVersions
          BY <4>2, <5>4 DEF CausalInvariant, PastIsCovered
        <5> QED
          BY <5>1, <5>2, <5>3, <5>4
      <4> QED
        BY <4>1, <4>2
    <3> QED
      BY <1>2, <3>4 DEF PastIsCovered
  <2> QED
    BY <2>1, <2>2, <2>3 DEF CausalInvariant
<1> QED
  BY <1>1, <1>2, VersionsChange

(* In every reachable state the devices are of their types, heads are      *)
(* frontiers, rows show the primaries, workers carry known versions, and   *)
(* clocks cover exactly what their authors knew.                           *)
THEOREM InvariantKept == Spec => [](IInv /\ CausalInvariant)
<1>1. Init => CausalInvariant
  BY DEF Init, AllVersions, CausalInvariant, UniqueIds, AuthorsKeep, PastIsCovered
<1> QED
  BY <1>1, InitInvariant, StepInvariant, StepCausal, PTL DEF Spec

(* Clocks order exactly the edits made in knowledge of each other, on any  *)
(* number of devices, although a merge is only the pointwise maximum and   *)
(* versions are lost, repeated and reordered on their way.                 *)
THEOREM ClocksAreAlwaysCausal == Spec => []ClocksAreCausal
<1>1. IInv /\ CausalInvariant => ClocksAreCausal
  <2> SUFFICES ASSUME IInv, CausalInvariant, NEW v \in AllVersions, NEW w \in AllVersions,
                      v.note = w.note
               PROVE  /\ After(w.clock, v.clock) <=> v.id \in w.past
                      /\ v.clock = w.clock => v = w
    BY DEF ClocksAreCausal
  <2>1. v \in Version /\ w \in Version /\ v.author \in Replica
    BY DEF IInv, TypeOK, AllVersions, Version
  <2>2. ~After(v.clock, v.clock) /\ v.clock[v.author] \in Nat
    BY <2>1 DEF After, Version, Clock
  <2>3. /\ v.id \in w.past => After(w.clock, v.clock)
        /\ w.clock[v.author] >= v.clock[v.author] => v = w \/ v.id \in w.past
    BY DEF CausalInvariant, PastIsCovered
  <2>4. ASSUME After(w.clock, v.clock) PROVE v.id \in w.past
    BY <2>1, <2>2, <2>3, <2>4 DEF After
  <2>5. ASSUME v.clock = w.clock PROVE v = w
    BY <2>1, <2>2, <2>3, <2>5
  <2> QED
    BY <2>3, <2>4, <2>5
<1> QED
  BY <1>1, InvariantKept, PTL

-----------------------------------------------------------------------------
(* Rows and revisions *)

(* Of some versions one has the smallest id.                               *)
LEMMA SmallestId ==
  ASSUME NEW T \in SUBSET Version, T # {}
  PROVE  \E v \in T : \A w \in T : ~ (w.id < v.id)
<1> DEFINE R == OpToRel(<, Nat)
           I == {v.id : v \in T}
<1>1. I \subseteq Nat /\ I # {}
  BY IdAssumption DEF Version
<1>2. IsWellFoundedOn(R, Nat)
  BY NatLessThanWellFounded
<1>3. \E x \in I : \A y \in I : ~ (<<y, x>> \in R)
  <2> HIDE DEF R, I
  <2> QED
    BY <1>1, <1>2, WFMin
<1>4. \A x \in Nat, y \in Nat : <<y, x>> \in R <=> y < x
  BY DEF OpToRel
<1> QED
  BY <1>1, <1>3, <1>4

(* A note that has heads has a primary, if no two have the same id.        *)
LEMMA PrimaryExists ==
  ASSUME NEW H \in SUBSET Version, \A v, w \in H : v.id = w.id => v = w,
         NEW n, OnNote(H, n) # {}
  PROVE  \E v \in Primaries(H) : v.note = n
<1> DEFINE N == OnNote(H, n)
           L == {v \in N : ~v.trashed}
           T == IF L # {} THEN L ELSE N
<1>0. N \subseteq H /\ \A v \in N : v.note = n
  BY DEF OnNote
<1>1. T \in SUBSET Version /\ T # {} /\ T \subseteq N
  BY <1>0
<1>2. PICK v \in T : \A w \in T : ~ (w.id < v.id)
  BY <1>1, SmallestId
<1>3. v \in H /\ v.note = n /\ OnNote(H, v.note) = N
  BY <1>0, <1>1
<1>4. ASSUME NEW w \in N, w # v PROVE PreferredTo(v, w)
  <2>1. w.id # v.id /\ w.id \in Nat /\ v.id \in Nat
    BY <1>0, <1>3, <1>4, IdAssumption DEF Version
  <2>2. CASE w \in T
    <3>1. v.id < w.id
      BY <1>2, <2>1, <2>2
    <3>2. v.trashed = w.trashed
      <4>1. v.trashed \in BOOLEAN /\ w.trashed \in BOOLEAN
        BY <1>0, <1>3 DEF Version
      <4> QED
        BY <2>2, <4>1
    <3> QED
      BY <3>1, <3>2 DEF PreferredTo
  <2>3. CASE w \notin T
    <3>1. L # {} /\ w.trashed /\ ~v.trashed
      BY <2>3
    <3> QED
      BY <3>1 DEF PreferredTo
  <2> QED
    BY <2>2, <2>3
<1> QED
  BY <1>3, <1>4 DEF Primaries

(* A frontier forgets no note.                                             *)
LEMMA FrontierCovers ==
  ASSUME NEW H, NEW S, Frontier(H, S), NEW n, OnNote(S, n) # {}
  PROVE  OnNote(H, n) # {}
<1>1. PICK v \in S : v.note = n
  BY DEF OnNote
<1>2. \E h \in H : h.note = n
  BY <1>1 DEF Frontier, Dominates
<1> QED
  BY <1>2 DEF OnNote

(* What a step does to the heads and the revision of one note.             *)
NoteStep(r, n) ==
  \/ /\ revision'[r][n] = revision[r][n]
     /\ OnNote(heads'[r], n) = OnNote(heads[r], n)
  \/ /\ revision'[r][n] = revision[r][n] + 1
     /\ OnNote(heads'[r], n) # OnNote(heads[r], n)
     /\ OnNote(heads'[r], n) # {}

(* What a step does to a note's heads and what to its revision.            *)
LEMMA StepNote ==
  ASSUME IInv, [Next]_vars, NEW r \in Replica, NEW n \in Note
  PROVE  NoteStep(r, n)
<1>0. /\ heads \in [Replica -> SUBSET Version] /\ revision \in [Replica -> [Note -> Nat]]
      /\ Frontier(heads[r], seen[r]) /\ seen[r] \subseteq AllVersions
  BY DEF IInv, TypeOK, FrontierInvariant, AllVersions
<1>1. CASE UNCHANGED <<store, seen>>
  BY <1>1 DEF store, NoteStep
<1>2. ASSUME NEW q \in Replica, NEW v, Written(q, v) PROVE NoteStep(r, n)
  <2>1. /\ heads' = [heads EXCEPT ![q] = {h \in @ : h.note # v.note} \cup {v}]
        /\ revision' = [revision EXCEPT ![q][v.note] = @ + 1]
        /\ v.note \in Note
    BY <1>2 DEF Written, Deposit, Version
  <2>2. CASE q # r \/ n # v.note
    <3>1. revision'[r][n] = revision[r][n]
      BY <1>0, <2>1, <2>2
    <3>2. OnNote(heads'[r], n) = OnNote(heads[r], n)
      BY <1>0, <2>1, <2>2 DEF OnNote
    <3> QED
      BY <3>1, <3>2 DEF NoteStep
  <2>3. CASE q = r /\ n = v.note
    <3>1. revision'[r][n] = revision[r][n] + 1
      BY <1>0, <2>1, <2>3
    <3>2. v \in OnNote(heads'[r], n)
      BY <1>0, <2>1, <2>3 DEF OnNote
    <3>3. v \notin OnNote(heads[r], n)
      BY <1>0, <1>2 DEF Written, OnNote, Frontier
    <3> QED
      BY <3>1, <3>2, <3>3 DEF NoteStep
  <2> QED
    BY <2>2, <2>3
<1>3. ASSUME NEW q \in Replica, NEW p \in Replica, CommitApply(q, p) PROVE NoteStep(r, n)
  <2>1. /\ heads' = [heads EXCEPT ![q] = worker[q].staged]
        /\ revision' = [revision EXCEPT
             ![q] = [m \in Note |-> IF m \in ChangedNotes(q) THEN @[m] + 1 ELSE @[m]]]
        /\ worker[q].phase = "merge"
    BY <1>3 DEF CommitApply
  <2>2. CASE q # r
    BY <1>0, <2>1, <2>2 DEF NoteStep
  <2>3. CASE q = r /\ n \notin ChangedNotes(r)
    BY <1>0, <2>1, <2>3 DEF NoteStep, ChangedNotes
  <2>4. CASE q = r /\ n \in ChangedNotes(r)
    <3>1. OnNote(worker[r].staged, n) # OnNote(heads[r], n)
      BY <2>4 DEF ChangedNotes
    <3>2. Frontier(worker[r].staged, seen[r] \cup worker[r].merged)
      BY <2>1, <2>4 DEF IInv, FrontierInvariant
    <3>3. OnNote(worker[r].staged, n) # {}
      <4>1. CASE OnNote(heads[r], n) = {}
        BY <3>1, <4>1
      <4>2. CASE OnNote(heads[r], n) # {}
        <5>1. OnNote(seen[r] \cup worker[r].merged, n) # {}
          BY <1>0, <4>2 DEF OnNote, Frontier
        <5> QED
          BY <3>2, <5>1, FrontierCovers
      <4> QED
        BY <4>1, <4>2
    <3>4. heads'[r] = worker[r].staged /\ revision'[r][n] = revision[r][n] + 1
      BY <1>0, <2>1, <2>4
    <3> QED
      BY <3>1, <3>3, <3>4 DEF NoteStep
  <2> QED
    BY <2>2, <2>3, <2>4
<1> QED
  BY <1>1, <1>2, <1>3, StoreSteps DEF IInv

(* Revisions only grow, and exactly with the heads: receiving what is      *)
(* known already is no edit, and no edit goes without a new revision.      *)
THEOREM RevisionsFollowHeads == Spec => RevisionFollowsHeads
<1>1. IInv /\ [Next]_vars =>
        [\A r \in Replica, n \in Note :
           /\ revision'[r][n] >= revision[r][n]
           /\ (revision'[r][n] = revision[r][n]) <=>
                (OnNote(heads'[r], n) = OnNote(heads[r], n))]_vars
  <2> SUFFICES ASSUME IInv, [Next]_vars, NEW r \in Replica, NEW n \in Note
               PROVE  /\ revision'[r][n] >= revision[r][n]
                      /\ (revision'[r][n] = revision[r][n]) <=>
                           (OnNote(heads'[r], n) = OnNote(heads[r], n))
    OBVIOUS
  <2>1. revision[r][n] \in Nat
    BY DEF IInv, TypeOK
  <2>2. NoteStep(r, n)
    BY StepNote
  <2> QED
    BY <2>1, <2>2 DEF NoteStep
<1> QED
  BY <1>1, InvariantKept, PTL DEF Spec, RevisionFollowsHeads

(* A note has a revision when it has heads.                                *)
RevisionInvariant ==
  \A r \in Replica, n \in Note : (revision[r][n] > 0) <=> (OnNote(heads[r], n) # {})

(* A note has a revision exactly while it has heads.                       *)
LEMMA StepRevision == IInv /\ RevisionInvariant /\ [Next]_vars => RevisionInvariant'
<1> SUFFICES ASSUME IInv, RevisionInvariant, [Next]_vars, NEW r \in Replica, NEW n \in Note
             PROVE  (revision'[r][n] > 0) <=> (OnNote(heads'[r], n) # {})
  BY DEF RevisionInvariant
<1>1. revision[r][n] \in Nat /\ NoteStep(r, n)
  BY StepNote DEF IInv, TypeOK
<1> QED
  BY <1>1 DEF RevisionInvariant, NoteStep

(* Every note with heads has a row, with a revision and the content of the *)
(* one version that all devices prefer among these heads.                  *)
THEOREM RowsAlwaysMatchHeads == Spec => []RowsMatchHeads
<1>1. Init => RevisionInvariant
  BY DEF Init, RevisionInvariant, OnNote
<1>2. IInv /\ CausalInvariant /\ RevisionInvariant => RowsMatchHeads
  <2> SUFFICES ASSUME IInv, CausalInvariant, RevisionInvariant, NEW r \in Replica
               PROVE  /\ shown[r] = Primaries(heads[r])
                      /\ \A n \in Note : (revision[r][n] > 0) <=> (\E s \in shown[r] : s.note = n)
    BY DEF RowsMatchHeads
  <2>1. shown[r] = Primaries(heads[r])
    BY DEF IInv, ShownInvariant
  <2>2. heads[r] \in SUBSET Version /\ \A v, w \in heads[r] : v.id = w.id => v = w
    <3>1. heads[r] \subseteq AllVersions
      BY DEF IInv, FrontierInvariant, Frontier, AllVersions
    <3> QED
      BY <3>1 DEF IInv, TypeOK, CausalInvariant, UniqueIds
  <2>3. ASSUME NEW n \in Note
        PROVE  (revision[r][n] > 0) <=> (\E s \in shown[r] : s.note = n)
    <3>1. (revision[r][n] > 0) <=> (OnNote(heads[r], n) # {})
      BY DEF RevisionInvariant
    <3>2. OnNote(heads[r], n) # {} => \E s \in Primaries(heads[r]) : s.note = n
      BY <2>2, PrimaryExists
    <3>3. \A s \in Primaries(heads[r]) : s.note = n => s \in OnNote(heads[r], n)
      BY DEF Primaries, OnNote
    <3> QED
      BY <2>1, <3>1, <3>2, <3>3
  <2> QED
    BY <2>1, <2>3
<1> QED
  BY <1>1, <1>2, InvariantKept, StepRevision, PTL DEF Spec

-----------------------------------------------------------------------------
(* What the page has read *)

(* While the page has the revision of the store, it has read what the row  *)
(* shows, and all heads of the note once it has listed them.               *)
EditorKnows(r) ==
  LET e == editor[r] IN
  e.state # "closed" =>
    /\ e.revision <= revision[r][e.note]
    /\ e.state = "open" /\ RevisionMatches(r) => OnNote(shown[r], e.note) \subseteq e.read
    /\ e.state = "listed" /\ RevisionMatches(r) => OnNote(heads[r], e.note) \subseteq e.read

EditorInvariant == \A r \in Replica : EditorKnows(r)

(* An open page has all its fields.                                        *)
LEMMA EditorIsTyped ==
  ASSUME TypeOK, NEW r \in Replica, editor[r].state # "closed"
  PROVE  editor[r] \in OpenEditorType
BY DEF TypeOK, EditorType, NoEditor

(* The primary of a note depends on its heads only.                        *)
LEMMA PrimaryOfNote ==
  ASSUME NEW H, NEW G, NEW n, OnNote(H, n) = OnNote(G, n)
  PROVE  OnNote(Primaries(H), n) = OnNote(Primaries(G), n)
<1>1. \A h : h \in OnNote(H, n) <=> h \in OnNote(G, n)
  OBVIOUS
<1>2. \A h : h \in H /\ h.note = n <=> h \in G /\ h.note = n
  BY <1>1 DEF OnNote
<1> QED
  BY <1>2 DEF Primaries, OnNote

(* A page that is left alone still knows what it knew.                     *)
LEMMA EditorStays ==
  ASSUME IInv, IInv', [Next]_vars, NEW r \in Replica, EditorKnows(r), editor'[r] = editor[r]
  PROVE  EditorKnows(r)'
<1> SUFFICES ASSUME editor[r].state # "closed" PROVE EditorKnows(r)'
  BY DEF EditorKnows
<1> DEFINE n == editor[r].note
<1>1. n \in Note /\ editor[r].revision \in Nat /\ revision[r][n] \in Nat
  BY EditorIsTyped DEF IInv, TypeOK, OpenEditorType
<1>2. NoteStep(r, n)
  BY <1>1, StepNote
<1>3. CASE revision'[r][n] = revision[r][n] + 1
  <2>1. editor[r].revision <= revision[r][n]
    BY DEF EditorKnows
  <2>2. editor'[r].revision < revision'[r][n]
    BY <1>1, <1>3, <2>1
  <2>3. editor'[r].revision <= revision'[r][n] /\ editor'[r].revision # revision'[r][n]
    BY <1>1, <1>3, <2>2
  <2> QED
    BY <2>3 DEF EditorKnows, RevisionMatches
<1>4. CASE /\ revision'[r][n] = revision[r][n]
           /\ OnNote(heads'[r], n) = OnNote(heads[r], n)
  <2>1. shown[r] = Primaries(heads[r]) /\ shown'[r] = Primaries(heads'[r])
    BY DEF IInv, ShownInvariant
  <2>2. OnNote(shown'[r], n) = OnNote(shown[r], n)
    BY <1>4, <2>1, PrimaryOfNote
  <2> QED
    BY <1>4, <2>2 DEF EditorKnows, RevisionMatches
<1> QED
  BY <1>2, <1>3, <1>4 DEF NoteStep

(* What the user's own steps leave the page with.                          *)
LEMMA UserEditor ==
  ASSUME IInv, IInv', [Next]_vars, NEW r \in Replica, UserStep(r), EditorKnows(r)
  PROVE  EditorKnows(r)' /\ \A q \in Replica \ {r} : editor'[q] = editor[q]
<1>0. editor \in [Replica -> EditorType] /\ revision \in [Replica -> [Note -> Nat]]
  BY DEF IInv, TypeOK
<1>1. ASSUME NEW n \in Note, OpenNote(r, n)
      PROVE  EditorKnows(r)' /\ \A q \in Replica \ {r} : editor'[q] = editor[q]
  <2>1. /\ editor'[r] = [state |-> "open", note |-> n, revision |-> revision[r][n],
                         read |-> OnNote(shown[r], n)]
        /\ \A q \in Replica \ {r} : editor'[q] = editor[q]
        /\ UNCHANGED store
    BY <1>0, <1>1 DEF OpenNote
  <2>2. revision[r][n] <= revision[r][n]
    BY <1>0
  <2> QED
    BY <2>1, <2>2 DEF store, EditorKnows, RevisionMatches
<1>2. CASE ListConflicts(r)
  <2>1. editor[r] \in OpenEditorType
    BY <1>2, EditorIsTyped DEF IInv, ListConflicts
  <2>2. editor' = [editor EXCEPT ![r].state = "listed",
                                 ![r].read = @ \cup OnNote(heads[r], editor[r].note)]
    BY <1>2 DEF ListConflicts
  <2>3. /\ editor'[r].state = "listed" /\ editor'[r].note = editor[r].note
        /\ editor'[r].revision = editor[r].revision
        /\ editor'[r].read = editor[r].read \cup OnNote(heads[r], editor[r].note)
        /\ \A q \in Replica \ {r} : editor'[q] = editor[q]
    BY <1>0, <2>1, <2>2 DEF OpenEditorType
  <2>4. UNCHANGED store /\ editor[r].state # "closed"
    BY <1>2 DEF ListConflicts
  <2> QED
    BY <2>3, <2>4 DEF store, EditorKnows
<1>3. CASE Save(r)
  <2>1. editor[r] \in OpenEditorType
    BY <1>3, EditorIsTyped DEF IInv, Save
  <2>2. editor' = [editor EXCEPT ![r].state = "saving", ![r].read = seen'[r] \ seen[r]]
    BY <1>3 DEF Save
  <2>3. /\ editor'[r].state = "saving" /\ editor'[r].note = editor[r].note
        /\ editor'[r].revision = editor[r].revision
        /\ \A q \in Replica \ {r} : editor'[q] = editor[q]
    BY <1>0, <2>1, <2>2 DEF OpenEditorType
  <2>4. editor[r].note \in Note /\ editor[r].revision \in Nat
        /\ revision[r][editor[r].note] \in Nat
    BY <1>0, <2>1 DEF OpenEditorType
  <2>5. editor[r].revision <= revision[r][editor[r].note]
    BY <1>3 DEF EditorKnows, Save
  <2>6. editor[r].revision <= revision'[r][editor[r].note]
    BY <2>4, <2>5, StepNote DEF NoteStep
  <2> QED
    BY <2>3, <2>6 DEF EditorKnows
<1>4. CASE SaveReply(r)
  <2> DEFINE n == editor[r].note
  <2>1. editor[r] \in OpenEditorType
    BY <1>4, EditorIsTyped DEF IInv, SaveReply
  <2>2. PICK s \in {"open", "ahead"} :
          /\ editor' = [editor EXCEPT ![r].state = s, ![r].revision = revision[r][n]]
          /\ s = "open" => OnNote(heads[r], n) = editor[r].read
    BY <1>4 DEF SaveReply
  <2>3. /\ editor'[r].state = s /\ editor'[r].note = n
        /\ editor'[r].revision = revision[r][n] /\ editor'[r].read = editor[r].read
        /\ \A q \in Replica \ {r} : editor'[q] = editor[q]
    BY <1>0, <2>1, <2>2 DEF OpenEditorType
  <2>4. OnNote(shown[r], n) \subseteq OnNote(heads[r], n)
    BY DEF IInv, ShownInvariant, Primaries, OnNote
  <2>5. UNCHANGED store /\ n \in Note /\ revision[r][n] \in Nat
    BY <1>0, <1>4, <2>1 DEF SaveReply, OpenEditorType
  <2>6. revision[r][n] <= revision[r][n]
    BY <2>5
  <2> QED
    BY <2>2, <2>3, <2>4, <2>5, <2>6 DEF store, EditorKnows
<1>5. CASE TrashOrRestore(r) \/ Resolve(r) \/ \E n \in Note : Create(r, n)
  <2>1. editor' = [editor EXCEPT ![r] = NoEditor]
    BY <1>5 DEF TrashOrRestore, Resolve, Create, CloseEditor
  <2> QED
    BY <1>0, <2>1 DEF NoEditor, EditorKnows
<1>6. ASSUME NEW on \in BOOLEAN, NEW peers \in SUBSET Replica, UpdateSettings(r, on, peers)
      PROVE  EditorKnows(r)' /\ \A q \in Replica \ {r} : editor'[q] = editor[q]
  BY <1>6, EditorStays DEF UpdateSettings
<1> QED
  BY <1>1, <1>2, <1>3, <1>4, <1>5, <1>6 DEF UserStep

(* A page knows what its revision stands for after every step.             *)
LEMMA StepEditor ==
  IInv /\ IInv' /\ EditorInvariant /\ [Next]_vars => EditorInvariant'
<1> SUFFICES ASSUME IInv, IInv', EditorInvariant, [Next]_vars, NEW q \in Replica
             PROVE  EditorKnows(q)'
  BY DEF EditorInvariant
<1>1. CASE editor'[q] = editor[q]
  BY <1>1, EditorStays DEF EditorInvariant
<1>2. CASE Settle
  BY <1>2 DEF Settle, NoEditor, EditorKnows
<1>3. ASSUME NEW r \in Replica, UserStep(r) PROVE EditorKnows(q)'
  BY <1>1, <1>3, UserEditor DEF EditorInvariant
<1>4. ASSUME NEW r \in Replica, WorkerStep(r) PROVE editor' = editor
  BY <1>4
  DEF WorkerStep, StartRound, EndRound, MergeNext, SkipPeer, VisitPeer, SendRequest, Admit,
      ServePage, BeginApply, AbortApply, CommitApply
<1>5. ASSUME NEW r \in Replica, FaultStep(r) \/ \E p \in Replica : RetryDue(r, p)
      PROVE  editor' = editor
  BY <1>5 DEF FaultStep, DiscoveryFails, Restart, PeerUnavailable, RequestFails, RetryDue
<1> QED
  BY <1>1, <1>2, <1>3, <1>4, <1>5 DEF Next, vars

(* A write of the page replaces only versions that the page has read, but  *)
(* for the saves that follow a reply whose content it did not take over.   *)
THEOREM EditsReplaceWhatWasRead == Spec => WritesReplaceWhatWasRead
<1>1. Init => EditorInvariant
  BY DEF Init, EditorInvariant, EditorKnows, NoEditor
<1>2. IInv /\ EditorInvariant /\ [Next]_vars =>
        [\A r \in Replica :
           (\E v \in seen'[r] : v \notin AllVersions) =>
             \/ heads[r] \ heads'[r] \subseteq editor[r].read
             \/ editor[r].state = "ahead"]_vars
  <2> SUFFICES ASSUME IInv, EditorInvariant, [Next]_vars, NEW r \in Replica,
                      NEW u \in seen'[r], u \notin AllVersions, editor[r].state # "ahead"
               PROVE  heads[r] \ heads'[r] \subseteq editor[r].read
    OBVIOUS
  <2>0. seen \in [Replica -> SUBSET Version] /\ heads \in [Replica -> SUBSET Version]
    BY DEF IInv, TypeOK
  <2>1. seen'[r] # seen[r]
    BY DEF AllVersions
  <2>2. ASSUME NEW q \in Replica, NEW p \in Replica, CommitApply(q, p) PROVE FALSE
    <3>1. seen' = [seen EXCEPT ![q] = @ \cup worker[q].merged]
      BY <2>2 DEF CommitApply
    <3>2. worker[q].merged \subseteq AllVersions
      BY DEF IInv, LearntInvariant, Carried
    <3> QED
      BY <2>0, <3>1, <3>2 DEF AllVersions
  <2>3. PICK q \in Replica : \E v : Written(q, v)
    BY <2>1, <2>2, StoreSteps DEF IInv
  <2>4. PICK v : Written(q, v)
    BY <2>3
  <2>5. q = r
    BY <2>0, <2>1, <2>4 DEF Written, Deposit
  <2>6. heads[r] \ heads'[r] \subseteq OnNote(heads[r], v.note)
    BY <2>0, <2>4, <2>5 DEF Written, Deposit, OnNote
  <2>7. CASE OnNote(heads[r], v.note) = {}
    BY <2>6, <2>7
  <2>8. CASE Chosen(r, v.note)
    <3>1. editor[r].note = v.note /\ RevisionMatches(r) /\ EditorKnows(r)
      BY <2>8 DEF Chosen, EditorInvariant
    <3>2. CASE editor[r].state = "listed"
      BY <2>6, <3>1, <3>2 DEF EditorKnows
    <3>3. CASE editor[r].state = "open"
      <4>1. PICK h \in heads[r] : OnNote(heads[r], v.note) = {h}
        BY <2>8, <3>3 DEF Chosen
      <4>2. h.note = v.note
        BY <4>1 DEF OnNote
      <4>3. h \in OnNote(shown[r], v.note)
        BY <4>1, <4>2 DEF IInv, ShownInvariant, Primaries, OnNote
      <4>4. OnNote(shown[r], v.note) \subseteq editor[r].read
        BY <3>1, <3>3 DEF EditorKnows
      <4> QED
        BY <2>6, <4>1, <4>3, <4>4
    <3> QED
      BY <2>8, <3>2, <3>3 DEF Chosen
  <2> QED
    BY <2>4, <2>5, <2>7, <2>8 DEF Written
<1> QED
  BY <1>1, <1>2, InvariantKept, StepEditor, PTL DEF Spec, WritesReplaceWhatWasRead

-----------------------------------------------------------------------------
(* The traversal of a feed *)

(* What of the versions that p held when the traversal began it still has. *)
Held(r, p) == sweep[r][p].held \cap heads[p]

Asking(r, p) == p \in worker[r].peer /\ worker[r].phase \in {"sent", "admitted", "received", "merge"}

Answered(r, p) == p \in worker[r].peer /\ worker[r].phase \in {"received", "merge"}

Merging(r, p) == p \in worker[r].peer /\ worker[r].phase = "merge"

(* The page that was answered leaves nothing out before its next cursor.   *)
PageCovers(r, p) ==
  \A v \in Held(r, p) :
    \/ v \in seen[r] \cup Carried(r)
    \/ worker[r].next # NoCursor /\ KeyLess(worker[r].next, Key(v))

(* The cursor of a peer is not past anything missing, and a request goes   *)
(* on from this cursor unless the settings have reset it since.            *)
SweepHolds(r, p) ==
  /\ sweep[r][p].held \subseteq seen[p]
  /\ <<r, p>> \notin Observed => sweep[r][p].held = {}
  /\ \A q \in worker[r].peer : p \in worker[r].peer => q = p
  /\ Asking(r, p) => progress[r][p].cursor \in {worker[r].cursor, NoCursor}
  /\ Answered(r, p) /\ progress[r][p].cursor = worker[r].cursor => PageCovers(r, p)
  /\ Merging(r, p) => progress[r][p].cursor = worker[r].cursor
  /\ \A v \in Held(r, p) :
       \/ v \in seen[r]
       \/ ~sweep[r][p].done /\ KeyLess(progress[r][p].cursor, Key(v))

SweepInvariant == \A r, p \in Replica : SweepHolds(r, p)

(* The steps that take no page of the feed: at most the cursor is reset    *)
(* and the visit ended, or the page goes from hand to hand.                *)
Calm(r, p) ==
  /\ sweep'[r][p] = sweep[r][p]
  /\ progress'[r][p].cursor \in {progress[r][p].cursor, NoCursor}
  /\ Merging(r, p)' => progress'[r][p].cursor = worker'[r].cursor
  /\ \/ /\ worker'[r].phase \in {"idle", "round", "request"}
        /\ worker'[r].peer \subseteq worker[r].peer \/ \E x : worker'[r].peer = {x}
     \/ /\ worker'[r].peer = worker[r].peer /\ worker'[r].cursor = worker[r].cursor
        /\ worker[r].phase \in {"sent", "admitted", "received", "merge"}
        /\ worker'[r].phase \in {"received", "merge"} =>
             /\ worker[r].phase \in {"received", "merge"}
             /\ worker'[r].next = worker[r].next
             /\ Carried(r) \subseteq Carried(r)'

(* No superseded version is a head again.                                  *)
LEMMA HeldShrinks ==
  ASSUME IInv, IInv', [Next]_vars, NEW p \in Replica, NEW H, H \subseteq seen[p]
  PROVE  H \cap heads'[p] \subseteq heads[p]
<1>1. heads[p] = Maxima(seen[p])
  BY FrontierIsMaxima DEF IInv, TypeOK, FrontierInvariant
<1>2. heads'[p] = Maxima(seen'[p])
  <2>1. seen'[p] \in SUBSET Version /\ Frontier(heads'[p], seen'[p])
    BY DEF IInv, TypeOK, FrontierInvariant
  <2> QED
    BY <2>1, FrontierIsMaxima
<1>3. seen[p] \subseteq seen'[p]
  BY SeenGrows DEF IInv
<1> QED
  BY <1>1, <1>2, <1>3 DEF Maxima

(* Every version comes after the start of the feed.                        *)
LEMMA AfterNoCursor ==
  ASSUME NEW v \in Version PROVE KeyLess(NoCursor, Key(v)) /\ Key(v) # NoCursor
<1>1. v.note \in Nat /\ v.note # 0
  BY IdAssumption DEF Version
<1>2. NoCursor[1] = 0 /\ Key(v)[1] = v.note
  BY DEF NoCursor, Key
<1>3. 0 < v.note
  BY <1>1
<1> QED
  BY <1>1, <1>2, <1>3 DEF KeyLess

(* Steps that take no page leave a traversal as complete as it was.        *)
LEMMA CalmKeeps ==
  ASSUME IInv, IInv', [Next]_vars, NEW r \in Replica, NEW p \in Replica,
         SweepHolds(r, p), Calm(r, p)
  PROVE  SweepHolds(r, p)'
<1>1. seen[p] \subseteq seen'[p] /\ seen[r] \subseteq seen'[r]
  BY SeenGrows DEF IInv
<1>2. sweep'[r][p].held \cap heads'[p] \subseteq Held(r, p)
  BY HeldShrinks DEF SweepHolds, Calm, Held
<1>3. heads[p] \subseteq Version
  BY DEF IInv, TypeOK
<1>4. \A q \in worker'[r].peer : p \in worker'[r].peer => q = p
  BY DEF SweepHolds, Calm
<1>5. Asking(r, p)' => progress'[r][p].cursor \in {worker'[r].cursor, NoCursor}
  BY DEF SweepHolds, Calm, Asking
<1>6. ASSUME Answered(r, p)', progress'[r][p].cursor = worker'[r].cursor
      PROVE  PageCovers(r, p)'
  <2>1. /\ Answered(r, p) /\ worker'[r].cursor = worker[r].cursor
        /\ worker'[r].next = worker[r].next /\ Carried(r) \subseteq Carried(r)'
    BY <1>6 DEF Answered, Calm
  <2>2. progress[r][p].cursor = worker[r].cursor
    <3>1. CASE progress'[r][p].cursor = progress[r][p].cursor
      BY <1>6, <2>1, <3>1
    <3>2. CASE progress'[r][p].cursor = NoCursor
      <4>1. progress[r][p].cursor \in {worker[r].cursor, NoCursor}
        BY <2>1 DEF SweepHolds, Asking, Answered
      <4> QED
        BY <1>6, <2>1, <3>2, <4>1
    <3> QED
      BY <3>1, <3>2 DEF Calm
  <2>3. PageCovers(r, p)
    BY <2>1, <2>2 DEF SweepHolds
  <2> QED
    BY <1>1, <1>2, <2>1, <2>3 DEF PageCovers, Held
<1>7. ASSUME NEW v \in Held(r, p)'
      PROVE  \/ v \in seen'[r]
             \/ ~sweep'[r][p].done /\ KeyLess(progress'[r][p].cursor, Key(v))
  <2>1. v \in Held(r, p) /\ v \in Version
    BY <1>2, <1>3, <1>7 DEF Held
  <2> QED
    BY <1>1, <2>1, AfterNoCursor DEF SweepHolds, Calm
<1>8. sweep'[r][p].held \subseteq seen'[p]
  BY <1>1 DEF SweepHolds, Calm
<1> QED
  BY <1>4, <1>5, <1>6, <1>7, <1>8 DEF SweepHolds, Calm

(* Steps of other devices and of the user.                                 *)
LEMMA UntouchedIsCalm ==
  ASSUME TypeOK, NEW r \in Replica, NEW p \in Replica, SweepHolds(r, p),
         worker'[r] = worker[r], sweep'[r][p] = sweep[r][p],
         \/ progress'[r][p].cursor = progress[r][p].cursor
         \/ progress'[r][p].cursor = NoCursor /\ worker[r].phase # "merge"
  PROVE  Calm(r, p)
<1>1. worker[r].phase \in {"idle", "round", "request", "sent", "admitted", "received", "merge"}
  BY DEF TypeOK, WorkerType
<1>2. Merging(r, p)' => progress'[r][p].cursor = worker'[r].cursor
  BY DEF Merging, SweepHolds
<1>3. Carried(r)' = Carried(r)
  BY DEF Carried
<1> QED
  BY <1>1, <1>2, <1>3 DEF Calm

(* A failure moves no cursor.                                              *)
LEMMA FailedKeepsCursors ==
  ASSUME TypeOK, NEW q \in Replica, NEW b \in Replica, progress' = Failed(q, b)
  PROVE  \A r, p \in Replica : progress'[r][p].cursor = progress[r][p].cursor
<1>1. CASE ~Current(q, b)
  BY <1>1 DEF Failed
<1>2. CASE Current(q, b)
  <2>1. progress' = [progress EXCEPT ![q][b].backoff = TRUE]
    BY <1>2 DEF Failed
  <2> SUFFICES ASSUME NEW r \in Replica, NEW p \in Replica
               PROVE  progress'[r][p].cursor = progress[r][p].cursor
    OBVIOUS
  <2>2. progress[r] \in [Replica -> ProgressType] /\ progress[r][p] \in ProgressType
    BY DEF TypeOK
  <2>3. CASE r = q /\ p = b
    <3>1. progress'[r][p] = [progress[r][p] EXCEPT !.backoff = TRUE]
      BY <2>1, <2>2, <2>3 DEF TypeOK
    <3> QED
      BY <2>2, <3>1 DEF ProgressType
  <2>4. CASE ~(r = q /\ p = b)
    BY <2>1, <2>2, <2>4 DEF TypeOK
  <2> QED
    BY <2>3, <2>4
<1> QED
  BY <1>1, <1>2

(* The end of a visit.                                                     *)
LEMMA LeavingIsCalm ==
  ASSUME TypeOK, NEW r \in Replica, NEW p \in Replica, SweepHolds(r, p),
         ToNextPeer(r) \/ worker' = [worker EXCEPT ![r] = IdleWorker],
         sweep' = sweep, progress'[r][p].cursor = progress[r][p].cursor
  PROVE  Calm(r, p)
<1>1. CASE ToNextPeer(r)
  <2>1. worker'[r].phase = "round" /\ worker'[r].peer = {}
    <3>1. worker'[r] = [IdleWorker EXCEPT !.phase = "round", !.gen = worker[r].gen,
                                          !.todo = worker[r].todo]
      BY <1>1 DEF ToNextPeer, TypeOK
    <3> QED
      BY <3>1 DEF IdleWorker
  <2> QED
    BY <2>1 DEF Calm, Merging
<1>2. CASE worker' = [worker EXCEPT ![r] = IdleWorker]
  <2>1. worker'[r].phase = "idle" /\ worker'[r].peer = {}
    BY <1>2 DEF IdleWorker, TypeOK
  <2> QED
    BY <2>1 DEF Calm, Merging
<1> QED
  BY <1>1, <1>2

(* A request that starts a traversal starts it before everything.          *)
LEMMA SendKeeps ==
  ASSUME IInv, IInv', [Next]_vars, NEW r \in Replica, NEW a \in Replica, SendRequest(r, a),
         \A p \in Replica : SweepHolds(r, p)
  PROVE  \A p \in Replica : SweepHolds(r, p)'
<1> SUFFICES ASSUME NEW p \in Replica PROVE SweepHolds(r, p)'
  OBVIOUS
<1>0. UNCHANGED <<store, progress, seen, sweep>> /\ a \in worker[r].peer /\ SweepHolds(r, p)
  BY DEF SendRequest
<1>1. CASE ToNextPeer(r)
  BY <1>0, <1>1, LeavingIsCalm, CalmKeeps DEF IInv
<1>2. CASE ~ToNextPeer(r)
  <2>1. worker' = [worker EXCEPT ![r].phase = "sent", ![r].cursor = progress[r][a].cursor]
    BY <1>2 DEF SendRequest
  <2>2. /\ worker'[r].phase = "sent" /\ worker'[r].cursor = progress[r][a].cursor
        /\ worker'[r].peer = worker[r].peer
    BY <2>1 DEF IInv, TypeOK, WorkerType
  <2>3. p \in worker[r].peer => p = a
    BY <1>0 DEF SweepHolds
  <2> QED
    BY <1>0, <2>2, <2>3 DEF SweepHolds, Asking, Answered, Merging, Held, store
<1> QED
  BY <1>1, <1>2

(* A page and the next cursor cover what the feed has beyond the cursor.   *)
LEMMA FeedCovers ==
  ASSUME NEW rest \in SUBSET Version, NEW P \in FeedPages(rest), NEW next \in NextAfter(P, rest),
         NEW v \in rest, v \notin P
  PROVE  next # NoCursor /\ KeyLess(next, Key(v))
<1>1. P # rest
  OBVIOUS
<1>2. PICK u \in P : next = Key(u)
  BY <1>1 DEF NextAfter
<1>3. P \subseteq rest /\ KeyLess(Key(u), Key(v))
  BY <1>2 DEF FeedPages
<1>4. Key(u) # NoCursor
  BY <1>3, AfterNoCursor
<1> QED
  BY <1>2, <1>3, <1>4

(* A served page holds what is next, or its cursor stays before it.        *)
LEMMA ServeKeeps ==
  ASSUME IInv, IInv', [Next]_vars, NEW r \in Replica, NEW a \in Replica, ServePage(r, a),
         \A p \in Replica : SweepHolds(r, p)
  PROVE  \A p \in Replica : SweepHolds(r, p)'
<1> SUFFICES ASSUME NEW p \in Replica PROVE SweepHolds(r, p)'
  OBVIOUS
<1> DEFINE rest == Beyond(worker[r].cursor, heads[a])
<1>0. /\ UNCHANGED <<store, progress, seen>> /\ a \in worker[r].peer
      /\ worker[r].phase = "admitted" /\ SweepHolds(r, p) /\ SweepHolds(r, a)
      /\ rest \subseteq Version /\ heads[a] \subseteq Version /\ heads[a] \subseteq seen[a]
  BY DEF ServePage, Beyond, IInv, TypeOK, FrontierInvariant, Frontier
<1>1. PICK P \in FeedPages(rest) : \E next \in NextAfter(P, rest) :
        worker' = [worker EXCEPT ![r].phase = "received", ![r].page = P, ![r].next = next]
  BY DEF ServePage
<1>2. PICK next \in NextAfter(P, rest) :
        worker' = [worker EXCEPT ![r].phase = "received", ![r].page = P, ![r].next = next]
  BY <1>1
<1>3. /\ worker'[r].phase = "received" /\ worker'[r].page = P /\ worker'[r].next = next
      /\ worker'[r].peer = worker[r].peer /\ worker'[r].cursor = worker[r].cursor
      /\ worker'[r].merged = worker[r].merged
  BY <1>2 DEF IInv, TypeOK, WorkerType
<1>4. p \in worker[r].peer => p = a
  BY <1>0 DEF SweepHolds
<1>5. Asking(r, p)' => progress'[r][p].cursor \in {worker'[r].cursor, NoCursor}
  BY <1>0, <1>3 DEF SweepHolds, Asking
<1>6. ~Merging(r, p)'
  BY <1>3 DEF Merging
<1> DEFINE Fresh == worker[r].cursor = NoCursor /\ <<r, a>> \in Observed /\ p = a
<1>7. CASE ~Fresh
  <2>1. sweep'[r][p] = sweep[r][p]
    BY <1>7 DEF ServePage, IInv, TypeOK
  <2>2. Held(r, p)' = Held(r, p)
    BY <1>0, <2>1 DEF Held, store
  <2>3. ASSUME Answered(r, p)', progress'[r][p].cursor = worker'[r].cursor
        PROVE  PageCovers(r, p)'
    <3>1. p = a /\ progress[r][p].cursor = worker[r].cursor
      BY <1>0, <1>3, <1>4, <2>3 DEF Answered
    <3>2. ASSUME NEW v \in Held(r, p), v \notin seen[r] \cup P
          PROVE  next # NoCursor /\ KeyLess(next, Key(v))
      <4>1. v \in heads[a] /\ KeyLess(worker[r].cursor, Key(v))
        BY <1>0, <3>1, <3>2 DEF SweepHolds, Held
      <4>2. v \in rest
        BY <4>1 DEF Beyond
      <4> HIDE DEF rest
      <4> QED
        BY <1>0, <1>2, <3>2, <4>2, FeedCovers
    <3> QED
      BY <1>0, <1>3, <2>2, <3>2 DEF PageCovers, Carried
  <2> QED
    BY <1>0, <1>3, <1>5, <1>6, <2>1, <2>2, <2>3 DEF SweepHolds
<1>8. CASE Fresh
  <2>1. sweep'[r][p].held = heads[a] /\ sweep'[r][p].done = FALSE
    <3>1. sweep' = [sweep EXCEPT ![r][a] = [held |-> heads[a], done |-> FALSE]]
      BY <1>8 DEF ServePage
    <3>2. sweep'[r][a] = [held |-> heads[a], done |-> FALSE]
      BY <3>1 DEF IInv, TypeOK
    <3> QED
      BY <1>8, <3>2
  <2>2. Held(r, p)' = heads[a]
    BY <1>0, <1>8, <2>1 DEF Held, store
  <2>3. PageCovers(r, p)'
    <3>1. ASSUME NEW v \in heads[a], v \notin P
          PROVE  next # NoCursor /\ KeyLess(next, Key(v))
      <4>1. v \in rest
        BY <1>0, <1>8, AfterNoCursor DEF Beyond
      <4> HIDE DEF rest
      <4> QED
        BY <1>0, <1>2, <3>1, <4>1, FeedCovers
    <3> QED
      BY <1>3, <2>2, <3>1 DEF PageCovers, Carried
  <2>4. progress'[r][p].cursor = NoCursor
    BY <1>0, <1>8 DEF SweepHolds, Asking
  <2>5. \A v \in Held(r, p)' : KeyLess(progress'[r][p].cursor, Key(v))
    BY <1>0, <2>2, <2>4, AfterNoCursor
  <2>6. \A q \in worker'[r].peer : p \in worker'[r].peer => q = p
    BY <1>0, <1>3 DEF SweepHolds
  <2> QED
    BY <1>0, <1>5, <1>6, <1>8, <2>1, <2>3, <2>5, <2>6 DEF SweepHolds
<1> QED
  BY <1>7, <1>8

(* A committed page passes nothing that it did not bring.                  *)
LEMMA CommitKeeps ==
  ASSUME IInv, IInv', [Next]_vars, NEW r \in Replica, NEW a \in Replica, CommitApply(r, a),
         \A p \in Replica : SweepHolds(r, p)
  PROVE  \A p \in Replica : SweepHolds(r, p)'
<1> SUFFICES ASSUME NEW p \in Replica PROVE SweepHolds(r, p)'
  OBVIOUS
<1>0. /\ a \in worker[r].peer /\ worker[r].phase = "merge" /\ worker[r].page = {}
      /\ SweepHolds(r, p)
  BY DEF CommitApply
<1>1. /\ worker'[r].phase \in {"round", "request"}
      /\ worker'[r].peer \in {{}, {a}}
  <2>1. CASE ToNextPeer(r)
    <3>1. worker'[r] = [IdleWorker EXCEPT !.phase = "round", !.gen = worker[r].gen,
                                          !.todo = worker[r].todo]
      BY <2>1 DEF ToNextPeer, IInv, TypeOK
    <3> QED
      BY <3>1 DEF IdleWorker
  <2>2. CASE ~ToNextPeer(r)
    <3>1. worker' = [worker EXCEPT
                       ![r] = [IdleWorker EXCEPT !.phase = "request", !.gen = worker[r].gen,
                                 !.todo = worker[r].todo, !.peer = {a},
                                 !.pages = worker[r].pages - 1]]
      BY <2>2 DEF CommitApply
    <3> QED
      BY <3>1 DEF IdleWorker, IInv, TypeOK
  <2> QED
    BY <2>1, <2>2
<1>2. /\ progress' = [progress EXCEPT ![r][a] = [cursor |-> worker[r].next, backoff |-> FALSE]]
      /\ sweep' = [sweep EXCEPT ![r][a].done =
                                  @ \/ (<<r, a>> \in Observed /\ worker[r].next = NoCursor)]
      /\ seen' = [seen EXCEPT ![r] = @ \cup worker[r].merged]
  BY DEF CommitApply
<1>3. CASE p # a
  <2>1. progress'[r][p] = progress[r][p] /\ sweep'[r][p] = sweep[r][p]
    BY <1>2, <1>3 DEF IInv, TypeOK
  <2>2. Calm(r, p)
    BY <1>1, <2>1 DEF Calm, Merging
  <2> QED
    BY <1>0, <2>2, CalmKeeps
<1>4. CASE p = a
  <2>1. progress'[r][p].cursor = worker[r].next
    <3>1. progress'[r][a] = [cursor |-> worker[r].next, backoff |-> FALSE]
      BY <1>2 DEF IInv, TypeOK
    <3> QED
      BY <1>4, <3>1
  <2>2. /\ sweep'[r][p].held = sweep[r][p].held
        /\ sweep'[r][p].done <=> \/ sweep[r][p].done
                                 \/ <<r, p>> \in Observed /\ worker[r].next = NoCursor
    <3>1. sweep[r][a] \in SweepType
      BY DEF IInv, TypeOK
    <3>2. sweep'[r][a] = [sweep[r][a] EXCEPT !.done =
                            @ \/ (<<r, a>> \in Observed /\ worker[r].next = NoCursor)]
      BY <1>2 DEF IInv, TypeOK
    <3> QED
      BY <1>4, <3>1, <3>2 DEF SweepType
  <2>3. seen'[r] = seen[r] \cup worker[r].merged /\ Carried(r) = worker[r].merged
    BY <1>0, <1>2 DEF IInv, TypeOK, Carried
  <2>4. PageCovers(r, p)
    BY <1>0, <1>4 DEF SweepHolds, Answered, Merging
  <2>5. Held(r, p)' \subseteq Held(r, p)
    BY <1>0, <2>2, HeldShrinks DEF SweepHolds, Held
  <2>6. ASSUME NEW v \in Held(r, p)'
        PROVE  \/ v \in seen'[r]
               \/ ~sweep'[r][p].done /\ KeyLess(progress'[r][p].cursor, Key(v))
    <3> SUFFICES ASSUME v \notin seen'[r]
                 PROVE  ~sweep'[r][p].done /\ KeyLess(progress'[r][p].cursor, Key(v))
      OBVIOUS
    <3>1. v \in Held(r, p) /\ v \notin seen[r] /\ v \notin Carried(r)
      BY <2>3, <2>5, <2>6
    <3>2. worker[r].next # NoCursor /\ KeyLess(worker[r].next, Key(v)) /\ ~sweep[r][p].done
      BY <1>0, <2>4, <3>1 DEF PageCovers, SweepHolds
    <3> QED
      BY <2>1, <2>2, <3>2
  <2>7. ~Asking(r, p)' /\ ~Answered(r, p)' /\ ~Merging(r, p)'
    BY <1>1 DEF Asking, Answered, Merging
  <2>8. sweep'[r][p].held \subseteq seen'[p]
    BY <1>0, <2>2, SeenGrows DEF IInv, SweepHolds
  <2>9. \A q \in worker'[r].peer : p \in worker'[r].peer => q = p
    BY <1>1, <1>4
  <2>10. <<r, p>> \notin Observed => sweep'[r][p].held = {}
    BY <1>0, <2>2 DEF SweepHolds
  <2> QED
    BY <2>6, <2>7, <2>8, <2>9, <2>10 DEF SweepHolds
<1> QED
  BY <1>3, <1>4

(* All other steps take no page of the feed.                               *)
LEMMA WorkerIsCalm ==
  ASSUME IInv, NEW r \in Replica, NEW p \in Replica, SweepHolds(r, p),
         \/ StartRound(r) \/ EndRound(r) \/ MergeNext(r)
         \/ \E a \in Replica : \/ SkipPeer(r, a) \/ VisitPeer(r, a) \/ Admit(r, a)
                              \/ BeginApply(r, a) \/ AbortApply(r, a)
  PROVE  Calm(r, p)
<1>0. worker[r] \in WorkerType /\ TypeOK /\ worker \in [Replica -> WorkerType]
  BY DEF IInv, TypeOK
<1>1. CASE StartRound(r)
  <2>1. worker' = [worker EXCEPT ![r] = [IdleWorker EXCEPT !.phase = "round",
                                           !.gen = settings[r].generation,
                                           !.todo = settings[r].peers]]
    BY <1>1 DEF StartRound
  <2>2. worker'[r].phase = "round" /\ worker'[r].peer = {}
    BY <1>0, <2>1 DEF IdleWorker
  <2> QED
    BY <1>1, <2>2 DEF StartRound, Calm, Merging
<1>2. CASE EndRound(r)
  BY <1>0, <1>2, LeavingIsCalm DEF EndRound
<1>3. CASE MergeNext(r)
  <2>1. PICK v \in worker[r].page :
          worker' = [worker EXCEPT ![r].staged = MergeVersion(@, v),
                                   ![r].merged = @ \cup {v},
                                   ![r].page = @ \ {v}]
    BY <1>3 DEF MergeNext, NextInPage
  <2>2. /\ worker'[r].phase = "merge" /\ worker'[r].peer = worker[r].peer
        /\ worker'[r].cursor = worker[r].cursor /\ worker'[r].next = worker[r].next
        /\ worker'[r].page = worker[r].page \ {v}
        /\ worker'[r].merged = worker[r].merged \cup {v}
        /\ worker[r].phase = "merge"
    BY <1>0, <1>3, <2>1 DEF WorkerType, MergeNext
  <2>3. Carried(r) \subseteq Carried(r)'
    BY <2>2 DEF Carried
  <2>4. UNCHANGED <<progress, sweep>>
    BY <1>3 DEF MergeNext
  <2> QED
    BY <2>2, <2>3, <2>4 DEF Calm, Merging, SweepHolds
<1>4. ASSUME NEW a \in Replica, SkipPeer(r, a) \/ VisitPeer(r, a) PROVE Calm(r, p)
  <2>1. UNCHANGED <<progress, sweep>> /\ worker[r].phase = "round"
    BY <1>4 DEF SkipPeer, VisitPeer
  <2>2. CASE SkipPeer(r, a)
    <3>1. worker'[r].phase = "round" /\ worker'[r].peer = worker[r].peer
      BY <1>0, <2>1, <2>2 DEF SkipPeer, WorkerType
    <3> QED
      BY <2>1, <3>1 DEF Calm, Merging
  <2>3. CASE VisitPeer(r, a)
    <3>1. worker'[r].phase = "request" /\ worker'[r].peer = {a}
      BY <1>0, <2>3 DEF VisitPeer, WorkerType
    <3> QED
      BY <2>1, <3>1 DEF Calm, Merging
  <2> QED
    BY <1>4, <2>2, <2>3
<1>5. ASSUME NEW a \in Replica, Admit(r, a) PROVE Calm(r, p)
  <2>1. CASE Selected(a, r)
    <3>1. /\ worker' = [worker EXCEPT ![r].phase = "admitted"]
          /\ UNCHANGED <<progress, sweep>> /\ worker[r].phase = "sent"
      BY <1>5, <2>1 DEF Admit
    <3>2. /\ worker'[r].phase = "admitted" /\ worker'[r].peer = worker[r].peer
          /\ worker'[r].cursor = worker[r].cursor
      BY <1>0, <3>1 DEF WorkerType
    <3> QED
      BY <3>1, <3>2 DEF Calm, Merging
  <2>2. CASE ~Selected(a, r)
    BY <1>0, <1>5, <2>2, FailedKeepsCursors, LeavingIsCalm DEF Admit
  <2> QED
    BY <2>1, <2>2
<1>6. ASSUME NEW a \in Replica, BeginApply(r, a) PROVE Calm(r, p)
  <2>1. CASE Current(r, a) /\ progress[r][a].cursor = worker[r].cursor
    <3>1. /\ worker' = [worker EXCEPT ![r].phase = "merge", ![r].staged = heads[r]]
          /\ UNCHANGED <<progress, sweep>> /\ worker[r].phase = "received" /\ a \in worker[r].peer
      BY <1>6, <2>1 DEF BeginApply
    <3>2. /\ worker'[r].phase = "merge" /\ worker'[r].peer = worker[r].peer
          /\ worker'[r].cursor = worker[r].cursor /\ worker'[r].next = worker[r].next
          /\ worker'[r].page = worker[r].page /\ worker'[r].merged = worker[r].merged
      BY <1>0, <3>1 DEF WorkerType
    <3>3. p \in worker[r].peer => p = a
      BY <3>1 DEF SweepHolds
    <3>4. Merging(r, p)' => progress'[r][p].cursor = worker'[r].cursor
      BY <2>1, <3>1, <3>2, <3>3 DEF Merging
    <3> QED
      BY <3>1, <3>2, <3>4 DEF Calm, Carried
  <2>2. CASE ~(Current(r, a) /\ progress[r][a].cursor = worker[r].cursor)
    BY <1>0, <1>6, <2>2, LeavingIsCalm DEF BeginApply
  <2> QED
    BY <2>1, <2>2
<1>7. ASSUME NEW a \in Replica, AbortApply(r, a) PROVE Calm(r, p)
  BY <1>0, <1>7, FailedKeepsCursors, LeavingIsCalm DEF AbortApply
<1> QED
  BY <1>1, <1>2, <1>3, <1>4, <1>5, <1>6, <1>7

(* A fault takes no page.                                                  *)
LEMMA FaultIsCalm ==
  ASSUME IInv, NEW r \in Replica, NEW p \in Replica, SweepHolds(r, p), FaultStep(r)
  PROVE  Calm(r, p)
<1>0. worker[r] \in WorkerType /\ TypeOK
  BY DEF IInv, TypeOK
<1>1. CASE DiscoveryFails(r)
  <2>1. progress' = [progress EXCEPT
                       ![r] = [b \in Replica |->
                                 IF b \in worker[r].todo /\ Current(r, b)
                                 THEN [@[b] EXCEPT !.backoff = TRUE] ELSE @[b]]]
    BY <1>1 DEF DiscoveryFails
  <2>2. progress'[r][p] \in {progress[r][p], [progress[r][p] EXCEPT !.backoff = TRUE]}
    BY <1>0, <2>1 DEF TypeOK
  <2>3. progress[r][p] \in ProgressType
    BY <1>0 DEF TypeOK
  <2>4. progress'[r][p].cursor = progress[r][p].cursor
    BY <2>2, <2>3 DEF ProgressType
  <2> QED
    BY <1>0, <1>1, <2>4, LeavingIsCalm DEF DiscoveryFails
<1>2. CASE Restart(r)
  BY <1>0, <1>2, LeavingIsCalm DEF Restart
<1>3. ASSUME NEW a \in Replica, PeerUnavailable(r, a) PROVE Calm(r, p)
  <2>1. progress'[r][p].cursor = progress[r][p].cursor /\ sweep' = sweep
    BY <1>0, <1>3, FailedKeepsCursors DEF PeerUnavailable
  <2>2. worker'[r].phase = "round" /\ worker'[r].peer = worker[r].peer
    BY <1>0, <1>3 DEF PeerUnavailable, TypeOK, WorkerType
  <2> QED
    BY <2>1, <2>2 DEF Calm, Merging
<1>4. ASSUME NEW a \in Replica, RequestFails(r, a) PROVE Calm(r, p)
  BY <1>0, <1>4, FailedKeepsCursors, LeavingIsCalm DEF RequestFails
<1> QED
  BY <1>1, <1>2, <1>3, <1>4 DEF FaultStep

(* A user takes no page.                                                   *)
LEMMA UserIsCalm ==
  ASSUME IInv, NEW r \in Replica, NEW p \in Replica, SweepHolds(r, p), UserStep(r)
  PROVE  Calm(r, p)
<1>0. TypeOK
  BY DEF IInv
<1>1. CASE UNCHANGED <<worker, progress, sweep>>
  BY <1>0, <1>1, UntouchedIsCalm
<1>2. ASSUME NEW on \in BOOLEAN, NEW peers \in SUBSET Replica, UpdateSettings(r, on, peers)
      PROVE  Calm(r, p)
  <2>1. progress' = [progress EXCEPT ![r] = KeptProgress(r, peers)]
    BY <1>2 DEF UpdateSettings
  <2>2. progress'[r][p] = progress[r][p] \/ progress'[r][p].cursor = NoCursor
    BY <1>0, <2>1 DEF TypeOK, KeptProgress, NoProgress
  <2>3. UNCHANGED <<worker, sweep>> /\ worker[r].phase # "merge"
    BY <1>2 DEF UpdateSettings, StoreUnlocked
  <2> QED
    BY <1>0, <2>2, <2>3, UntouchedIsCalm
<1> QED
  BY <1>1, <1>2
  DEF UserStep, OpenNote, Create, ListConflicts, Save, SaveReply, TrashOrRestore, Resolve, Supersede,
      Replace, Deposit

(* A device's own sweeps are not touched by the steps of others.           *)
LEMMA OthersAreCalm ==
  ASSUME IInv, NEW r \in Replica, NEW p \in Replica, SweepHolds(r, p), NEW q \in Replica, q # r,
         \/ UserStep(q) \/ WorkerStep(q) \/ FaultStep(q)
         \/ \E a \in Replica : RetryDue(q, a)
  PROVE  Calm(r, p)
<1>0. TypeOK /\ FrontierInvariant /\ progress \in [Replica -> [Replica -> ProgressType]]
      /\ sweep \in [Replica -> [Replica -> SweepType]]
  BY DEF IInv, TypeOK
<1>1. worker'[r] = worker[r]
  <2>1. CASE UserStep(q)
    BY <1>0, <2>1, UserWrites DEF Written, Deposit
  <2>2. CASE WorkerStep(q) \/ FaultStep(q)
    BY <1>0, <2>2, WorkerCarries, FaultCarries
  <2>3. ASSUME NEW a \in Replica, RetryDue(q, a) PROVE worker' = worker
    BY <2>3 DEF RetryDue
  <2> QED
    BY <2>1, <2>2, <2>3
<1>2. progress'[r][p].cursor = progress[r][p].cursor /\ sweep'[r][p] = sweep[r][p]
  <2>1. CASE UserStep(q)
    BY <1>0, <2>1
    DEF UserStep, OpenNote, Create, ListConflicts, Save, SaveReply, TrashOrRestore, Resolve,
        Supersede, Replace, Deposit, UpdateSettings
  <2>2. ASSUME NEW a \in Replica, Failed(q, a) = progress', sweep' = sweep
        PROVE  progress'[r][p].cursor = progress[r][p].cursor /\ sweep'[r][p] = sweep[r][p]
    BY <1>0, <2>2, FailedKeepsCursors
  <2>3. CASE WorkerStep(q)
    <3>1. ASSUME NEW a \in Replica, Admit(q, a) \/ AbortApply(q, a)
          PROVE  progress'[r][p].cursor = progress[r][p].cursor /\ sweep'[r][p] = sweep[r][p]
      BY <2>2, <3>1 DEF Admit, AbortApply
    <3>2. ASSUME NEW a \in Replica, ServePage(q, a)
          PROVE  progress' = progress /\ sweep'[r][p] = sweep[r][p]
      BY <1>0, <3>2 DEF ServePage
    <3>3. ASSUME NEW a \in Replica, CommitApply(q, a)
          PROVE  progress'[r][p] = progress[r][p] /\ sweep'[r][p] = sweep[r][p]
      BY <1>0, <3>3 DEF CommitApply
    <3>4. CASE UNCHANGED <<progress, sweep>>
      BY <3>4
    <3> QED
      BY <2>3, <3>1, <3>2, <3>3, <3>4
      DEF WorkerStep, StartRound, EndRound, MergeNext, SkipPeer, VisitPeer, SendRequest, BeginApply
  <2>4. CASE FaultStep(q)
    <3>1. ASSUME NEW a \in Replica, PeerUnavailable(q, a) \/ RequestFails(q, a)
          PROVE  progress'[r][p].cursor = progress[r][p].cursor /\ sweep'[r][p] = sweep[r][p]
      BY <2>2, <3>1 DEF PeerUnavailable, RequestFails
    <3>2. CASE DiscoveryFails(q) \/ Restart(q)
      BY <1>0, <3>2 DEF DiscoveryFails, Restart
    <3> QED
      BY <2>4, <3>1, <3>2 DEF FaultStep
  <2>5. ASSUME NEW a \in Replica, RetryDue(q, a)
        PROVE  progress'[r][p] = progress[r][p] /\ sweep' = sweep
    BY <1>0, <2>5 DEF RetryDue
  <2> QED
    BY <2>1, <2>3, <2>4, <2>5
<1> QED
  BY <1>0, <1>1, <1>2, UntouchedIsCalm

(* A retry time that passes takes no page.                                 *)
LEMMA RetryIsCalm ==
  ASSUME IInv, NEW r \in Replica, NEW p \in Replica, SweepHolds(r, p),
         NEW a \in Replica, RetryDue(r, a)
  PROVE  Calm(r, p)
<1>1. TypeOK /\ progress[r][p] \in ProgressType
  BY DEF IInv, TypeOK
<1>2. progress'[r][p] \in {progress[r][p], [progress[r][p] EXCEPT !.backoff = FALSE]}
  BY <1>1 DEF RetryDue, TypeOK
<1>3. progress'[r][p].cursor = progress[r][p].cursor
  BY <1>1, <1>2 DEF ProgressType
<1> QED
  BY <1>1, <1>3, UntouchedIsCalm DEF RetryDue

(* Every step keeps the traversals complete.                               *)
LEMMA StepSweep == IInv /\ IInv' /\ SweepInvariant /\ [Next]_vars => SweepInvariant'
<1> SUFFICES ASSUME IInv, IInv', SweepInvariant, [Next]_vars,
                    NEW r \in Replica, NEW p \in Replica
             PROVE  SweepHolds(r, p)'
  BY DEF SweepInvariant
<1>0. SweepHolds(r, p) /\ TypeOK
  BY DEF SweepInvariant, IInv
<1>1. CASE Settle \/ UNCHANGED vars
  <2>1. UNCHANGED <<worker, progress, sweep>>
    BY <1>1 DEF Settle, vars
  <2> QED
    BY <1>0, <2>1, UntouchedIsCalm, CalmKeeps
<1>2. ASSUME NEW q \in Replica, q # r,
             \/ UserStep(q) \/ WorkerStep(q) \/ FaultStep(q)
             \/ \E a \in Replica : RetryDue(q, a)
      PROVE  SweepHolds(r, p)'
  BY <1>0, <1>2, OthersAreCalm, CalmKeeps
<1>3. CASE UserStep(r) \/ FaultStep(r) \/ \E a \in Replica : RetryDue(r, a)
  BY <1>0, <1>3, UserIsCalm, FaultIsCalm, RetryIsCalm, CalmKeeps
<1>4. CASE WorkerStep(r)
  <2>1. ASSUME NEW a \in Replica, SendRequest(r, a) \/ ServePage(r, a) \/ CommitApply(r, a)
        PROVE  SweepHolds(r, p)'
    BY <2>1, SendKeeps, ServeKeeps, CommitKeeps DEF SweepInvariant
  <2> QED
    BY <1>0, <1>4, <2>1, WorkerIsCalm, CalmKeeps DEF WorkerStep
<1> QED
  BY <1>1, <1>2, <1>3, <1>4 DEF Next

(* No traversal of a peer's notes skips one, whatever is edited on either  *)
(* side between its pages, whatever fails, restarts or is reset.           *)
THEOREM SweepAlwaysMissesNothing == Spec => []SweepMissesNothing
<1>1. Init => SweepInvariant
  BY DEF Init, SweepInvariant, SweepHolds, Held, NoSweep, Asking, Answered, Merging, IdleWorker
<1>2. SweepInvariant => SweepMissesNothing
  BY DEF SweepInvariant, SweepHolds, Held, SweepMissesNothing
<1> QED
  BY <1>1, <1>2, InvariantKept, StepSweep, PTL DEF Spec

-----------------------------------------------------------------------------
(* Limits *)

(* Notes with no more heads than allowed.                                  *)
Within(H) ==
  /\ IsFiniteSet(NotesOf(H))
  /\ \A n \in Note : IsFiniteSet(OnNote(H, n)) /\ Cardinality(OnNote(H, n)) <= MaxHeads

LimitsInvariant ==
  \A r \in Replica :
    /\ Within(heads[r]) /\ Cardinality(NotesOf(heads[r])) <= MaxNotes
    /\ worker[r].phase = "merge" => Within(worker[r].staged)

(* One more note.                                                          *)
LEMMA NotesGrow ==
  ASSUME NEW H, IsFiniteSet(NotesOf(H)), NEW G, NEW v, NotesOf(G) \subseteq NotesOf(H) \cup {v.note}
  PROVE  /\ IsFiniteSet(NotesOf(G))
         /\ Cardinality(NotesOf(G)) <= Cardinality(NotesOf(H)) + 1
         /\ v.note \in NotesOf(H) => Cardinality(NotesOf(G)) <= Cardinality(NotesOf(H))
<1> DEFINE A == NotesOf(H)
           B == NotesOf(G)
           C == A \cup {v.note}
<1> HIDE DEF A, B
<1>0. IsFiniteSet(A) /\ B \in SUBSET C
  BY DEF A, B
<1>1. IsFiniteSet(C) /\ Cardinality(C) = IF v.note \in A THEN Cardinality(A) ELSE Cardinality(A) + 1
  BY <1>0, FS_AddElement
<1> HIDE DEF C
<1>2. IsFiniteSet(B) /\ Cardinality(B) <= Cardinality(C)
  BY <1>0, <1>1, FS_Subset
<1>3. Cardinality(A) \in Nat /\ Cardinality(B) \in Nat /\ Cardinality(C) \in Nat
  BY <1>0, <1>1, <1>2, FS_CardinalityType
<1>4. /\ IsFiniteSet(B) /\ Cardinality(B) <= Cardinality(A) + 1
      /\ v.note \in A => Cardinality(B) <= Cardinality(A)
  BY <1>1, <1>2, <1>3
<1> QED
  BY <1>4 DEF A, B

(* A merge that does not overflow stays within the limit.                  *)
LEMMA MergeStaysWithin ==
  ASSUME NEW H \in SUBSET Version, Within(H), NEW v \in Version, ~Overflows(H, v)
  PROVE  Within(MergeVersion(H, v))
<1>1. CASE Ignored(H, v)
  BY <1>1 DEF MergeVersion
<1>2. CASE ~Ignored(H, v)
  <2> DEFINE M == Survivors(H, v) \cup {v}
             S == OnNote(Survivors(H, v), v.note)
  <2>1. MergeVersion(H, v) = M
    BY <1>2 DEF MergeVersion
  <2>2. NotesOf(M) \subseteq NotesOf(H) \cup {v.note}
    BY DEF NotesOf, Survivors
  <2>3. IsFiniteSet(NotesOf(M))
    <3> HIDE DEF M
    <3> QED
      BY <2>2, NotesGrow DEF Within
  <2>4. ASSUME NEW n \in Note
        PROVE  IsFiniteSet(OnNote(M, n)) /\ Cardinality(OnNote(M, n)) <= MaxHeads
    <3>1. CASE n # v.note
      <4>1. OnNote(M, n) = OnNote(H, n)
        BY <3>1 DEF OnNote, Survivors, Dominates
      <4> QED
        BY <4>1 DEF Within
    <3>2. CASE n = v.note
      <4>1. OnNote(M, n) = S \cup {v}
        BY <3>2 DEF OnNote
      <4>2. S \in SUBSET OnNote(H, n) /\ IsFiniteSet(OnNote(H, n))
        BY <3>2 DEF OnNote, Survivors, Within
      <4>3. ~(Cardinality(S) >= MaxHeads)
        BY <1>2 DEF Overflows
      <4> HIDE DEF S, M
      <4>4. IsFiniteSet(S)
        BY <4>2, FS_Subset
      <4>5. Cardinality(S) \in Nat
        BY <4>4, FS_CardinalityType
      <4>6. /\ IsFiniteSet(S \cup {v})
            /\ Cardinality(S \cup {v}) = IF v \in S THEN Cardinality(S) ELSE Cardinality(S) + 1
        BY <4>4, FS_AddElement
      <4>7. Cardinality(S \cup {v}) <= MaxHeads
        BY <4>3, <4>5, <4>6, LimitAssumption
      <4> QED
        BY <4>1, <4>6, <4>7
    <3> QED
      BY <3>1, <3>2
  <2> QED
    BY <2>1, <2>3, <2>4 DEF Within
<1> QED
  BY <1>1, <1>2

(* A write leaves one head of its note.                                    *)
LEMMA WriteStaysWithin ==
  ASSUME NEW H \in SUBSET Version, Within(H), NEW v \in Version
  PROVE  Within({h \in H : h.note # v.note} \cup {v})
<1> DEFINE M == {h \in H : h.note # v.note} \cup {v}
<1>1. NotesOf(M) \subseteq NotesOf(H) \cup {v.note}
  BY DEF NotesOf
<1>2. IsFiniteSet(NotesOf(M))
  <2> HIDE DEF M
  <2> QED
    BY <1>1, NotesGrow DEF Within
<1>3. ASSUME NEW n \in Note
      PROVE  IsFiniteSet(OnNote(M, n)) /\ Cardinality(OnNote(M, n)) <= MaxHeads
  <2>1. CASE n # v.note
    <3>1. OnNote(M, n) = OnNote(H, n)
      BY <2>1 DEF OnNote
    <3> QED
      BY <3>1 DEF Within
  <2>2. CASE n = v.note
    <3>1. OnNote(M, n) = {v}
      BY <2>2 DEF OnNote
    <3>2. 1 <= MaxHeads
      BY LimitAssumption
    <3> QED
      BY <3>1, <3>2, FS_Singleton
  <2> QED
    BY <2>1, <2>2
<1> QED
  BY <1>2, <1>3 DEF Within

(* What a worker that merges has staged.                                   *)
LEMMA WorkerStages ==
  ASSUME IInv, NEW r \in Replica, WorkerStep(r), worker'[r].phase = "merge"
  PROVE  worker'[r].staged = heads[r] \/ MergeNext(r)
<1>0. worker[r] \in WorkerType /\ worker \in [Replica -> WorkerType]
  BY DEF IInv, TypeOK
<1>1. ~ToNextPeer(r)
  <2> SUFFICES ASSUME ToNextPeer(r) PROVE FALSE
    OBVIOUS
  <2>1. worker'[r] = [IdleWorker EXCEPT !.phase = "round", !.gen = worker[r].gen,
                                        !.todo = worker[r].todo]
    BY <1>0 DEF ToNextPeer
  <2> QED
    BY <2>1 DEF IdleWorker
<1>2. ~StartRound(r)
  <2> SUFFICES ASSUME StartRound(r) PROVE FALSE
    OBVIOUS
  <2>1. worker' = [worker EXCEPT ![r] = [IdleWorker EXCEPT !.phase = "round",
                                           !.gen = settings[r].generation,
                                           !.todo = settings[r].peers]]
    BY DEF StartRound
  <2> QED
    BY <1>0, <2>1 DEF IdleWorker
<1>3. ~EndRound(r)
  BY <1>0 DEF EndRound, IdleWorker
<1>4. ASSUME NEW a \in Replica PROVE ~SkipPeer(r, a) /\ ~VisitPeer(r, a)
  BY <1>0 DEF SkipPeer, VisitPeer, WorkerType
<1>5. ASSUME NEW a \in Replica PROVE ~SendRequest(r, a)
  <2> SUFFICES ASSUME SendRequest(r, a) PROVE FALSE
    OBVIOUS
  <2>1. worker' = [worker EXCEPT ![r].phase = "sent", ![r].cursor = progress[r][a].cursor]
    BY <1>1 DEF SendRequest
  <2> QED
    BY <1>0, <2>1 DEF WorkerType
<1>6. ASSUME NEW a \in Replica PROVE ~Admit(r, a)
  <2> SUFFICES ASSUME Admit(r, a) PROVE FALSE
    OBVIOUS
  <2>1. worker' = [worker EXCEPT ![r].phase = "admitted"]
    BY <1>1 DEF Admit
  <2> QED
    BY <1>0, <2>1 DEF WorkerType
<1>7. ASSUME NEW a \in Replica PROVE ~ServePage(r, a)
  <2> SUFFICES ASSUME ServePage(r, a) PROVE FALSE
    OBVIOUS
  <2>1. PICK P, next : worker' = [worker EXCEPT ![r].phase = "received", ![r].page = P,
                                                ![r].next = next]
    BY DEF ServePage
  <2> QED
    BY <1>0, <2>1 DEF WorkerType
<1>8. ASSUME NEW a \in Replica PROVE ~AbortApply(r, a)
  BY <1>1 DEF AbortApply
<1>9. ASSUME NEW a \in Replica PROVE ~CommitApply(r, a)
  <2> SUFFICES ASSUME CommitApply(r, a) PROVE FALSE
    OBVIOUS
  <2>1. worker' = [worker EXCEPT
                     ![r] = [IdleWorker EXCEPT !.phase = "request", !.gen = worker[r].gen,
                               !.todo = worker[r].todo, !.peer = {a},
                               !.pages = worker[r].pages - 1]]
    BY <1>1 DEF CommitApply
  <2> QED
    BY <1>0, <2>1 DEF IdleWorker
<1>10. ASSUME NEW a \in Replica, BeginApply(r, a) PROVE worker'[r].staged = heads[r]
  <2>1. worker' = [worker EXCEPT ![r].phase = "merge", ![r].staged = heads[r]]
    BY <1>1, <1>10 DEF BeginApply
  <2> QED
    BY <1>0, <2>1 DEF WorkerType
<1> QED
  BY <1>2, <1>3, <1>4, <1>5, <1>6, <1>7, <1>8, <1>9, <1>10 DEF WorkerStep

(* After a fault nothing is staged.                                        *)
LEMMA FaultStages ==
  ASSUME IInv, NEW r \in Replica, FaultStep(r) PROVE worker'[r].phase # "merge"
<1>0. worker[r] \in WorkerType /\ worker \in [Replica -> WorkerType]
  BY DEF IInv, TypeOK
<1>1. CASE DiscoveryFails(r) \/ Restart(r)
  BY <1>0, <1>1 DEF DiscoveryFails, Restart, IdleWorker
<1>2. ASSUME NEW a \in Replica, PeerUnavailable(r, a) PROVE worker'[r].phase # "merge"
  BY <1>0, <1>2 DEF PeerUnavailable, WorkerType
<1>3. ASSUME NEW a \in Replica, RequestFails(r, a) PROVE worker'[r].phase # "merge"
  <2>1. worker'[r] = [IdleWorker EXCEPT !.phase = "round", !.gen = worker[r].gen,
                                        !.todo = worker[r].todo]
    BY <1>0, <1>3 DEF RequestFails, ToNextPeer
  <2> QED
    BY <2>1 DEF IdleWorker
<1> QED
  BY <1>1, <1>2, <1>3 DEF FaultStep

(* Every step keeps the limits.                                            *)
LEMMA StepLimits == IInv /\ LimitsInvariant /\ [Next]_vars => LimitsInvariant'
<1> SUFFICES ASSUME IInv, LimitsInvariant, [Next]_vars, NEW q \in Replica
             PROVE  /\ Within(heads'[q]) /\ Cardinality(NotesOf(heads'[q])) <= MaxNotes
                    /\ worker'[q].phase = "merge" => Within(worker'[q].staged)
  BY DEF LimitsInvariant, Within, NotesOf, OnNote
<1>0. /\ TypeOK /\ FrontierInvariant /\ heads \in [Replica -> SUBSET Version]
      /\ worker \in [Replica -> WorkerType] /\ worker[q] \in WorkerType
      /\ Within(heads[q]) /\ Cardinality(NotesOf(heads[q])) <= MaxNotes
      /\ worker[q].phase = "merge" => Within(worker[q].staged)
  BY DEF IInv, TypeOK, LimitsInvariant
<1>1. Within(heads'[q]) /\ Cardinality(NotesOf(heads'[q])) <= MaxNotes
  <2>1. CASE UNCHANGED <<store, seen>>
    BY <1>0, <2>1 DEF store
  <2>2. ASSUME NEW r \in Replica, NEW v, Written(r, v)
        PROVE  Within(heads'[q]) /\ Cardinality(NotesOf(heads'[q])) <= MaxNotes
    <3>1. heads' = [heads EXCEPT ![r] = {h \in @ : h.note # v.note} \cup {v}] /\ v \in Version
      BY <2>2 DEF Written, Deposit
    <3>2. CASE r # q
      BY <1>0, <3>1, <3>2
    <3>3. CASE r = q
      <4> DEFINE H == heads[q]
                 G == heads'[q]
      <4>1. G = {h \in H : h.note # v.note} \cup {v} /\ H \in SUBSET Version
        BY <1>0, <3>1, <3>3
      <4>2. Within(G)
        BY <1>0, <3>1, <4>1, WriteStaysWithin
      <4>3. NotesOf(G) \subseteq NotesOf(H) \cup {v.note}
        BY <4>1 DEF NotesOf
      <4>4. v.note \in NotesOf(H) \/ Cardinality(NotesOf(H)) < MaxNotes
        BY <2>2, <3>3 DEF Written, NotesOf, OnNote
      <4>5. IsFiniteSet(NotesOf(H)) /\ Cardinality(NotesOf(H)) <= MaxNotes
        BY <1>0 DEF Within
      <4> HIDE DEF G, H
      <4>6. /\ IsFiniteSet(NotesOf(G)) /\ Cardinality(NotesOf(G)) <= Cardinality(NotesOf(H)) + 1
            /\ v.note \in NotesOf(H) => Cardinality(NotesOf(G)) <= Cardinality(NotesOf(H))
        BY <4>3, <4>5, NotesGrow
      <4>7. Cardinality(NotesOf(G)) \in Nat /\ Cardinality(NotesOf(H)) \in Nat
        BY <4>5, <4>6, FS_CardinalityType
      <4>8. Cardinality(NotesOf(G)) <= MaxNotes
        BY <4>4, <4>5, <4>6, <4>7, SyncAssumption
      <4> QED
        BY <4>2, <4>8 DEF G
    <3> QED
      BY <3>2, <3>3
  <2>3. ASSUME NEW r \in Replica, NEW p \in Replica, CommitApply(r, p)
        PROVE  Within(heads'[q]) /\ Cardinality(NotesOf(heads'[q])) <= MaxNotes
    BY <1>0, <2>3 DEF CommitApply
  <2> QED
    BY <1>0, <2>1, <2>2, <2>3, StoreSteps
<1>2. ASSUME worker'[q].phase = "merge" PROVE Within(worker'[q].staged)
  <2>1. CASE worker'[q] = worker[q]
    BY <1>0, <1>2, <2>1
  <2>2. ASSUME NEW r \in Replica, UserStep(r) PROVE worker' = worker
    BY <1>0, <2>2, UserWrites DEF Written, Deposit
  <2>3. ASSUME NEW r \in Replica, r # q, WorkerStep(r) \/ FaultStep(r)
        PROVE  worker'[q] = worker[q]
    BY <1>0, <2>3, WorkerCarries, FaultCarries
  <2>4. ~FaultStep(q)
    BY <1>2, FaultStages
  <2>5. CASE MergeNext(q)
    <3>1. PICK v \in worker[q].page :
            /\ ~Overflows(worker[q].staged, v)
            /\ worker' = [worker EXCEPT ![q].staged = MergeVersion(@, v),
                                        ![q].merged = @ \cup {v},
                                        ![q].page = @ \ {v}]
      BY <2>5 DEF MergeNext, NextInPage
    <3>2. worker'[q].staged = MergeVersion(worker[q].staged, v)
      BY <1>0, <3>1 DEF WorkerType
    <3>3. v \in Version /\ worker[q].staged \in SUBSET Version
      BY <1>0 DEF WorkerType
    <3>4. Within(worker[q].staged)
      BY <1>0, <2>5 DEF MergeNext
    <3> QED
      BY <3>1, <3>2, <3>3, <3>4, MergeStaysWithin
  <2>6. CASE WorkerStep(q) /\ ~MergeNext(q)
    BY <1>0, <1>2, <2>6, WorkerStages
  <2>7. CASE \/ Settle \/ UNCHANGED vars
             \/ \E r \in Replica, a \in Replica : RetryDue(r, a)
    BY <2>1, <2>7 DEF Settle, RetryDue, vars
  <2> QED
    BY <2>1, <2>2, <2>3, <2>4, <2>5, <2>6, <2>7 DEF Next
<1> QED
  BY <1>1, <1>2

(* Whatever is received, written and resolved, no device has more notes or *)
(* more heads of a note than the limits allow.                             *)
THEOREM LimitsAlwaysHold == Spec => []LimitsHold
<1>1. Init => LimitsInvariant
  <2> SUFFICES ASSUME Init PROVE LimitsInvariant
    OBVIOUS
  <2>1. NotesOf({}) = {} /\ \A n : OnNote({}, n) = {}
    BY DEF NotesOf, OnNote
  <2>2. Within({}) /\ Cardinality(NotesOf({})) <= MaxNotes
    BY <2>1, FS_EmptySet, LimitAssumption, SyncAssumption DEF Within
  <2> QED
    BY <2>2 DEF Init, LimitsInvariant, IdleWorker
<1>2. LimitsInvariant => LimitsHold
  BY DEF LimitsInvariant, Within, LimitsHold
<1> QED
  BY <1>1, <1>2, InvariantKept, StepLimits, PTL DEF Spec

=============================================================================
