----------------------- MODULE ClipboardHistory_proofs -----------------------
(***************************************************************************)
(* What the clipboard history keeps to, for any entries, contents, limits  *)
(* and any number of requests at work at the same time.                    *)
(***************************************************************************)
EXTENDS ClipboardHistory, FiniteSetTheorems, WellFoundedInduction, TLAPS

(* What the constants stand for.                                           *)
HistoryConstants ==
  /\ Id \subseteq Nat \ {0} /\ IsFiniteSet(Id) /\ Local \subseteq Id
  /\ Limit \in Nat /\ PeerFlags \subseteq BOOLEAN

-----------------------------------------------------------------------------
(* Greatest and newest entries *)

(* Some number is the least.                                               *)
LEMMA LeastNumber ==
  ASSUME NEW T \in SUBSET Nat, T # {}
  PROVE  \E x \in T : \A y \in T : x <= y
<1> DEFINE R == OpToRel(<, Nat)
<1>1. \A x \in Nat, y \in Nat : <<x, y>> \in R <=> x < y
  BY DEF OpToRel
<1>2. IsWellFoundedOn(R, Nat)
  BY NatLessThanWellFounded
<1> HIDE DEF R
<1>3. PICK x \in T : \A y \in T : ~ (<<y, x>> \in R)
  BY <1>2, WFMin
<1>4. ASSUME NEW y \in T PROVE x <= y
  <2>1. x \in Nat /\ y \in Nat /\ ~ (y < x)
    BY <1>1, <1>3
  <2>2. QED
    BY <2>1
<1>5. QED
  BY <1>4

Above(S, e) == {f \in S : f > e}

(* An entry with fewest above it has none.                                 *)
LEMMA GreatestNumber ==
  ASSUME NEW S, IsFiniteSet(S), S \subseteq Nat, S # {}
  PROVE  Max(S) \in S /\ \A y \in S : y <= Max(S)
<1> DEFINE T == {Cardinality(Above(S, x)) : x \in S}
<1>1. \A x \in S : IsFiniteSet(Above(S, x)) /\ Cardinality(Above(S, x)) \in Nat
  BY FS_Subset, FS_CardinalityType DEF Above
<1>2. PICK x \in S : \A y \in S : Cardinality(Above(S, x)) <= Cardinality(Above(S, y))
  <2>1. T \subseteq Nat /\ T # {}
    BY <1>1
  <2>2. PICK t \in T : \A u \in T : t <= u
    BY <2>1, LeastNumber
  <2>3. QED
    BY <2>2
<1>3. ASSUME NEW y \in S, y > x PROVE FALSE
  <2>1. Above(S, y) \subseteq Above(S, x) /\ y \in Above(S, x) /\ y \notin Above(S, y)
    <3>1. x \in Nat /\ y \in Nat /\ \A f \in S : f \in Nat
      OBVIOUS
    <3>2. \A f \in S : f > y => f > x
      BY <1>3, <3>1
    <3>3. ~ (y > y)
      BY <3>1
    <3>4. QED
      BY <1>3, <3>2, <3>3 DEF Above
  <2>2. /\ Cardinality(Above(S, y)) <= Cardinality(Above(S, x))
        /\ Cardinality(Above(S, x)) = Cardinality(Above(S, y)) => Above(S, x) = Above(S, y)
    BY <1>1, <2>1, FS_Subset
  <2>3. Cardinality(Above(S, x)) <= Cardinality(Above(S, y))
    BY <1>2
  <2>4. QED
    BY <1>1, <2>1, <2>2, <2>3
<1>4. \A y \in S : x >= y
  BY <1>3
<1>5. QED
  BY <1>4 DEF Max

(* Above the least of the newest are all others of them.                   *)
LEMMA NewestBounded ==
  ASSUME NEW S, IsFiniteSet(S), S \subseteq Nat, NEW n \in Nat
  PROVE  /\ Newest(S, n) \subseteq S /\ IsFiniteSet(Newest(S, n))
         /\ Cardinality(Newest(S, n)) <= n
<1> DEFINE N == Newest(S, n)
<1>1. N \subseteq S /\ IsFiniteSet(N) /\ Cardinality(N) \in Nat
  BY FS_Subset, FS_CardinalityType DEF Newest
<1>2. CASE N = {}
  BY <1>1, <1>2, FS_EmptySet
<1>3. CASE N # {}
  <2>1. PICK e \in N : \A f \in N : e <= f
    BY <1>1, <1>3, LeastNumber
  <2>2. IsFiniteSet(N \ {e}) /\ Cardinality(N \ {e}) = Cardinality(N) - 1
    BY <1>1, FS_RemoveElement
  <2>3. N \ {e} \subseteq Above(S, e)
    <3>1. e \in Nat /\ \A f \in N : f \in S /\ f \in Nat
      BY <1>1
    <3> HIDE DEF N
    <3>2. QED
      BY <2>1, <3>1 DEF Above
  <2>4. IsFiniteSet(Above(S, e)) /\ Cardinality(Above(S, e)) \in Nat
    BY FS_Subset, FS_CardinalityType DEF Above
  <2>5. Cardinality(N \ {e}) <= Cardinality(Above(S, e))
    BY <2>3, <2>4, FS_Subset
  <2>6. Cardinality(Above(S, e)) < n
    BY <2>1 DEF Newest, Above
  <2>7. QED
    BY <1>1, <2>2, <2>4, <2>5, <2>6
<1>4. QED
  BY <1>2, <1>3

-----------------------------------------------------------------------------
(* Requests *)

Ops == {"none", "capture", "push", "fetch", "pin", "unpin", "dedupe", "clear"}
Stages == {"rest", "replace", "insert", "prune", "sweep", "each", "mark"}
Removing == {"replace", "sweep", "each"}

Requests == doing \in [Caller -> Requested]

(* Request c has become r, the others are as before.                       *)
Becomes(c, r) == Requests' /\ doing'[c] = r /\ \A d \in Caller \ {c} : doing'[d] = doing[d]

(* The fields of a request, and of the one at rest.                        *)
LEMMA RequestFields ==
  /\ \A r \in Requested : /\ r.op \in Ops /\ r.at \in Stages /\ r.id \in Id \cup {0}
                          /\ r.flag \in BOOLEAN /\ r.doomed \subseteq Id
  /\ NoRequest \in Requested /\ NoRequest.at = "rest" /\ NoRequest.doomed = {} /\ NoRequest.op = "none"
BY DEF Requested, NoRequest, Ops, Stages

(* What a request is when it has begun.                                    *)
LEMMA StartSteps ==
  ASSUME Requests, NEW c \in Caller, NEW op \in Ops, NEW at \in Stages, NEW id \in Id \cup {0},
         NEW flag \in BOOLEAN, NEW doomed \in SUBSET Id, Begins(c, op, at, id, flag, doomed)
  PROVE  /\ doing[c].at = "rest"
         /\ \E r \in Requested : /\ Becomes(c, r) /\ r.op = op /\ r.at = at /\ r.id = id
                                 /\ r.doomed = doomed
<1> DEFINE r == [op |-> op, at |-> at, id |-> id, flag |-> flag, doomed |-> doomed]
<1>1. r \in Requested /\ r.op = op /\ r.at = at /\ r.id = id /\ r.doomed = doomed
  BY DEF Requested, Ops, Stages
<1>2. doing[c].at = "rest" /\ doing' = [doing EXCEPT ![c] = r]
  BY DEF Begins
<1> HIDE DEF r
<1>3. Becomes(c, r)
  BY <1>1, <1>2 DEF Requests, Becomes
<1>4. QED
  BY <1>1, <1>2, <1>3

(* What a request is after its next transaction.                           *)
LEMMA GotoSteps ==
  ASSUME Requests, NEW c \in Caller, NEW at \in Stages, NEW doomed \in SUBSET Id,
         Goto(c, at, doomed)
  PROVE  /\ used' = used
         /\ at = "rest" => Becomes(c, NoRequest)
         /\ at # "rest" =>
              \E r \in Requested : /\ Becomes(c, r) /\ r.op = doing[c].op /\ r.at = at
                                   /\ r.id = doing[c].id /\ r.doomed = doomed
<1>1. CASE at = "rest"
  BY <1>1, RequestFields DEF Goto, Requests, Becomes
<1>2. CASE at # "rest"
  <2> DEFINE b == doing[c]
             f == (at = "insert" /\ b.flag)
             r == [b EXCEPT !.at = at, !.doomed = doomed, !.flag = f]
  <2>1. doing' = [doing EXCEPT ![c] = r]
    BY <1>2 DEF Goto
  <2>2. b \in Requested /\ f \in BOOLEAN
    BY DEF Requests
  <2> HIDE DEF f, b
  <2>3. r \in Requested
    BY <2>2 DEF Requested, Stages
  <2>4. r.op = b.op /\ r.at = at /\ r.id = b.id /\ r.doomed = doomed
    BY <2>2 DEF Requested
  <2> HIDE DEF r
  <2>6. Becomes(c, r)
    BY <2>1, <2>3 DEF Requests, Becomes
  <2>7. QED
    BY <1>2, <2>3, <2>4, <2>6 DEF b, Goto
<1>3. QED
  BY <1>1, <1>2 DEF Goto

-----------------------------------------------------------------------------
(* The inductive invariant *)

(* A request that is going to store an entry has one.                      *)
Named == \A c \in Caller : doing[c].at \in {"replace", "insert"} => doing[c].id \in Id

(* What a request is about to remove was not pinned when it was chosen, or *)
(* has not been pinned ever since.                                         *)
Undoomed == \A c \in Caller : doing[c].doomed \cap known[c] = {}

Sweeping == {c \in Caller : doing[c].at = "sweep"}
Pruning == {c \in Caller : doing[c].at \in {"prune", "sweep"}}

(* What counts for the limit: without the entries whose pruning is to come,*)
(* but instead without what it will remove in the case of S.               *)
Counted(S) ==
  held \ (pinned \cup loose \cup (UNION {doing[c].doomed : c \in S})
                 \cup {doing[c].id : c \in Pruning \ S})

(* Whichever sweeps take place, the limit is kept.                         *)
Bounded == \A S \in SUBSET Sweeping : Cardinality(Counted(S)) <= Limit

HistoryInv == HistoryTypeOK /\ Named /\ Undoomed /\ Bounded

(* What counts, one entry at a time.                                       *)
LEMMA CountedEntry ==
  ASSUME NEW S, NEW e
  PROVE  /\ e \in Counted(S) <=> /\ e \in held \ (pinned \cup loose)
                                 /\ \A d \in S : e \notin doing[d].doomed
                                 /\ \A d \in Pruning \ S : e # doing[d].id
         /\ e \in Counted(S)' <=> /\ e \in held' \ (pinned' \cup loose')
                                  /\ \A d \in S : e \notin doing'[d].doomed
                                  /\ \A d \in Pruning' \ S : e # doing'[d].id
<1>1. /\ e \in UNION {doing[d].doomed : d \in S} <=> \E d \in S : e \in doing[d].doomed
      /\ e \in {doing[d].id : d \in Pruning \ S} <=> \E d \in Pruning \ S : e = doing[d].id
  OBVIOUS
<1>2. /\ e \in UNION {doing'[d].doomed : d \in S} <=> \E d \in S : e \in doing'[d].doomed
      /\ e \in {doing'[d].id : d \in Pruning' \ S} <=> \E d \in Pruning' \ S : e = doing'[d].id
  OBVIOUS
<1> DEFINE U == UNION {doing[d].doomed : d \in S}
           I == {doing[d].id : d \in Pruning \ S}
           V == UNION {doing'[d].doomed : d \in S}
           J == {doing'[d].id : d \in Pruning' \ S}
<1>3. /\ Counted(S) = held \ (pinned \cup loose \cup U \cup I)
      /\ Counted(S)' = held' \ (pinned' \cup loose' \cup V \cup J)
  BY DEF Counted
<1> HIDE DEF U, I, V, J
<1>4. e \in Counted(S) <=> e \in held \ (pinned \cup loose) /\ e \notin U /\ e \notin I
  BY <1>3
<1>5. e \in Counted(S)' <=> e \in held' \ (pinned' \cup loose') /\ e \notin V /\ e \notin J
  BY <1>3
<1>6. QED
  BY <1>1, <1>2, <1>4, <1>5 DEF U, I, V, J

(* With no more to count in any case than before in some, the limit stays. *)
LEMMA BoundedStays ==
  ASSUME HistoryConstants, HistoryTypeOK, Bounded,
         \A S \in SUBSET Sweeping' : \E T \in SUBSET Sweeping : Counted(S)' \subseteq Counted(T)
  PROVE  Bounded'
<1> SUFFICES ASSUME NEW S \in SUBSET Sweeping' PROVE Cardinality(Counted(S)') <= Limit
  BY DEF Bounded, HistoryConstants
<1>1. PICK T \in SUBSET Sweeping : Counted(S)' \subseteq Counted(T)
  OBVIOUS
<1>2. Counted(T) \subseteq Id /\ IsFiniteSet(Id)
  BY DEF Counted, HistoryTypeOK, HistoryConstants
<1>3. IsFiniteSet(Counted(T)) /\ Cardinality(Counted(T)) \in Nat
  BY <1>2, FS_Subset, FS_CardinalityType
<1>4. /\ Cardinality(Counted(S)') <= Cardinality(Counted(T))
      /\ Cardinality(Counted(S)') \in Nat
  BY <1>1, <1>3, FS_Subset, FS_CardinalityType
<1>5. Cardinality(Counted(T)) <= Limit /\ Limit \in Nat
  BY DEF Bounded, HistoryConstants
<1>6. QED
  BY <1>3, <1>4, <1>5

(* A request that is no prune begins or goes on, or another ends: nothing  *)
(* more counts when what came into the table or lost its pin is loose.     *)
LEMMA BoundedByOthers ==
  ASSUME HistoryConstants, HistoryTypeOK, Bounded, NEW c \in Caller,
         \A d \in Caller \ {c} : doing'[d] = doing[d],
         doing[c].at \notin {"prune", "sweep"}, doing'[c].at \notin {"prune", "sweep"},
         held' \ (pinned' \cup loose') \subseteq held \ (pinned \cup loose)
  PROVE  Bounded'
<1>1. Sweeping' = Sweeping /\ Pruning' = Pruning /\ c \notin Pruning /\ c \notin Sweeping
  BY DEF Sweeping, Pruning
<1>2. ASSUME NEW S \in SUBSET Sweeping' PROVE Counted(S)' \subseteq Counted(S)
  <2>1. S \subseteq Sweeping /\ \A d \in S \cup Pruning : doing'[d] = doing[d]
    BY <1>1, <1>2 DEF Sweeping, Pruning
  <2>2. /\ UNION {doing'[d].doomed : d \in S} = UNION {doing[d].doomed : d \in S}
        /\ {doing'[d].id : d \in Pruning' \ S} = {doing[d].id : d \in Pruning \ S}
    BY <1>1, <2>1
  <2>3. QED
    BY <2>2 DEF Counted
<1>3. QED
  <2> SUFFICES ASSUME NEW S \in SUBSET Sweeping'
               PROVE  \E T \in SUBSET Sweeping : Counted(S)' \subseteq Counted(T)
    BY BoundedStays
  <2>1. QED
    BY <1>1, <1>2

-----------------------------------------------------------------------------
(* Every step *)

(* Where a request has begun, pins are as they were.                       *)
LEMMA StartKeeps ==
  ASSUME HistoryConstants, HistoryInv,
         NEW c \in Caller, NEW op \in Ops, NEW at \in Stages \ {"rest", "prune", "sweep"},
         NEW id \in Id \cup {0}, NEW flag \in BOOLEAN, NEW doomed \in SUBSET (Id \ pinned),
         at \in Removing <=> doomed # {}, at = "each" \/ id \in Id,
         Begins(c, op, at, id, flag, doomed), used' \subseteq Id
  PROVE  HistoryInv' /\ KeepsPins
<1>1. HistoryTypeOK /\ Requests /\ Named /\ Undoomed /\ Bounded
  BY DEF HistoryInv, HistoryTypeOK, Requests
<1>2. PICK r \in Requested : Becomes(c, r) /\ r.at = at /\ r.id = id /\ r.doomed = doomed
  BY <1>1, StartSteps
<1>3. /\ doing[c].at = "rest" /\ UNCHANGED <<held, pinned, loose>>
      /\ known' = [known EXCEPT ![c] = pinned]
  BY DEF Begins
<1>4. /\ known' \in [Caller -> SUBSET Id] /\ known'[c] = pinned
      /\ \A d \in Caller \ {c} : known'[d] = known[d]
  BY <1>1, <1>3 DEF HistoryTypeOK
<1>5. \A d \in Caller : doing'[d].at \in Removing <=> doing'[d].doomed # {}
  BY <1>1, <1>2 DEF HistoryTypeOK, Becomes, Removing
<1>6. HistoryTypeOK'
  BY <1>1, <1>2, <1>3, <1>4, <1>5 DEF HistoryTypeOK, Becomes, Requests, Removing
<1>7. Named' /\ Undoomed'
  BY <1>1, <1>2, <1>4 DEF Named, Undoomed, Becomes
<1>8. Bounded'
  BY <1>1, <1>2, <1>3, BoundedByOthers DEF Becomes
<1>9. KeepsPins
  BY <1>1, <1>3 DEF KeepsPins, HistoryTypeOK
<1>10. QED
  BY <1>6, <1>7, <1>8, <1>9 DEF HistoryInv

(* The greatest copy is one of them.                                       *)
LEMMA CopiesAreEntries ==
  ASSUME HistoryConstants, HistoryTypeOK, NEW S \in SUBSET Id, S # {}
  PROVE  Max(S) \in S
BY FS_Subset, GreatestNumber DEF HistoryConstants

(* Copies are entries of the table.                                        *)
LEMMA CopiesOf ==
  ASSUME HistoryTypeOK, NEW id
  PROVE  Copies(id) \subseteq Id
BY DEF Copies, Newest, HistoryTypeOK

(* A request that may replace a copy.                                      *)
LEMMA ReplaceKeeps ==
  ASSUME HistoryConstants, HistoryInv, NEW c \in Caller, NEW op \in Ops, NEW id \in Id,
         NEW flag \in BOOLEAN, NEW copies \in SUBSET Id,
         ReplaceOrKeep(c, op, id, flag, copies), used' \subseteq Id
  PROVE  HistoryInv' /\ KeepsPins
<1>1. CASE copies = {}
  BY <1>1, StartKeeps DEF ReplaceOrKeep, Stages, Removing
<1>2. CASE copies # {} /\ Max(copies) \in pinned
  <2>1. UNCHANGED <<held, pinned, doing, known, loose>>
    BY <1>2 DEF ReplaceOrKeep
  <2>2. QED
    <3>1. HistoryTypeOK' /\ Named' /\ Undoomed'
      BY <2>1 DEF HistoryInv, HistoryTypeOK, Named, Undoomed
    <3>2. Sweeping' = Sweeping /\ \A S : Counted(S)' = Counted(S)
      BY <2>1 DEF Counted, Sweeping, Pruning
    <3>3. Bounded'
      BY <3>2 DEF HistoryInv, Bounded
    <3>4. KeepsPins
      BY <2>1 DEF HistoryInv, HistoryTypeOK, KeepsPins
    <3>5. QED
      BY <3>1, <3>3, <3>4 DEF HistoryInv
<1>3. CASE copies # {} /\ Max(copies) \notin pinned
  <2>1. Begins(c, op, "replace", id, flag, {Max(copies)})
    BY <1>3 DEF ReplaceOrKeep
  <2>2. Max(copies) \in Id
    BY <1>3, CopiesAreEntries DEF HistoryInv
  <2>3. QED
    BY <1>3, <2>1, <2>2, StartKeeps DEF Stages, Removing
<1>4. QED
  BY <1>1, <1>2, <1>3

(* The beginnings of all requests.                                         *)
LEMMA BeginningsKeep ==
  ASSUME HistoryConstants, HistoryInv, NEW c \in Caller,
         \/ Dedupe(c) \/ Clear(c)
         \/ \E id \in Id :
              \/ Capture(c, id) \/ CaptureFiles(c, id) \/ Publish(c, id)
              \/ \E flag \in PeerFlags :
                   \/ Push(c, id, flag) \/ Fetch(c, id, flag)
                   \/ \E op \in {"pin", "unpin"} : Pin(c, id, op, flag)
  PROVE  HistoryInv' /\ KeepsPins
<1>1. HistoryTypeOK /\ used \subseteq Id /\ \A n : Newest(held, n) \subseteq Id
  BY DEF HistoryInv, HistoryTypeOK, Newest
<1>2. CASE Dedupe(c)
  <2> DEFINE unpinned == Newest(held, Limit) \ pinned
             doomed == {e \in unpinned : \E f \in unpinned : f > e /\ Content[f] = Content[e]}
  <2>1. doomed # {} /\ Begins(c, "dedupe", "each", 0, FALSE, doomed) /\ used' = used
    BY <1>2 DEF Dedupe
  <2>2. doomed \in SUBSET (Id \ pinned)
    BY <1>1
  <2> HIDE DEF doomed
  <2>3. QED
    BY <1>1, <2>1, <2>2, StartKeeps DEF Ops, Stages, Removing
<1>3. CASE Clear(c)
  <2> DEFINE doomed == Newest(held, ListMax) \ pinned
  <2>1. doomed # {} /\ Begins(c, "clear", "each", 0, FALSE, doomed) /\ used' = used
    BY <1>3 DEF Clear
  <2>2. doomed \in SUBSET (Id \ pinned)
    BY <1>1
  <2> HIDE DEF doomed
  <2>3. QED
    BY <1>1, <2>1, <2>2, StartKeeps DEF Ops, Stages, Removing
<1>4. ASSUME NEW id \in Id, Seen(id) PROVE used' \subseteq Id
  BY <1>1, <1>4 DEF Seen
<1>5. ASSUME NEW id \in Id, Capture(c, id) PROVE HistoryInv' /\ KeepsPins
  BY <1>1, <1>4, <1>5, CopiesOf, ReplaceKeeps DEF Capture, GiveOut, Ops
<1>6. ASSUME NEW id \in Id, CaptureFiles(c, id) \/ Publish(c, id) PROVE HistoryInv' /\ KeepsPins
  <2>1. used' \subseteq Id
    BY <1>4, <1>6 DEF CaptureFiles, Publish, GiveOut
  <2>2. PICK flag \in BOOLEAN : Begins(c, "capture", "insert", id, flag, {})
    BY <1>6, Zenon DEF CaptureFiles, Publish
  <2>3. QED
    BY <2>1, <2>2, StartKeeps DEF Ops, Stages, Removing
<1>7. ASSUME NEW id \in Id, NEW flag \in BOOLEAN, Push(c, id, flag)
      PROVE  HistoryInv' /\ KeepsPins
  <2>1. {e \in Copies(id) : (e \in Local) = (id \in Local)} \in SUBSET Id
    BY <1>1, CopiesOf
  <2>2. QED
    BY <1>4, <1>7, <2>1, ReplaceKeeps DEF Push, Ops
<1>8. ASSUME NEW id \in Id, NEW flag \in BOOLEAN, Fetch(c, id, flag)
      PROVE  HistoryInv' /\ KeepsPins
  BY <1>4, <1>8, StartKeeps DEF Fetch, Ops, Stages, Removing
<1>9. ASSUME NEW id \in Id, NEW flag \in BOOLEAN, NEW op \in {"pin", "unpin"},
             Pin(c, id, op, flag)
      PROVE  HistoryInv' /\ KeepsPins
  <2>1. CASE id \in held
    <3>1. used' \subseteq Id
      BY <1>4, <1>9 DEF Pin
    <3>2. PICK unset \in BOOLEAN : Begins(c, op, "mark", id, unset, {})
      BY <1>9, <2>1, Zenon DEF Pin
    <3>3. QED
      BY <3>1, <3>2, StartKeeps DEF Ops, Stages, Removing
  <2>2. CASE id \notin held
    BY <1>4, <1>9, <2>2, StartKeeps DEF Pin, Ops, Stages, Removing
  <2>3. QED
    BY <2>1, <2>2
<1>10. PeerFlags \subseteq BOOLEAN
  BY DEF HistoryConstants
<1>11. QED
  BY <1>2, <1>3, <1>5, <1>6, <1>7, <1>8, <1>9, <1>10

(* The next transaction of a request keeps the types, and what is doomed.  *)
LEMMA GotoKeeps ==
  ASSUME HistoryTypeOK, Named, Undoomed, NEW c \in Caller, NEW at \in Stages \ {"replace"},
         NEW doomed \in SUBSET Id, at \in Removing <=> doomed # {},
         at = "insert" => doing[c].at \in {"replace", "insert"},
         doomed \cap known[c] \cap pinned' = {},
         Goto(c, at, doomed), Watch,
         held' \subseteq Id, pinned' \subseteq held', loose' \subseteq Id
  PROVE  /\ HistoryTypeOK' /\ Named' /\ Undoomed'
         /\ \A d \in Caller \ {c} : doing'[d] = doing[d]
         /\ doing'[c].at = at /\ doing'[c].doomed = doomed
         /\ at # "rest" => doing'[c].id = doing[c].id
<1>1. Requests
  BY DEF HistoryTypeOK, Requests
<1>2. /\ used' = used
      /\ \E r \in Requested : /\ Becomes(c, r) /\ r.at = at /\ r.doomed = doomed
                              /\ at # "rest" => r.id = doing[c].id
  <2>1. CASE at = "rest"
    <3>1. used' = used /\ Becomes(c, NoRequest)
      BY <1>1, <2>1, GotoSteps
    <3>2. doomed = {}
      BY <2>1 DEF Removing
    <3>3. QED
      BY <2>1, <3>1, <3>2, RequestFields
  <2>2. CASE at # "rest"
    BY <1>1, <2>2, GotoSteps
  <2>3. QED
    BY <2>1, <2>2
<1>3. PICK r \in Requested : /\ Becomes(c, r) /\ r.at = at /\ r.doomed = doomed
                             /\ at # "rest" => r.id = doing[c].id
  BY <1>2
<1>4. /\ known' \in [Caller -> SUBSET Id]
      /\ \A d \in Caller : known'[d] \subseteq known[d] \cap pinned'
  BY DEF Watch, HistoryTypeOK
<1>5. \A d \in Caller : doing'[d].at \in Removing <=> doing'[d].doomed # {}
  BY <1>3 DEF HistoryTypeOK, Becomes, Removing
<1>6. HistoryTypeOK'
  BY <1>2, <1>3, <1>4, <1>5 DEF HistoryTypeOK, Becomes, Requests, Removing
<1>7. Named' /\ Undoomed'
  BY <1>3, <1>4 DEF Named, Undoomed, Becomes
<1>8. QED
  BY <1>3, <1>6, <1>7 DEF Becomes

(* What a request removes, besides what it lets go of.                     *)
LEMMA DropKeepsPins ==
  ASSUME HistoryInv, NEW c \in Caller, NEW ids, ids \subseteq doing[c].doomed, Drop(ids)
  PROVE  /\ KeepsPins /\ held' \subseteq Id /\ pinned' \subseteq held' /\ loose' \subseteq Id
         /\ held' \ (pinned' \cup loose') \subseteq held \ (pinned \cup loose)
BY DEF HistoryInv, HistoryTypeOK, Undoomed, Drop, KeepsPins

(* The table is left alone.                                                *)
LEMMA TableKept ==
  ASSUME HistoryInv, UNCHANGED <<held, pinned, loose>>
  PROVE  /\ KeepsPins /\ held' \subseteq Id /\ pinned' \subseteq held' /\ loose' \subseteq Id
         /\ held' \ (pinned' \cup loose') \subseteq held \ (pinned \cup loose)
BY DEF HistoryInv, HistoryTypeOK, KeepsPins

(* The copy that an entry replaces.                                        *)
LEMMA ReplaceStep ==
  ASSUME HistoryConstants, HistoryInv, NEW c \in Caller, Replace(c)
  PROVE  HistoryInv' /\ KeepsPins
<1>0. HistoryTypeOK /\ Named /\ Undoomed /\ Bounded
  BY DEF HistoryInv
<1>1. doing[c].at = "replace" /\ Goto(c, "insert", {}) /\ Watch
  BY DEF Replace
<1>2. /\ KeepsPins /\ held' \subseteq Id /\ pinned' \subseteq held' /\ loose' \subseteq Id
      /\ held' \ (pinned' \cup loose') \subseteq held \ (pinned \cup loose)
  BY DropKeepsPins, TableKept DEF Replace
<1>3. "insert" \in Stages \ {"replace"} /\ {} \in SUBSET Id /\ ("insert" \in Removing <=> {} # {})
  BY DEF Stages, Removing
<1>4. /\ HistoryTypeOK' /\ Named' /\ Undoomed' /\ doing'[c].at = "insert"
      /\ \A d \in Caller \ {c} : doing'[d] = doing[d]
  BY <1>0, <1>1, <1>2, <1>3, GotoKeeps
<1>5. Bounded'
  BY <1>0, <1>1, <1>2, <1>4, BoundedByOthers
<1>6. QED
  BY <1>2, <1>4, <1>5 DEF HistoryInv

(* One of the entries that are to go.                                      *)
LEMMA DeleteEachStep ==
  ASSUME HistoryConstants, HistoryInv, NEW c \in Caller, DeleteEach(c)
  PROVE  HistoryInv' /\ KeepsPins
<1>0. HistoryTypeOK /\ Named /\ Undoomed /\ Bounded
  BY DEF HistoryInv
<1> DEFINE e == Max(doing[c].doomed)
           rest == doing[c].doomed \ {e}
           at == IF rest = {} THEN "rest" ELSE "each"
<1>1. /\ doing[c].at = "each" /\ Goto(c, at, rest) /\ Watch
      /\ Drop({e}) \/ UNCHANGED <<held, pinned, loose>>
  BY DEF DeleteEach
<1>2. doing[c].doomed \in SUBSET Id /\ doing[c].doomed # {}
  BY <1>0, <1>1, RequestFields DEF HistoryTypeOK
<1>3. e \in doing[c].doomed
  BY <1>0, <1>2, CopiesAreEntries
<1>4. /\ KeepsPins /\ held' \subseteq Id /\ pinned' \subseteq held' /\ loose' \subseteq Id
      /\ held' \ (pinned' \cup loose') \subseteq held \ (pinned \cup loose)
  BY <1>1, <1>3, DropKeepsPins, TableKept
<1>5. at \in Stages \ {"replace", "insert"} /\ rest \in SUBSET Id /\ (at \in Removing <=> rest # {})
  BY <1>2 DEF Stages, Removing
<1>6. rest \cap known[c] \cap pinned' = {}
  BY <1>0 DEF Undoomed
<1>7. at \notin {"prune", "sweep"}
  OBVIOUS
<1> HIDE DEF rest, at
<1>8. /\ HistoryTypeOK' /\ Named' /\ Undoomed' /\ doing'[c].at = at
      /\ \A d \in Caller \ {c} : doing'[d] = doing[d]
  BY <1>0, <1>1, <1>4, <1>5, <1>6, GotoKeeps
<1>9. Bounded'
  BY <1>0, <1>1, <1>4, <1>7, <1>8, BoundedByOthers
<1>10. QED
  BY <1>4, <1>8, <1>9 DEF HistoryInv

(* The record is written.                                                  *)
LEMMA InsertStep ==
  ASSUME HistoryConstants, HistoryInv, NEW c \in Caller, Insert(c)
  PROVE  HistoryInv' /\ KeepsPins
<1>0. HistoryTypeOK /\ Named /\ Undoomed /\ Bounded
  BY DEF HistoryInv
<1> DEFINE w == doing[c]
           prunes == w.op \in {"capture", "push"}
           at == CASE w.op \in {"capture", "push"} -> "prune"
                   [] w.op \in {"pin", "unpin"} -> "mark"
                   [] OTHER -> "rest"
<1>1. /\ w.at = "insert" /\ held' = held \cup {w.id} /\ Goto(c, at, {}) /\ Watch
      /\ pinned' \ {w.id} = pinned \ {w.id} /\ loose' = IF prunes THEN loose ELSE loose \cup {w.id}
  BY DEF Insert
<1>2. w.id \in Id
  BY <1>0, <1>1 DEF Named
<1>3. held' \subseteq Id /\ pinned' \subseteq held' /\ loose' \subseteq Id
  BY <1>0, <1>1, <1>2 DEF HistoryTypeOK
<1>4. KeepsPins
  BY <1>0, <1>1 DEF KeepsPins, HistoryTypeOK
<1>5. /\ at \in Stages \ {"replace", "insert"} /\ {} \in SUBSET Id /\ (at \in Removing <=> {} # {})
      /\ IF prunes THEN at = "prune" ELSE at \notin {"prune", "sweep"}
  BY DEF Stages, Removing
<1>6. /\ HistoryTypeOK' /\ Named' /\ Undoomed' /\ doing'[c].at = at
      /\ at # "rest" => doing'[c].id = w.id
      /\ \A d \in Caller \ {c} : doing'[d] = doing[d]
  <2> HIDE DEF at, w
  <2>1. QED
    BY <1>0, <1>1, <1>3, <1>5, GotoKeeps DEF w
<1>7. CASE ~prunes
  <2>1. held' \ (pinned' \cup loose') \subseteq held \ (pinned \cup loose)
    BY <1>1, <1>7
  <2> HIDE DEF at, w
  <2>2. Bounded'
    BY <1>0, <1>1, <1>5, <1>6, <1>7, <2>1, BoundedByOthers DEF w
  <2>3. QED
    BY <1>4, <1>6, <2>2 DEF HistoryInv
<1>8. CASE prunes
  <2> HIDE DEF at, w
  <2>1. /\ doing'[c].at = "prune" /\ doing'[c].id = w.id /\ loose' = loose
        /\ doing[c].at = "insert"
    BY <1>1, <1>5, <1>6, <1>8 DEF w
  <2>2. Sweeping' = Sweeping /\ c \notin Sweeping /\ Pruning' = Pruning \cup {c} /\ c \notin Pruning
    BY <1>6, <2>1 DEF Sweeping, Pruning
  <2>3. ASSUME NEW S \in SUBSET Sweeping' PROVE Counted(S)' \subseteq Counted(S)
    <3>1. S \subseteq Sweeping /\ \A d \in S \cup Pruning : doing'[d] = doing[d]
      BY <1>6, <2>2, <2>3 DEF Sweeping, Pruning
    <3>2. held' \ (pinned' \cup loose' \cup {w.id}) \subseteq held \ (pinned \cup loose)
      BY <1>1, <2>1
    <3>3. c \in Pruning' \ S
      BY <2>2, <3>1
    <3>4. ASSUME NEW e \in Counted(S)' PROVE e \in Counted(S)
      BY <2>1, <2>2, <3>1, <3>2, <3>3, CountedEntry
    <3>5. QED
      BY <3>4
  <2>4. Bounded'
    BY <1>0, <2>2, <2>3, BoundedStays
  <2>5. QED
    BY <1>4, <1>6, <2>4 DEF HistoryInv
<1>9. QED
  BY <1>7, <1>8

(* A pin is set or taken back.                                             *)
LEMMA MarkStep ==
  ASSUME HistoryConstants, HistoryInv, NEW c \in Caller, Mark(c)
  PROVE  HistoryInv' /\ KeepsPins
<1>0. HistoryTypeOK /\ Named /\ Undoomed /\ Bounded
  BY DEF HistoryInv
<1>1. doing[c].at = "mark" /\ Goto(c, "rest", {}) /\ Watch /\ held' = held
  BY DEF Mark
<1>2. /\ pinned' \subseteq held' /\ loose' \subseteq Id
      /\ held' \ (pinned' \cup loose') \subseteq held \ (pinned \cup loose)
  BY <1>0 DEF Mark, HistoryTypeOK
<1>3. KeepsPins /\ held' \subseteq Id
  BY <1>0, <1>1 DEF KeepsPins, HistoryTypeOK
<1>4. /\ "rest" \in Stages \ {"replace"} /\ {} \in SUBSET Id
      /\ "rest" \in Removing <=> {} # {}
  BY DEF Stages, Removing
<1>5. /\ HistoryTypeOK' /\ Named' /\ Undoomed' /\ doing'[c].at = "rest"
      /\ \A d \in Caller \ {c} : doing'[d] = doing[d]
  BY <1>0, <1>1, <1>2, <1>3, <1>4, GotoKeeps
<1>6. Bounded'
  BY <1>0, <1>1, <1>2, <1>5, BoundedByOthers
<1>7. QED
  BY <1>3, <1>5, <1>6 DEF HistoryInv

(* What is removable is all but the newest unpinned entries.               *)
LEMMA RemovableLeavesFew ==
  ASSUME HistoryConstants, HistoryTypeOK
  PROVE  /\ Removable \subseteq Id \ pinned
         /\ \A S : S \subseteq held \ (pinned \cup Removable) => Cardinality(S) <= Limit
<1> DEFINE U == held \ pinned
           N == Newest(U, Limit)
<1>1. U \subseteq Nat /\ IsFiniteSet(U) /\ U \subseteq Id
  BY FS_Subset DEF HistoryTypeOK, HistoryConstants
<1>2. N \subseteq U /\ IsFiniteSet(N) /\ Cardinality(N) <= Limit
  BY <1>1, NewestBounded DEF HistoryConstants
<1>3. Removable = U \ N
  BY DEF Removable
<1>4. ASSUME NEW S, S \subseteq held \ (pinned \cup Removable) PROVE Cardinality(S) <= Limit
  <2>1. S \subseteq N
    BY <1>2, <1>3, <1>4
  <2>2. IsFiniteSet(S) /\ Cardinality(S) <= Cardinality(N)
    BY <1>2, <2>1, FS_Subset
  <2>3. Cardinality(S) \in Nat /\ Cardinality(N) \in Nat /\ Limit \in Nat
    BY <1>2, <2>2, FS_CardinalityType DEF HistoryConstants
  <2>4. QED
    BY <1>2, <2>2, <2>3
<1>5. Removable \subseteq Id \ pinned
  BY <1>1, <1>3
<1>6. QED
  BY <1>4, <1>5

(* The first transaction of prune lists.                                   *)
LEMMA PruneStep ==
  ASSUME HistoryConstants, HistoryInv, NEW c \in Caller, Prune(c)
  PROVE  HistoryInv' /\ KeepsPins
<1>0. HistoryTypeOK /\ Named /\ Undoomed /\ Bounded
  BY DEF HistoryInv
<1> DEFINE at == IF Removable = {} THEN "rest" ELSE "sweep"
<1>1. /\ doing[c].at = "prune" /\ Goto(c, at, Removable) /\ Watch
      /\ UNCHANGED <<held, pinned, loose>>
  BY DEF Prune
<1>2. /\ Removable \subseteq Id \ pinned
      /\ \A S : S \subseteq held \ (pinned \cup Removable) => Cardinality(S) <= Limit
  BY <1>0, RemovableLeavesFew
<1>3. KeepsPins /\ held' \subseteq Id /\ pinned' \subseteq held' /\ loose' \subseteq Id
  BY <1>1, TableKept
<1>4. at \in Stages \ {"replace", "insert"} /\ (at \in Removing <=> Removable # {})
  BY DEF Stages, Removing
<1> DEFINE R == Removable
<1> HIDE DEF R
<1>5. /\ HistoryTypeOK' /\ Named' /\ Undoomed' /\ doing'[c].at = at /\ doing'[c].doomed = R
      /\ at # "rest" => doing'[c].id = doing[c].id
      /\ \A d \in Caller \ {c} : doing'[d] = doing[d]
  <2>1. R \in SUBSET Id /\ R \cap known[c] \cap pinned' = {} /\ (at \in Removing <=> R # {})
    BY <1>1, <1>2, <1>4 DEF R
  <2> HIDE DEF at
  <2>2. QED
    BY <1>0, <1>1, <1>3, <1>4, <2>1, GotoKeeps DEF R
<1>6. ASSUME NEW S \in SUBSET Sweeping' PROVE Cardinality(Counted(S)') <= Limit
  <2>1. CASE R = {}
    <3>1. Counted(S)' \subseteq held \ (pinned \cup R)
      BY <1>1, <2>1 DEF Counted
    <3>2. QED
      BY <1>2, <3>1 DEF R
  <2>2. CASE R # {} /\ c \in S
    <3>1. R \subseteq UNION {doing'[d].doomed : d \in S}
      BY <1>5, <2>2
    <3>2. Counted(S)' \subseteq held \ (pinned \cup R)
      BY <1>1, <3>1 DEF Counted
    <3>3. QED
      BY <1>2, <3>2 DEF R
  <2>3. CASE R # {} /\ c \notin S
    <3>1. /\ S \subseteq Sweeping /\ Pruning' = Pruning
          /\ \A d \in S : doing'[d] = doing[d]
          /\ \A d \in Pruning : doing'[d].id = doing[d].id
      BY <1>1, <1>5, <1>6, <2>3 DEF Sweeping, Pruning, R
    <3>2. /\ UNION {doing'[d].doomed : d \in S} = UNION {doing[d].doomed : d \in S}
          /\ {doing'[d].id : d \in Pruning' \ S} = {doing[d].id : d \in Pruning \ S}
      BY <3>1
    <3>3. Counted(S)' = Counted(S)
      BY <1>1, <3>2 DEF Counted
    <3>4. QED
      BY <1>0, <3>1, <3>3 DEF Bounded
  <2>4. QED
    BY <2>1, <2>2, <2>3
<1>7. Bounded'
  BY <1>6 DEF Bounded, HistoryConstants
<1>8. QED
  BY <1>3, <1>5, <1>7 DEF HistoryInv

(* The second removes what was listed.                                     *)
LEMMA SweepStep ==
  ASSUME HistoryConstants, HistoryInv, NEW c \in Caller, Sweep(c)
  PROVE  HistoryInv' /\ KeepsPins
<1>0. HistoryTypeOK /\ Named /\ Undoomed /\ Bounded
  BY DEF HistoryInv
<1> DEFINE D == doing[c].doomed
<1>1. doing[c].at = "sweep" /\ Drop(D) /\ Goto(c, "rest", {}) /\ Watch
  BY DEF Sweep
<1>2. KeepsPins /\ held' \subseteq Id /\ pinned' \subseteq held' /\ loose' \subseteq Id
  BY <1>1, DropKeepsPins
<1>3. /\ "rest" \in Stages \ {"replace"} /\ {} \in SUBSET Id
      /\ "rest" \in Removing <=> {} # {}
  BY DEF Stages, Removing
<1>4. /\ HistoryTypeOK' /\ Named' /\ Undoomed' /\ doing'[c].at = "rest"
      /\ \A d \in Caller \ {c} : doing'[d] = doing[d]
  BY <1>0, <1>1, <1>2, <1>3, GotoKeeps
<1>5. ASSUME NEW S \in SUBSET Sweeping'
      PROVE  S \cup {c} \in SUBSET Sweeping /\ Counted(S)' \subseteq Counted(S \cup {c})
  <2>1. /\ c \in Sweeping /\ S \subseteq Sweeping /\ c \notin S /\ Pruning' = Pruning \ {c}
        /\ \A d \in S \cup Pruning' : doing'[d] = doing[d]
    BY <1>1, <1>4, <1>5 DEF Sweeping, Pruning
  <2> HIDE DEF D
  <2>2. held' \ (pinned' \cup loose') \subseteq held \ (pinned \cup loose \cup D)
    BY <1>1 DEF Drop
  <2>3. ASSUME NEW e \in Counted(S)' PROVE e \in Counted(S \cup {c})
    <3>1. e \in held \ (pinned \cup loose) /\ e \notin doing[c].doomed
      BY <2>2, CountedEntry DEF D
    <3>2. \A d \in S \cup {c} : e \notin doing[d].doomed
      BY <2>1, <3>1, CountedEntry
    <3>3. \A d \in Pruning \ (S \cup {c}) : e # doing[d].id
      BY <2>1, CountedEntry
    <3>4. QED
      BY <3>1, <3>2, <3>3, CountedEntry
  <2>4. QED
    BY <2>1, <2>3
<1>6. Bounded'
  BY <1>0, <1>5, BoundedStays
<1>7. QED
  BY <1>2, <1>4, <1>6 DEF HistoryInv

(* A request ends before it is done.                                       *)
LEMMA AbandonStep ==
  ASSUME HistoryConstants, HistoryInv, NEW c \in Caller, Abandon(c)
  PROVE  HistoryInv' /\ KeepsPins
<1>0. HistoryTypeOK /\ Named /\ Undoomed /\ Bounded
  BY DEF HistoryInv
<1>1. /\ Goto(c, "rest", {}) /\ Watch /\ UNCHANGED <<held, pinned>>
      /\ loose' = IF doing[c].at \in {"prune", "sweep"}
                  THEN loose \cup ({doing[c].id} \cap held) ELSE loose
  BY DEF Abandon
<1>2. KeepsPins /\ held' \subseteq Id /\ pinned' \subseteq held' /\ loose' \subseteq Id
  BY <1>0, <1>1 DEF KeepsPins, HistoryTypeOK
<1>3. /\ "rest" \in Stages \ {"replace"} /\ {} \in SUBSET Id
      /\ "rest" \in Removing <=> {} # {}
  BY DEF Stages, Removing
<1>4. /\ HistoryTypeOK' /\ Named' /\ Undoomed' /\ doing'[c].at = "rest"
      /\ \A d \in Caller \ {c} : doing'[d] = doing[d]
  BY <1>0, <1>1, <1>2, <1>3, GotoKeeps
<1>5. ASSUME NEW S \in SUBSET Sweeping'
      PROVE  S \subseteq Sweeping /\ Counted(S)' \subseteq Counted(S)
  <2>1. /\ S \subseteq Sweeping /\ c \notin S /\ Pruning' = Pruning \ {c}
        /\ \A d \in S \cup Pruning' : doing'[d] = doing[d]
    BY <1>4, <1>5 DEF Sweeping, Pruning
  <2>2. ASSUME NEW e \in Counted(S)' PROVE e \in Counted(S)
    <3>1. e \in held \ (pinned \cup loose) /\ e \notin loose'
      BY <1>1, CountedEntry
    <3>2. \A d \in S : e \notin doing[d].doomed
      BY <2>1, CountedEntry
    <3>3. \A d \in Pruning \ S : e # doing[d].id
      <4>1. \A d \in Pruning' \ S : e # doing[d].id
        BY <2>1, CountedEntry
      <4>2. c \in Pruning => e # doing[c].id
        BY <1>1, <3>1 DEF Pruning
      <4>3. QED
        BY <2>1, <4>1, <4>2
    <3>4. QED
      BY <3>1, <3>2, <3>3, CountedEntry
  <2>3. QED
    BY <2>1, <2>2
<1>6. Bounded'
  BY <1>0, <1>5, BoundedStays
<1>7. QED
  BY <1>2, <1>4, <1>6 DEF HistoryInv

(* A request of one transaction removes entries by name, or unpinned ones. *)
LEMMA DropStep ==
  ASSUME HistoryConstants, HistoryInv, NEW ids, Drop(ids), UNCHANGED <<doing, used>>, Watch
  PROVE  HistoryInv'
<1>0. HistoryTypeOK /\ Named /\ Undoomed /\ Bounded
  BY DEF HistoryInv
<1>1. /\ known' \in [Caller -> SUBSET Id]
      /\ \A d \in Caller : known'[d] \subseteq known[d]
  BY <1>0 DEF Watch, HistoryTypeOK
<1>2. HistoryTypeOK'
  BY <1>0, <1>1 DEF HistoryTypeOK, Drop
<1>3. Undoomed'
  BY <1>0, <1>1 DEF Undoomed
<1>4. Sweeping' = Sweeping /\ \A S \in SUBSET Sweeping' : Counted(S)' \subseteq Counted(S)
  BY DEF Drop, Counted, Sweeping, Pruning
<1>5. Bounded'
  BY <1>0, <1>4, BoundedStays
<1>6. QED
  BY <1>0, <1>2, <1>3, <1>5 DEF HistoryInv, Named

(* Every step keeps the invariant, and the pins.                           *)
LEMMA HistoryInductive ==
  ASSUME HistoryConstants, HistoryInv, HistoryNext
  PROVE  HistoryInv' /\ KeepsPins
<1>1. CASE ClearStore
  <2>1. HistoryInv'
    BY <1>1, DropStep DEF ClearStore
  <2>2. KeepsPins
    BY <1>1 DEF ClearStore, Drop, KeepsPins, HistoryInv, HistoryTypeOK
  <2>3. QED
    BY <2>1, <2>2
<1>2. ASSUME NEW id \in Id, Delete(id) PROVE HistoryInv' /\ KeepsPins
  <2>1. HistoryInv'
    BY <1>2, DropStep DEF Delete
  <2>2. KeepsPins
    BY <1>2 DEF Delete, Drop, KeepsPins, HistoryInv, HistoryTypeOK
  <2>3. QED
    BY <2>1, <2>2
<1>3. QED
  BY <1>1, <1>2, BeginningsKeep, ReplaceStep, InsertStep, PruneStep, SweepStep, DeleteEachStep,
    MarkStep, AbandonStep DEF HistoryNext

(* At the start the table is empty.                                        *)
LEMMA HistoryInitially == HistoryConstants /\ HistoryInit => HistoryInv
<1> SUFFICES ASSUME HistoryConstants, HistoryInit PROVE HistoryInv
  OBVIOUS
<1>1. \A c \in Caller : doing[c] = NoRequest /\ known[c] = {}
  BY DEF HistoryInit
<1>2. HistoryTypeOK
  BY <1>1, RequestFields DEF HistoryInit, HistoryTypeOK
<1>3. Named /\ Undoomed
  BY <1>1, RequestFields DEF Named, Undoomed
<1>4. Bounded
  <2>1. \A S : Counted(S) = {}
    BY DEF HistoryInit, Counted
  <2>2. QED
    BY <2>1, FS_EmptySet DEF Bounded, HistoryConstants
<1>5. QED
  BY <1>2, <1>3, <1>4 DEF HistoryInv

(* Stuttering keeps it.                                                    *)
LEMMA HistoryStutters == HistoryInv /\ UNCHANGED historyVars => HistoryInv'
<1> SUFFICES ASSUME HistoryInv, UNCHANGED historyVars PROVE HistoryInv'
  OBVIOUS
<1>1. Sweeping' = Sweeping /\ \A S : Counted(S)' = Counted(S)
  BY DEF historyVars, Sweeping, Pruning, Counted
<1>2. QED
  BY <1>1 DEF historyVars, HistoryInv, HistoryTypeOK, Named, Undoomed, Bounded

-----------------------------------------------------------------------------
(* Theorems *)

(* Every variable keeps to its type, however requests overlap and fail.    *)
THEOREM HistoryIsTyped == HistoryConstants /\ HistorySpec => []HistoryTypeOK
<1> SUFFICES ASSUME HistoryConstants PROVE HistorySpec => []HistoryTypeOK
  OBVIOUS
<1>1. HistoryInit => HistoryInv
  BY HistoryInitially
<1>2. HistoryInv /\ [HistoryNext]_historyVars => HistoryInv'
  BY HistoryInductive, HistoryStutters
<1>3. HistoryInv => HistoryTypeOK
  BY DEF HistoryInv
<1>4. QED
  BY <1>1, <1>2, <1>3, PTL DEF HistorySpec

(* Between requests, no more unpinned entries are kept than the limit says,*)
(* but for those stored, unpinned or fetched without pruning.              *)
THEOREM HistoryStaysBounded == HistoryConstants /\ HistorySpec => []HistoryIsBounded
<1> SUFFICES ASSUME HistoryConstants PROVE HistorySpec => []HistoryIsBounded
  OBVIOUS
<1>1. HistoryInit => HistoryInv
  BY HistoryInitially
<1>2. HistoryInv /\ [HistoryNext]_historyVars => HistoryInv'
  BY HistoryInductive, HistoryStutters
<1>3. HistoryInv => HistoryIsBounded
  <2> SUFFICES ASSUME HistoryInv, \A c \in Caller : doing[c].at = "rest"
               PROVE  Cardinality(held \ (pinned \cup loose)) <= Limit
    BY DEF HistoryIsBounded
  <2>1. Sweeping = {} /\ Pruning = {}
    BY DEF Sweeping, Pruning
  <2>2. Counted({}) = held \ (pinned \cup loose)
    BY <2>1 DEF Counted
  <2>3. Cardinality(Counted({})) <= Limit
    BY DEF HistoryInv, Bounded
  <2>4. QED
    BY <2>2, <2>3
<1>4. QED
  BY <1>1, <1>2, <1>3, PTL DEF HistorySpec

(* An entry pinned before a request began, and ever since, is not removed  *)
(* by that request, but by an explicit delete alone.                       *)
THEOREM PinsAlwaysOutliveWork == HistoryConstants /\ HistorySpec => PinsOutliveWork
<1> SUFFICES ASSUME HistoryConstants PROVE HistorySpec => PinsOutliveWork
  OBVIOUS
<1>1. HistoryInit => HistoryInv
  BY HistoryInitially
<1>2. HistoryInv /\ [HistoryNext]_historyVars => HistoryInv'
  BY HistoryInductive, HistoryStutters
<1>3. HistoryInv /\ [HistoryNext]_historyVars => [KeepsPins]_historyVars
  BY HistoryInductive
<1>4. QED
  BY <1>1, <1>2, <1>3, PTL DEF HistorySpec, PinsOutliveWork

=============================================================================
