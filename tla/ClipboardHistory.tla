-------------------------- MODULE ClipboardHistory --------------------------
(***************************************************************************)
(* The clipboard history of one desktop: the entries table of store.rs and *)
(* the requests of engine.rs and server.rs that work on it.                *)
(*                                                                         *)
(* A call of the store is one transaction, and an action here; a request   *)
(* makes several, with those of other requests in between.  An entry is    *)
(* its id; ids are in the order of created_at.                             *)
(***************************************************************************)
EXTENDS Naturals, FiniteSets, FiniteSetsExt

CONSTANTS
  Id,           \* the entries there may be, in the order of created_at
  Local,        \* those captured here; the others come from a peer
  Content,      \* the fingerprint of each entry
  Caller,       \* requests at work at the same time
  Limit,        \* storage.history_limit
  ListMax,      \* the most entries GET /v1/entries returns
  PeerFlags     \* bound: the pinned flags of peers' entries

VARIABLES
  held,      \* the ids in the table
  pinned,    \* those with the pinned flag
  doing,     \* the progress of each request
  used,      \* the ids that have been given out here, or seen of a peer
  known,     \* history: the entries pinned ever since a request began
  loose      \* history: the entries stored or unpinned without pruning after it

historyVars == <<held, pinned, doing, used, known, loose>>

NoRequest == [op |-> "none", at |-> "rest", id |-> 0, flag |-> FALSE, doomed |-> {}]

HistoryInit ==
  /\ held = {} /\ pinned = {} /\ used = {}
  /\ doing = [c \in Caller |-> NoRequest]
  /\ known = [c \in Caller |-> {}] /\ loose = {}

-----------------------------------------------------------------------------
(* Reading the table *)

Newest(S, n) == {e \in S : Cardinality({f \in S : f > e}) < n}

(* The older entries with the content of id, within the history limit.     *)
Copies(id) == {e \in Newest(held, Limit) \ {id} : Content[e] = Content[id]}

(* Entries that exist somewhere: a peer may send or hold these.            *)
Sendable == (Id \ Local) \cup used

Seen(id) == used' = used \cup {id}

-----------------------------------------------------------------------------
(* Beginning a request *)

Begins(c, op, at, id, flag, doomed) ==
  /\ doing[c].at = "rest"
  /\ doing' = [doing EXCEPT ![c] =
       [op |-> op, at |-> at, id |-> id, flag |-> flag, doomed |-> doomed]]
  /\ known' = [known EXCEPT ![c] = pinned]
  /\ UNCHANGED <<held, pinned, loose>>

(* Without a copy the entry is stored; a pinned copy stands for it; any    *)
(* other copy is removed first.                                            *)
ReplaceOrKeep(c, op, id, flag, copies) ==
  IF copies = {} THEN Begins(c, op, "insert", id, flag, {})
  ELSE IF Max(copies) \in pinned
  THEN UNCHANGED <<held, pinned, doing, known, loose>>
  ELSE Begins(c, op, "replace", id, flag, {Max(copies)})

GiveOut(id) ==
  /\ id \in Local \ used /\ \A e \in Local \ used : id <= e
  /\ Seen(id)

Capture(c, id) ==
  GiveOut(id) /\ ReplaceOrKeep(c, "capture", id, FALSE, Copies(id))

(* Picked files, which give way to a copy, and published notes, which do   *)
(* not.                                                                    *)
CaptureFiles(c, id) ==
  GiveOut(id) /\ Copies(id) = {} /\ Begins(c, "capture", "insert", id, FALSE, {})

Publish(c, id) == GiveOut(id) /\ Begins(c, "capture", "insert", id, FALSE, {})

(* The sender's flag comes with the entry; only a copy of the same origin  *)
(* is looked for.                                                          *)
Push(c, id, flag) ==
  /\ id \in Sendable
  /\ ReplaceOrKeep(c, "push", id, flag, {e \in Copies(id) : (e \in Local) = (id \in Local)})
  /\ Seen(id)

(* The peer captures its clipboard: a new entry, or one it has pinned.     *)
Fetch(c, id, flag) ==
  /\ id \in Sendable /\ (flag \/ id \notin used)
  /\ Begins(c, "fetch", "insert", id, flag, {}) /\ Seen(id)

(* An entry that is not here is copied from a peer first.                  *)
Pin(c, id, op, flag) ==
  /\ IF id \in held THEN Begins(c, op, "mark", id, FALSE, {})
     ELSE id \in Sendable /\ Begins(c, op, "insert", id, flag, {})
  /\ Seen(id)

(* All but the newest unpinned entry of each content.                      *)
Dedupe(c) ==
  LET unpinned == Newest(held, Limit) \ pinned
      doomed == {e \in unpinned : \E f \in unpinned : f > e /\ Content[f] = Content[e]}
  IN /\ doomed # {}
     /\ Begins(c, "dedupe", "each", 0, FALSE, doomed) /\ UNCHANGED used

(* The command line lists the history and deletes what was not pinned.     *)
Clear(c) ==
  LET doomed == Newest(held, ListMax) \ pinned
  IN /\ doomed # {}
     /\ Begins(c, "clear", "each", 0, FALSE, doomed) /\ UNCHANGED used

-----------------------------------------------------------------------------
(* The next transaction of a request *)

Goto(c, at, doomed) ==
  /\ doing' = IF at = "rest" THEN [doing EXCEPT ![c] = NoRequest]
              ELSE [doing EXCEPT ![c].at = at, ![c].doomed = doomed,
                                 ![c].flag = at = "insert" /\ @]
  /\ UNCHANGED used

Watch ==
  known' = [c \in Caller |-> IF doing'[c].at = "rest" THEN {} ELSE known[c] \cap pinned']

Drop(ids) == held' = held \ ids /\ pinned' = pinned \ ids /\ loose' = loose \ ids

(* store.delete of the copy; push goes on when it fails.                   *)
Replace(c) ==
  /\ doing[c].at = "replace"
  /\ \/ Drop(doing[c].doomed)
     \/ doing[c].op = "push" /\ UNCHANGED <<held, pinned, loose>>
  /\ Goto(c, "insert", {})
  /\ Watch

(* The record is written over one of the same id.                          *)
Insert(c) ==
  /\ doing[c].at = "insert"
  /\ LET w == doing[c] IN
     /\ held' = held \cup {w.id}
     /\ pinned' = IF w.flag THEN pinned \cup {w.id} ELSE pinned \ {w.id}
     /\ Goto(c, CASE w.op \in {"capture", "push"} -> "prune"
                  [] w.op \in {"pin", "unpin"} -> "mark"
                  [] OTHER -> "rest", {})
     /\ loose' = IF w.op \in {"capture", "push"} THEN loose ELSE loose \cup {w.id}
  /\ Watch

(* Mutant of Removable: one entry too many is kept.                        *)
RemovableButOne == LET unpinned == held \ pinned IN unpinned \ Newest(unpinned, Limit + 1)

(* Mutant of Removable: pinned entries count and go like any others.       *)
RemovableAll == held \ Newest(held, Limit)

Removable == LET unpinned == held \ pinned IN unpinned \ Newest(unpinned, Limit)

(* The two transactions of prune: one lists, the other removes by id.      *)
Prune(c) ==
  /\ doing[c].at = "prune"
  /\ Goto(c, IF Removable = {} THEN "rest" ELSE "sweep", Removable)
  /\ UNCHANGED <<held, pinned, loose>> /\ Watch

Sweep(c) ==
  /\ doing[c].at = "sweep"
  /\ Drop(doing[c].doomed)
  /\ Goto(c, "rest", {}) /\ Watch

(* One after the other, newest first; clear passes over one that fails.    *)
DeleteEach(c) ==
  /\ doing[c].at = "each"
  /\ LET e == Max(doing[c].doomed)
         rest == doing[c].doomed \ {e}
     IN /\ Drop({e}) \/ (doing[c].op = "clear" /\ UNCHANGED <<held, pinned, loose>>)
        /\ Goto(c, IF rest = {} THEN "rest" ELSE "each", rest)
  /\ Watch

(* set_pinned, and the answer.                                             *)
Mark(c) ==
  /\ doing[c].at = "mark"
  /\ LET id == doing[c].id IN
     IF id \notin held THEN UNCHANGED <<pinned, loose>>
     ELSE IF doing[c].op = "pin"
     THEN pinned' = pinned \cup {id} /\ UNCHANGED loose
     ELSE pinned' = pinned \ {id} /\ loose' = loose \cup {id}
  /\ Goto(c, "rest", {}) /\ UNCHANGED held /\ Watch

(* A transaction fails, or the process stops.                              *)
Abandon(c) ==
  /\ doing[c].at # "rest"
  /\ loose' = IF doing[c].at \in {"prune", "sweep"}
              THEN loose \cup ({doing[c].id} \cap held) ELSE loose
  /\ Goto(c, "rest", {}) /\ UNCHANGED <<held, pinned>> /\ Watch

-----------------------------------------------------------------------------
(* Requests of one transaction *)

Delete(id) ==
  /\ id \in held
  /\ Drop({id})
  /\ UNCHANGED <<doing, used>> /\ Watch

(* store.clear, by the command line while no daemon runs.                  *)
ClearStore ==
  /\ \A c \in Caller : doing[c].at = "rest"
  /\ held # pinned /\ Drop(held \ pinned)
  /\ UNCHANGED <<doing, used>> /\ Watch

HistoryNext ==
  \/ ClearStore
  \/ \E id \in Id : Delete(id)
  \/ \E c \in Caller :
       \/ Dedupe(c) \/ Clear(c) \/ Replace(c) \/ Insert(c) \/ Prune(c) \/ Sweep(c)
       \/ DeleteEach(c) \/ Mark(c) \/ Abandon(c)
       \/ \E id \in Id :
            \/ Capture(c, id) \/ CaptureFiles(c, id) \/ Publish(c, id)
            \/ \E flag \in PeerFlags :
                 \/ Push(c, id, flag) \/ Fetch(c, id, flag)
                 \/ \E op \in {"pin", "unpin"} : Pin(c, id, op, flag)

HistorySpec == HistoryInit /\ [][HistoryNext]_historyVars

-----------------------------------------------------------------------------
(* Properties *)

Requested ==
  [op : {"none", "capture", "push", "fetch", "pin", "unpin", "dedupe", "clear"},
   at : {"rest", "replace", "insert", "prune", "sweep", "each", "mark"},
   id : Id \cup {0}, flag : BOOLEAN, doomed : SUBSET Id]

(* Every variable has its type; only entries in the table are pinned, and  *)
(* a request that removes entries has some to remove.                      *)
HistoryTypeOK ==
  /\ held \subseteq Id /\ pinned \subseteq held
  /\ doing \in [Caller -> Requested]
  /\ \A c \in Caller : doing[c].at \in {"replace", "sweep", "each"} <=> doing[c].doomed # {}
  /\ used \subseteq Id
  /\ known \in [Caller -> SUBSET Id] /\ loose \subseteq Id

KeepsPins ==
  \A id \in pinned \ held' :
    \/ doing' = doing /\ held' = held \ {id}
    \/ \E c \in Caller : id \in doing[c].doomed \ known[c]

(* Whatever work goes on at the same time, an entry that was pinned before *)
(* a request began, and still is, is only removed by an explicit delete.   *)
PinsOutliveWork == [][KeepsPins]_historyVars

(* However the requests overlapped and failed, between requests there are  *)
(* no more unpinned entries than the limit, but for those unpinned, copied *)
(* or fetched, or stored by a request that could not prune.                *)
HistoryIsBounded ==
  (\A c \in Caller : doing[c].at = "rest") =>
    Cardinality(held \ (pinned \cup loose)) <= Limit

(* Pins are made and taken back here: a pinned entry stays pinned until it *)
(* is unpinned or deleted by name, whatever peers send.                    *)
PinnedStaysPinned ==
  [][\A id \in pinned \ pinned' :
       \/ doing' = doing /\ held' = held \ {id}
       \/ \E c \in Caller :
            doing[c].op = "unpin" /\ doing[c].at = "mark" /\ doing[c].id = id]_historyVars

=============================================================================
