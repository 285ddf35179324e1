----------------------------- MODULE AiReceiver -----------------------------
(***************************************************************************)
(* The AI notifications of a group of desktops (ai_tasks.rs, ai_monitor.rs,*)
(* the hook of ai.rs). Hooks leave events in a spool of their desktop; its *)
(* poll loop drains the spool into the event table, reads the feeds and    *)
(* declarations of all desktops, and queues alerts while this desktop is   *)
(* the receiver. Which desktop that is, is a declaration that travels from *)
(* desktop to desktop with the polls, ordered by (counter, operation id).  *)
(***************************************************************************)
EXTENDS Naturals, FiniteSets, Sequences, SequencesExt

CONSTANTS
  Desktop,
  Group,         \* token groups: the hash of an ai_token of 32 bytes or more
  NoGroup,       \* no such token is configured
  InitialToken,  \* [Desktop -> Group \cup {NoGroup}]
  NextTokens,    \* tokens a restart may find in the configuration
  Operation,     \* operation ids of declarations, numbers for their order
  Event,         \* events a hook may leave, on the desktop named by At
  At,            \* [Event -> Desktop]
  Sessions,      \* how many sessions there are
  Session,       \* [Event -> 1 .. Sessions], in the order record visits them
  Alerting,      \* the events a user is told of (alert_label)
  MaxEvents,     \* MAX_EVENTS of a table and of a feed
  SpoolMax,      \* MAX_SPOOL_FILES
  AlertMax,      \* 32 alerts
  SeenMax,       \* 8192 ids
  MaxFaults,     \* bound: failures of requests, writes and removals
  MaxStarts      \* bound: restarts

ASSUME ReceiverAssumption ==
  /\ NoGroup \notin Group
  /\ InitialToken \in [Desktop -> Group \cup {NoGroup}]
  /\ NextTokens \subseteq Group \cup {NoGroup}
  /\ Operation \subseteq Nat
  /\ Sessions \in Nat
  /\ At \in [Event -> Desktop] /\ Session \in [Event -> 1 .. Sessions]
  /\ Alerting \subseteq Event
  /\ {MaxEvents, SpoolMax, AlertMax, SeenMax, MaxFaults, MaxStarts} \subseteq Nat
  /\ SpoolMax > 0

VARIABLES
  monitor,   \* per desktop, the Monitor in memory
  stored,    \* per desktop, what ai-monitor.json holds of it
  token,     \* per desktop, the group of the running configuration
  poll,      \* per desktop, where its poll loop is
  spool,     \* per desktop, the files of ai-outbox, oldest first
  table,     \* per desktop, its event table in the order of sequence
  spent,     \* operations and events that have been used
  heard,     \* history: per desktop and peer, the declaration last read from
             \* it and saved
  silent,    \* history: per desktop, events it showed, or recorded while it
             \* was to show none, and saved that it did
  trouble    \* [faults, restarts] so far

feeds == <<spool, table>>
receiverVars == <<monitor, stored, token, poll, feeds, spent, heard, silent, trouble>>

NoSync == [p \in Desktop |-> FALSE]

NothingHeard == [p \in Desktop |-> {}]

(* Monitor. A declaration is a set of at most one record. Known keys beside*)
(* baseline_sources are left out of baseline_pending: the first feed of a  *)
(* key is suppressed anyway. sync is whether the status is "synced".       *)
Fresh ==
  [enabled |-> FALSE, selection |-> {}, configured |-> FALSE, group |-> NoGroup,
   sources |-> {}, pending |-> {}, seen |-> <<>>, alerts |-> <<>>,
   sync |-> NoSync, dirty |-> FALSE]

NoPoll == [phase |-> "rest", files |-> <<>>, local |-> {}, todo |-> {}, got |-> <<>>]

ReceiverInit ==
  /\ monitor = [d \in Desktop |-> Fresh] /\ stored = [d \in Desktop |-> Fresh]
  /\ token = InitialToken
  /\ poll = [d \in Desktop |-> NoPoll]
  /\ spool = [d \in Desktop |-> <<>>] /\ table = [d \in Desktop |-> <<>>]
  /\ spent = {}
  /\ heard = [d \in Desktop |-> NothingHeard] /\ silent = [d \in Desktop |-> {}]
  /\ trouble = [faults |-> 0, restarts |-> 0]

Fault ==
  /\ trouble.faults < MaxFaults
  /\ trouble' = [trouble EXCEPT !.faults = @ + 1]

(* What is left of s without the elements of S.                            *)
Without(s, S) ==
  LET left[i \in 0 .. Len(s)] ==
        IF i = 0 THEN <<>> ELSE IF s[i] \in S THEN left[i - 1] ELSE Append(left[i - 1], s[i])
  IN left[Len(s)]

-----------------------------------------------------------------------------
(* Saving and loading *)

(* What save writes, and initialize reads back.                            *)
Kept(m) == [m EXCEPT !.sync = NoSync, !.dirty = FALSE]

(* save: m becomes the monitor, and the file unless nothing has changed;   *)
(* when the file cannot be written, or m brings nothing to write, the      *)
(* monitor is what the caller falls back to, or m.                         *)
SaveMonitor(d, m, fallback) ==
  \/ /\ m.dirty
     /\ monitor' = [monitor EXCEPT ![d] = [m EXCEPT !.dirty = FALSE]]
     /\ stored' = [stored EXCEPT ![d] = Kept(m)]
     /\ UNCHANGED trouble
  \/ ~m.dirty /\ monitor' = [monitor EXCEPT ![d] = m] /\ UNCHANGED <<stored, trouble>>
  \/ /\ m.dirty /\ Fault
     /\ monitor' = [monitor EXCEPT ![d] = fallback]
     /\ UNCHANGED stored

IsSaved == UNCHANGED trouble

(* The service is started again, after a crash or with another token.      *)
StartAgain(d) ==
  /\ trouble.restarts < MaxStarts
  /\ trouble' = [trouble EXCEPT !.restarts = @ + 1]
  /\ monitor' = [monitor EXCEPT ![d] = stored[d]]
  /\ \E t \in NextTokens \cup {token[d]} : token' = [token EXCEPT ![d] = t]
  /\ poll' = [poll EXCEPT ![d] = NoPoll]
  /\ heard' = [heard EXCEPT ![d] = IF stored[d].selection = {} THEN NothingHeard ELSE @]
  /\ UNCHANGED <<stored, feeds, spent, silent>>

-----------------------------------------------------------------------------
(* Declarations *)

(* Mutant of Precedes: concurrent declarations are left as they are.       *)
PrecedesByCounter(s, t) == s.counter < t.counter

(* selection_order *)
Precedes(s, t) == s.counter < t.counter \/ (s.counter = t.counter /\ s.operation < t.operation)

Owns(d, m) == \E s \in m.selection : s.on /\ s.device = d

Foreign(m, g) == \E s \in m.selection : s.group # g

(* The feeds whose next batch raises no alert.                             *)
Baseline(d, m) == m.sources \cup {d}

Quiet(m) == [m EXCEPT !.enabled = FALSE, !.alerts = <<>>]

Dropped(m) == [Quiet(m) EXCEPT !.selection = {}]

(* receiver_active *)
Active(d) ==
  LET m == monitor[d]
  IN m.enabled /\ IF token[d] = NoGroup
                  THEN ~m.configured /\ m.group = NoGroup /\ m.selection = {}
                  ELSE m.group = token[d] /\ Owns(d, m) /\ ~Foreign(m, token[d])

(* receiver without a token: a setting of this desktop alone.              *)
Alone(d, m, on) ==
  LET n == [m EXCEPT !.selection = {}, !.sync = NoSync, !.alerts = <<>>,
                     !.configured = FALSE, !.group = NoGroup, !.enabled = on,
                     !.pending = IF on THEN Baseline(d, m) ELSE {}]
  IN [n EXCEPT !.dirty = m.dirty \/ [n EXCEPT !.group = m.group] # m]

(* The start of receiver with a token: a declaration of another group goes.*)
Joined(m, g) ==
  [IF Foreign(m, g) THEN [Dropped(m) EXCEPT !.pending = {}, !.sync = NoSync] ELSE m
     EXCEPT !.configured = TRUE, !.group = g, !.dirty = TRUE]

Counter(m) == IF m.selection = {} THEN 0 ELSE (CHOOSE s \in m.selection : TRUE).counter

Declared(d, m, on, o, g) ==
  [m EXCEPT !.selection = {[device |-> d, counter |-> Counter(m) + 1, operation |-> o,
                            on |-> on, group |-> g]},
            !.enabled = on, !.alerts = <<>>,
            !.pending = IF on THEN Baseline(d, m) ELSE @]

(* receiver: the switch of the page.                                       *)
Receiver(d, on) ==
  LET old == monitor[d] IN
  /\ IF token[d] = NoGroup
     THEN SaveMonitor(d, Alone(d, old, on), old) /\ UNCHANGED spent
     ELSE LET m == Joined(old, token[d]) IN
          IF on \/ Owns(d, m)
          THEN \E o \in Operation \ spent :
                 /\ SaveMonitor(d, Declared(d, m, on, o, token[d]), old)
                 /\ spent' = spent \cup {o}
          ELSE SaveMonitor(d, Quiet(m), old) /\ UNCHANGED spent
  /\ heard' = [heard EXCEPT ![d] = IF Foreign(old, token[d]) /\ IsSaved
                                        THEN NothingHeard ELSE @]
  /\ UNCHANGED <<token, poll, feeds, silent>>

(* overview: what the page shows, after the stored state was brought in    *)
(* line with the configured token.                                         *)
Aligned(m, g) ==
  LET changed == m.group # g
      n == CASE Foreign(m, g) \/ (changed /\ g = NoGroup) -> Dropped(m)
             [] m.selection = {} /\ m.enabled
                /\ (changed \/ (g # NoGroup /\ ~m.configured)) -> Quiet(m)
             [] OTHER -> m
      k == IF changed \/ Foreign(m, g)
           THEN [n EXCEPT !.group = g, !.pending = {}, !.sync = NoSync] ELSE n
  IN [k EXCEPT !.configured = g # NoGroup,
               !.dirty = m.dirty \/ changed \/ Foreign(m, g) \/ n # m
                         \/ m.configured # (g # NoGroup)]

(* The history forgets with the declaration.                               *)
Forget(d) ==
  heard' = [heard EXCEPT ![d] = IF monitor'[d].selection = {} THEN NothingHeard ELSE @]

Overview(d) ==
  LET m == Aligned(monitor[d], token[d]) IN
  /\ SaveMonitor(d, m, monitor[d])
  /\ Forget(d)
  /\ UNCHANGED <<token, poll, feeds, spent, silent>>

(* The same in the poll loop, where it is only kept in memory at first.    *)
AlignedInPoll(m, g) ==
  LET changed == m.group # g IN
  IF g = NoGroup
  THEN [IF m.selection # {} \/ m.configured \/ m.group # NoGroup
        THEN [Dropped(m) EXCEPT !.pending = {}, !.dirty = TRUE] ELSE m
          EXCEPT !.configured = FALSE, !.group = NoGroup, !.sync = NoSync]
  ELSE [IF changed \/ Foreign(m, g)
        THEN [IF Foreign(m, g) \/ (m.selection = {} /\ ~m.configured /\ m.enabled)
              THEN Dropped(m) ELSE m
                EXCEPT !.sync = IF changed THEN NoSync ELSE @,
                       !.pending = IF changed THEN {} ELSE @,
                       !.group = g, !.dirty = TRUE]
        ELSE m
          EXCEPT !.configured = TRUE]

Rebased(d, m, on) == IF on /\ ~m.enabled THEN Baseline(d, m) ELSE m.pending

(* merge_selection: S is what a desktop publishes, at most one declaration.*)
Merged(d, m, S, g) ==
  LET now == {s \in S : s.group = g /\ \A c \in m.selection : Precedes(c, s)}
      on == \E s \in now : s.on /\ s.device = d
      n == [m EXCEPT !.selection = now, !.dirty = TRUE]
  IN IF now = {} THEN m
     ELSE IF m.enabled = on /\ (on \/ m.alerts = <<>>) THEN n
     ELSE [n EXCEPT !.enabled = on, !.alerts = <<>>, !.pending = Rebased(d, m, on)]

(* published_selection *)
Published(d, g) == {s \in monitor[d].selection : s.group = g}

-----------------------------------------------------------------------------
(* The event table and its spool *)

(* spool_event, called by a hook: the oldest file gives way.               *)
Hook(e) ==
  LET d == At[e] IN
  /\ e \notin spent
  /\ spent' = spent \cup {e}
  /\ spool' = [spool EXCEPT ![d] =
                 Append(IF Len(@) >= SpoolMax THEN Tail(@) ELSE @, e)]
  /\ UNCHANGED <<monitor, stored, token, poll, table, heard, silent, trouble>>

(* The loop wakes up, and drain_outbox lists the files.                    *)
WakeUp(d) ==
  /\ poll[d].phase = "rest"
  /\ poll' = [poll EXCEPT ![d] = [NoPoll EXCEPT !.phase = "drain", !.files = spool[d]]]
  /\ UNCHANGED <<monitor, stored, token, feeds, spent, heard, silent, trouble>>

(* ingest_event of the next file. A file that has gone is passed over, an  *)
(* id that the table holds is accepted as it is, an error ends the drain.  *)
Ingest(d) ==
  /\ poll[d].phase = "drain" /\ poll[d].files # <<>>
  /\ LET e == Head(poll[d].files) IN
     \/ /\ e \notin Range(spool[d])
        /\ poll' = [poll EXCEPT ![d].files = Tail(@)]
        /\ UNCHANGED <<table, trouble>>
     \/ /\ e \in Range(spool[d]) /\ e \in Range(table[d])
        /\ poll' = [poll EXCEPT ![d].phase = "remove"]
        /\ UNCHANGED <<table, trouble>>
     \/ /\ e \in Range(spool[d]) /\ e \notin Range(table[d])
        /\ table' = [table EXCEPT ![d] = Append(@, e)]
        /\ poll' = [poll EXCEPT ![d].phase = "prune"]
        /\ UNCHANGED trouble
     \/ /\ e \in Range(spool[d]) /\ Fault
        /\ poll' = [poll EXCEPT ![d].files = <<>>]
        /\ UNCHANGED table
  /\ UNCHANGED <<monitor, stored, token, spool, spent, heard, silent>>

NewestEvents(s) == SubSeq(s, Max({1, Len(s) - MaxEvents + 1}), Len(s))

(* prune, in a transaction of its own; its error ends the drain.           *)
PruneTable(d) ==
  /\ poll[d].phase = "prune"
  /\ \/ /\ table' = [table EXCEPT ![d] = NewestEvents(@)]
        /\ poll' = [poll EXCEPT ![d].phase = "remove"]
        /\ UNCHANGED trouble
     \/ /\ Fault
        /\ poll' = [poll EXCEPT ![d].phase = "drain", ![d].files = <<>>]
        /\ UNCHANGED table
  /\ UNCHANGED <<monitor, stored, token, spool, spent, heard, silent>>

(* The file is removed; a failure, or its having gone, ends the drain.     *)
RemoveFile(d) ==
  /\ poll[d].phase = "remove"
  /\ LET e == Head(poll[d].files) IN
     \/ /\ e \in Range(spool[d])
        /\ spool' = [spool EXCEPT ![d] = Without(@, {e})]
        /\ poll' = [poll EXCEPT ![d].phase = "drain", ![d].files = Tail(@)]
        /\ UNCHANGED trouble
     \/ /\ e \notin Range(spool[d])
        /\ poll' = [poll EXCEPT ![d].phase = "drain", ![d].files = <<>>]
        /\ UNCHANGED <<spool, trouble>>
     \/ /\ e \in Range(spool[d]) /\ Fault
        /\ poll' = [poll EXCEPT ![d].phase = "drain", ![d].files = <<>>]
        /\ UNCHANGED spool
  /\ UNCHANGED <<monitor, stored, token, table, spent, heard, silent>>

-----------------------------------------------------------------------------
(* The rest of a poll *)

(* A feed is a set of at most one sequence: a longer one is refused.       *)
Feed(p) == {s \in {table[p]} : Len(s) <= MaxEvents}

(* The desktop's own feed is read, then the stored state is brought in line*)
(* with the token.                                                         *)
ReadLocal(d) ==
  LET m == AlignedInPoll(monitor[d], token[d]) IN
  /\ poll[d].phase = "drain" /\ poll[d].files = <<>>
  /\ poll' = [poll EXCEPT ![d] = [NoPoll EXCEPT !.phase = "peers", !.local = Feed(d),
                                                 !.todo = Desktop \ {d}]]
  /\ monitor' = [monitor EXCEPT ![d] = m]
  /\ Forget(d)
  /\ UNCHANGED <<stored, token, feeds, spent, silent, trouble>>

(* fetch and fetch_selection of one peer, by the token of the network:     *)
(* either may fail, and the second does while one of them has no AI token. *)
ReadPeer(d, p) ==
  LET says == NoGroup \notin {token[d], token[p]} IN
  /\ poll[d].phase = "peers" /\ p \in poll[d].todo
  /\ \E feed \in {Feed(p), {}}, said \in {says, FALSE} :
       /\ IF feed = Feed(p) /\ said = says THEN UNCHANGED trouble ELSE Fault
       /\ poll' = [poll EXCEPT
                     ![d].todo = @ \ {p},
                     ![d].got = Append(@, [from |-> p, feed |-> feed, said |-> said,
                                           selection |-> IF said THEN Published(p, token[p])
                                                         ELSE {}])]
  /\ UNCHANGED <<monitor, stored, token, feeds, spent, heard, silent>>

(* The events of one session of a feed.                                    *)
OfSession(s, n) == {i \in DOMAIN s : Session[s[i]] = n}

WithoutSession(alerts, k, n) ==
  Without(alerts, {a \in Range(alerts) : a.key = k /\ Session[a.event] = n})

(* One session of record: its waiting alert gives way to what is new.      *)
Told(alerts, k, e, tell) ==
  LET rest == WithoutSession(alerts, k, Session[e]) IN
  IF e \notin Alerting THEN rest
  ELSE IF ~tell THEN alerts
  ELSE IF Len(rest) < AlertMax THEN Append(rest, [key |-> k, event |-> e]) ELSE rest

(* The last event of each session of a feed, one session after another.    *)
ToldAll(alerts, k, s, tell) ==
  LET after[n \in 0 .. Sessions] ==
        IF n = 0 THEN alerts
        ELSE IF OfSession(s, n) = {} THEN after[n - 1]
        ELSE LET e == s[Max(OfSession(s, n))] IN Told(after[n - 1], k, e, e \in tell)
  IN after[Sessions]

(* The ids of a feed, newest first, join the seen ones; the oldest go.     *)
Remembered(seen, k, s) ==
  LET new == Without(Reverse(s), {e \in Range(s) : <<k, e>> \in Range(seen)})
      all == seen \o [i \in 1 .. Len(new) |-> <<k, new[i]>>]
  IN IF Len(all) > SeenMax THEN SubSeq(all, Len(all) - SeenMax + 1, Len(all)) ELSE all

(* Mutant of Suppressed: a new receiver is told of what came before.       *)
SuppressedAtFirst(m, k) == k \notin m.sources

Suppressed(m, k) == k \notin m.sources \/ k \in m.pending

(* record *)
Recorded(m, k, s) ==
  LET tell == {e \in Range(s) : m.enabled /\ ~Suppressed(m, k) /\ <<k, e>> \notin Range(m.seen)}
      alerts == ToldAll(m.alerts, k, s, tell)
      seen == Remembered(m.seen, k, s)
  IN [m EXCEPT !.sources = @ \cup {k}, !.pending = @ \ {k},
               !.alerts = alerts, !.seen = seen,
               !.dirty = @ \/ Suppressed(m, k) \/ alerts # m.alerts \/ seen # m.seen]

RecordedIfRead(m, k, feed) ==
  IF feed = {} THEN m ELSE Recorded(m, k, CHOOSE s \in feed : TRUE)

(* All declarations of a poll, then all feeds.                             *)
MergedAll(d, m, got) ==
  LET after[i \in 0 .. Len(got)] ==
        IF i = 0 THEN m ELSE Merged(d, after[i - 1], got[i].selection, token[d])
  IN after[Len(got)]

RecordedAll(m, got) ==
  LET after[i \in 0 .. Len(got)] ==
        IF i = 0 THEN m ELSE RecordedIfRead(after[i - 1], got[i].from, got[i].feed)
  IN after[Len(got)]

(* The end of run's loop: declarations first, then the feeds.              *)
AfterPoll(d) ==
  LET merged == MergedAll(d, [monitor[d] EXCEPT !.sync = NoSync], poll[d].got)
      all == RecordedAll(RecordedIfRead(merged, d, poll[d].local), poll[d].got)
  IN [all EXCEPT !.sync = [p \in Desktop |->
        \E r \in Range(poll[d].got) :
          r.from = p /\ r.feed # {} /\ r.said /\ r.selection = all.selection]]

(* When it cannot be saved the receiver's state is taken back, but not what*)
(* was seen.                                                               *)
TakenBack(d, m) ==
  [m EXCEPT !.enabled = monitor[d].enabled, !.alerts = monitor[d].alerts,
            !.selection = monitor[d].selection, !.pending = monitor[d].pending,
            !.sources = monitor[d].sources, !.dirty = TRUE, !.sync = NoSync]

(* A feed is to be recorded without telling anyone when it is the first of *)
(* a peer, or the first one after the desktop was selected.                *)
InSilence(d, m, k) ==
  FALSE \in {m.enabled, monitor[d].enabled}
  \/ k \notin monitor[d].sources \/ k \in monitor[d].pending

FeedRead(d, k) ==
  IF k = d THEN poll[d].local
  ELSE UNION {r.feed : r \in {q \in Range(poll[d].got) : q.from = k}}

(* The events that are recorded so, when the poll makes m of the monitor.  *)
RecordedInSilence(d, m) ==
  {id \in Desktop \X Event :
     InSilence(d, m, id[1]) /\ \E s \in FeedRead(d, id[1]) : id[2] \in Range(s)}

Apply(d) ==
  LET m == AfterPoll(d) IN
  /\ poll[d].phase = "peers" /\ poll[d].todo = {}
  /\ SaveMonitor(d, m, TakenBack(d, m))
  /\ IF IsSaved
     THEN /\ heard' = [heard EXCEPT ![d] = [p \in Desktop |->
                IF \E r \in Range(poll[d].got) : r.from = p /\ r.said
                THEN UNION {r.selection : r \in {q \in Range(poll[d].got) : q.from = p}}
                ELSE @[p]]]
          /\ silent' = [silent EXCEPT ![d] = @ \cup RecordedInSilence(d, m)]
     ELSE UNCHANGED <<heard, silent>>
  /\ poll' = [poll EXCEPT ![d] = NoPoll]
  /\ UNCHANGED <<token, feeds, spent>>

(* take_alert, by the tray: a failed save is ignored.                      *)
TakeAlert(d) ==
  /\ Active(d) /\ monitor[d].alerts # <<>>
  /\ LET m == [monitor[d] EXCEPT !.alerts = Tail(@), !.dirty = TRUE]
         a == Head(monitor[d].alerts)
     IN /\ SaveMonitor(d, m, m)
        /\ silent' = IF IsSaved
                     THEN [silent EXCEPT ![d] = @ \cup {<<a.key, a.event>>}] ELSE silent
  /\ UNCHANGED <<token, poll, feeds, spent, heard>>

-----------------------------------------------------------------------------
Polls(d) ==
  \/ WakeUp(d) \/ Ingest(d) \/ PruneTable(d) \/ RemoveFile(d) \/ ReadLocal(d) \/ Apply(d)
  \/ \E p \in Desktop : ReadPeer(d, p)

ReceiverNext ==
  \/ \E d \in Desktop : Polls(d) \/ Overview(d) \/ TakeAlert(d) \/ StartAgain(d)
  \/ \E d \in Desktop, on \in BOOLEAN : Receiver(d, on)
  \/ \E e \in Event : Hook(e)

ReceiverSpec == ReceiverInit /\ [][ReceiverNext]_receiverVars

(* The loop of run goes on: every await in it has a timeout.               *)
(* A poll step is possible in every state, so this is the weak fairness of *)
(* Polls(d), in a form that TLC checks without looking for the step.       *)
FairSpec == ReceiverSpec /\ \A d \in Desktop : []<><<Polls(d)>>_receiverVars

-----------------------------------------------------------------------------
(* Properties *)

(* Of two desktops that each learned of the other's declaration, at most   *)
(* one raises alerts: concurrent switches, releases, changes of the token, *)
(* failed writes and restarts do not leave two receivers that know of each *)
(* other.                                                                  *)
KnownReceiverIsAlone ==
  \A d, p \in Desktop :
    d # p /\ Active(d) /\ Active(p) /\ token[d] # NoGroup /\ token[d] = token[p] =>
      heard[d][p] # monitor[p].selection \/ heard[p][d] # monitor[d].selection

(* No alert waits for an event that was shown before, or that this desktop *)
(* had recorded before it became the receiver: not after a restart, not    *)
(* when an event is drained twice, not when a switch comes in between.     *)
NothingIsReplayed ==
  \A d \in Desktop : Active(d) =>
    \A i \in 1 .. Len(monitor[d].alerts) :
      <<monitor[d].alerts[i].key, monitor[d].alerts[i].event>> \notin silent[d]

(* Once the switches, failures and restarts are over, the desktops of one  *)
(* group agree on one declaration, and the desktop it names is the only    *)
(* receiver.                                                               *)
ReceiversSettle ==
  <>[](\A d, p \in Desktop :
         token[d] # NoGroup /\ token[d] = token[p] =>
           /\ monitor[d].selection = monitor[p].selection
           /\ Active(d) <=> Owns(d, monitor[d]))

=============================================================================
