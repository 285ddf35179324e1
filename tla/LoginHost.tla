------------------------------ MODULE LoginHost ------------------------------
(***************************************************************************)
(* A manual login-assist session: the phone's commands (login_assist_client*)
(* .dart), the Service that executes them (host.rs), the Native Messaging  *)
(* program between it and Chrome (peercarry-login-host.rs) and the worker  *)
(* of the extension with its page (worker.js, target.js).                  *)
(***************************************************************************)
EXTENDS LoginSession, Sequences

CONSTANTS
  MaxCalls,  \* bound: calls to the browser
  MaxHostEpoch,  \* bound: epochs after which nothing asks for another one
  MaxPageChanges \* bound: navigations and changes of the layout in the tab

VARIABLES
  policy,   \* the session of the Coordinator
  host,     \* Inner: snapshot, whether pair and bearer are there; and which of
            \* its time limits have passed
  handler,  \* the command that holds serial: its call to the browser, and the
            \* answer when it has come
  calls,    \* messages on their way to the worker
  replies,  \* messages on their way to the host
  worker,   \* worker.js: its target, or none when stopped; the job it executes,
            \* on which document, whether it has found the document as the job
            \* names it, and the picture it has taken for it
  tab,     \* the document in the tab, its revision, whether it is revoked
  phone,    \* the client: what it knows
  effects,  \* history: fills and clicks the page has seen
  frames    \* history: frames the phone has received

sides == <<policy, host, handler, calls, replies, worker, tab>>
loginVars == <<sides, phone, effects, frames>>

NoJob == [op |-> "none"]

NoCommand == [call |-> NoJob, answer |-> {}]

Shown == [document |-> tab.document, revision |-> tab.revision]

(* new: the worker inspects the page and the host starts with what it sent.*)
LoginInit ==
  /\ tab = [document |-> 1, revision |-> 1, revoked |-> FALSE, changes |-> 0]
  /\ policy = NewSession(1, TRUE)
  /\ host = [snapshot |-> Shown, approved |-> Shown, pair |-> TRUE, bearer |-> FALSE,
             pairLate |-> FALSE, lost |-> FALSE, late |-> FALSE, up |-> TRUE, next |-> 1]
  /\ handler = NoCommand
  /\ calls = <<>> /\ replies = <<>>
  /\ worker = [target |-> 1, job |-> NoJob, on |-> 0, checked |-> FALSE, png |-> {}]
  /\ phone = [state |-> "new", epoch |-> 1, revision |-> 1]
  /\ effects = <<>> /\ frames = {}

-----------------------------------------------------------------------------
(* Time, and the ends of a session *)

(* 60 s for pairing, 10 s without a command, 300 s for the session.        *)
Passes ==
  /\ host.up
  /\ \/ host.pair /\ host' = [host EXCEPT !.pairLate = TRUE]
     \/ host.bearer /\ host' = [host EXCEPT !.lost = TRUE]
     \/ (host.pair => host.pairLate) /\ host' = [host EXCEPT !.late = TRUE]
  /\ UNCHANGED <<policy, handler, calls, replies, worker, tab, phone, effects, frames>>

(* watchdog *)
Watchdog ==
  /\ host.up
  /\ LET lost == host.lost /\ host.bearer
         s == IF lost THEN Invalidate(policy) ELSE policy
     IN /\ host' = [host EXCEPT !.bearer = @ /\ ~lost]
        /\ policy' = Live(s, host.late)
  /\ UNCHANGED <<handler, calls, replies, worker, tab, phone, effects, frames>>

-----------------------------------------------------------------------------
(* The phone *)

HungUp == [phone EXCEPT !.state = "closed"]

(* pair, answered in the same step or never.                               *)
Pair ==
  /\ phone.state = "new" /\ host.up
  /\ LET ok == host.pair /\ ~host.pairLate IN
     /\ host' = [host EXCEPT !.pair = @ /\ ~ok, !.bearer = @ \/ ok, !.lost = @ /\ ~ok]
     /\ \/ phone' = [phone EXCEPT !.state = IF ok THEN "paired" ELSE "closed"]
        \/ phone' = HungUp
  /\ UNCHANGED <<policy, handler, calls, replies, worker, tab, effects, frames>>

Serving == host.up /\ phone.state = "paired" /\ handler = NoCommand

Knows(s, snapshot) == [phone EXCEPT !.epoch = s.epoch, !.revision = snapshot.revision]

(* command: who is not, or no longer, paired is turned away.               *)
TurnedAway ==
  /\ Serving /\ (~host.bearer \/ host.lost)
  /\ host' = [host EXCEPT !.bearer = FALSE]
  /\ policy' = IF host.bearer THEN Invalidate(policy) ELSE policy
  /\ phone' = HungUp
  /\ UNCHANGED <<handler, calls, replies, worker, tab, effects, frames>>

Admitted == Serving /\ host.bearer /\ ~host.lost

(* State, Approve and Expand end without the browser. Approve is for what  *)
(* the snapshot is now, if the phone knows the current epoch.              *)
Look ==
  /\ Admitted
  /\ LET s == Live(policy, host.late) IN
     /\ policy' = s
     /\ phone' = Knows(s, host.snapshot)
  /\ UNCHANGED <<host, handler, calls, replies, worker, tab, effects, frames>>

Agree ==
  /\ Admitted /\ phone.epoch = Live(policy, host.late).epoch
  /\ LET r == Approve(policy, host.late, host.snapshot.document) IN
     /\ policy' = r.session
     /\ host' = IF r.ok THEN [host EXCEPT !.approved = host.snapshot] ELSE host
     /\ phone' = IF r.ok THEN Knows(r.session, host.snapshot) ELSE phone
  /\ UNCHANGED <<handler, calls, replies, worker, tab, effects, frames>>

Expand ==
  /\ Admitted /\ policy.epoch < MaxHostEpoch
  /\ LET r == ApproveView(policy, host.late, phone.epoch) IN
     /\ policy' = r.session
     /\ phone' = IF r.ok THEN Knows(r.session, host.snapshot) ELSE phone
  /\ UNCHANGED <<host, handler, calls, replies, worker, tab, effects, frames>>

(* Browser::call: the message is on its way, or there is no room for it and*)
(* the command goes on as if it had been answered with an error.           *)
Call(op, s, command) ==
  LET c == [op |-> op, id |-> host.next, document |-> host.snapshot.document,
            revision |-> host.snapshot.revision, epoch |-> s.epoch, command |-> command,
            approved |-> host.approved]
  IN /\ host.next <= MaxCalls
     /\ host' = [host EXCEPT !.next = @ + 1, !.bearer = @ /\ op # "cancel"]
     /\ \/ calls' = Append(calls, c) /\ handler' = [call |-> c, answer |-> {}]
        \/ /\ calls # <<>> /\ UNCHANGED calls
           /\ handler' = [call |-> [c EXCEPT !.id = 0], answer |-> {}]

(* The command's checks, and its call when they allow it.                  *)
Starts(op, r, command) ==
  /\ policy' = r.session
  /\ IF r.ok THEN Call(op, r.session, command)
     ELSE UNCHANGED <<host, calls, handler>>

Refresh ==
  /\ Admitted
  /\ LET s == Live(policy, host.late) IN
     Starts("inspect", [ok |-> s.phase = "Suspended", session |-> s], 0)
  /\ UNCHANGED <<replies, worker, tab, phone, effects, frames>>

(* Fill and Click: each has a number of its own. Click names its revision. *)
Operate(op) ==
  /\ Admitted
  /\ op = "click" => phone.revision = host.snapshot.revision
  /\ Starts(op, Authorize(policy, host.late, host.snapshot.document, phone.epoch, host.next),
            host.next)
  /\ UNCHANGED <<replies, worker, tab, phone, effects, frames>>

Frame ==
  /\ Admitted
  /\ LET s == Live(policy, host.late) IN
     Starts("capture",
            [ok |-> s.epoch = phone.epoch /\ s.phase = "Controlling", session |-> s], 0)
  /\ UNCHANGED <<replies, worker, tab, phone, effects, frames>>

GiveBack ==
  /\ Admitted
  /\ Starts("hand_back", HandBack(policy, host.late, phone.epoch), 0)
  /\ UNCHANGED <<replies, worker, tab, phone, effects, frames>>

CancelSession ==
  /\ Admitted /\ Live(policy, host.late).phase # "Completed"
  /\ Starts("cancel", [ok |-> TRUE, session |-> Cancel(Live(policy, host.late))], 0)
  /\ UNCHANGED <<replies, worker, tab, phone, effects, frames>>

(* The client gives up and forgets its token; the server drops the handler *)
(* of the connection, with what it would have done after its call.         *)
Disconnect ==
  /\ phone.state = "paired"
  /\ phone' = HungUp /\ handler' = NoCommand
  /\ UNCHANGED <<policy, host, calls, replies, worker, tab, effects, frames>>

-----------------------------------------------------------------------------
(* The host's side of a call *)

(* The program hands on what the worker sent: the outcome of the call that *)
(* is waited for, an invalidation, or the end of everything.               *)
Receive ==
  /\ host.up /\ replies # <<>> /\ replies' = Tail(replies)
  /\ LET m == Head(replies) IN
     \/ /\ m.kind = "reply"
        /\ handler' = IF handler.call # NoJob /\ handler.call.id = m.id /\ handler.answer = {}
                      THEN [handler EXCEPT !.answer = {m}] ELSE handler
        /\ UNCHANGED <<policy, host>>
     \/ /\ m.kind = "invalidate" /\ policy' = Invalidate(policy)
        /\ UNCHANGED <<host, handler>>
     \/ /\ m.kind = "stop" /\ policy' = Cancel(policy)
        /\ host' = [host EXCEPT !.pair = FALSE, !.bearer = FALSE, !.up = FALSE]
        /\ handler' = NoCommand
  /\ UNCHANGED <<calls, worker, tab, phone, effects, frames>>

(* What came of the call: nothing for 8 s, or no room, is an error.        *)
Outcomes == IF handler.answer = {} THEN {[ok |-> FALSE]} ELSE handler.answer

Answers(s, snapshot) ==
  LET l == Live(s, host.late) IN policy' = l /\ phone' = Knows(l, snapshot)

Refuses(s) == policy' = s /\ UNCHANGED phone

(* The rest of command, for the two that return something and the others.  *)
ContinueInspect(m) ==
  LET r == RebindManual(policy, host.late, m.snapshot.document) IN
  IF m.ok /\ r.ok
  THEN host' = [host EXCEPT !.snapshot = m.snapshot] /\ Answers(r.session, m.snapshot)
  ELSE UNCHANGED host /\ Refuses(IF m.ok THEN r.session ELSE policy)

ContinueCapture(m) ==
  LET r == Crop(policy, host.late, handler.call.document, handler.call.epoch) IN
  /\ IF m.ok /\ r.ok
     THEN /\ Answers(r.session, host.snapshot)
          /\ frames' = frames \cup {[page |-> m.snapshot, approved |-> host.approved]}
     ELSE Refuses(IF m.ok THEN r.session ELSE Invalidate(policy)) /\ UNCHANGED frames
  /\ UNCHANGED host

(* Mutant of HandedBack: the browser's confirmation is not waited for.     *)
HandedBackAnyway(ok, s) ==
  ManualComplete(RevokedAck(s, host.late, handler.call.epoch).session,
                 host.late, handler.call.epoch)

HandedBack(ok, s) ==
  IF ok THEN ManualComplete(RevokedAck(s, host.late, handler.call.epoch).session,
                            host.late, handler.call.epoch)
  ELSE [ok |-> FALSE, session |-> Invalidate(s)]

ContinueOther(ok) ==
  LET r == HandedBack(ok, policy)
      s == CASE handler.call.op = "fill" -> IF ok THEN policy ELSE Invalidate(policy)
             [] handler.call.op = "click" -> Invalidate(policy)
             [] handler.call.op = "hand_back" -> r.session
             [] handler.call.op = "cancel" -> policy
  IN /\ IF ok /\ (handler.call.op = "hand_back" => r.ok)
        THEN Answers(s, host.snapshot) ELSE Refuses(s)
     /\ UNCHANGED host

Continue ==
  /\ host.up /\ handler.call # NoJob /\ handler' = NoCommand
  /\ \E m \in Outcomes :
       \/ handler.call.op = "inspect" /\ ContinueInspect(m) /\ UNCHANGED frames
       \/ handler.call.op = "capture" /\ ContinueCapture(m)
       \/ handler.call.op \notin {"inspect", "capture"} /\ ContinueOther(m.ok) /\ UNCHANGED frames
  /\ UNCHANGED <<calls, replies, worker, tab, effects>>

-----------------------------------------------------------------------------
(* The extension *)

Reply(c, ok) == [kind |-> "reply", id |-> c.id, ok |-> ok, snapshot |-> Shown]

Sends(m) == replies' = Append(replies, m)

Revokes(c) == c.op \in {"hand_back", "cancel"}

(* busy, and the checks of handleBrowser before it does anything.          *)
Takes(c) ==
  /\ worker.job = NoJob /\ worker.target # 0
  /\ Revokes(c) \/ c.op = "inspect" \/ c.document = worker.target

Accept ==
  /\ calls # <<>> /\ calls' = Tail(calls)
  /\ LET c == Head(calls) IN
     IF Takes(c)
     THEN /\ worker' = [target |-> IF Revokes(c) THEN 0 ELSE worker.target,
                        job |-> c, on |-> worker.target, checked |-> FALSE, png |-> {}]
          /\ UNCHANGED replies
     ELSE Sends(Reply(c, FALSE)) /\ UNCHANGED worker
  /\ UNCHANGED <<policy, host, handler, tab, phone, effects, frames>>

Released == [worker EXCEPT !.job = NoJob, !.on = 0, !.checked = FALSE, !.png = {}]

Done == worker' = Released

ExecuteRevoke ==
  /\ Revokes(worker.job)
  /\ tab' = [tab EXCEPT !.revoked = @ \/ worker.on = tab.document]
  /\ Done /\ Sends(Reply(worker.job, TRUE))
  /\ UNCHANGED effects

ExecuteInspect ==
  /\ worker.job.op = "inspect"
  /\ tab' = [tab EXCEPT !.revoked = FALSE]
  /\ worker' = [Released EXCEPT !.target = IF @ = 0 THEN 0 ELSE tab.document]
  /\ Sends(Reply(worker.job, TRUE))
  /\ UNCHANGED effects

(* Mutant of Valid: the script does not compare revisions.                 *)
ValidInDocument(c) == worker.on = tab.document /\ ~tab.revoked

(* targetAction in the document of the job.                                *)
Valid(c) == worker.on = tab.document /\ ~tab.revoked /\ c.revision = tab.revision

ExecuteInput ==
  /\ worker.job.op \in {"fill", "click"}
  /\ effects' = IF Valid(worker.job)
                THEN Append(effects, [page |-> Shown, approved |-> worker.job.approved,
                                      command |-> worker.job.command])
                ELSE effects
  /\ Done /\ Sends(Reply(worker.job, Valid(worker.job)))
  /\ UNCHANGED tab

(* capture: validate, take the picture of what is shown by then, validate  *)
(* again. It may fail at each, as when another tab is in front.            *)
ExecuteCapture ==
  /\ worker.job.op = "capture"
  /\ \/ /\ ~worker.checked /\ Valid(worker.job)
        /\ worker' = [worker EXCEPT !.checked = TRUE]
        /\ UNCHANGED replies
     \/ /\ worker.checked /\ worker.png = {}
        /\ worker' = [worker EXCEPT !.png = {Shown}]
        /\ UNCHANGED replies
     \/ \E png \in worker.png :
        /\ Valid(worker.job) /\ worker.target # 0
        /\ Done
        /\ Sends([Reply(worker.job, TRUE) EXCEPT !.snapshot = png])
     \/ Done /\ Sends(Reply(worker.job, FALSE))
  /\ UNCHANGED <<tab, effects>>

Execute ==
  /\ worker.job # NoJob
  /\ ExecuteRevoke \/ ExecuteInspect \/ ExecuteInput \/ ExecuteCapture
  /\ UNCHANGED <<policy, host, handler, calls, phone, frames>>

(* The page changes, or another document is loaded.                        *)
PageChanges ==
  /\ tab.changes < MaxPageChanges
  /\ \/ tab' = [tab EXCEPT !.revision = @ + 1, !.changes = @ + 1]
     \/ tab' = [document |-> tab.document + 1, revision |-> 1, revoked |-> FALSE,
                 changes |-> tab.changes + 1]
  /\ UNCHANGED <<policy, host, handler, calls, replies, worker, phone, effects, frames>>

(* invalidate: of a change, later than it, or because another tab is shown.*)
Notice ==
  /\ worker.target # 0
  /\ \A i \in 1 .. Len(replies) : replies[i].kind # "invalidate"
  /\ policy.epoch < MaxHostEpoch
  /\ Sends([kind |-> "invalidate"])
  /\ UNCHANGED <<policy, host, handler, calls, worker, tab, phone, effects, frames>>

(* The user stops it in the popup, or closes the tab.                      *)
StopSession ==
  /\ worker.target # 0
  /\ worker' = [worker EXCEPT !.target = 0]
  /\ tab' = [tab EXCEPT !.revoked = @ \/ worker.target = tab.document]
  /\ Sends([kind |-> "stop"])
  /\ UNCHANGED <<policy, host, handler, calls, phone, effects, frames>>

-----------------------------------------------------------------------------
LoginNext ==
  \/ Passes \/ Watchdog \/ Pair \/ TurnedAway \/ Look \/ Agree \/ Expand \/ Refresh
  \/ \E op \in {"fill", "click"} : Operate(op)
  \/ Frame \/ GiveBack \/ CancelSession \/ Disconnect
  \/ Receive \/ Continue \/ Accept \/ Execute \/ PageChanges \/ Notice \/ StopSession

LoginSpec == LoginInit /\ [][LoginNext]_loginVars

-----------------------------------------------------------------------------
(* Each command of the phone has its effect on the page once at most, and   *)
(* on the page as it was approved.                                         *)
InputIsApproved ==
  \A i, j \in 1 .. Len(effects) :
    /\ effects[i].page = effects[i].approved
    /\ effects[i].command = effects[j].command => i = j

(* A frame that is handed out shows the page as it was approved.           *)
FramesAreApproved == \A f \in frames : f.page = f.approved

(* The page is filled, clicked and shown only as its user approved it, and *)
(* a command acts once: not after a navigation, a change of layout, a      *)
(* timeout of the call or a new binding that came in between.              *)
UseIsApproved == InputIsApproved /\ FramesAreApproved

InputRests == policy.phase = "Completed" => effects' = effects

(* Once the phone has been told that control was handed back nothing it    *)
(* sent before reaches the page.                                           *)
HandBackIsFinal == [][InputRests]_loginVars

=============================================================================
