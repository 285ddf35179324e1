---------------------------- MODULE LoginSession ----------------------------
(***************************************************************************)
(* One session of the login-assist Coordinator: what each operation of the *)
(* policy does to it. The caller's identity is left out, the callers being *)
(* authenticated before; late says that the session's deadline has passed. *)
(***************************************************************************)
EXTENDS Naturals, FiniteSets

CONSTANT MaxCommands \* 1024 commands of a session

Over == {"Completed", "Cancelled", "Expired", "ResumeFailed"}

(* request, request_manual. target is the document of the browser.         *)
NewSession(target, manual) ==
  [target |-> target, manual |-> manual, epoch |-> 1,
   phase |-> IF manual THEN "AwaitingUser" ELSE "Pausing",
   scope |-> FALSE, completed |-> FALSE, resumed |-> FALSE, commands |-> {}]

(* live: the first to look at a session after its deadline ends it.        *)
Live(s, late) ==
  IF late /\ s.phase \notin Over
  THEN [s EXCEPT !.phase = "Expired", !.scope = FALSE, !.epoch = @ + 1] ELSE s

(* The outcome of an operation that looks at the session first.            *)
Step(s, late, can, new) ==
  IF ~late /\ can THEN [ok |-> TRUE, session |-> new]
  ELSE [ok |-> FALSE, session |-> Live(s, late)]

(* pause_ack *)
PauseAck(s, late, epoch) ==
  Step(s, late, s.epoch = epoch /\ s.phase = "Pausing", [s EXCEPT !.phase = "AwaitingUser"])

(* approve *)
Approve(s, late, target) ==
  Step(s, late, s.target = target /\ s.phase = "AwaitingUser",
       [s EXCEPT !.phase = "Controlling", !.scope = TRUE])

(* approve_view *)
ApproveView(s, late, epoch) ==
  Step(s, late, s.epoch = epoch /\ s.phase = "Controlling", [s EXCEPT !.epoch = @ + 1])

MayUse(s, target, epoch) ==
  s.target = target /\ s.epoch = epoch /\ s.phase = "Controlling" /\ s.scope

(* authorize: a command is used up before it is carried out.               *)
Authorize(s, late, target, epoch, command) ==
  Step(s, late,
       /\ MayUse(s, target, epoch)
       /\ command \notin s.commands
       /\ Cardinality(s.commands) < MaxCommands,
       [s EXCEPT !.commands = @ \cup {command}])

(* crop_rgba *)
Crop(s, late, target, epoch) == Step(s, late, MayUse(s, target, epoch), s)

(* invalidate *)
Invalidate(s) ==
  IF s.phase \in Over THEN s
  ELSE [s EXCEPT !.phase = "Suspended", !.scope = FALSE, !.epoch = @ + 1]

(* cancel *)
Cancel(s) ==
  IF s.phase = "Completed" THEN s
  ELSE [s EXCEPT !.phase = "Cancelled", !.scope = FALSE, !.epoch = @ + 1]

(* Mutant of MayHandBack: a suspended session of an executor is handed back*)
MayHandBackAny(s) == s.phase \in {"Controlling", "Suspended"}

MayHandBack(s) == s.phase = "Controlling" \/ (s.phase = "Suspended" /\ s.manual)

(* hand_back *)
HandBack(s, late, epoch) ==
  Step(s, late, s.epoch = epoch /\ MayHandBack(s),
       [s EXCEPT !.phase = "Revoking", !.scope = FALSE, !.epoch = @ + 1, !.completed = TRUE])

(* revoked_ack *)
RevokedAck(s, late, epoch) ==
  Step(s, late, s.epoch = epoch /\ s.phase = "Revoking", [s EXCEPT !.phase = "Resuming"])

(* resume_ack *)
ResumeAck(s, late, epoch, success) ==
  Step(s, late, s.epoch = epoch /\ s.phase = "Resuming" /\ ~s.manual,
       [s EXCEPT !.phase = IF success THEN "Completed" ELSE "ResumeFailed",
                 !.resumed = success])

(* manual_complete *)
ManualComplete(s, late, epoch) ==
  Step(s, late, s.epoch = epoch /\ s.phase = "Resuming" /\ s.manual,
       [s EXCEPT !.phase = "Completed"])

(* rebind_manual *)
RebindManual(s, late, target) ==
  Step(s, late, s.manual /\ s.phase = "Suspended",
       [s EXCEPT !.phase = "AwaitingUser", !.target = target])

=============================================================================
