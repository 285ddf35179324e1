---------------------------- MODULE Login_proofs ----------------------------
(* Proofs about the two modules of the login assist: LoginPolicy, for any  *)
(* number of devices, sessions, epochs and commands, and LoginHost, for any*)
(* number of calls, commands, changes of the page and notices.             *)
EXTENDS LoginPolicy, LoginHost, SequenceTheorems, TLAPS

-----------------------------------------------------------------------------
(* The policy: a device is handed on by a confirmed hand-back only, and the*)
(* executor of a session stays out while the phone has control.            *)

Phase == Over \cup {"Pausing", "AwaitingUser", "Controlling", "Suspended", "Revoking", "Resuming"}

Session ==
  [target : [device : Device], manual : BOOLEAN, epoch : Nat, phase : Phase,
   scope : BOOLEAN, completed : BOOLEAN, resumed : BOOLEAN, commands : SUBSET (1 .. MaxCommands)]

(* What ExecutorStaysOut says of one session, made inductive: the scope is *)
(* there under control only, and who is revoked or resumes had control.    *)
Lawful(s, paused) ==
  /\ s.scope => s.phase = "Controlling"
  /\ s.phase \in {"Revoking", "Resuming"} => s.completed
  /\ s.resumed => s.phase = "Completed" /\ s.completed
  /\ ~s.manual =>
       /\ s.phase \in {"AwaitingUser", "Controlling", "Revoking", "Resuming"} => paused
       /\ s.completed => paused \/ s.resumed

(* t is session s later on.                                                *)
Follows(s, t) ==
  /\ t \in Session
  /\ t.target.device = s.target.device
  /\ s.phase = "Completed" => t.phase = "Completed"

Keeps(s, t) == Follows(s, t) /\ \A paused \in BOOLEAN : Lawful(s, paused) => Lawful(t, paused)

PolicyInv ==
  /\ sessions \in Seq(Session) /\ devices \in [Device -> Nat] /\ stopped \subseteq Ids
  /\ \A i \in Ids : Lawful(sessions[i], i \in stopped)
  /\ DeviceIsHandedOn

(* A look at a session, or its end from outside, keeps it lawful.          *)
LEMMA EndsKeep ==
  ASSUME NEW s \in Session, NEW l \in BOOLEAN
  PROVE  Keeps(s, Live(s, l)) /\ Keeps(s, Invalidate(s)) /\ Keeps(s, Cancel(s))
<1>1. s.epoch + 1 \in Nat
  BY DEF Session
<1>2. Keeps(s, s)
  BY DEF Keeps, Follows
<1>3. s.phase \notin Over =>
        Keeps(s, [s EXCEPT !.phase = "Expired", !.scope = FALSE, !.epoch = @ + 1])
  BY <1>1 DEF Session, Phase, Over, Keeps, Follows, Lawful
<1>4. s.phase \notin Over =>
        Keeps(s, [s EXCEPT !.phase = "Suspended", !.scope = FALSE, !.epoch = @ + 1])
  BY <1>1 DEF Session, Phase, Over, Keeps, Follows, Lawful
<1>5. s.phase # "Completed" =>
        Keeps(s, [s EXCEPT !.phase = "Cancelled", !.scope = FALSE, !.epoch = @ + 1])
  BY <1>1 DEF Session, Phase, Over, Keeps, Follows, Lawful
<1>6. QED
  BY <1>2, <1>3, <1>4, <1>5 DEF Live, Invalidate, Cancel

(* An operation leaves the session as a look at it does, or makes its step.*)
LEMMA StepKeeps ==
  ASSUME NEW s \in Session, NEW l \in BOOLEAN, NEW can \in BOOLEAN, NEW new,
         can => Keeps(s, new)
  PROVE  Keeps(s, Step(s, l, can, new).session)
BY EndsKeep DEF Step

(* What phone and browser do under a grant keeps a session lawful.         *)
LEMMA UsesKeep ==
  ASSUME NEW s \in Session, NEW l \in BOOLEAN, NEW e \in Nat, NEW c \in 1 .. MaxCommands
  PROVE  /\ Keeps(s, Approve(s, l, s.target).session)
         /\ Keeps(s, ApproveView(s, l, e).session)
         /\ Keeps(s, Authorize(s, l, s.target, e, c).session)
<1>1. s.phase = "AwaitingUser" => Keeps(s, [s EXCEPT !.phase = "Controlling", !.scope = TRUE])
  BY DEF Session, Phase, Over, Keeps, Follows, Lawful
<1>2. Keeps(s, Approve(s, l, s.target).session)
  BY <1>1, StepKeeps DEF Approve
<1>0. s.epoch + 1 \in Nat
  BY DEF Session
<1>3. s.phase = "Controlling" => Keeps(s, [s EXCEPT !.epoch = @ + 1])
  BY <1>0 DEF Session, Phase, Over, Keeps, Follows, Lawful
<1>4. Keeps(s, ApproveView(s, l, e).session)
  BY <1>3, StepKeeps DEF ApproveView
<1>5. Keeps(s, [s EXCEPT !.commands = @ \cup {c}])
  BY DEF Session, Phase, Over, Keeps, Follows, Lawful
<1>6. Keeps(s, Authorize(s, l, s.target, e, c).session)
  BY <1>5, StepKeeps DEF Authorize, MayUse, Session
<1>7. QED
  BY <1>2, <1>4, <1>6

(* So do the steps of a hand-back and a new binding.                       *)
LEMMA ReturnsKeep ==
  ASSUME NEW s \in Session, NEW l \in BOOLEAN, NEW e \in Nat
  PROVE  /\ Keeps(s, RebindManual(s, l, s.target).session)
         /\ Keeps(s, HandBack(s, l, e).session)
         /\ Keeps(s, RevokedAck(s, l, e).session)
         /\ Keeps(s, ManualComplete(s, l, e).session)
<1>1. s.manual /\ s.phase = "Suspended" =>
        Keeps(s, [s EXCEPT !.phase = "AwaitingUser", !.target = s.target])
  BY DEF Session, Phase, Over, Keeps, Follows, Lawful
<1>2. Keeps(s, RebindManual(s, l, s.target).session)
  BY <1>1, StepKeeps DEF RebindManual, Session
<1>0. s.epoch + 1 \in Nat
  BY DEF Session
<1>3. MayHandBack(s) =>
        Keeps(s, [s EXCEPT !.phase = "Revoking", !.scope = FALSE, !.epoch = @ + 1,
                           !.completed = TRUE])
  BY <1>0 DEF Session, Phase, Over, Keeps, Follows, Lawful, MayHandBack
<1>4. Keeps(s, HandBack(s, l, e).session)
  BY <1>3, StepKeeps DEF HandBack, MayHandBack, Session
<1>5. s.phase = "Revoking" => Keeps(s, [s EXCEPT !.phase = "Resuming"])
  BY DEF Session, Phase, Over, Keeps, Follows, Lawful
<1>6. Keeps(s, RevokedAck(s, l, e).session)
  BY <1>5, StepKeeps DEF RevokedAck
<1>7. s.phase = "Resuming" /\ s.manual => Keeps(s, [s EXCEPT !.phase = "Completed"])
  BY DEF Session, Phase, Over, Keeps, Follows, Lawful
<1>8. Keeps(s, ManualComplete(s, l, e).session)
  BY <1>7, StepKeeps DEF ManualComplete, Session
<1>9. QED
  BY <1>2, <1>4, <1>6, <1>8

(* The executor's acknowledgements, which also say whether it is paused.   *)
LEMMA PauseKeeps ==
  ASSUME NEW s \in Session, NEW l \in BOOLEAN, NEW e \in Nat, NEW paused \in BOOLEAN,
         Lawful(s, paused)
  PROVE  LET r == PauseAck(s, l, e) IN
         Follows(s, r.session) /\ Lawful(r.session, paused \/ r.ok)
<1>1. CASE ~l /\ s.epoch = e /\ s.phase = "Pausing"
  BY <1>1 DEF PauseAck, Step, Session, Phase, Over, Follows, Lawful
<1>2. CASE ~(~l /\ s.epoch = e /\ s.phase = "Pausing")
  <2>1. PauseAck(s, l, e) = [ok |-> FALSE, session |-> Live(s, l)]
    BY <1>2 DEF PauseAck, Step
  <2>2. QED
    BY <2>1, EndsKeep DEF Keeps
<1>3. QED
  BY <1>1, <1>2

(* Handing back keeps a session lawful.                                    *)
LEMMA ResumeKeeps ==
  ASSUME NEW s \in Session, NEW l \in BOOLEAN, NEW e \in Nat, NEW success \in BOOLEAN,
         NEW paused \in BOOLEAN, Lawful(s, paused)
  PROVE  LET r == ResumeAck(s, l, e, success) IN
         /\ Follows(s, r.session)
         /\ r.ok \in BOOLEAN
         /\ IF r.ok /\ success
            THEN r.session.phase = "Completed" /\ Lawful(r.session, FALSE)
            ELSE Lawful(r.session, paused)
<1>1. CASE ~l /\ s.epoch = e /\ s.phase = "Resuming" /\ ~s.manual
  <2>1. CASE success
    <3>1. ResumeAck(s, l, e, success) =
            [ok |-> TRUE, session |-> [s EXCEPT !.phase = "Completed", !.resumed = TRUE]]
      BY <1>1, <2>1 DEF ResumeAck, Step
    <3>2. Follows(s, [s EXCEPT !.phase = "Completed", !.resumed = TRUE])
      BY <1>1 DEF Session, Phase, Over, Follows
    <3>3. Lawful([s EXCEPT !.phase = "Completed", !.resumed = TRUE], FALSE)
      BY <1>1 DEF Session, Lawful
    <3>4. LET r == ResumeAck(s, l, e, success) IN
          r.ok = TRUE /\ r.session = [s EXCEPT !.phase = "Completed", !.resumed = TRUE]
      BY <3>1
    <3>5. [s EXCEPT !.phase = "Completed", !.resumed = TRUE].phase = "Completed"
      BY DEF Session
    <3>6. QED
      BY <2>1, <3>2, <3>3, <3>4, <3>5
  <2>2. CASE ~success
    <3>1. ResumeAck(s, l, e, success) =
            [ok |-> TRUE, session |-> [s EXCEPT !.phase = "ResumeFailed", !.resumed = FALSE]]
      BY <1>1, <2>2 DEF ResumeAck, Step
    <3>2. Follows(s, [s EXCEPT !.phase = "ResumeFailed", !.resumed = FALSE])
      BY <1>1 DEF Session, Phase, Over, Follows
    <3>3. Lawful([s EXCEPT !.phase = "ResumeFailed", !.resumed = FALSE], paused)
      BY <1>1 DEF Session, Lawful
    <3>4. QED
      BY <2>2, <3>1, <3>2, <3>3
  <2>3. QED
    BY <2>1, <2>2
<1>2. CASE ~(~l /\ s.epoch = e /\ s.phase = "Resuming" /\ ~s.manual)
  <2>1. ResumeAck(s, l, e, success) = [ok |-> FALSE, session |-> Live(s, l)]
    BY <1>2 DEF ResumeAck, Step
  <2>2. QED
    BY <2>1, EndsKeep DEF Keeps
<1>3. QED
  BY <1>1, <1>2

(* A step of one session that keeps it lawful and does not touch the       *)
(* devices, or frees the one of a session that is completed by it.         *)
LEMMA SessionStep ==
  ASSUME PolicyInv, NEW i \in Ids, NEW t,
         sessions' = [sessions EXCEPT ![i] = t],
         Follows(sessions[i], t), Lawful(t, i \in stopped'),
         stopped' \subseteq Ids, \A j \in Ids \ {i} : j \in stopped' <=> j \in stopped,
         \/ devices' = devices
         \/ /\ sessions[i].phase # "Completed" /\ t.phase = "Completed"
            /\ devices' = [devices EXCEPT ![On(i)] = 0]
  PROVE  PolicyInv'
<1>1. t \in Session
  BY DEF Follows
<1>2. Ids' = Ids /\ sessions' \in Seq(Session)
  BY <1>1 DEF Ids, PolicyInv
<1>3. \A j \in Ids : sessions'[j] = IF j = i THEN t ELSE sessions[j]
  BY DEF Ids, PolicyInv
<1>4. \A j \in Ids : sessions[j] \in Session
  BY DEF Ids, PolicyInv
<1>5. \A j \in Ids : On(j)' = On(j) /\ On(j) \in Device
  BY <1>2, <1>3, <1>4 DEF On, Follows, Session
<1>6. devices' \in [Device -> Nat]
  BY <1>5 DEF PolicyInv
<1>7. \A j \in Ids' : Lawful(sessions'[j], j \in stopped')
  <2>1. TAKE j \in Ids'
  <2>2. CASE j = i
    BY <1>2, <1>3, <2>2
  <2>3. CASE j # i
    <3>1. sessions'[j] = sessions[j] /\ Lawful(sessions[j], j \in stopped)
      BY <1>2, <1>3, <2>3 DEF PolicyInv
    <3>2. (j \in stopped') <=> (j \in stopped)
      BY <1>2, <2>3
    <3>3. QED
      BY <3>1, <3>2 DEF Lawful
  <2>4. QED
    BY <2>2, <2>3
<1>8. \A j \in Ids' : sessions'[j].phase = "Completed" \/ devices'[On(j)'] = j
  <2>1. TAKE j \in Ids'
  <2>2. j \in Ids /\ (sessions[j].phase = "Completed" \/ devices[On(j)] = j)
    BY <1>2 DEF PolicyInv, DeviceIsHandedOn
  <2>3. sessions[j].phase = "Completed" => sessions'[j].phase = "Completed"
    BY <1>3, <2>2 DEF Follows
  <2>4. CASE devices' = devices
    BY <1>5, <2>2, <2>3, <2>4
  <2>5. CASE /\ sessions[i].phase # "Completed" /\ t.phase = "Completed"
             /\ devices' = [devices EXCEPT ![On(i)] = 0]
    <3>1. CASE j = i
      BY <1>3, <2>2, <2>5, <3>1
    <3>2. CASE j # i /\ devices[On(j)] = j
      <4>1. CASE On(j) = On(i)
        <5>1. devices[On(i)] = i
          BY <2>5 DEF PolicyInv, DeviceIsHandedOn
        <5>2. QED
          BY <3>2, <4>1, <5>1
      <4>2. CASE On(j) # On(i)
        BY <1>5, <2>2, <2>5, <3>2, <4>2 DEF PolicyInv
      <4>3. QED
        BY <4>1, <4>2
    <3>3. QED
      BY <2>2, <2>3, <3>1, <3>2
  <2>6. QED
    BY <2>4, <2>5
<1>9. QED
  BY <1>2, <1>6, <1>7, <1>8 DEF PolicyInv, DeviceIsHandedOn

(* A new session takes a device that nobody holds.                         *)
LEMMA RequestStep ==
  ASSUME PolicyInv, NEW d \in Device, NEW manual \in BOOLEAN, Request(d, manual)
  PROVE  PolicyInv'
<1> DEFINE s == NewSession([device |-> d], manual)
<1>0. PICK n : n = Len(sessions) + 1
  OBVIOUS
<1>1. s \in Session
  BY DEF NewSession, Session, Phase, Over
<1>2. sessions' = Append(sessions, s) /\ devices' = [devices EXCEPT ![d] = n]
  BY <1>0 DEF Request
<1>3. sessions' \in Seq(Session) /\ Ids' = Ids \cup {n} /\ Ids = 1 .. Len(sessions)
  BY <1>0, <1>1, <1>2 DEF PolicyInv, Ids
<1>4. sessions'[n] = s /\ \A j \in Ids : sessions'[j] = sessions[j] /\ j # n
  BY <1>0, <1>1, <1>2, <1>3 DEF PolicyInv, Ids
<1>5. devices' \in [Device -> Nat] /\ devices'[d] = n /\ n \in Nat
  BY <1>0, <1>2 DEF PolicyInv
<1>6. \A j \in Ids' : Lawful(sessions'[j], j \in stopped')
  <2>1. n \notin stopped
    BY <1>0, <1>3 DEF PolicyInv
  <2>2. Lawful(s, FALSE)
    BY DEF Lawful, NewSession
  <2>3. \A j \in Ids : Lawful(sessions[j], j \in stopped)
    BY DEF PolicyInv
  <2>4. Lawful(s, n \in stopped)
    BY <2>1, <2>2 DEF Lawful
  <2>5. QED
    BY <1>3, <1>4, <2>3, <2>4 DEF Request
<1>7. \A j \in Ids' : sessions'[j].phase = "Completed" \/ devices'[On(j)'] = j
  <2>1. On(n)' = d
    BY <1>4 DEF On, NewSession
  <2>2. ASSUME NEW j \in Ids PROVE sessions'[j].phase = "Completed" \/ devices'[On(j)'] = j
    <3>1. On(j)' = On(j) /\ sessions'[j] = sessions[j] /\ j # 0
      BY <1>3, <1>4 DEF On
    <3>2. sessions[j].phase = "Completed" \/ devices[On(j)] = j
      BY DEF PolicyInv, DeviceIsHandedOn
    <3>3. devices[On(j)] = j => On(j) # d
      BY <3>1 DEF Request
    <3>4. sessions[j] \in Session
      BY DEF PolicyInv, Ids
    <3>5. On(j) \in Device
      BY <3>4 DEF On, Session
    <3>6. QED
      BY <1>2, <3>1, <3>2, <3>3, <3>5 DEF PolicyInv
  <2>3. QED
    BY <1>3, <1>5, <2>1, <2>2
<1>8. QED
  BY <1>3, <1>5, <1>6, <1>7 DEF PolicyInv, DeviceIsHandedOn, Request

(* A step that keeps a session and changes nothing else.                   *)
LEMMA DoesStep ==
  ASSUME PolicyInv, NEW i \in Ids, NEW r, Does(i, r), Keeps(sessions[i], r.session)
  PROVE  PolicyInv'
<1>1. Follows(sessions[i], r.session) /\ Lawful(r.session, i \in stopped)
  <2>1. PICK p \in BOOLEAN : p <=> i \in stopped
    OBVIOUS
  <2>2. Lawful(sessions[i], p)
    BY <2>1 DEF PolicyInv, Lawful
  <2>3. Follows(sessions[i], r.session) /\ Lawful(r.session, p)
    BY <2>2 DEF Keeps
  <2>4. QED
    BY <2>1, <2>3 DEF Lawful
<1>2. sessions' = [sessions EXCEPT ![i] = r.session] /\ devices' = devices /\ stopped' = stopped
  BY DEF Does, Becomes
<1>3. Lawful(r.session, i \in stopped')
  BY <1>1, <1>2 DEF Lawful
<1>4. \A j \in Ids \ {i} : j \in stopped' <=> j \in stopped
  BY <1>2
<1>5. stopped' \subseteq Ids
  BY <1>2 DEF PolicyInv
<1>6. QED
  BY <1>1, <1>2, <1>3, <1>4, <1>5, SessionStep

(* Every operation keeps the invariant.                                    *)
LEMMA PolicyInvInductive == PolicyInv /\ [PolicyNext]_policyVars => PolicyInv'
<1> SUFFICES ASSUME PolicyInv, [PolicyNext]_policyVars PROVE PolicyInv'
  OBVIOUS
<1>s. \A i \in Ids : sessions[i] \in Session
  BY DEF PolicyInv, Ids
<1>e. \A i \in Ids : sessions[i].epoch \in Nat /\ \A e \in 1 .. sessions[i].epoch : e \in Nat
  BY <1>s DEF Session
<1>1. ASSUME NEW d \in Device, NEW manual \in BOOLEAN, Request(d, manual) PROVE PolicyInv'
  BY <1>1, RequestStep
<1>2. ASSUME NEW i \in Ids, Outlives(i) PROVE PolicyInv'
  BY <1>2 DEF Outlives, PolicyInv, Ids, On, DeviceIsHandedOn
<1>3. ASSUME NEW i \in Ids, Interrupt(i) PROVE PolicyInv'
  <2>1. (i \in late) \in BOOLEAN
    OBVIOUS
  <2>2. CASE Does(i, [session |-> Invalidate(sessions[i])])
    BY <2>2, <1>s, EndsKeep, DoesStep
  <2>3. CASE Does(i, [session |-> Cancel(sessions[i])])
    BY <2>3, <1>s, EndsKeep, DoesStep
  <2>4. CASE Does(i, RebindManual(sessions[i], i \in late, sessions[i].target))
    <3>1. Keeps(sessions[i], RebindManual(sessions[i], i \in late, sessions[i].target).session)
      BY <2>1, <1>s, <1>e, ReturnsKeep
    <3>2. QED
      BY <2>4, <3>1, DoesStep
  <2>5. QED
    BY <1>3, <2>2, <2>3, <2>4 DEF Interrupt
<1>4. ASSUME NEW i \in Ids, NEW e \in Nat, Pause(i, e) PROVE PolicyInv'
  <2> DEFINE r == PauseAck(sessions[i], i \in late, e)
  <2>1. Follows(sessions[i], r.session) /\ Lawful(r.session, i \in stopped \/ r.ok)
    <3>1. PICK l \in BOOLEAN, p \in BOOLEAN : (l <=> i \in late) /\ (p <=> i \in stopped)
      OBVIOUS
    <3>2. Lawful(sessions[i], p)
      BY <3>1 DEF PolicyInv, Lawful
    <3>3. LET q == PauseAck(sessions[i], l, e) IN
          Follows(sessions[i], q.session) /\ Lawful(q.session, p \/ q.ok)
      BY <3>2, <1>s, PauseKeeps
    <3>4. PauseAck(sessions[i], l, e) = r
      BY <3>1 DEF PauseAck, Step, Live
    <3>5. QED
      BY <3>1, <3>3, <3>4 DEF Lawful
  <2>2. sessions' = [sessions EXCEPT ![i] = r.session] /\ devices' = devices
    BY <1>4 DEF Pause, Becomes
  <2>3. stopped' = IF r.ok THEN stopped \cup {i} ELSE stopped
    BY <1>4 DEF Pause
  <2>4. stopped' \subseteq Ids /\ \A j \in Ids \ {i} : j \in stopped' <=> j \in stopped
    BY <2>3 DEF PolicyInv
  <2>5. Lawful(r.session, i \in stopped')
    BY <2>1, <2>3 DEF Lawful
  <2>6. QED
    BY <2>1, <2>2, <2>4, <2>5, SessionStep
<1>5. ASSUME NEW i \in Ids, NEW e \in Nat, Return(i, e) PROVE PolicyInv'
  <2>1. (i \in late) \in BOOLEAN
    OBVIOUS
  <2>2. /\ Keeps(sessions[i], HandBack(sessions[i], i \in late, e).session)
        /\ Keeps(sessions[i], RevokedAck(sessions[i], i \in late, e).session)
    BY <2>1, <1>s, ReturnsKeep
  <2>3. CASE Does(i, HandBack(sessions[i], i \in late, e))
    BY <2>2, <2>3, DoesStep
  <2>4. CASE Does(i, RevokedAck(sessions[i], i \in late, e))
    BY <2>2, <2>4, DoesStep
  <2>5. QED
    BY <1>5, <2>3, <2>4 DEF Return
<1>6. ASSUME NEW i \in Ids, NEW e \in Nat, Complete(i, e) PROVE PolicyInv'
  <2> DEFINE r == ManualComplete(sessions[i], i \in late, e)
  <2>1. PICK l \in BOOLEAN, p \in BOOLEAN : (l <=> i \in late) /\ (p <=> i \in stopped)
    OBVIOUS
  <2>2. Keeps(sessions[i], r.session)
    <3>1. Keeps(sessions[i], ManualComplete(sessions[i], l, e).session)
      BY <1>s, ReturnsKeep
    <3>2. ManualComplete(sessions[i], l, e) = r
      BY <2>1 DEF ManualComplete, Step, Live
    <3>3. QED
      BY <3>1, <3>2
  <2>3. Follows(sessions[i], r.session) /\ Lawful(r.session, i \in stopped)
    <3>1. Lawful(sessions[i], p)
      BY <2>1 DEF PolicyInv, Lawful
    <3>2. Follows(sessions[i], r.session) /\ Lawful(r.session, p)
      BY <3>1, <2>2 DEF Keeps
    <3>3. QED
      BY <2>1, <3>2 DEF Lawful
  <2>4. r.ok => sessions[i].phase = "Resuming" /\ r.session.phase = "Completed"
    BY <1>s DEF ManualComplete, Step, Session
  <2>5. sessions' = [sessions EXCEPT ![i] = r.session] /\ stopped' = stopped
    BY <1>6 DEF Complete, Ended, Becomes
  <2>6. devices' = IF r.ok THEN [devices EXCEPT ![On(i)] = 0] ELSE devices
    BY <1>6 DEF Complete, Ended, Releases
  <2>7. stopped' \subseteq Ids /\ Lawful(r.session, i \in stopped')
    BY <2>3, <2>5 DEF PolicyInv, Lawful
  <2>8. QED
    BY <2>3, <2>4, <2>5, <2>6, <2>7, SessionStep
<1>7. ASSUME NEW i \in Ids, NEW e \in Nat, NEW success \in BOOLEAN, Resume(i, e, success)
      PROVE  PolicyInv'
  <2> DEFINE r == ResumeAck(sessions[i], i \in late, e, success)
  <2>1. PICK l \in BOOLEAN, p \in BOOLEAN : (l <=> i \in late) /\ (p <=> i \in stopped)
    OBVIOUS
  <2>2. /\ Follows(sessions[i], r.session)
        /\ IF r.ok /\ success
           THEN r.session.phase = "Completed" /\ Lawful(r.session, FALSE)
           ELSE Lawful(r.session, p)
    <3>1. Lawful(sessions[i], p)
      BY <2>1 DEF PolicyInv, Lawful
    <3>2. ResumeAck(sessions[i], l, e, success) = r
      BY <2>1 DEF ResumeAck, Step, Live
    <3>3. LET q == ResumeAck(sessions[i], l, e, success) IN
          /\ Follows(sessions[i], q.session)
          /\ IF q.ok /\ success
             THEN q.session.phase = "Completed" /\ Lawful(q.session, FALSE)
             ELSE Lawful(q.session, p)
      BY <3>1, <1>s, ResumeKeeps
    <3>4. QED
      BY <3>2, <3>3
  <2>3. r.ok => sessions[i].phase = "Resuming"
    BY DEF ResumeAck, Step
  <2>4. sessions' = [sessions EXCEPT ![i] = r.session]
    BY <1>7 DEF Resume, Ended, Becomes
  <2>5. /\ devices' = IF r.ok /\ success THEN [devices EXCEPT ![On(i)] = 0] ELSE devices
        /\ stopped' = IF r.ok /\ success THEN stopped \ {i} ELSE stopped
    BY <1>7 DEF Resume, Ended, Releases
  <2>6. stopped' \subseteq Ids /\ \A j \in Ids \ {i} : j \in stopped' <=> j \in stopped
    BY <2>5 DEF PolicyInv
  <2>7. CASE r.ok /\ success
    <3>1. Lawful(r.session, i \in stopped')
      BY <2>2, <2>5, <2>7 DEF Lawful
    <3>2. QED
      BY <2>2, <2>3, <2>4, <2>5, <2>6, <2>7, <3>1, SessionStep
  <2>8. CASE ~(r.ok /\ success)
    <3>1. Lawful(r.session, i \in stopped')
      BY <2>1, <2>2, <2>5, <2>8 DEF Lawful
    <3>2. QED
      BY <2>2, <2>4, <2>5, <2>6, <2>8, <3>1, SessionStep
  <2>9. QED
    BY <2>7, <2>8
<1>8. ASSUME NEW i \in Ids, NEW e \in Nat, NEW c \in 1 .. MaxCommands, Use(i, e, c) PROVE PolicyInv'
  <2> DEFINE s == sessions[i]
             l == i \in late
  <2>1. l \in BOOLEAN
    OBVIOUS
  <2>2. /\ Keeps(s, Live(s, l)) /\ Keeps(s, Approve(s, l, s.target).session)
        /\ Keeps(s, ApproveView(s, l, e).session)
        /\ Keeps(s, Authorize(s, l, s.target, e, c).session)
    BY <2>1, <1>s, EndsKeep, UsesKeep
  <2>3. CASE Does(i, [session |-> Live(s, l)])
    BY <2>2, <2>3, DoesStep
  <2>4. CASE Does(i, Approve(s, l, s.target))
    BY <2>2, <2>4, DoesStep
  <2>5. CASE Does(i, ApproveView(s, l, e))
    BY <2>2, <2>5, DoesStep
  <2>6. CASE Does(i, Authorize(s, l, s.target, e, c))
    BY <2>2, <2>6, DoesStep
  <2>7. QED
    BY <1>8, <2>3, <2>4, <2>5, <2>6 DEF Use
<1>9. CASE UNCHANGED policyVars
  BY <1>9 DEF policyVars, PolicyInv, Ids, On, DeviceIsHandedOn
<1>10. QED
  BY <1>e, <1>1, <1>2, <1>3, <1>4, <1>5, <1>6, <1>7, <1>8, <1>9 DEF PolicyNext

(* The first session finds every device free.                              *)
LEMMA PolicyInvInitially == PolicyInit => PolicyInv
BY DEF PolicyInit, PolicyInv, Ids, DeviceIsHandedOn, Session

(* A device goes from one session to the next only by a hand-back that was *)
(* confirmed, however many sessions are cancelled, expire or fail.         *)
THEOREM DevicesAreHandedOn == PolicySpec => []DeviceIsHandedOn
<1>1. PolicyInv => DeviceIsHandedOn
  BY DEF PolicyInv
<1>2. QED
  BY <1>1, PolicyInvInitially, PolicyInvInductive, PTL DEF PolicySpec

(* Executor and phone never work in a session at the same time.            *)
THEOREM ExecutorsStayOut == PolicySpec => []ExecutorStaysOut
<1>1. PolicyInv => ExecutorStaysOut
  BY DEF PolicyInv, Lawful, ExecutorStaysOut
<1>2. QED
  BY <1>1, PolicyInvInitially, PolicyInvInductive, PTL DEF PolicySpec

-----------------------------------------------------------------------------
(* A manual session: the page is used as it was approved only, and nothing *)
(* reaches it after a confirmed hand-back.                                 *)

(* The types *)

HostSession ==
  [target : Nat, manual : BOOLEAN, epoch : Nat, phase : Phase, scope : BOOLEAN,
   completed : BOOLEAN, resumed : BOOLEAN, commands : SUBSET Nat]

Snapshot == [document : Nat, revision : Nat]

Input == {"fill", "click"}

Message ==
  [op : Input \cup {"inspect", "capture", "hand_back", "cancel"}, id : Nat, document : Nat,
   revision : Nat, epoch : Nat, command : Nat, approved : Snapshot]

Answer == [kind : {"reply"}, id : Nat, ok : BOOLEAN, snapshot : Snapshot]

Host ==
  [snapshot : Snapshot, approved : Snapshot, pair : BOOLEAN, bearer : BOOLEAN,
   pairLate : BOOLEAN, lost : BOOLEAN, late : BOOLEAN, up : BOOLEAN,
   next : Nat \ {0}]

Report == Answer \cup [kind : {"invalidate", "stop"}]

Effect == [page : Snapshot, approved : Snapshot, command : Nat]

Typed ==
  /\ policy \in HostSession
  /\ host \in Host
  /\ handler \in [call : Message \cup {NoJob}, answer : SUBSET Answer]
  /\ calls \in Seq(Message)
  /\ replies \in Seq(Report)
  /\ worker \in [target : Nat, job : Message \cup {NoJob}, on : Nat, checked : BOOLEAN,
                 png : SUBSET Snapshot]
  /\ tab \in [document : Nat, revision : Nat, revoked : BOOLEAN, changes : Nat]
  /\ effects \in Seq(Effect)

-----------------------------------------------------------------------------
(* The inductive invariant *)

At(c) == [document |-> c.document, revision |-> c.revision]

AtRest(w) == w.target = 0 /\ w.job = NoJob

(* A message with the number of the call that is waited for is that call.  *)
Fits(c, h) == (h # NoJob /\ c.id = h.id) => (c.op = h.op /\ At(c) = At(h))

(* It was sent before call n, and input for the page as it was approved.   *)
Genuine(c, n) ==
  /\ c.id \in 1 .. n - 1
  /\ c.op \in Input => c.command = c.id /\ c.approved = At(c)

(* What an answer to the call that is waited for says is so: the picture is*)
(* of the page the call names, and who handed back has nothing to do.      *)
Faithful(m, h, n, w) ==
  /\ m.id \in 1 .. n - 1
  /\ (h # NoJob /\ m.id = h.id /\ m.ok) =>
       /\ h.op = "capture" => m.snapshot = At(h)
       /\ h.op = "hand_back" => AtRest(w)

Approved ==
  /\ policy.phase = "Controlling" => host.approved = host.snapshot
  /\ policy.phase = "Completed" => AtRest(worker)
  /\ handler.call # NoJob => At(handler.call) = host.snapshot /\ handler.call.id < host.next

Working ==
  LET j == worker.job IN
  j # NoJob =>
    /\ Genuine(j, host.next) /\ Fits(j, handler.call)
    /\ j.op \in Input \cup {"capture"} => j.document = worker.on
    /\ Revokes(j) => worker.target = 0
    /\ worker.checked =>
         j.document < tab.document \/ (j.document = tab.document /\ j.revision <= tab.revision)
    /\ \A png \in worker.png :
         j.document < tab.document \/ (/\ j.document = tab.document /\ png.document = j.document
                                      /\ j.revision <= png.revision /\ png.revision <= tab.revision)
    /\ \A i \in 1 .. Len(calls) : j.id < calls[i].id
    /\ \A k \in 1 .. Len(effects) : effects[k].command < j.id

Queued ==
  /\ \A i \in 1 .. Len(calls) :
       /\ Genuine(calls[i], host.next) /\ Fits(calls[i], handler.call)
       /\ \A k \in 1 .. Len(effects) : effects[k].command < calls[i].id
  /\ \A i, j \in 1 .. Len(calls) : i < j => calls[i].id < calls[j].id

Replied ==
  /\ \A i \in 1 .. Len(replies) :
       replies[i].kind = "reply" => Faithful(replies[i], handler.call, host.next, worker)
  /\ \A m \in handler.answer :
       /\ handler.call # NoJob => m.id = handler.call.id
       /\ Faithful(m, handler.call, host.next, worker)

Past ==
  /\ \A k \in 1 .. Len(effects) :
       effects[k].page = effects[k].approved /\ effects[k].command < host.next
  /\ \A k, l \in 1 .. Len(effects) : k < l => effects[k].command < effects[l].command
  /\ FramesAreApproved

HostInv == Typed /\ Approved /\ Working /\ Queued /\ Replied /\ Past

-----------------------------------------------------------------------------
(* The session *)

(* Nothing that may follow a session but by an approval or a completion.   *)
MayFollow(s, t) ==
  /\ t \in HostSession
  /\ t.phase = "Controlling" => s.phase = "Controlling"
  /\ t.phase = "Completed" => s.phase = "Completed"

(* A look at a session, or its end from outside, gives no control.         *)
LEMMA EndsFollow ==
  ASSUME NEW s \in HostSession, NEW l \in BOOLEAN
  PROVE  MayFollow(s, Live(s, l)) /\ MayFollow(s, Invalidate(s)) /\ MayFollow(s, Cancel(s))
<1>1. s.epoch + 1 \in Nat
  BY DEF HostSession
<1>2. MayFollow(s, s)
  BY DEF MayFollow
<1>3. MayFollow(s, [s EXCEPT !.phase = "Expired", !.scope = FALSE, !.epoch = @ + 1])
  BY <1>1 DEF HostSession, Phase, Over, MayFollow
<1>4. MayFollow(s, [s EXCEPT !.phase = "Suspended", !.scope = FALSE, !.epoch = @ + 1])
  BY <1>1 DEF HostSession, Phase, Over, MayFollow
<1>5. MayFollow(s, [s EXCEPT !.phase = "Cancelled", !.scope = FALSE, !.epoch = @ + 1])
  BY <1>1 DEF HostSession, Phase, Over, MayFollow
<1>6. QED
  BY <1>2, <1>3, <1>4, <1>5 DEF Live, Invalidate, Cancel

(* An operation leaves the session as a look at it does, or makes its step *)
(* when it may.                                                            *)
LEMMA StepFollows ==
  ASSUME NEW s \in HostSession, NEW l \in BOOLEAN, NEW can, NEW new, can => MayFollow(s, new)
  PROVE  LET r == Step(s, l, can, new) IN MayFollow(s, r.session) /\ (r.ok => can)
<1>1. CASE ~l /\ can
  BY <1>1 DEF Step
<1>2. CASE ~(~l /\ can)
  <2>1. Step(s, l, can, new) = [ok |-> FALSE, session |-> Live(s, l)]
    BY <1>2 DEF Step
  <2>2. QED
    BY <2>1, EndsFollow
<1>3. QED
  BY <1>1, <1>2

(* Nor do the uses of a grant, the return of it and a new binding; a use is*)
(* allowed under control only.                                             *)
LEMMA UsesFollow ==
  ASSUME NEW s \in HostSession, NEW l \in BOOLEAN, NEW d \in Nat, NEW e, NEW c \in Nat
  PROVE  /\ MayFollow(s, ApproveView(s, l, e).session)
         /\ MayFollow(s, Authorize(s, l, d, e, c).session)
         /\ Authorize(s, l, d, e, c).ok => s.phase = "Controlling"
         /\ MayFollow(s, Crop(s, l, d, e).session)
         /\ Crop(s, l, d, e).ok => s.phase = "Controlling"
         /\ MayFollow(s, HandBack(s, l, e).session)
         /\ MayFollow(s, RevokedAck(s, l, e).session)
         /\ MayFollow(s, RebindManual(s, l, d).session)
         /\ RebindManual(s, l, d).ok => RebindManual(s, l, d).session.phase = "AwaitingUser"
<1>1. s.epoch + 1 \in Nat
  BY DEF HostSession
<1>2. MayFollow(s, s)
  BY DEF MayFollow
<1>3. MayFollow(s, [s EXCEPT !.epoch = @ + 1])
  BY <1>1 DEF HostSession, Phase, Over, MayFollow
<1>4. MayFollow(s, [s EXCEPT !.commands = @ \cup {c}])
  BY DEF HostSession, Phase, Over, MayFollow
<1>5. MayFollow(s, [s EXCEPT !.phase = "Revoking", !.scope = FALSE, !.epoch = @ + 1,
                           !.completed = TRUE])
  BY <1>1 DEF HostSession, Phase, Over, MayFollow
<1>6. MayFollow(s, [s EXCEPT !.phase = "Resuming"])
  BY DEF HostSession, Phase, Over, MayFollow
<1>7. MayFollow(s, [s EXCEPT !.phase = "AwaitingUser", !.target = d])
  BY DEF HostSession, Phase, Over, MayFollow
<1>8. MayFollow(s, ApproveView(s, l, e).session)
  BY <1>3, StepFollows DEF ApproveView
<1>9. /\ MayFollow(s, Authorize(s, l, d, e, c).session)
      /\ Authorize(s, l, d, e, c).ok => s.phase = "Controlling"
  BY <1>4, StepFollows DEF Authorize, MayUse
<1>10. MayFollow(s, Crop(s, l, d, e).session) /\ (Crop(s, l, d, e).ok => s.phase = "Controlling")
  BY <1>2, StepFollows DEF Crop, MayUse
<1>11. MayFollow(s, HandBack(s, l, e).session)
  BY <1>5, StepFollows DEF HandBack
<1>12. MayFollow(s, RevokedAck(s, l, e).session)
  BY <1>6, StepFollows DEF RevokedAck
<1>13. MayFollow(s, RebindManual(s, l, d).session)
  BY <1>7, StepFollows DEF RebindManual
<1>14. RebindManual(s, l, d).ok => RebindManual(s, l, d).session.phase = "AwaitingUser"
  BY DEF RebindManual, Step, HostSession
<1>15. QED
  BY <1>8, <1>9, <1>10, <1>11, <1>12, <1>13, <1>14

(* The two that do: an approval when it is allowed, and a completion.      *)
LEMMA GrantsFollow ==
  ASSUME NEW s \in HostSession, NEW l \in BOOLEAN, NEW d, NEW e
  PROVE  /\ Approve(s, l, d).session \in HostSession
         /\ Approve(s, l, d).session.phase = "Completed" => s.phase = "Completed"
         /\ ~Approve(s, l, d).ok => MayFollow(s, Approve(s, l, d).session)
         /\ ManualComplete(s, l, e).session \in HostSession
         /\ ManualComplete(s, l, e).session.phase = "Controlling" => s.phase = "Controlling"
<1>1. MayFollow(s, Live(s, l))
  BY EndsFollow
<1>2. [s EXCEPT !.phase = "Controlling", !.scope = TRUE] \in HostSession
  BY DEF HostSession, Phase, Over
<1>3. [s EXCEPT !.phase = "Controlling", !.scope = TRUE].phase = "Controlling"
  BY DEF HostSession
<1>4. [s EXCEPT !.phase = "Completed"] \in HostSession
  BY DEF HostSession, Phase, Over
<1>5. [s EXCEPT !.phase = "Completed"].phase = "Completed"
  BY DEF HostSession
<1>6. QED
  BY <1>1, <1>2, <1>3, <1>4, <1>5 DEF Approve, ManualComplete, Step, MayFollow

-----------------------------------------------------------------------------
(* The side of the host *)

(* A step of the service that starts no call keeps the invariant, if it    *)
(* leaves the snapshot as long as a call is waited for, and the session is *)
(* under control for what is approved, and completed after the end, only.  *)
LEMMA ServiceKeeps ==
  ASSUME HostInv, policy' \in HostSession, host' \in Host, host'.next = host.next,
         policy'.phase = "Controlling" => host'.approved = host'.snapshot,
         policy'.phase = "Completed" => AtRest(worker),
         handler' = NoCommand \/ (handler' = handler /\ host'.snapshot = host.snapshot),
         replies' = replies \/ (replies # <<>> /\ replies' = Tail(replies)),
         UNCHANGED <<calls, worker, tab, effects>>, FramesAreApproved'
  PROVE  HostInv'
<1>1. /\ replies' \in Seq(Report)
      /\ \A i \in 1 .. Len(replies') : \E j \in 1 .. Len(replies) : replies'[i] = replies[j]
  <2>1. CASE replies' = replies
    BY <2>1 DEF HostInv, Typed
  <2>2. CASE replies # <<>> /\ replies' = Tail(replies)
    <3>1. replies' \in Seq(Report) /\ Len(replies') = Len(replies) - 1 /\ Len(replies) \in Nat
      BY <2>2 DEF HostInv, Typed
    <3>2. \A i \in 1 .. Len(replies') :
            i + 1 \in 1 .. Len(replies) /\ replies'[i] = replies[i + 1]
      <4>1. replies \in Seq(Report)
        BY DEF HostInv, Typed
      <4>2. \A i \in 1 .. Len(Tail(replies)) : Tail(replies)[i] = replies[i + 1]
        BY <2>2, <4>1, HeadTailProperties
      <4>3. QED
        <5> TAKE i \in 1 .. Len(replies')
        <5>1. i + 1 \in 1 .. Len(replies)
          BY <3>1
        <5>2. Tail(replies)[i] = replies[i + 1]
          BY <2>2, <4>2
        <5>3. QED
          BY <2>2, <5>1, <5>2
    <3>3. QED
      BY <3>1, <3>2
  <2>3. QED
    BY <2>1, <2>2
<1>2. NoCommand \in [call : Message \cup {NoJob}, answer : SUBSET Answer]
  BY DEF NoCommand
<1>3. NoCommand.call = NoJob /\ NoCommand.answer = {}
  BY DEF NoCommand
<1>4. Typed'
  BY <1>1, <1>2 DEF HostInv, Typed
<1>5. Approved'
  BY <1>3 DEF HostInv, Approved
<1>6. \A c : Fits(c, handler.call) => Fits(c, handler'.call)
  BY <1>3 DEF Fits
<1>7. \A m, n, w : Faithful(m, handler.call, n, w) => Faithful(m, handler'.call, n, w)
  BY <1>3 DEF Faithful
<1>8. Working'
  BY <1>6 DEF HostInv, Working, Revokes
<1>9. Queued'
  BY <1>6 DEF HostInv, Queued
<1>10. Replied'
  <2>1. \A i \in 1 .. Len(replies') :
          replies'[i].kind = "reply" => Faithful(replies'[i], handler'.call, host'.next, worker')
    BY <1>1, <1>7 DEF HostInv, Replied
  <2>2. \A m \in handler'.answer :
          /\ handler'.call # NoJob => m.id = handler'.call.id
          /\ Faithful(m, handler'.call, host'.next, worker')
    BY <1>3, <1>7 DEF HostInv, Replied
  <2>3. QED
    BY <2>1, <2>2 DEF Replied
<1>11. Past'
  BY DEF HostInv, Past
<1>12. QED
  BY <1>4, <1>5, <1>8, <1>9, <1>10, <1>11 DEF HostInv

(* A call for a session that follows keeps it: its number is a new one, and*)
(* input is sent under control only, with a command of that number.        *)
LEMMA CallKeeps ==
  ASSUME HostInv, handler = NoCommand,
         NEW op \in Input \cup {"inspect", "capture", "hand_back", "cancel"},
         NEW s \in HostSession, NEW command \in Nat, Call(op, s, command),
         policy' = s, MayFollow(policy, s),
         op \in Input => command = host.next /\ policy.phase = "Controlling",
         UNCHANGED <<replies, worker, tab, effects, frames>>
  PROVE  HostInv'
<1> DEFINE new == host.next
<1>1. PICK c \in Message :
        /\ c.op = op /\ c.id = new /\ c.command = command /\ At(c) = host.snapshot
        /\ c.approved = host.approved
        /\ \/ handler' = [call |-> c, answer |-> {}] /\ calls' = Append(calls, c)
           \/ handler' = [call |-> [c EXCEPT !.id = 0], answer |-> {}] /\ calls' = calls
  <2> DEFINE c == [op |-> op, id |-> host.next, document |-> host.snapshot.document,
                   revision |-> host.snapshot.revision, epoch |-> s.epoch,
                   command |-> command, approved |-> host.approved]
  <2>1. c \in Message
    BY DEF HostInv, Typed, Host, HostSession, Snapshot, Message
  <2>2. At(c) = host.snapshot
    BY DEF HostInv, Typed, Host, Snapshot, At
  <2>3. \/ handler' = [call |-> c, answer |-> {}] /\ calls' = Append(calls, c)
        \/ handler' = [call |-> [c EXCEPT !.id = 0], answer |-> {}] /\ calls' = calls
    BY DEF Call
  <2>4. QED
    BY <2>1, <2>2, <2>3
<1>2. /\ host' \in Host /\ host'.next = new + 1 /\ new \in Nat \ {0}
      /\ host'.snapshot = host.snapshot /\ host'.approved = host.approved
  <2>1. (host.bearer /\ op # "cancel") \in BOOLEAN
    BY Zenon
  <2>2. PICK b \in BOOLEAN : b <=> (host.bearer /\ op # "cancel")
    BY <2>1
  <2>3. host' = [host EXCEPT !.next = @ + 1, !.bearer = b]
    BY <2>2 DEF Call, HostInv, Typed, Host
  <2>4. host \in Host /\ host.next \in Nat \ {0} /\ host.next + 1 \in Nat \ {0}
    BY DEF HostInv, Typed, Host
  <2>5. host' \in Host
    BY <2>3, <2>4 DEF Host
  <2>6. QED
    BY <2>3, <2>4, <2>5 DEF Host
<1>3. PICK h \in Message :
        /\ handler' = [call |-> h, answer |-> {}]
        /\ h.op = c.op /\ At(h) = At(c)
        /\ \/ h.id = new /\ calls' = Append(calls, c)
           \/ h.id = 0 /\ calls' = calls
  <2>1. [c EXCEPT !.id = 0] \in Message /\ [c EXCEPT !.id = 0].id = 0
    BY DEF Message
  <2>2. QED
    BY <1>1, <2>1 DEF At, Message
<1>4. handler'.call = h /\ handler'.answer = {} /\ h # NoJob /\ h.id \in {0, new}
  BY <1>3 DEF NoJob, Message
<1>5. \A m, w : Faithful(m, NoJob, new, w) => Faithful(m, h, new + 1, w)
  BY <1>2, <1>4 DEF Faithful
<1>6. \A m : Genuine(m, new) => Genuine(m, new + 1) /\ Fits(m, h)
  BY <1>2, <1>4 DEF Genuine, Fits
<1>7. Genuine(c, new + 1) /\ Fits(c, h)
  <2>1. c.id \in 1 .. new + 1 - 1
    BY <1>1, <1>2
  <2>2. c.op \in Input => c.command = c.id /\ c.approved = At(c)
    BY <1>1 DEF HostInv, Approved
  <2>3. QED
    <3>1. Genuine(c, new + 1)
      BY <1>2, <2>1, <2>2 DEF Genuine, Input
    <3>2. Fits(c, h)
      BY <1>3 DEF Fits
    <3>3. QED
      BY <3>1, <3>2
<1>10. calls \in Seq(Message) /\ Len(calls) \in Nat
  BY DEF HostInv, Typed
<1>8. Typed'
  <2>1. calls' \in Seq(Message)
    BY <1>3, <1>10
  <2>2. handler' \in [call : Message \cup {NoJob}, answer : SUBSET Answer]
    BY <1>3
  <2>3. QED
    BY <1>2, <2>1, <2>2 DEF HostInv, Typed
<1>9. Approved'
  BY <1>1, <1>2, <1>3, <1>4 DEF HostInv, Approved, MayFollow
<1>11. \/ calls' = calls
       \/ /\ Len(calls') = Len(calls) + 1 /\ calls'[Len(calls) + 1] = c
          /\ \A i \in 1 .. Len(calls) : calls'[i] = calls[i]
  BY <1>3, <1>10
<1>12. Working'
  <2>1. UNCHANGED <<worker, tab, effects>>
    OBVIOUS
  <2>2. ASSUME worker.job # NoJob
        PROVE  \A i \in 1 .. Len(calls') : worker.job.id < calls'[i].id
    BY <1>1, <1>2, <1>10, <1>11, <2>2 DEF HostInv, Working, Genuine
  <2>3. worker.job # NoJob => Genuine(worker.job, new + 1) /\ Fits(worker.job, h)
    BY <1>6 DEF HostInv, Working
  <2>4. QED
    BY <1>2, <1>4, <2>1, <2>2, <2>3 DEF HostInv, Working, Revokes
<1>13. Queued'
  <2>1. \A i \in 1 .. Len(calls') :
          /\ Genuine(calls'[i], new + 1) /\ Fits(calls'[i], h)
          /\ \A k \in 1 .. Len(effects) : effects[k].command < calls'[i].id
    BY <1>1, <1>6, <1>7, <1>10, <1>11 DEF HostInv, Queued, Past
  <2>2. \A i, j \in 1 .. Len(calls') : i < j => calls'[i].id < calls'[j].id
    BY <1>1, <1>2, <1>10, <1>11 DEF HostInv, Queued, Genuine
  <2>3. QED
    BY <1>2, <1>4, <2>1, <2>2 DEF Queued
<1>14. Replied'
  BY <1>2, <1>4, <1>5 DEF HostInv, Replied, NoCommand
<1>15. Past'
  <2>1. \A k \in 1 .. Len(effects) : effects[k].command \in Nat
    <3>1. effects \in Seq(Effect)
      BY DEF HostInv, Typed
    <3>2. \A k \in 1 .. Len(effects) : effects[k] \in Effect
      BY <3>1, ElementOfSeq
    <3>3. QED
      BY <3>2 DEF Effect
  <2>2. QED
    BY <1>2, <2>1 DEF HostInv, Past, FramesAreApproved
<1>16. QED
  BY <1>8, <1>9, <1>12, <1>13, <1>14, <1>15 DEF HostInv

(* A step of the service that only looks at the session, ends it or steps  *)
(* back in it, and changes no more of the host than what is there.         *)
LEMMA LooksKeep ==
  ASSUME HostInv, MayFollow(policy, policy'), host' \in Host, host'.next = host.next,
         host'.snapshot = host.snapshot, host'.approved = host.approved,
         handler' = NoCommand \/ handler' = handler,
         replies' = replies \/ (replies # <<>> /\ replies' = Tail(replies)),
         UNCHANGED <<calls, worker, tab, effects>>, FramesAreApproved'
  PROVE  HostInv'
<1>1. policy' \in HostSession
  BY DEF MayFollow
<1>2. /\ policy'.phase = "Controlling" => host'.approved = host'.snapshot
      /\ policy'.phase = "Completed" => AtRest(worker)
  BY DEF MayFollow, HostInv, Approved
<1>3. QED
  BY <1>1, <1>2, ServiceKeeps

(* The service starts a call when the session allows it, or looks at it.   *)
LEMMA StartsKeep ==
  ASSUME HostInv, handler = NoCommand,
         NEW op \in Input \cup {"inspect", "capture", "hand_back", "cancel"},
         NEW r, NEW command \in Nat, Starts(op, r, command), MayFollow(policy, r.session),
         r.ok /\ op \in Input => command = host.next /\ policy.phase = "Controlling",
         UNCHANGED <<replies, worker, tab, effects, frames>>
  PROVE  HostInv'
<1>1. policy' = r.session /\ r.session \in HostSession
  BY DEF Starts, MayFollow
<1>2. CASE r.ok
  BY <1>1, <1>2, CallKeeps DEF Starts
<1>3. CASE ~r.ok
  <2>1. UNCHANGED <<host, calls, handler>>
    BY <1>3 DEF Starts
  <2>2. host \in Host /\ FramesAreApproved
    BY DEF HostInv, Typed, Past
  <2>3. FramesAreApproved'
    BY <2>2 DEF FramesAreApproved
  <2>4. QED
    BY <1>1, <2>1, <2>2, <2>3, LooksKeep
<1>4. QED
  BY <1>2, <1>3

(* What the host needs to know of its types for one of its steps.          *)
LEMMA HostTypes ==
  ASSUME HostInv
  PROVE  /\ policy \in HostSession /\ host \in Host /\ host.late \in BOOLEAN
         /\ host.snapshot \in Snapshot /\ host.snapshot.document \in Nat
         /\ host.next \in Nat /\ FramesAreApproved
         /\ MayFollow(policy, policy) /\ MayFollow(policy, Live(policy, host.late))
         /\ MayFollow(policy, Invalidate(policy)) /\ MayFollow(policy, Cancel(policy))
<1>1. /\ policy \in HostSession /\ host \in Host /\ host.late \in BOOLEAN
      /\ host.snapshot \in Snapshot /\ host.snapshot.document \in Nat
      /\ host.next \in Nat /\ FramesAreApproved
  BY DEF HostInv, Typed, Past, Host, Snapshot
<1>2. QED
  BY <1>1, EndsFollow DEF MayFollow

(* What may follow what may follow may follow.                             *)
LEMMA FollowsOn ==
  ASSUME NEW s, NEW t, NEW u, MayFollow(s, t), MayFollow(t, u)
  PROVE  MayFollow(s, u)
BY DEF MayFollow

(* Time, pairing and what ends a session keep the invariant.               *)
LEMMA TimeKeeps ==
  ASSUME HostInv, Passes \/ Watchdog \/ Pair \/ TurnedAway \/ Disconnect
  PROVE  HostInv'
<1>1. /\ policy \in HostSession /\ host \in Host /\ host.late \in BOOLEAN /\ FramesAreApproved
      /\ MayFollow(policy, policy) /\ MayFollow(policy, Invalidate(policy))
  BY HostTypes
<1>2. \A b, c, d \in BOOLEAN :
        LET t == [host EXCEPT !.pair = b, !.bearer = c, !.lost = d] IN
        /\ t \in Host /\ t.next = host.next /\ t.snapshot = host.snapshot
        /\ t.approved = host.approved
  BY <1>1 DEF Host
<1>3. CASE Passes
  <2>1. /\ host' \in Host /\ host'.next = host.next /\ host'.snapshot = host.snapshot
        /\ host'.approved = host.approved
    BY <1>1, <1>3 DEF Passes, Host
  <2>2. QED
    BY <1>1, <1>3, <2>1, LooksKeep DEF Passes, FramesAreApproved
<1>4. CASE Watchdog
  <2>1. PICK b \in BOOLEAN : b <=> (host.bearer /\ ~(host.lost /\ host.bearer))
    OBVIOUS
  <2>2. host' = [host EXCEPT !.bearer = b]
    BY <1>4, <2>1 DEF Watchdog
  <2>3. /\ host' \in Host /\ host'.next = host.next /\ host'.snapshot = host.snapshot
        /\ host'.approved = host.approved
    BY <1>1, <2>2 DEF Host
  <2>4. PICK s : s \in {policy, Invalidate(policy)} /\ policy' = Live(s, host.late)
    BY <1>4 DEF Watchdog
  <2>5. MayFollow(policy, s) /\ s \in HostSession
    BY <1>1, <2>4 DEF MayFollow
  <2>6. MayFollow(policy, policy')
    BY <1>1, <2>4, <2>5, EndsFollow, FollowsOn
  <2>7. QED
    BY <1>1, <1>4, <2>3, <2>6, LooksKeep DEF Watchdog, FramesAreApproved
<1>5. CASE Pair
  <2>1. PICK ok \in BOOLEAN : ok <=> (host.pair /\ ~host.pairLate)
    OBVIOUS
  <2>2. host' = [host EXCEPT !.pair = @ /\ ~ok, !.bearer = @ \/ ok, !.lost = @ /\ ~ok]
    BY <1>5, <2>1 DEF Pair
  <2>3. PICK b, c, d \in BOOLEAN : host' = [host EXCEPT !.pair = b, !.bearer = c, !.lost = d]
    BY <2>2
  <2>4. QED
    BY <1>1, <1>2, <1>5, <2>3, LooksKeep DEF Pair, FramesAreApproved
<1>6. CASE TurnedAway
  <2>1. /\ host' \in Host /\ host'.next = host.next /\ host'.snapshot = host.snapshot
        /\ host'.approved = host.approved
    BY <1>1, <1>6 DEF TurnedAway, Host
  <2>2. MayFollow(policy, policy')
    BY <1>1, <1>6 DEF TurnedAway
  <2>3. QED
    BY <1>1, <1>6, <2>1, <2>2, LooksKeep DEF TurnedAway, FramesAreApproved
<1>7. CASE Disconnect
  BY <1>1, <1>7, LooksKeep DEF Disconnect, FramesAreApproved
<1>8. QED
  BY <1>3, <1>4, <1>5, <1>6, <1>7

(* The commands keep the invariant, as far as they go before their call.   *)
LEMMA CommandsKeep ==
  ASSUME HostInv,
         \/ Look \/ Agree \/ Expand \/ Refresh \/ Frame \/ GiveBack \/ CancelSession
         \/ \E op \in Input : Operate(op)
  PROVE  HostInv'
<1> DEFINE now == Live(policy, host.late)
<1>1. /\ policy \in HostSession /\ host \in Host /\ host.late \in BOOLEAN
      /\ host.snapshot.document \in Nat /\ host.next \in Nat /\ FramesAreApproved
      /\ MayFollow(policy, policy) /\ MayFollow(policy, now) /\ now \in HostSession
  BY HostTypes DEF MayFollow
<1>2. CASE Look
  BY <1>1, <1>2, LooksKeep DEF Look, FramesAreApproved
<1>3. CASE Agree
  <2> DEFINE r == Approve(policy, host.late, host.snapshot.document)
  <2>1. /\ policy' = r.session
        /\ host' = IF r.ok THEN [host EXCEPT !.approved = host.snapshot] ELSE host
        /\ UNCHANGED <<handler, calls, replies, worker, tab, effects, frames>>
    BY <1>3 DEF Agree
  <2>2. /\ r.session \in HostSession
        /\ r.session.phase = "Completed" => policy.phase = "Completed"
        /\ ~r.ok => MayFollow(policy, r.session)
    BY <1>1, GrantsFollow
  <2>3. CASE r.ok
    <3>1. /\ host' \in Host /\ host'.next = host.next /\ host'.snapshot = host.snapshot
          /\ host'.approved = host'.snapshot
      BY <1>1, <2>1, <2>3 DEF Host
    <3>2. policy'.phase = "Completed" => AtRest(worker)
      BY <2>1, <2>2 DEF HostInv, Approved
    <3>3. QED
      BY <1>1, <2>1, <2>2, <3>1, <3>2, ServiceKeeps DEF FramesAreApproved
  <2>4. CASE ~r.ok
    BY <1>1, <2>1, <2>2, <2>4, LooksKeep DEF FramesAreApproved
  <2>5. QED
    BY <2>3, <2>4
<1>4. CASE Expand
  <2>1. MayFollow(policy, policy')
    BY <1>1, <1>4, UsesFollow DEF Expand
  <2>2. QED
    BY <1>1, <1>4, <2>1, LooksKeep DEF Expand, FramesAreApproved
<1>5. CASE Refresh
  <2>1. PICK r : Starts("inspect", r, 0) /\ r.session = now
    BY <1>5 DEF Refresh
  <2>2. QED
    BY <1>1, <1>5, <2>1, StartsKeep DEF Refresh, Admitted, Serving, Input
<1>6. CASE Frame
  <2>1. PICK r : Starts("capture", r, 0) /\ r.session = now
    BY <1>6 DEF Frame
  <2>2. QED
    BY <1>1, <1>6, <2>1, StartsKeep DEF Frame, Admitted, Serving, Input
<1>7. CASE GiveBack
  <2>1. PICK r : Starts("hand_back", r, 0) /\ r = HandBack(policy, host.late, phone.epoch)
    BY <1>7 DEF GiveBack
  <2>2. MayFollow(policy, r.session)
    BY <1>1, <2>1, UsesFollow
  <2>3. QED
    BY <1>7, <2>1, <2>2, StartsKeep DEF GiveBack, Admitted, Serving, Input
<1>8. CASE CancelSession
  <2>1. PICK r : Starts("cancel", r, 0) /\ r.session = Cancel(now)
    BY <1>8 DEF CancelSession
  <2>2. MayFollow(policy, r.session)
    BY <1>1, <2>1, EndsFollow, FollowsOn
  <2>3. QED
    BY <1>8, <2>1, <2>2, StartsKeep DEF CancelSession, Admitted, Serving, Input
<1>9. CASE \E op \in Input : Operate(op)
  <2>1. PICK op \in Input : Operate(op)
    BY <1>9
  <2>2. PICK r : /\ Starts(op, r, host.next)
                 /\ r = Authorize(policy, host.late, host.snapshot.document, phone.epoch,
                                  host.next)
    BY <2>1 DEF Operate
  <2>3. MayFollow(policy, r.session) /\ (r.ok => policy.phase = "Controlling")
    BY <1>1, <2>2, UsesFollow
  <2>4. QED
    BY <1>1, <2>1, <2>2, <2>3, StartsKeep DEF Operate, Admitted, Serving
<1>10. QED
  BY <1>2, <1>3, <1>4, <1>5, <1>6, <1>7, <1>8, <1>9

(* What the worker says keeps it when it reaches the host.                 *)
LEMMA ReceiveKeeps ==
  ASSUME HostInv, Receive
  PROVE  HostInv'
<1>1. /\ policy \in HostSession /\ host \in Host /\ FramesAreApproved
      /\ MayFollow(policy, policy) /\ MayFollow(policy, Invalidate(policy))
      /\ MayFollow(policy, Cancel(policy))
  BY HostTypes
<1>2. /\ replies # <<>> /\ replies' = Tail(replies) /\ FramesAreApproved'
      /\ UNCHANGED <<calls, worker, tab, effects, frames>>
  BY <1>1 DEF Receive, FramesAreApproved
<1>3. CASE handler' \in {handler, NoCommand}
  <2>1. MayFollow(policy, policy')
    BY <1>1 DEF Receive
  <2>2. /\ host' \in Host /\ host'.next = host.next /\ host'.snapshot = host.snapshot
        /\ host'.approved = host.approved
    BY <1>1 DEF Receive, Host
  <2>3. QED
    BY <1>2, <1>3, <2>1, <2>2, LooksKeep
<1>4. CASE handler' \notin {handler, NoCommand}
  <2> DEFINE m == Head(replies)
  <2>1. /\ m.kind = "reply" /\ handler.call # NoJob /\ handler.call.id = m.id
        /\ handler' = [handler EXCEPT !.answer = {m}] /\ UNCHANGED <<policy, host>>
    BY <1>4 DEF Receive
  <2>2. /\ replies \in Seq(Report) /\ m \in Report
        /\ Faithful(m, handler.call, host.next, worker)
    BY <1>2, <2>1 DEF HostInv, Typed, Replied
  <2>3. m \in Answer
    BY <2>1, <2>2 DEF Report, Answer
  <2>4. /\ handler' \in [call : Message \cup {NoJob}, answer : SUBSET Answer]
        /\ handler'.call = handler.call /\ handler'.answer = {m}
    BY <2>1, <2>3 DEF HostInv, Typed
  <2>5. /\ replies' \in Seq(Report) /\ Len(replies) \in Nat /\ Len(replies') = Len(replies) - 1
        /\ \A i \in 1 .. Len(replies') : replies'[i] = replies[i + 1]
    BY <1>2, <2>2, HeadTailProperties
  <2>6. \A i \in 1 .. Len(replies') : i + 1 \in 1 .. Len(replies)
    BY <2>5
  <2>7. Typed'
    BY <1>2, <2>1, <2>4, <2>5 DEF HostInv, Typed
  <2>8. Approved'
    BY <1>2, <2>1, <2>4 DEF HostInv, Approved
  <2>9. Working' /\ Queued'
    BY <1>2, <2>1, <2>4 DEF HostInv, Working, Queued, Revokes
  <2>10. Replied'
    BY <1>2, <2>1, <2>2, <2>4, <2>5, <2>6 DEF HostInv, Replied
  <2>11. Past'
    BY <1>2, <2>1 DEF HostInv, Past
  <2>12. QED
    BY <2>7, <2>8, <2>9, <2>10, <2>11 DEF HostInv
<1>5. QED
  BY <1>3, <1>4

(* The rest of a command keeps the invariant, whatever came of its call.   *)
LEMMA ContinueKeeps ==
  ASSUME HostInv, Continue
  PROVE  HostInv'
<1> DEFINE h == handler.call
<1>1. /\ policy \in HostSession /\ host \in Host /\ host.late \in BOOLEAN /\ FramesAreApproved
      /\ MayFollow(policy, policy) /\ MayFollow(policy, Invalidate(policy))
  BY HostTypes
<1>2. /\ h \in Message /\ At(h) = host.snapshot /\ handler' = NoCommand
      /\ UNCHANGED <<calls, replies, worker, tab, effects>>
  BY DEF Continue, HostInv, Typed, Approved
<1>3. PICK m \in Outcomes :
        \/ h.op = "inspect" /\ ContinueInspect(m) /\ UNCHANGED frames
        \/ h.op = "capture" /\ ContinueCapture(m)
        \/ h.op \notin {"inspect", "capture"} /\ ContinueOther(m.ok) /\ UNCHANGED frames
  BY DEF Continue
<1>4. m.ok => m \in Answer /\ m.snapshot \in Snapshot /\ m.snapshot.document \in Nat
                /\ Faithful(m, h, host.next, worker) /\ m.id = h.id
  BY <1>2 DEF Continue, Outcomes, HostInv, Typed, Replied, Answer, Snapshot
<1>5. \A s \in HostSession : MayFollow(s, Live(s, host.late))
  BY <1>1, EndsFollow
<1>6. CASE h.op = "inspect" /\ ContinueInspect(m) /\ UNCHANGED frames
  <2> DEFINE r == RebindManual(policy, host.late, m.snapshot.document)
  <2>1. CASE m.ok /\ r.ok
    <3>1. /\ host' = [host EXCEPT !.snapshot = m.snapshot]
          /\ policy' = Live(r.session, host.late) /\ UNCHANGED frames
      BY <1>6, <2>1 DEF ContinueInspect, Answers
    <3>2. MayFollow(policy, r.session) /\ r.session.phase = "AwaitingUser"
      BY <1>1, <1>4, <2>1, UsesFollow
    <3>3. MayFollow(r.session, policy') /\ MayFollow(policy, policy')
      BY <1>5, <3>1, <3>2, FollowsOn DEF MayFollow
    <3>4. /\ policy' \in HostSession /\ policy'.phase # "Controlling"
          /\ policy'.phase = "Completed" => AtRest(worker)
      BY <3>2, <3>3 DEF MayFollow, HostInv, Approved
    <3>5. host' \in Host /\ host'.next = host.next
      BY <1>1, <1>4, <2>1, <3>1 DEF Host
    <3>6. QED
      BY <1>1, <1>2, <3>1, <3>4, <3>5, ServiceKeeps DEF FramesAreApproved
  <2>2. CASE ~(m.ok /\ r.ok)
    <3>1. /\ policy' = IF m.ok THEN r.session ELSE policy
          /\ UNCHANGED <<host, frames>>
      BY <1>6, <2>2 DEF ContinueInspect, Refuses
    <3>2. MayFollow(policy, policy')
      BY <1>1, <1>4, <3>1, UsesFollow
    <3>3. QED
      BY <1>1, <1>2, <3>1, <3>2, LooksKeep DEF FramesAreApproved
  <2>3. QED
    BY <2>1, <2>2
<1>7. CASE h.op = "capture" /\ ContinueCapture(m)
  <2> DEFINE r == Crop(policy, host.late, h.document, h.epoch)
  <2>1. MayFollow(policy, r.session) /\ (r.ok => policy.phase = "Controlling")
    BY <1>1, <1>2, UsesFollow DEF Message
  <2>2. CASE m.ok /\ r.ok
    <3>1. /\ policy' = Live(r.session, host.late) /\ UNCHANGED host
          /\ frames' = frames \cup {[page |-> m.snapshot, approved |-> host.approved]}
      BY <1>7, <2>2 DEF ContinueCapture, Answers
    <3>2. m.snapshot = host.approved
      BY <1>2, <1>4, <1>7, <2>1, <2>2 DEF Faithful, HostInv, Approved, NoJob, Message
    <3>3. FramesAreApproved'
      BY <1>1, <3>1, <3>2 DEF FramesAreApproved
    <3>4. MayFollow(policy, policy')
      BY <1>5, <2>1, <3>1, FollowsOn DEF MayFollow
    <3>5. QED
      BY <1>1, <1>2, <3>1, <3>3, <3>4, LooksKeep
  <2>3. CASE ~(m.ok /\ r.ok)
    <3>1. /\ policy' = IF m.ok THEN r.session ELSE Invalidate(policy)
          /\ UNCHANGED <<host, frames>>
      BY <1>7, <2>3 DEF ContinueCapture, Refuses
    <3>2. MayFollow(policy, policy')
      BY <1>1, <2>1, <3>1
    <3>3. QED
      BY <1>1, <1>2, <3>1, <3>2, LooksKeep DEF FramesAreApproved
  <2>4. QED
    BY <2>2, <2>3
<1>8. CASE h.op \notin {"inspect", "capture"} /\ ContinueOther(m.ok) /\ UNCHANGED frames
  <2> DEFINE x == RevokedAck(policy, host.late, h.epoch).session
             r == ManualComplete(x, host.late, h.epoch)
  <2>1. PICK s : /\ \/ s \in {policy, Invalidate(policy)}
                    \/ h.op = "hand_back" /\ m.ok /\ s = r.session
                 /\ policy' \in {s, Live(s, host.late)} /\ UNCHANGED <<host, frames>>
    BY <1>2, <1>8 DEF ContinueOther, HandedBack, Answers, Refuses, Message, Input
  <2>2. CASE s \in {policy, Invalidate(policy)}
    <3>1. MayFollow(policy, s) /\ s \in HostSession
      BY <1>1, <2>2 DEF MayFollow
    <3>2. MayFollow(policy, policy')
      BY <1>5, <2>1, <3>1, FollowsOn
    <3>3. QED
      BY <1>1, <1>2, <2>1, <3>2, LooksKeep DEF FramesAreApproved
  <2>3. CASE h.op = "hand_back" /\ m.ok /\ s = r.session
    <3>1. AtRest(worker)
      BY <1>2, <1>4, <2>3 DEF Faithful, NoJob, Message
    <3>2. MayFollow(policy, x) /\ x \in HostSession
      BY <1>1, UsesFollow DEF MayFollow
    <3>3. s \in HostSession /\ (s.phase = "Controlling" => policy.phase = "Controlling")
      BY <1>1, <2>3, <3>2, GrantsFollow DEF MayFollow
    <3>4. policy' \in HostSession /\ (policy'.phase = "Controlling" => policy.phase = "Controlling")
      BY <1>5, <2>1, <3>3 DEF MayFollow
    <3>5. policy'.phase = "Controlling" => host'.approved = host'.snapshot
      BY <2>1, <3>4 DEF HostInv, Approved
    <3>6. QED
      BY <1>1, <1>2, <2>1, <3>1, <3>4, <3>5, ServiceKeeps DEF FramesAreApproved
  <2>4. QED
    BY <2>1, <2>2, <2>3
<1>9. QED
  BY <1>3, <1>6, <1>7, <1>8

-----------------------------------------------------------------------------
(* The side of the browser *)

(* A faithful message may be sent by a worker that stays at its end.       *)
LEMMA SendingKeeps ==
  ASSUME HostInv, NEW m \in Report, replies' = replies \/ Sends(m), UNCHANGED <<handler, host>>,
         m.kind = "reply" => Faithful(m, handler.call, host.next, worker'),
         AtRest(worker) => AtRest(worker')
  PROVE  replies' \in Seq(Report) /\ Replied'
<1>1. replies \in Seq(Report) /\ Len(replies) \in Nat
  BY DEF HostInv, Typed
<1>2. \A a : Faithful(a, handler.call, host.next, worker)
              => Faithful(a, handler.call, host.next, worker')
  BY DEF Faithful
<1>3. CASE replies' = replies
  BY <1>1, <1>2, <1>3 DEF HostInv, Replied
<1>4. CASE Sends(m)
  <2>1. /\ replies' \in Seq(Report) /\ Len(replies') = Len(replies) + 1
        /\ replies'[Len(replies) + 1] = m
        /\ \A i \in 1 .. Len(replies) : replies'[i] = replies[i]
    BY <1>1, <1>4 DEF Sends
  <2>2. \A i \in 1 .. Len(replies') :
          replies'[i].kind = "reply" => Faithful(replies'[i], handler.call, host.next, worker')
    BY <1>1, <1>2, <2>1 DEF HostInv, Replied
  <2>3. QED
    BY <1>2, <2>1, <2>2 DEF HostInv, Replied
<1>5. QED
  BY <1>3, <1>4

(* The answers of the worker have their type, and a refusal is faithful.   *)
LEMMA RepliesAreTyped ==
  ASSUME HostInv, NEW c \in Message, NEW ok \in BOOLEAN, Genuine(c, host.next)
  PROVE  /\ Shown \in Snapshot /\ Reply(c, ok) \in Answer /\ Reply(c, ok).id = c.id
         /\ Reply(c, ok).ok = ok
         /\ \A w : Faithful(Reply(c, FALSE), handler.call, host.next, w)
<1>1. Shown \in Snapshot
  BY DEF HostInv, Typed, Shown, Snapshot
<1>2. QED
  BY <1>1 DEF Reply, Answer, Message, Faithful, Genuine

(* The worker takes a call, or refuses it.                                 *)
LEMMA AcceptKeeps ==
  ASSUME HostInv, Accept
  PROVE  HostInv'
<1> DEFINE c == Head(calls)
           n == host.next
<1>1. /\ calls # <<>> /\ calls' = Tail(calls)
      /\ UNCHANGED <<policy, host, handler, tab, phone, effects, frames>>
  BY DEF Accept
<1>2. calls \in Seq(Message) /\ Len(calls) \in Nat /\ 1 \in 1 .. Len(calls) /\ c = calls[1]
  BY <1>1 DEF HostInv, Typed
<1>3. /\ c \in Message /\ calls' \in Seq(Message) /\ Len(calls') = Len(calls) - 1
      /\ \A i \in 1 .. Len(calls') : calls'[i] = calls[i + 1]
  BY <1>1, <1>2, HeadTailProperties
<1>4. \A i \in 1 .. Len(calls') : i + 1 \in 1 .. Len(calls) /\ 1 < i + 1
  BY <1>2, <1>3
<1>5. /\ Genuine(c, n) /\ Fits(c, handler.call)
      /\ \A k \in 1 .. Len(effects) : effects[k].command < c.id
      /\ \A i \in 1 .. Len(calls') : c.id < calls'[i].id
  BY <1>2, <1>3, <1>4 DEF HostInv, Queued
<1>6. Queued'
  <2>1. \A i, j \in 1 .. Len(calls') : i < j => i + 1 < j + 1
    BY <1>2, <1>3
  <2>2. QED
    BY <1>1, <1>3, <1>4, <2>1 DEF HostInv, Queued
<1>7. Past'
  BY <1>1 DEF HostInv, Past, FramesAreApproved
<1>8. CASE Takes(c)
  <2>1. /\ worker' = [target |-> IF Revokes(c) THEN 0 ELSE worker.target,
                       job |-> c, on |-> worker.target, checked |-> FALSE, png |-> {}]
        /\ UNCHANGED replies /\ worker.target # 0
    BY <1>8 DEF Accept, Takes
  <2>2. Typed'
    BY <1>1, <1>3, <2>1 DEF HostInv, Typed
  <2>3. Approved'
    BY <1>1, <2>1 DEF HostInv, Approved, AtRest
  <2>4. Working'
    <3>1. c.op \in Input \cup {"capture"} => c.document = worker.target
      BY <1>8 DEF Takes, Revokes, Input
    <3>2. QED
      BY <1>1, <1>5, <2>1, <3>1 DEF Working, Revokes
  <2>5. Replied'
    BY <1>1, <2>1 DEF HostInv, Replied, Faithful, AtRest
  <2>6. QED
    BY <1>6, <1>7, <2>2, <2>3, <2>4, <2>5 DEF HostInv
<1>9. CASE ~Takes(c)
  <2>1. Sends(Reply(c, FALSE)) /\ UNCHANGED worker
    BY <1>9 DEF Accept
  <2>2. /\ Reply(c, FALSE) \in Report
        /\ \A w : Faithful(Reply(c, FALSE), handler.call, n, w)
    BY <1>3, <1>5, RepliesAreTyped DEF Report
  <2>3. replies' \in Seq(Report) /\ Replied'
    BY <1>1, <2>1, <2>2, SendingKeeps
  <2>4. Typed'
    BY <1>1, <1>3, <2>1, <2>3 DEF HostInv, Typed
  <2>5. Approved'
    BY <1>1, <2>1 DEF HostInv, Approved
  <2>6. Working'
    BY <1>1, <1>3, <1>4, <2>1 DEF HostInv, Working, Revokes
  <2>7. QED
    BY <1>6, <1>7, <2>3, <2>4, <2>5, <2>6 DEF HostInv
<1>10. QED
  BY <1>8, <1>9

(* What the worker has in hand stays in order when the page goes on to     *)
(* another revision or document, and when the worker is stopped.           *)
LEMMA LookingGoesOn ==
  ASSUME HostInv, tab'.document \in Nat, tab'.revision \in Nat,
         \/ tab'.document = tab.document /\ tab'.revision \in {tab.revision, tab.revision + 1}
         \/ tab'.document = tab.document + 1,
         worker'.job = worker.job, worker'.on = worker.on, worker'.png = worker.png,
         worker'.checked = worker.checked, worker'.target \in {0, worker.target},
         UNCHANGED <<host, handler, calls, effects>>
  PROVE  Working'
<1>1. tab.document \in Nat /\ tab.revision \in Nat /\ worker.png \subseteq Snapshot
  BY DEF HostInv, Typed
<1>2. ASSUME worker.job # NoJob
      PROVE  /\ worker.job.document \in Nat /\ worker.job.revision \in Nat
             /\ Genuine(worker.job, host.next) /\ Fits(worker.job, handler.call)
             /\ worker.job.op \in Input \cup {"capture"} => worker.job.document = worker.on
             /\ Revokes(worker.job) => worker.target = 0
             /\ \A i \in 1 .. Len(calls) : worker.job.id < calls[i].id
             /\ \A k \in 1 .. Len(effects) : effects[k].command < worker.job.id
  BY <1>2 DEF HostInv, Typed, Working, Message
<1>3. ASSUME worker.job # NoJob, worker.checked
      PROVE  \/ worker.job.document < tab'.document
             \/ /\ worker.job.document = tab'.document
                /\ worker.job.revision <= tab'.revision
  BY <1>1, <1>2, <1>3 DEF HostInv, Working
<1>4. ASSUME worker.job # NoJob, NEW png \in worker.png
      PROVE  \/ worker.job.document < tab'.document
             \/ /\ worker.job.document = tab'.document
                /\ png.document = worker.job.document
                /\ worker.job.revision <= png.revision /\ png.revision <= tab'.revision
  BY <1>1, <1>2, <1>4 DEF HostInv, Working, Snapshot
<1>5. QED
  BY <1>2, <1>3, <1>4 DEF Working, Revokes

(* The page and its user keep the invariant.                               *)
LEMMA PageKeeps ==
  ASSUME HostInv, PageChanges \/ Notice \/ StopSession
  PROVE  HostInv'
<1>1. CASE PageChanges
  <2>1. tab' \in [document : Nat, revision : Nat, revoked : BOOLEAN, changes : Nat]
    <3>1. /\ tab \in [document : Nat, revision : Nat, revoked : BOOLEAN, changes : Nat]
          /\ tab.document + 1 \in Nat /\ tab.revision + 1 \in Nat /\ tab.changes + 1 \in Nat
      BY DEF HostInv, Typed
    <3>2. \/ tab' = [tab EXCEPT !.revision = tab.revision + 1, !.changes = tab.changes + 1]
          \/ tab' = [document |-> tab.document + 1, revision |-> 1, revoked |-> FALSE,
                     changes |-> tab.changes + 1]
      BY <1>1 DEF PageChanges
    <3>3. CASE tab' = [tab EXCEPT !.revision = tab.revision + 1, !.changes = tab.changes + 1]
      BY <3>1, <3>3
    <3>4. CASE tab' = [document |-> tab.document + 1, revision |-> 1, revoked |-> FALSE,
                       changes |-> tab.changes + 1]
      BY <3>1, <3>4
    <3>5. QED
      BY <3>2, <3>3, <3>4
  <2>2. \/ tab'.document = tab.document /\ tab'.revision = tab.revision + 1
        \/ tab'.document = tab.document + 1
    <3>1. tab \in [document : Nat, revision : Nat, revoked : BOOLEAN, changes : Nat]
      BY DEF HostInv, Typed
    <3>2. \/ tab' = [tab EXCEPT !.revision = tab.revision + 1, !.changes = tab.changes + 1]
          \/ tab'.document = tab.document + 1
      BY <1>1 DEF PageChanges
    <3>3. QED
      BY <3>1, <3>2
  <2>3. UNCHANGED <<policy, host, handler, calls, replies, worker, phone, effects, frames>>
    BY <1>1 DEF PageChanges
  <2>4. Working'
    BY <2>1, <2>2, <2>3, LookingGoesOn DEF HostInv, Typed
  <2>5. QED
    BY <2>1, <2>3, <2>4 DEF HostInv, Typed, Approved, Queued, Replied, Past, FramesAreApproved
<1>2. CASE Notice
  <2>1. [kind |-> "invalidate"] \in Report /\ [kind |-> "invalidate"].kind # "reply"
    BY DEF Report
  <2>2. replies' \in Seq(Report) /\ Replied'
    BY <1>2, <2>1, SendingKeeps DEF Notice
  <2>3. QED
    BY <1>2, <2>2 DEF Notice, HostInv, Typed, Approved, Working, Queued, Past,
                      FramesAreApproved, Revokes
<1>3. CASE StopSession
  <2>1. [kind |-> "stop"] \in Report /\ [kind |-> "stop"].kind # "reply"
    BY DEF Report
  <2>2. /\ worker.target # 0 /\ worker' = [worker EXCEPT !.target = 0]
        /\ Sends([kind |-> "stop"])
        /\ UNCHANGED <<policy, host, handler, calls, phone, effects, frames>>
    BY <1>3 DEF StopSession
  <2>3. /\ worker' \in [target : Nat, job : Message \cup {NoJob}, on : Nat, checked : BOOLEAN,
                        png : SUBSET Snapshot]
        /\ worker'.target = 0 /\ worker'.job = worker.job /\ worker'.on = worker.on
        /\ worker'.png = worker.png /\ ~AtRest(worker)
    BY <2>2 DEF HostInv, Typed, AtRest
  <2>4. replies' \in Seq(Report) /\ Replied'
    BY <2>1, <2>2, <2>3, SendingKeeps
  <2>5. Typed'
    <3>1. PICK b \in BOOLEAN : b <=> (tab.revoked \/ worker.target = tab.document)
      OBVIOUS
    <3>2. tab' = [tab EXCEPT !.revoked = b]
      BY <1>3, <3>1 DEF StopSession
    <3>3. QED
      BY <2>2, <2>3, <2>4, <3>2 DEF HostInv, Typed
  <2>6. worker'.checked = worker.checked /\ tab'.document = tab.document
        /\ tab'.revision = tab.revision
    BY <1>3, <2>2 DEF StopSession, HostInv, Typed
  <2>7. Working'
    BY <2>2, <2>3, <2>5, <2>6, LookingGoesOn DEF HostInv, Typed
  <2>8. QED
    BY <2>2, <2>3, <2>4, <2>5, <2>7 DEF HostInv, Approved, Queued, Past, FramesAreApproved
<1>4. QED
  BY <1>1, <1>2, <1>3

(* Who has finished a call that did not reach the page keeps the invariant.*)
LEMMA DoneKeeps ==
  ASSUME HostInv, worker.job # NoJob, NEW m \in Answer, Sends(m),
         worker'.job = NoJob, worker'.target \in Nat, worker'.on \in Nat,
         worker' \in [target : Nat, job : {NoJob}, on : Nat, checked : BOOLEAN,
                      png : SUBSET Snapshot],
         tab' \in [document : Nat, revision : Nat, revoked : BOOLEAN, changes : Nat],
         Faithful(m, handler.call, host.next, worker'),
         UNCHANGED <<policy, host, handler, calls, phone, effects, frames>>
  PROVE  HostInv'
<1>1. m \in Report /\ ~AtRest(worker)
  BY DEF Report, AtRest
<1>2. replies' \in Seq(Report) /\ Replied'
  BY <1>1, SendingKeeps
<1>3. Typed'
  BY <1>2 DEF HostInv, Typed
<1>4. QED
  BY <1>1, <1>2, <1>3 DEF HostInv, Approved, Working, Queued, Past, FramesAreApproved

(* Who looks at the page for a call keeps it.                              *)
LEMMA LookingKeeps ==
  ASSUME HostInv, Working', ~AtRest(worker), worker'.target = worker.target,
         worker'.job = worker.job, worker.job # NoJob,
         worker' \in [target : Nat, job : Message \cup {NoJob}, on : Nat, checked : BOOLEAN,
                      png : SUBSET Snapshot],
         UNCHANGED <<policy, host, handler, calls, replies, tab, phone, effects, frames>>
  PROVE  HostInv'
<1>1. Typed' /\ Approved' /\ Queued'
  BY DEF HostInv, Typed, Approved, Queued, AtRest
<1>2. Replied'
  BY DEF HostInv, Replied, Faithful, AtRest
<1>3. Past'
  BY DEF HostInv, Past, FramesAreApproved
<1>4. QED
  BY <1>1, <1>2, <1>3 DEF HostInv

(* What the worker does for a call keeps it.                               *)
LEMMA ExecuteKeeps ==
  ASSUME HostInv, Execute
  PROVE  HostInv'
<1> DEFINE j == worker.job
           n == host.next
           h == handler.call
<1>1. /\ j \in Message /\ j # NoJob /\ Genuine(j, n) /\ Fits(j, h)
      /\ UNCHANGED <<policy, host, handler, calls, phone, frames>>
  BY DEF Execute, HostInv, Typed, Working
<1>2. /\ worker \in [target : Nat, job : Message \cup {NoJob}, on : Nat, checked : BOOLEAN,
                     png : SUBSET Snapshot]
      /\ tab \in [document : Nat, revision : Nat, revoked : BOOLEAN, changes : Nat]
      /\ Shown \in Snapshot
  BY DEF HostInv, Typed, Shown, Snapshot
<1>3. /\ Released \in [target : Nat, job : {NoJob}, on : Nat, checked : BOOLEAN,
                       png : SUBSET Snapshot]
      /\ Released.target = worker.target /\ Released.job = NoJob /\ Released.on = 0
  BY <1>2 DEF Released
<1>4. \A ok \in BOOLEAN : /\ Reply(j, ok) \in Answer /\ Reply(j, ok).id = j.id
                          /\ Reply(j, ok).ok = ok
  BY <1>1, RepliesAreTyped
<1>5. \A w : Faithful(Reply(j, FALSE), h, n, w)
  BY <1>1, RepliesAreTyped
<1>6. j.id \in 1 .. n - 1 /\ (h # NoJob /\ j.id = h.id => h.op = j.op /\ At(h) = At(j))
  BY <1>1 DEF Genuine, Fits
<1>7. ASSUME ExecuteRevoke PROVE HostInv'
  <2>1. /\ Revokes(j) /\ worker' = Released /\ Sends(Reply(j, TRUE)) /\ UNCHANGED effects
        /\ tab' = [tab EXCEPT !.revoked = @ \/ worker.on = tab.document]
    BY <1>7 DEF ExecuteRevoke, Done
  <2>2. AtRest(worker') /\ (h # NoJob /\ j.id = h.id => h.op # "capture")
    BY <1>1, <1>3, <1>6, <2>1 DEF HostInv, Working, AtRest, Revokes
  <2>3. PICK b \in BOOLEAN : b <=> (tab.revoked \/ worker.on = tab.document)
    OBVIOUS
  <2>4. tab' = [tab EXCEPT !.revoked = b]
    BY <2>1, <2>3
  <2>5. tab' \in [document : Nat, revision : Nat, revoked : BOOLEAN, changes : Nat]
    BY <1>2, <2>4
  <2>6. Faithful(Reply(j, TRUE), h, n, worker')
    BY <1>4, <1>6, <2>2 DEF Faithful
  <2>7. QED
    BY <1>1, <1>3, <1>4, <2>1, <2>5, <2>6, DoneKeeps
<1>8. ASSUME ExecuteInspect PROVE HostInv'
  <2>1. /\ j.op = "inspect" /\ tab' = [tab EXCEPT !.revoked = FALSE]
        /\ worker' = [Released EXCEPT !.target = IF @ = 0 THEN 0 ELSE tab.document]
        /\ Sends(Reply(j, TRUE)) /\ UNCHANGED effects
    BY <1>8 DEF ExecuteInspect
  <2>2. worker' \in [target : Nat, job : {NoJob}, on : Nat, checked : BOOLEAN,
                     png : SUBSET Snapshot]
    BY <1>2, <1>3, <2>1
  <2>3. tab' \in [document : Nat, revision : Nat, revoked : BOOLEAN, changes : Nat]
    BY <1>2, <2>1
  <2>4. Faithful(Reply(j, TRUE), h, n, worker')
    BY <1>4, <1>6, <2>1 DEF Faithful
  <2>5. QED
    BY <1>1, <1>4, <2>1, <2>2, <2>3, <2>4, DoneKeeps
<1>9. ASSUME ExecuteInput PROVE HostInv'
  <2> DEFINE e == [page |-> Shown, approved |-> j.approved, command |-> j.command]
  <2>1. PICK ok \in BOOLEAN : ok <=> Valid(j)
    OBVIOUS
  <2>2. /\ j.op \in Input /\ worker' = Released /\ Sends(Reply(j, ok)) /\ UNCHANGED tab
        /\ effects' = IF ok THEN Append(effects, e) ELSE effects
    <3>1. /\ j.op \in Input /\ worker' = Released /\ UNCHANGED tab
          /\ effects' = IF Valid(j) THEN Append(effects, e) ELSE effects
          /\ Sends(Reply(j, Valid(j)))
      BY <1>9 DEF ExecuteInput, Done, Input
    <3>2. CASE Valid(j)
      BY <2>1, <3>1, <3>2
    <3>3. CASE ~Valid(j)
      <4>1. Valid(j) = FALSE
        BY <3>3, Zenon DEF Valid
      <4>2. ok = FALSE
        BY <2>1, <3>3
      <4>3. QED
        BY <3>1, <4>1, <4>2
    <3>4. QED
      BY <3>2, <3>3
  <2>3. Faithful(Reply(j, ok), h, n, worker')
    BY <1>4, <1>6, <2>2 DEF Faithful, Input
  <2>4. CASE ~ok
    BY <1>1, <1>2, <1>3, <1>4, <2>2, <2>3, <2>4, DoneKeeps
  <2>5. CASE ok
    <3>1. Reply(j, ok) \in Report /\ ~AtRest(worker)
      BY <1>1, <1>4 DEF Report, AtRest
    <3>2. replies' \in Seq(Report) /\ Replied'
      BY <1>1, <2>2, <2>3, <3>1, SendingKeeps
    <3>3. e \in Effect /\ e.page = e.approved /\ e.command = j.id /\ j.id \in Nat
      <4>1. /\ j.revision = tab.revision /\ worker.on = tab.document /\ j.document = worker.on
            /\ j.command = j.id /\ j.approved = At(j) /\ j.id \in Nat
        BY <1>1, <2>1, <2>2, <2>5 DEF Valid, Genuine, HostInv, Working, Message
      <4>2. Shown = At(j)
        BY <4>1 DEF Shown, At
      <4>3. QED
        BY <1>1, <1>2, <4>1, <4>2 DEF Effect, Message
    <3>4. /\ effects \in Seq(Effect) /\ Len(effects) \in Nat /\ effects' \in Seq(Effect)
          /\ Len(effects') = Len(effects) + 1 /\ effects'[Len(effects) + 1] = e
          /\ \A k \in 1 .. Len(effects) : effects'[k] = effects[k]
      BY <2>2, <2>5, <3>3 DEF HostInv, Typed
    <3>5. /\ \A k \in 1 .. Len(effects) : effects[k].command < j.id
          /\ \A i \in 1 .. Len(calls) : j.id < calls[i].id
      BY <1>1 DEF HostInv, Working
    <3>6. Typed'
      BY <1>1, <1>2, <1>3, <2>2, <3>2, <3>4 DEF HostInv, Typed
    <3>7. Approved' /\ Working'
      BY <1>1, <1>3, <2>2, <3>1 DEF HostInv, Approved, Working
    <3>8. Queued'
      BY <1>1, <3>3, <3>4, <3>5 DEF HostInv, Queued
    <3>9. Past'
      <4>1. \A k \in 1 .. Len(effects') :
              effects'[k].page = effects'[k].approved /\ effects'[k].command < n
        <5> TAKE k \in 1 .. Len(effects')
        <5>1. n \in Nat
          BY HostTypes
        <5>2. k \in 1 .. Len(effects) \/ k = Len(effects) + 1
          BY <3>4
        <5>3. QED
          BY <1>6, <3>3, <3>4, <5>1, <5>2 DEF HostInv, Past
      <4>2. \A k, l \in 1 .. Len(effects') : k < l => effects'[k].command < effects'[l].command
        <5> TAKE k, l \in 1 .. Len(effects')
        <5>1. HAVE k < l
        <5>2. k \in 1 .. Len(effects) /\ (l \in 1 .. Len(effects) \/ l = Len(effects) + 1)
          BY <3>4, <5>1
        <5>3. QED
          BY <3>3, <3>4, <3>5, <5>1, <5>2 DEF HostInv, Past
      <4>3. QED
        BY <1>1, <4>1, <4>2 DEF HostInv, Past, FramesAreApproved
    <3>10. QED
      BY <3>2, <3>6, <3>7, <3>8, <3>9 DEF HostInv
  <2>6. QED
    BY <2>4, <2>5
<1>10. ASSUME ExecuteCapture PROVE HostInv'
  <2>1. j.op = "capture" /\ UNCHANGED <<tab, effects>> /\ j.document = worker.on
    BY <1>1, <1>10 DEF ExecuteCapture, HostInv, Working
  <2>2. ASSUME worker' = [worker EXCEPT !.checked = TRUE], Valid(j), UNCHANGED replies
        PROVE  HostInv'
    <3>1. /\ worker' \in [target : Nat, job : Message \cup {NoJob}, on : Nat, checked : BOOLEAN,
                          png : SUBSET Snapshot]
          /\ worker'.target = worker.target /\ worker'.job = j /\ worker'.on = worker.on
          /\ worker'.png = worker.png /\ ~AtRest(worker)
      BY <1>1, <1>2, <2>2 DEF AtRest
    <3>2. j.document = tab.document /\ j.revision = tab.revision /\ tab.revision \in Nat
      BY <1>2, <2>1, <2>2 DEF Valid
    <3>3. Working'
      BY <1>1, <2>1, <2>2, <3>1, <3>2 DEF HostInv, Working, Revokes
    <3>4. QED
      BY <1>1, <2>1, <2>2, <3>1, <3>3, LookingKeeps
  <2>3. ASSUME worker' = [worker EXCEPT !.png = {Shown}], worker.checked, UNCHANGED replies
        PROVE  HostInv'
    <3>1. /\ worker' \in [target : Nat, job : Message \cup {NoJob}, on : Nat, checked : BOOLEAN,
                          png : SUBSET Snapshot]
          /\ worker'.target = worker.target /\ worker'.job = j /\ worker'.on = worker.on
          /\ worker'.png = {Shown} /\ worker'.checked = worker.checked /\ ~AtRest(worker)
      BY <1>1, <1>2, <2>3 DEF AtRest
    <3>2. j.document < tab.document \/ (j.document = tab.document /\ j.revision <= tab.revision)
      BY <1>1, <2>3 DEF HostInv, Working
    <3>3. Shown.document = tab.document /\ Shown.revision = tab.revision /\ tab.revision \in Nat
      BY <1>2 DEF Shown
    <3>4. Working'
      BY <1>1, <2>1, <2>3, <3>1, <3>2, <3>3 DEF HostInv, Working, Revokes
    <3>5. QED
      BY <1>1, <2>1, <2>3, <3>1, <3>4, LookingKeeps
  <2>4. ASSUME worker' = Released, Sends(Reply(j, FALSE)) PROVE HostInv'
    BY <1>1, <1>2, <1>3, <1>4, <1>5, <2>1, <2>4, DoneKeeps
  <2>5. ASSUME NEW png \in worker.png, Valid(j), worker' = Released,
               Sends([Reply(j, TRUE) EXCEPT !.snapshot = png])
        PROVE  HostInv'
    <3> DEFINE m == [Reply(j, TRUE) EXCEPT !.snapshot = png]
    <3>1. /\ png \in Snapshot /\ j.document = tab.document /\ j.revision = tab.revision
          /\ tab.document \in Nat /\ tab.revision \in Nat
      BY <1>2, <2>1, <2>5 DEF Valid
    <3>2. png.document = j.document /\ j.revision <= png.revision /\ png.revision <= tab.revision
      BY <1>1, <3>1 DEF HostInv, Working
    <3>3. png = At(j)
      BY <3>1, <3>2 DEF At, Snapshot
    <3>4. m \in Answer /\ m.id = j.id /\ m.ok = TRUE /\ m.snapshot = At(j)
      BY <1>4, <3>1, <3>3 DEF Answer
    <3>5. Faithful(m, h, n, worker')
      BY <1>6, <2>1, <3>4 DEF Faithful
    <3>6. QED
      BY <1>1, <1>2, <1>3, <2>1, <2>5, <3>4, <3>5, DoneKeeps
  <2>6. QED
    BY <1>10, <2>2, <2>3, <2>4, <2>5 DEF ExecuteCapture, Done
<1>11. QED
  BY <1>7, <1>8, <1>9, <1>10 DEF Execute

-----------------------------------------------------------------------------
(* The theorems *)

(* A new session, started with what the worker sent, is as it should be.   *)
LEMMA InitIsSafe ==
  ASSUME LoginInit
  PROVE  HostInv
<1>1. /\ policy.phase = "AwaitingUser" /\ worker.job = NoJob /\ handler.call = NoJob
      /\ handler.answer = {} /\ calls = <<>> /\ replies = <<>> /\ effects = <<>> /\ frames = {}
  BY DEF LoginInit, NewSession, NoCommand
<1>2. Shown \in Snapshot
  BY DEF LoginInit, Shown, Snapshot
<1>3. policy \in HostSession
  BY DEF LoginInit, NewSession, HostSession, Phase, Over
<1>4. Typed
  <2>1. host \in Host /\ handler \in [call : Message \cup {NoJob}, answer : SUBSET Answer]
    BY <1>2 DEF LoginInit, Host, NoCommand
  <2>2. calls \in Seq(Message) /\ replies \in Seq(Report) /\ effects \in Seq(Effect)
    BY <1>1
  <2>3. /\ worker \in [target : Nat, job : Message \cup {NoJob}, on : Nat, checked : BOOLEAN,
                       png : SUBSET Snapshot]
        /\ tab \in [document : Nat, revision : Nat, revoked : BOOLEAN, changes : Nat]
    BY DEF LoginInit
  <2>4. QED
    BY <1>3, <2>1, <2>2, <2>3 DEF Typed
<1>5. QED
  BY <1>1, <1>4 DEF HostInv, Approved, Working, Queued, Replied, Past, FramesAreApproved

(* Every step keeps the invariant.                                         *)
LEMMA NextKeeps ==
  ASSUME HostInv, [LoginNext]_loginVars
  PROVE  HostInv'
<1>1. CASE UNCHANGED loginVars
  BY <1>1 DEF loginVars, sides, HostInv, Typed, Approved, Working, Queued, Replied, Past,
              FramesAreApproved, Revokes
<1>2. CASE LoginNext
  BY <1>2, TimeKeeps, CommandsKeep, ReceiveKeeps, ContinueKeeps, AcceptKeeps, ExecuteKeeps,
     PageKeeps DEF LoginNext, Input
<1>3. QED
  BY <1>1, <1>2

(* The invariant in one theorem: what is queued, carried out and answered  *)
(* between phone, host and browser belongs to the approval it came from.   *)
THEOREM InvariantHolds == LoginSpec => []HostInv
BY InitIsSafe, NextKeeps, PTL DEF LoginSpec

(* The page is filled, clicked and shown only as its user approved it, and *)
(* a command acts once, whatever navigates, times out, is answered late or *)
(* is bound anew in between: Click, Fill and Frame of host.rs with the     *)
(* checks of worker.js and target.js.                                      *)
THEOREM UseIsAlwaysApproved == LoginSpec => []UseIsApproved
<1>1. HostInv => UseIsApproved
  <2> SUFFICES ASSUME HostInv PROVE UseIsApproved
    OBVIOUS
  <2>1. effects \in Seq(Effect) /\ Len(effects) \in Nat
    BY DEF HostInv, Typed
  <2>2. \A k \in 1 .. Len(effects) : effects[k] \in Effect /\ effects[k].command \in Nat
    <3>1. \A k \in 1 .. Len(effects) : effects[k] \in Effect
      BY <2>1, ElementOfSeq
    <3>2. QED
      BY <3>1 DEF Effect
  <2>3. \A k, l \in 1 .. Len(effects) : effects[k].command = effects[l].command => k = l
    <3> TAKE k, l \in 1 .. Len(effects)
    <3>1. k < l \/ l < k \/ k = l
      BY <2>1
    <3>2. QED
      BY <2>2, <3>1 DEF HostInv, Past
  <2>4. QED
    BY <2>3 DEF HostInv, Past, UseIsApproved, InputIsApproved
<1>2. QED
  BY <1>1, InvariantHolds, PTL

(* Once the phone was told that control was handed back nothing it sent    *)
(* before reaches the page: HandBack of host.rs waits for the worker.      *)
THEOREM HandBacksAreFinal == LoginSpec => HandBackIsFinal
<1>1. HostInv /\ [LoginNext]_loginVars => [InputRests]_loginVars
  <2> SUFFICES ASSUME HostInv, [LoginNext]_loginVars, policy.phase = "Completed"
               PROVE  effects' = effects
    BY DEF InputRests
  <2>1. worker.job = NoJob
    BY DEF HostInv, Approved, AtRest
  <2>2. ~Execute
    BY <2>1 DEF Execute
  <2>3. QED
    BY <2>2 DEF LoginNext, loginVars, sides, Passes, Watchdog, Pair, TurnedAway, Look, Agree,
                Expand, Refresh, Operate, Frame, GiveBack, CancelSession, Disconnect, Receive,
                Continue, Accept, PageChanges, Notice, StopSession
<1>2. QED
  BY <1>1, InvariantHolds, PTL DEF LoginSpec, HandBackIsFinal

=============================================================================
