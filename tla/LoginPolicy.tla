----------------------------- MODULE LoginPolicy -----------------------------
(***************************************************************************)
(* The Coordinator: sessions that lock a device while a phone works in a   *)
(* browser of it in the place of an AI executor. Executor, phone and       *)
(* browser adapter call in any order, with any epoch they have known.      *)
(***************************************************************************)
EXTENDS LoginSession, Sequences

CONSTANTS
  Device,
  MaxSessions, \* bound: sessions
  MaxEpoch     \* bound: epochs of a session

VARIABLES
  sessions, \* sequence of sessions, by their ids
  devices,  \* Device -> the id of the session that holds it, or 0
  late,     \* the ids of sessions whose deadline has passed
  stopped   \* history: the ids of sessions whose executor acknowledged that it
            \* paused, and has not resumed

policyVars == <<sessions, devices, late, stopped>>

PolicyInit ==
  /\ sessions = <<>> /\ devices = [d \in Device |-> 0]
  /\ late = {} /\ stopped = {}

Ids == DOMAIN sessions

On(i) == sessions[i].target.device

(* request, request_manual: the whole device is locked.                    *)
Request(d, manual) ==
  /\ Len(sessions) < MaxSessions
  /\ devices[d] = 0
  /\ sessions' = Append(sessions, NewSession([device |-> d], manual))
  /\ devices' = [devices EXCEPT ![d] = Len(sessions) + 1]
  /\ UNCHANGED <<late, stopped>>

Outlives(i) ==
  /\ i \notin late /\ late' = late \cup {i}
  /\ UNCHANGED <<sessions, devices, stopped>>

Becomes(i, s) == s.epoch <= MaxEpoch /\ sessions' = [sessions EXCEPT ![i] = s]

(* An operation whose outcome is r, allowed or refused.                    *)
Does(i, r) == Becomes(i, r.session) /\ UNCHANGED <<devices, late, stopped>>

Pause(i, e) ==
  LET r == PauseAck(sessions[i], i \in late, e) IN
  /\ Becomes(i, r.session)
  /\ stopped' = IF r.ok THEN stopped \cup {i} ELSE stopped
  /\ UNCHANGED <<devices, late>>

(* status, approve, approve_view, authorize                                *)
Use(i, e, c) ==
  LET s == sessions[i] l == i \in late IN
  \/ Does(i, [session |-> Live(s, l)])
  \/ Does(i, Approve(s, l, s.target))
  \/ Does(i, ApproveView(s, l, e))
  \/ Does(i, Authorize(s, l, s.target, e, c))

(* invalidate, cancel, rebind_manual                                       *)
Interrupt(i) ==
  \/ Does(i, [session |-> Invalidate(sessions[i])])
  \/ Does(i, [session |-> Cancel(sessions[i])])
  \/ Does(i, RebindManual(sessions[i], i \in late, sessions[i].target))

(* hand_back, revoked_ack                                                  *)
Return(i, e) ==
  \/ Does(i, HandBack(sessions[i], i \in late, e))
  \/ Does(i, RevokedAck(sessions[i], i \in late, e))

(* Mutant of Releases: a failed resumption gives the device back as well.  *)
ReleasesAny(r, success) == r.ok

Releases(r, success) == r.ok /\ success

Ended(i, r, success) ==
  /\ Becomes(i, r.session)
  /\ devices' = IF Releases(r, success) THEN [devices EXCEPT ![On(i)] = 0] ELSE devices
  /\ UNCHANGED late

Resume(i, e, success) ==
  LET r == ResumeAck(sessions[i], i \in late, e, success) IN
  /\ Ended(i, r, success)
  /\ stopped' = IF r.ok /\ success THEN stopped \ {i} ELSE stopped

Complete(i, e) ==
  Ended(i, ManualComplete(sessions[i], i \in late, e), TRUE) /\ UNCHANGED stopped

PolicyNext ==
  \/ \E d \in Device, manual \in BOOLEAN : Request(d, manual)
  \/ \E i \in Ids : Outlives(i) \/ Interrupt(i)
  \/ \E i \in Ids : \E e \in 1 .. sessions[i].epoch :
       \/ Pause(i, e) \/ Return(i, e) \/ Complete(i, e)
       \/ \E success \in BOOLEAN : Resume(i, e, success)
       \/ \E c \in 1 .. MaxCommands : Use(i, e, c)

PolicySpec == PolicyInit /\ [][PolicyNext]_policyVars

-----------------------------------------------------------------------------
(* A device is handed from one session to the next only by a hand-back that*)
(* was confirmed: cancelled, expired and failed sessions keep it locked.   *)
DeviceIsHandedOn ==
  \A i \in Ids :
    sessions[i].phase = "Completed" \/ devices[On(i)] = i

(* An executor and a phone never work at the same time, and the executor   *)
(* resumes only in a session in which the phone had control, after all it  *)
(* was granted is revoked.                                                 *)
ExecutorStaysOut ==
  \A i \in Ids :
    LET s == sessions[i] IN
    ~s.manual =>
      /\ s.phase \in {"AwaitingUser", "Controlling", "Revoking", "Resuming"} => i \in stopped
      /\ s.completed => i \in stopped \/ s.resumed
      /\ s.resumed => s.completed /\ ~s.scope /\ s.phase = "Completed"

=============================================================================
