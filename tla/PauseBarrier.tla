---------------------------- MODULE PauseBarrier ----------------------------
(***************************************************************************)
(* PauseController: owners stop the automation runner between two of its   *)
(* backend calls and hold a lease while somebody else works in its window. *)
(* Every step is one critical section of the controller's mutex.           *)
(***************************************************************************)
EXTENDS Naturals

CONSTANTS
  Owner,         \* those who call pause and reconcile
  RecoversEarly  \* whether reconcile is called while a pause is waiting

VARIABLES
  paused, active, lease, \* State
  stop,                  \* the stop token of the runner
  runner,                \* "idle", "entering" an operation or "inside" one
  owner                  \* Owner -> what the owner does

barrierVars == <<paused, active, lease, stop, runner, owner>>

BarrierInit ==
  /\ paused = FALSE /\ active = 0 /\ lease = FALSE /\ stop = FALSE
  /\ runner = "idle"
  /\ owner = [o \in Owner |-> "away"]

(* Runner::run: one caller at a time, from the resolution of the target to *)
(* the last step of the plan.                                              *)
Run ==
  /\ runner = "idle" /\ ~stop
  /\ runner' = "entering"
  /\ UNCHANGED <<paused, active, lease, stop, owner>>

(* PauseController::enter                                                  *)
EnterOperation ==
  /\ runner = "entering"
  /\ \/ stop /\ runner' = "idle" /\ UNCHANGED active
     \/ ~stop /\ ~paused /\ runner' = "inside" /\ active' = active + 1
  /\ UNCHANGED <<paused, lease, stop, owner>>

(* OperationGuard::drop: on to the next step, or out of a plan that is     *)
(* done, failed, late or stopped.                                          *)
Leave ==
  /\ runner = "inside"
  /\ active' = active - 1
  /\ runner' \in {"entering", "idle"}
  /\ stop => runner' = "idle"
  /\ UNCHANGED <<paused, lease, stop, owner>>

Stop ==
  /\ stop = FALSE /\ stop' = TRUE
  /\ UNCHANGED <<paused, active, lease, runner, owner>>

(* pause, up to its first look at the operations under way; refused when   *)
(* the runner is paused already.                                           *)
PauseRunner(o) ==
  /\ owner[o] = "away" /\ ~lease /\ ~paused
  /\ paused' = TRUE
  /\ IF active > 0
     THEN lease' = lease /\ owner' = [owner EXCEPT ![o] = "waiting"]
     ELSE lease' = TRUE /\ owner' = [owner EXCEPT ![o] = "holding"]
  /\ UNCHANGED <<active, stop, runner>>

(* pause: woken, or out of time.                                           *)
Wake(o) ==
  /\ owner[o] = "waiting"
  /\ \/ active = 0 /\ lease' = TRUE /\ owner' = [owner EXCEPT ![o] = "holding"]
     \/ active > 0 /\ owner' = [owner EXCEPT ![o] = "away"] /\ UNCHANGED lease
  /\ UNCHANGED <<paused, active, stop, runner>>

(* Mutant of MayReconcile: operations under way are not waited for.        *)
MayReconcileBusy == paused /\ ~lease

MayReconcile == paused /\ active = 0 /\ ~lease

Reconcile(o) ==
  /\ owner[o] = "away" /\ MayReconcile
  /\ ~RecoversEarly => \A p \in Owner : owner[p] # "waiting"
  /\ lease' = TRUE /\ owner' = [owner EXCEPT ![o] = "holding"]
  /\ UNCHANGED <<paused, active, stop, runner>>

(* PauseLease::resume; the lease it consumes is dropped after it.          *)
ResumeRunner(o) ==
  /\ owner[o] = "holding"
  /\ paused' = FALSE /\ owner' = [owner EXCEPT ![o] = "resumed"]
  /\ UNCHANGED <<active, lease, stop, runner>>

(* PauseLease::drop, of a lease that was resumed or whose owner was lost.  *)
DropLease(o) ==
  /\ owner[o] \in {"holding", "resumed"}
  /\ lease' = FALSE /\ owner' = [owner EXCEPT ![o] = "away"]
  /\ UNCHANGED <<paused, active, stop, runner>>

BarrierNext ==
  \/ Run \/ EnterOperation \/ Leave \/ Stop
  \/ \E o \in Owner :
       PauseRunner(o) \/ Wake(o) \/ Reconcile(o) \/ ResumeRunner(o) \/ DropLease(o)

BarrierSpec == BarrierInit /\ [][BarrierNext]_barrierVars

-----------------------------------------------------------------------------
TypeOK ==
  /\ paused \in BOOLEAN /\ lease \in BOOLEAN /\ stop \in BOOLEAN
  /\ active \in Nat
  /\ runner \in {"idle", "entering", "inside"}
  /\ owner \in [Owner -> {"away", "waiting", "holding", "resumed"}]

(* Whoever holds a lease is the only one, and no operation of the runner is*)
(* under way or can begin: pauses that time out, owners that are lost,     *)
(* recoveries and resumptions that are half done included.                 *)
LeaseIsQuiet ==
  \A o \in Owner : owner[o] = "holding" =>
    /\ paused /\ active = 0 /\ runner # "inside"
    /\ \A p \in Owner : owner[p] = "holding" => p = o

(* What makes LeaseIsQuiet inductive: one owner at a time pauses, holds or *)
(* has just resumed, and the controller's fields say what it does.         *)
Turn ==
  /\ active = IF runner = "inside" THEN 1 ELSE 0
  /\ \A o, p \in Owner : owner[o] # "away" /\ owner[p] # "away" => o = p
  /\ lease <=> \E o \in Owner : owner[o] \in {"holding", "resumed"}
  /\ \A o \in Owner : owner[o] = "waiting" => paused
  /\ \A o \in Owner : owner[o] = "holding" => paused /\ active = 0

=============================================================================
