--------------------------- MODULE TransferQueue ---------------------------
(***************************************************************************)
(* The persistent transfer queue of transfer_jobs.rs, with the gate of     *)
(* maintenance.rs: the requests of the desktop pages, the one worker that  *)
(* carries jobs out, the file the queue is kept in, and restarts.          *)
(*                                                                         *)
(* An action is what happens under one hold of the state lock, or one      *)
(* await.  The worker's attempt runs without the lock, so every request    *)
(* may come between any two of its steps.                                  *)
(***************************************************************************)
EXTENDS Naturals, FiniteSets

CONSTANTS
  Job,            \* the jobs that may be submitted, in order of their creation
  Sends,          \* the jobs that send an entry; the others download files
  File,           \* the files of a download, in order
  MaxJobs,        \* MAX_JOBS
  MaxGeneration,  \* bound: no retry of a job beyond this generation
  MaxRestarts,    \* bound: restarts of the service
  DiskFails,      \* bound: whether the queue file may fail to be written
  Updates         \* bound: whether an update may be installed

ASSUME QueueAssumption ==
  /\ Job \subseteq Nat /\ Sends \subseteq Job /\ File \subseteq Nat
  /\ MaxJobs \in Nat /\ MaxGeneration \in Nat /\ MaxRestarts \in Nat
  /\ DiskFails \in BOOLEAN /\ Updates \in BOOLEAN

VARIABLES
  jobs,        \* the jobs in memory
  disk,        \* the jobs in jobs.json
  failed,      \* storage_error or recovery_error is set
  worker,      \* the local state of the worker and its cancellation token
  asking,      \* a create request has passed its check of the storage
  cancelling,  \* cancel requests between the state change and the token
  closed,      \* an update has quiesced the service
  late,        \* the jobs whose expires_at has passed
  due,         \* the waiting jobs whose retry_at has passed
  wire,        \* push requests under way, with the generation that sent them
  used,        \* history: the jobs ever created
  delivered,   \* history: the jobs whose entry has reached the peer
  recorded,    \* history: the files recorded as completed
  stopped,     \* history: the jobs last cancelled with an answer, not retried
  restarts

requests == <<asking, cancelling>>
history == <<used, delivered, recorded, stopped>>
vars ==
  <<jobs, disk, failed, worker, requests, closed, late, due, wire, history, restarts>>

Terminal == {"completed", "failed", "cancelled", "expired"}
Active == {"queued", "running", "waiting", "paused"}

Absent == [status |-> "none", generation |-> 0, files |-> {}]

Idle == [phase |-> "idle", job |-> 0, generation |-> 0, kept |-> {},
         file |-> 0, cancelled |-> FALSE, outcome |-> "none"]

Init ==
  /\ jobs = [j \in Job |-> Absent] /\ disk = jobs
  /\ failed = FALSE /\ worker = Idle
  /\ asking = FALSE /\ cancelling = {} /\ closed = FALSE
  /\ late = {} /\ due = {} /\ wire = {}
  /\ used = {} /\ delivered = {} /\ recorded = {} /\ stopped = {}
  /\ restarts = 0

-----------------------------------------------------------------------------
(* Writing jobs.json: a new file takes the place of the old one, or the    *)
(* old one stays and the queue is disabled.                                *)

Persisted(js) == disk' = js /\ UNCHANGED failed

NotPersisted == DiskFails /\ failed' = TRUE /\ UNCHANGED disk

(* A request undoes its change of the memory when it is not written.       *)
Refused == NotPersisted /\ UNCHANGED <<jobs, requests, stopped, used>>

(* The worker does not.                                                    *)
Store(js) == jobs' = js /\ (Persisted(js) \/ NotPersisted)

-----------------------------------------------------------------------------
(* Requests *)

Attempting == {"running", "pushing", "answered", "fetching", "saved"}

(* `cancels` holds the token of the attempt at j.                          *)
HasToken(j) ==
  worker.job = j /\ worker.phase \in Attempting \cup {"registered", "ended"}

AskCreate ==
  /\ ~failed /\ ~closed /\ ~asking /\ used # Job
  /\ asking' = TRUE
  /\ UNCHANGED <<jobs, disk, failed, worker, cancelling, closed, late, due, wire, history, restarts>>

(* The storage was checked before the entry was looked up and the peer     *)
(* discovered.                                                             *)
Create(j) ==
  /\ asking /\ j \in Job \ used /\ \A k \in Job \ used : j <= k
  /\ Cardinality({k \in Job : jobs[k].status # "none"}) < MaxJobs
  /\ \/ /\ jobs' = [jobs EXCEPT ![j].status = "queued"]
        /\ Persisted(jobs')
        /\ used' = used \cup {j} /\ asking' = FALSE /\ UNCHANGED <<cancelling, stopped>>
     \/ Refused
  /\ UNCHANGED <<worker, closed, late, due, wire, delivered, recorded, restarts>>

GiveUpCreate ==
  /\ asking /\ asking' = FALSE
  /\ UNCHANGED <<jobs, disk, failed, worker, cancelling, closed, late, due, wire, history, restarts>>

Cancel(j) ==
  /\ ~failed /\ ~closed /\ jobs[j].status \in Active
  /\ \/ /\ jobs' = [jobs EXCEPT ![j].status = "cancelled", ![j].generation = @ + 1]
        /\ Persisted(jobs')
        /\ cancelling' = cancelling \cup {j} /\ UNCHANGED <<asking, stopped, used>>
     \/ Refused
  /\ UNCHANGED <<worker, closed, late, due, wire, delivered, recorded, restarts>>

(* The second half, without the state lock: the token, then the answer.    *)
CancelToken(j) ==
  /\ j \in cancelling
  /\ cancelling' = cancelling \ {j}
  /\ worker' = IF HasToken(j) THEN [worker EXCEPT !.cancelled = TRUE] ELSE worker
  /\ stopped' = IF jobs[j].status = "cancelled" THEN stopped \cup {j} ELSE stopped
  /\ UNCHANGED <<jobs, disk, failed, asking, closed, late, due, wire, used, delivered,
                 recorded, restarts>>

StillStopping(j) == HasToken(j)

(* Mutant of Requeued: the files start over.                               *)
RequeuedAfresh(job) == [job EXCEPT !.status = "queued", !.generation = @ + 1, !.files = {}]

Requeued(job) == [job EXCEPT !.status = "queued", !.generation = @ + 1]

Retry(j) ==
  /\ ~failed /\ ~closed /\ ~StillStopping(j)
  /\ jobs[j].status \in {"failed", "cancelled", "paused", "waiting"}
  /\ j \notin late
  /\ jobs[j].generation < MaxGeneration
  /\ \/ /\ jobs' = [jobs EXCEPT ![j] = Requeued(@)]
        /\ Persisted(jobs')
        /\ stopped' = stopped \ {j} /\ UNCHANGED <<requests, used>>
     \/ Refused
  /\ UNCHANGED <<worker, closed, late, due, wire, delivered, recorded, restarts>>

Remove(j) ==
  /\ ~failed /\ ~closed
  /\ jobs[j].status \in Terminal /\ ~StillStopping(j)
  /\ \/ jobs' = [jobs EXCEPT ![j] = Absent] /\ Persisted(jobs') /\ UNCHANGED <<requests, stopped, used>>
     \/ Refused
  /\ UNCHANGED <<worker, closed, late, due, wire, delivered, recorded, restarts>>

-----------------------------------------------------------------------------
(* The worker: choosing a job *)

(* Mutant of Aged: a paused job does not expire.                           *)
AgedUnlessPaused(js) ==
  [j \in Job |-> IF js[j].status \in Active \ {"paused"} /\ j \in late
                 THEN [js[j] EXCEPT !.status = "expired"] ELSE js[j]]

Aged(js) ==
  [j \in Job |-> IF js[j].status \in Active /\ j \in late
                 THEN [js[j] EXCEPT !.status = "expired"] ELSE js[j]]

Ready(js) ==
  {j \in Job : js[j].status = "queued" \/ (js[j].status = "waiting" /\ j \in due)}

Claimed(js, j) ==
  [js EXCEPT ![j].status = "running", ![j].generation = @ + 1]

(* The worker takes a copy of the job it claimed.                          *)
Attempt(j) ==
  [Idle EXCEPT !.phase = "claimed", !.job = j, !.generation = jobs[j].generation + 1,
               !.kept = jobs[j].files]

(* Expired jobs are marked, then the first ready one is taken.  Memory     *)
(* keeps the marks although they are not written; a claim is undone.       *)
(* (Bound: no end of claims while the gate refuses them.)                  *)
Scan ==
  /\ worker.phase = "idle" /\ ~failed
  /\ LET aged == Aged(jobs) IN
     \/ /\ aged # jobs /\ jobs' = aged /\ NotPersisted /\ UNCHANGED worker
     \/ /\ aged # jobs /\ Ready(aged) = {} /\ jobs' = aged /\ Persisted(aged)
        /\ UNCHANGED worker
     \/ \E j \in Ready(aged) :
          /\ \A k \in Ready(aged) : j <= k
          /\ closed => jobs[j].generation < MaxGeneration
          /\ \/ /\ jobs' = Claimed(aged, j) /\ Persisted(jobs')
                /\ worker' = Attempt(j)
             \/ /\ DiskFails /\ jobs' = aged /\ failed' = TRUE
                /\ disk' = IF aged = jobs THEN disk ELSE aged
                /\ UNCHANGED worker
  /\ UNCHANGED <<requests, closed, late, due, wire, history, restarts>>

(* The gate refuses while an update is installed: the claim is taken back. *)
TakeBack ==
  /\ worker.phase = "claimed" /\ closed
  /\ IF jobs[worker.job].status = "running"
     THEN Store([jobs EXCEPT ![worker.job].status = "queued"])
     ELSE UNCHANGED <<jobs, disk, failed>>
  /\ worker' = Idle
  /\ UNCHANGED <<requests, closed, late, due, wire, history, restarts>>

(* It enters and makes its token known.                                    *)
Enter ==
  /\ worker.phase = "claimed" /\ ~closed
  /\ worker' = [worker EXCEPT !.phase = "registered"]
  /\ UNCHANGED <<jobs, disk, failed, requests, closed, late, due, wire, history, restarts>>

(* Mutant of Stale: a cancel always finds the token.                       *)
NeverStale == worker.job = 0

(* The job was cancelled, retried or removed before the token was known.   *)
Stale ==
  \/ jobs[worker.job].status # "running"
  \/ jobs[worker.job].generation # worker.generation

CheckStale ==
  /\ worker.phase = "registered"
  /\ worker' = [worker EXCEPT !.phase = "running", !.cancelled = @ \/ Stale]
  /\ UNCHANGED <<jobs, disk, failed, requests, closed, late, due, wire, history, restarts>>

-----------------------------------------------------------------------------
(* The worker: an attempt *)

OnlyWorker ==
  UNCHANGED <<jobs, disk, failed, requests, closed, late, due, history, restarts>>

End(outcome) == worker' = [worker EXCEPT !.phase = "ended", !.outcome = outcome]

(* The timer of the attempt cancels the token when the job expires.        *)
ExpiryFires ==
  /\ worker.phase \in Attempting /\ worker.job \in late /\ ~worker.cancelled
  /\ worker' = [worker EXCEPT !.cancelled = TRUE]
  /\ UNCHANGED wire /\ OnlyWorker

(* Between its awaits, and while it waits for a push or a file, the        *)
(* attempt notices the cancelled token.                                    *)
NoticeCancel ==
  /\ worker.phase \in {"running", "pushing", "answered", "fetching"}
  /\ worker.cancelled
  /\ End("failed")
  /\ UNCHANGED wire /\ OnlyWorker

(* Mutant of Failures: a timeout is not looked at.                         *)
AnyEnd == {"retry", "failed", "done"}

(* Discovery, the check of the peer's identity, the push or the download   *)
(* fails, for now or for good, or its answer is lost.                      *)
Failures == {"retry", "failed"}

AttemptFails ==
  /\ worker.phase \in {"running", "pushing", "answered", "fetching"}
  /\ \E outcome \in Failures : End(outcome)
  /\ UNCHANGED wire /\ OnlyWorker

(* The last look at the token before the push.                             *)
BeginPush ==
  /\ worker.phase = "running" /\ worker.job \in Sends /\ ~worker.cancelled
  /\ worker' = [worker EXCEPT !.phase = "pushing"]
  /\ wire' = wire \cup {<<worker.job, worker.generation>>}
  /\ OnlyWorker

(* The request reaches the peer, whether or not anyone waits for it still. *)
PushArrives(j, g) ==
  /\ <<j, g>> \in wire
  /\ wire' = wire \ {<<j, g>>}
  /\ delivered' = delivered \cup {j}
  /\ worker' = IF worker.phase = "pushing" /\ worker.job = j /\ worker.generation = g
               THEN [worker EXCEPT !.phase = "answered"] ELSE worker
  /\ UNCHANGED <<jobs, disk, failed, requests, closed, late, due, used, recorded, stopped, restarts>>

PushReturns ==
  /\ worker.phase = "answered"
  /\ End("done")
  /\ UNCHANGED wire /\ OnlyWorker

BeginFetch(f) ==
  /\ worker.phase = "running" /\ worker.job \notin Sends /\ ~worker.cancelled
  /\ f \in File \ worker.kept /\ \A g \in File \ worker.kept : f <= g
  /\ worker' = [worker EXCEPT !.phase = "fetching", !.file = f]
  /\ UNCHANGED wire /\ OnlyWorker

FetchEnds ==
  /\ worker.phase = "fetching"
  /\ worker' = [worker EXCEPT !.phase = "saved"]
  /\ UNCHANGED wire /\ OnlyWorker

(* update_file_result, and the look at the token after it.                 *)
RecordFile ==
  /\ worker.phase = "saved"
  /\ LET kept == worker.kept \cup {worker.file} IN
     /\ jobs' = [jobs EXCEPT ![worker.job].files = @ \cup {worker.file}]
     /\ \/ /\ Persisted(jobs')
           /\ recorded' = recorded \cup {<<worker.job, worker.file>>}
           /\ worker' = IF worker.cancelled
                        THEN [worker EXCEPT !.phase = "ended", !.kept = kept,
                                            !.outcome = "failed"]
                        ELSE IF File = kept
                        THEN [worker EXCEPT !.phase = "ended", !.kept = kept,
                                            !.outcome = "done"]
                        ELSE [worker EXCEPT !.phase = "running", !.kept = kept]
        \/ NotPersisted /\ UNCHANGED recorded /\ End("failed")
  /\ UNCHANGED <<requests, closed, late, due, wire, used, delivered, stopped, restarts>>

(* All files were there already.                                           *)
NothingToFetch ==
  /\ worker.phase = "running" /\ worker.job \notin Sends /\ ~worker.cancelled
  /\ worker.kept = File
  /\ End("done")
  /\ UNCHANGED wire /\ OnlyWorker

DropToken ==
  /\ worker.phase = "ended"
  /\ worker' = [worker EXCEPT !.phase = "settling"]
  /\ UNCHANGED wire /\ OnlyWorker

(* Mutant of Own: the result is stored whatever happened to the job.       *)
OwnAnyway == jobs[worker.job].status # "none"

(* The job is still the one this attempt was started for.                  *)
Own ==
  /\ jobs[worker.job].status = "running"
  /\ jobs[worker.job].generation = worker.generation

Result(job) ==
  IF worker.job \in late THEN [job EXCEPT !.status = "expired"]
  ELSE CASE worker.outcome = "done" -> [job EXCEPT !.status = "completed"]
         [] worker.outcome = "retry" -> [job EXCEPT !.status = "waiting"]
         [] OTHER -> [job EXCEPT !.status = "failed"]

Settle ==
  /\ worker.phase = "settling"
  /\ IF Own THEN Store([jobs EXCEPT ![worker.job] = Result(@)])
     ELSE IF jobs[worker.job].status = "none" THEN Store(jobs)
     ELSE UNCHANGED <<jobs, disk, failed>>
  /\ worker' = Idle
  /\ due' = due \ {worker.job}
  /\ UNCHANGED <<requests, closed, late, wire, history, restarts>>

-----------------------------------------------------------------------------
(* Time, updates and restarts *)

(* (Bound: by generation.)                                                *)
RetryDue(j) ==
  /\ jobs[j].status = "waiting" /\ j \notin due /\ jobs[j].generation < MaxGeneration
  /\ due' = due \cup {j}
  /\ UNCHANGED <<jobs, disk, failed, worker, requests, closed, late, wire, history, restarts>>

Expires(j) ==
  /\ jobs[j].status # "none" /\ j \notin late
  /\ late' = late \cup {j}
  /\ UNCHANGED <<jobs, disk, failed, worker, requests, closed, due, wire, history, restarts>>

(* Mutant of Activities: the worker is not counted.                        *)
RequestsOnly == (IF asking THEN 1 ELSE 0) + Cardinality(cancelling)

(* The count of maintenance.rs: requests in progress, and the worker from  *)
(* the moment it entered to the end of its attempt.                        *)
Activities ==
  (IF asking THEN 1 ELSE 0) + Cardinality(cancelling)
    + (IF worker.phase \in {"idle", "claimed"} THEN 0 ELSE 1)

(* (Bound: by generation, as every claim taken back raises it.)            *)
TryQuiesce ==
  /\ Updates /\ ~closed /\ Activities = 0
  /\ worker.generation < MaxGeneration
  /\ closed' = TRUE
  /\ UNCHANGED <<jobs, disk, failed, worker, requests, late, due, wire, history, restarts>>

Resume ==
  /\ closed /\ closed' = FALSE
  /\ UNCHANGED <<jobs, disk, failed, worker, requests, late, due, wire, history, restarts>>

(* Mutant of Recovered: what was running still is.                         *)
RecoveredAsIs(j) == disk[j]

Recovered(j) ==
  IF disk[j].status # "running" THEN disk[j]
  ELSE [disk[j] EXCEPT !.status = IF j \in Sends THEN "queued" ELSE "paused"]

(* What was recovered is written back, or cannot be, or nothing was read.  *)
Restart ==
  /\ restarts < MaxRestarts /\ restarts' = restarts + 1
  /\ \/ /\ jobs' = [j \in Job |-> Recovered(j)]
        /\ \/ disk' = jobs' /\ failed' = FALSE
           \/ DiskFails /\ failed' = TRUE /\ UNCHANGED disk
     \/ /\ jobs' = [j \in Job |-> Absent]
        /\ DiskFails /\ failed' = TRUE /\ UNCHANGED disk
  /\ worker' = Idle /\ asking' = FALSE /\ cancelling' = {} /\ closed' = FALSE
  /\ UNCHANGED <<late, due, wire, history>>

PushLost(j, g) ==
  /\ <<j, g>> \in wire
  /\ wire' = wire \ {<<j, g>>}
  /\ UNCHANGED worker /\ OnlyWorker

UserStep ==
  \/ AskCreate \/ GiveUpCreate
  \/ \E j \in Job : Create(j) \/ Cancel(j) \/ Retry(j) \/ Remove(j)

WorkerStep ==
  \/ Scan \/ TakeBack \/ Enter \/ CheckStale \/ ExpiryFires \/ NoticeCancel
  \/ AttemptFails \/ BeginPush \/ PushReturns \/ FetchEnds \/ RecordFile
  \/ NothingToFetch \/ DropToken \/ Settle
  \/ \E f \in File : BeginFetch(f)

Next ==
  \/ UserStep \/ WorkerStep \/ TryQuiesce \/ Resume \/ Restart
  \/ \E j \in Job : CancelToken(j) \/ RetryDue(j) \/ Expires(j)
  \/ \E w \in wire : PushArrives(w[1], w[2]) \/ PushLost(w[1], w[2])

Spec == Init /\ [][Next]_vars

(* The worker goes on, as every await of an attempt ends in an answer or a *)
(* timeout; time passes; an update that could not be launched resumes.     *)
Fairness ==
  /\ WF_vars(WorkerStep) /\ WF_vars(Resume)
  /\ \A j \in Job : WF_vars(Expires(j))

FairSpec == Spec /\ Fairness

-----------------------------------------------------------------------------
(* Properties *)

JobType ==
  [status : Terminal \cup Active \cup {"none"}, generation : Nat,
   files : SUBSET File]

WorkerType ==
  [phase : Attempting \cup {"idle", "claimed", "registered", "ended", "settling"},
   job : Job \cup {0}, generation : Nat, kept : SUBSET File, file : File \cup {0},
   cancelled : BOOLEAN, outcome : {"none", "retry", "failed", "done"}]

(* Every variable has its type, and outside the idle phase the worker has  *)
(* a job.                                                                  *)
TypeOK ==
  /\ jobs \in [Job -> JobType] /\ disk \in [Job -> JobType]
  /\ failed \in BOOLEAN
  /\ worker \in WorkerType /\ (worker.phase # "idle" => worker.job \in Job)
  /\ asking \in BOOLEAN /\ cancelling \subseteq Job /\ closed \in BOOLEAN
  /\ late \subseteq Job /\ due \subseteq Job /\ wire \subseteq Job \X Nat
  /\ used \subseteq Job /\ delivered \subseteq Job
  /\ recorded \subseteq Job \X File /\ stopped \subseteq Job
  /\ restarts \in Nat

(* Once a cancel has been answered nothing of the job is begun any more    *)
(* until someone retries it, neither by the attempt that was being started *)
(* meanwhile nor after a restart.                                          *)
CancelHolds ==
  [][\A j \in stopped :
       /\ \A w \in wire' \ wire : w[1] # j
       /\ worker'.phase = "fetching" /\ worker.phase # "fetching" => worker'.job # j]_vars

AttemptHasItsJob ==
  worker.phase \in Attempting \ {"running"} =>
    \/ jobs[worker.job].status = "cancelled"
    \/ Own

(* A job only counts as running while the worker is at it: none is left    *)
(* running, for nobody to finish, by a cancel, an update, a failed write   *)
(* or a restart. And an attempt only goes on for a job that is there, and  *)
(* is running or has been cancelled: it is not queued again, nor removed,  *)
(* while the attempt may still have an effect.                             *)
RunningIsWorkedOn ==
  /\ AttemptHasItsJob
  /\ \A j \in Job :
       jobs[j].status = "running" => worker.phase # "idle" /\ worker.job = j /\ Own

(* While the queue can be written, a fate is final, through restarts, too: *)
(* completed and expired jobs stay so until they are removed, cancelled    *)
(* and failed ones until they are retried as a new generation.             *)
FateIsFinal ==
  [][\A j \in Job :
       jobs[j].status \in Terminal /\ jobs'[j].status # jobs[j].status /\ ~failed =>
         \/ jobs'[j].status = "none"
         \/ /\ jobs[j].status \in {"failed", "cancelled"}
            /\ jobs'[j].status = "queued"
            /\ jobs'[j].generation > jobs[j].generation]_vars

(* A completed send has reached the peer, a completed download has all its *)
(* files.                                                                  *)
CompletedIsTrue ==
  \A j \in Job :
    jobs[j].status = "completed" =>
      IF j \in Sends THEN j \in delivered ELSE jobs[j].files = File

(* No file that was recorded is fetched again, by later attempts and after *)
(* restarts.                                                               *)
FilesAreKept ==
  [][worker'.phase = "fetching" /\ worker.phase # "fetching" =>
       <<worker'.job, worker'.file>> \notin recorded]_vars

(* An update is only installed while no request and no attempt is at work. *)
UpdateIsAlone ==
  closed =>
    /\ ~asking /\ cancelling = {}
    /\ worker.phase \in {"idle", "claimed"}

(* Every job comes to an end or is removed, unless the queue cannot be     *)
(* written.                                                                *)
JobsEnd ==
  \A j \in Job :
    jobs[j].status \in Active ~> (jobs[j].status \in Terminal \cup {"none"} \/ failed)

=============================================================================
