------------------------ MODULE TransferQueue_proofs ------------------------
(***************************************************************************)
(* What the transfer queue keeps to, for any number of jobs, files,        *)
(* retries and restarts, with failing writes, late pushes and updates at   *)
(* any time.                                                               *)
(***************************************************************************)
EXTENDS TransferQueue, FiniteSetTheorems, TLAPS

-----------------------------------------------------------------------------
(* Jobs and lists of jobs *)

Status == Terminal \cup Active \cup {"none"}

(* A job is a record of three fields.                                      *)
LEMMA JobFields ==
  /\ JobType = [status : Status, generation : Nat, files : SUBSET File]
  /\ {"none", "queued", "running", "waiting", "paused", "completed", "failed", "cancelled",
      "expired"} \subseteq Status
  /\ Absent \in JobType /\ Absent.status = "none" /\ Absent.files = {}
BY DEF JobType, Status, Terminal, Active, Absent

(* A job under another status.                                             *)
LEMMA StatusUpdate ==
  ASSUME NEW b \in JobType, NEW s \in Status
  PROVE  LET c == [b EXCEPT !.status = s] IN
         c \in JobType /\ c.status = s /\ c.generation = b.generation /\ c.files = b.files
BY JobFields

(* A job under another status and in its next generation.                  *)
LEMMA GenerationUpdate ==
  ASSUME NEW b \in JobType, NEW s \in Status
  PROVE  LET c == [b EXCEPT !.status = s, !.generation = @ + 1] IN
         /\ c \in JobType /\ c.status = s /\ c.generation = b.generation + 1
         /\ c.files = b.files
<1> DEFINE d == [b EXCEPT !.status = s]
           c == [b EXCEPT !.status = s, !.generation = @ + 1]
<1>1. d \in JobType /\ b.generation + 1 \in Nat
  BY JobFields
<1>2. c = [d EXCEPT !.generation = b.generation + 1]
  OBVIOUS
<1>3. c.status = s /\ c.generation = b.generation + 1 /\ c.files = b.files
  BY JobFields
<1> HIDE DEF d
<1>4. c \in JobType
  BY <1>1, <1>2, JobFields
<1> QED
  BY <1>3, <1>4

(* A job with one more file.                                               *)
LEMMA FilesUpdate ==
  ASSUME NEW b \in JobType, NEW f \in File
  PROVE  LET c == [b EXCEPT !.files = @ \cup {f}] IN
         /\ c \in JobType /\ c.status = b.status /\ c.generation = b.generation
         /\ c.files = b.files \cup {f}
BY JobFields

(* A list with another job in one place.                                   *)
LEMMA ListUpdate ==
  ASSUME NEW js \in [Job -> JobType], NEW j \in Job, NEW c \in JobType
  PROVE  LET ks == [js EXCEPT ![j] = c] IN
         ks \in [Job -> JobType] /\ ks[j] = c /\ \A k \in Job \ {j} : ks[k] = js[k]
OBVIOUS

(* Marking what has expired leaves everything else.                        *)
LEMMA AgedJobs ==
  ASSUME NEW js \in [Job -> JobType]
  PROVE  /\ Aged(js) \in [Job -> JobType]
         /\ \A j \in Job : /\ Aged(js)[j].generation = js[j].generation
                           /\ Aged(js)[j].files = js[j].files
                           /\ \/ Aged(js)[j] = js[j]
                              \/ Aged(js)[j].status = "expired" /\ js[j].status \in Active
<1>1. \A j \in Job : /\ js[j] \in JobType
                     /\ [js[j] EXCEPT !.status = "expired"] \in JobType
                     /\ [js[j] EXCEPT !.status = "expired"].status = "expired"
                     /\ [js[j] EXCEPT !.status = "expired"].generation = js[j].generation
                     /\ [js[j] EXCEPT !.status = "expired"].files = js[j].files
  BY StatusUpdate, JobFields
<1> QED
  BY <1>1 DEF Aged

(* A claim starts the next generation of a job.                            *)
LEMMA ClaimedJobs ==
  ASSUME NEW js \in [Job -> JobType], NEW j \in Job
  PROVE  /\ Claimed(js, j) \in [Job -> JobType]
         /\ Claimed(js, j)[j].status = "running"
         /\ Claimed(js, j)[j].generation = js[j].generation + 1
         /\ Claimed(js, j)[j].files = js[j].files
         /\ \A k \in Job \ {j} : Claimed(js, j)[k] = js[k]
<1>1. Claimed(js, j) = [js EXCEPT ![j] = [js[j] EXCEPT !.status = "running", !.generation = @ + 1]]
  BY DEF Claimed
<1> DEFINE c == [js[j] EXCEPT !.status = "running", !.generation = @ + 1]
<1>2. /\ c \in JobType /\ c.status = "running" /\ c.generation = js[j].generation + 1
      /\ c.files = js[j].files
  BY GenerationUpdate, JobFields
<1>3. Claimed(js, j) = [js EXCEPT ![j] = c]
  BY <1>1
<1> HIDE DEF c
<1> QED
  BY <1>2, <1>3, ListUpdate

(* Nothing that was recovered is running.                                  *)
LEMMA RecoveredJob ==
  ASSUME disk \in [Job -> JobType], NEW j \in Job
  PROVE  /\ Recovered(j) \in JobType
         /\ Recovered(j).status # "running"
         /\ Recovered(j).files = disk[j].files
         /\ disk[j].status # "running" => Recovered(j) = disk[j]
         /\ disk[j].status = "running" => Recovered(j).status \in {"queued", "paused"}
BY StatusUpdate, JobFields DEF Recovered

(* The worker at rest, and with the copy of the job that it has claimed.   *)
LEMMA WorkerFields ==
  /\ Idle \in WorkerType /\ Idle.phase = "idle" /\ Idle.outcome = "none"
  /\ \A j \in Job :
       jobs[j] \in JobType =>
         /\ Attempt(j) \in WorkerType
         /\ Attempt(j).phase = "claimed" /\ Attempt(j).job = j
         /\ Attempt(j).generation = jobs[j].generation + 1
         /\ Attempt(j).kept = jobs[j].files /\ ~Attempt(j).cancelled
         /\ Attempt(j).outcome = "none"
<1>1. Idle \in WorkerType /\ Idle.phase = "idle" /\ Idle.outcome = "none"
  BY DEF Idle, WorkerType
<1>2. ASSUME NEW j \in Job, jobs[j] \in JobType
      PROVE  /\ Attempt(j) \in WorkerType
             /\ Attempt(j).phase = "claimed" /\ Attempt(j).job = j
             /\ Attempt(j).generation = jobs[j].generation + 1
             /\ Attempt(j).kept = jobs[j].files /\ ~Attempt(j).cancelled
             /\ Attempt(j).outcome = "none"
  <2>1. jobs[j].generation + 1 \in Nat /\ jobs[j].files \subseteq File
    BY <1>2, JobFields
  <2>2. Attempt(j) = [Idle EXCEPT !.phase = "claimed", !.job = j,
                                  !.generation = jobs[j].generation + 1, !.kept = jobs[j].files]
    BY DEF Attempt
  <2>3. Idle.outcome = "none" /\ Idle.cancelled = FALSE
    BY DEF Idle
  <2> QED
    BY <1>1, <2>1, <2>2, <2>3 DEF WorkerType
<1> QED
  BY <1>1, <1>2

-----------------------------------------------------------------------------
(* What a step does to the list of jobs *)

(* One job is another one now.                                             *)
Changed(j, s, g, F) ==
  /\ jobs' \in [Job -> JobType]
  /\ jobs'[j].status = s /\ jobs'[j].generation = g /\ jobs'[j].files = F
  /\ \A k \in Job \ {j} : jobs'[k] = jobs[k]

(* Putting a job into the list.                                            *)
LEMMA Put ==
  ASSUME jobs \in [Job -> JobType], NEW j \in Job, NEW c \in JobType,
         jobs' = [jobs EXCEPT ![j] = c]
  PROVE  Changed(j, c.status, c.generation, c.files)
BY ListUpdate DEF Changed

(* A new job is queued.                                                    *)
LEMMA CreateChanges ==
  ASSUME TypeOK, NEW j \in Job, Create(j)
  PROVE  UNCHANGED jobs \/ Changed(j, "queued", jobs[j].generation, jobs[j].files)
<1> DEFINE c == [jobs[j] EXCEPT !.status = "queued"]
<1>1. c \in JobType /\ c.status = "queued"
      /\ c.generation = jobs[j].generation /\ c.files = jobs[j].files
  BY StatusUpdate, JobFields DEF TypeOK
<1>2. UNCHANGED jobs \/ jobs' = [jobs EXCEPT ![j] = c]
  BY DEF Create, Refused
<1> HIDE DEF c
<1> QED
  BY <1>1, <1>2, Put DEF TypeOK

(* A cancelled job is in its next generation.                              *)
LEMMA CancelChanges ==
  ASSUME TypeOK, NEW j \in Job, Cancel(j)
  PROVE  UNCHANGED jobs \/ Changed(j, "cancelled", jobs[j].generation + 1, jobs[j].files)
<1> DEFINE c == [jobs[j] EXCEPT !.status = "cancelled", !.generation = @ + 1]
<1>1. c \in JobType /\ c.status = "cancelled"
      /\ c.generation = jobs[j].generation + 1 /\ c.files = jobs[j].files
  BY GenerationUpdate, JobFields DEF TypeOK
<1>2. UNCHANGED jobs \/ jobs' = [jobs EXCEPT ![j] = c]
  BY DEF Cancel, Refused
<1> HIDE DEF c
<1> QED
  BY <1>1, <1>2, Put DEF TypeOK

(* So is one that is retried.                                              *)
LEMMA RetryChanges ==
  ASSUME TypeOK, NEW j \in Job, Retry(j)
  PROVE  UNCHANGED jobs \/ Changed(j, "queued", jobs[j].generation + 1, jobs[j].files)
<1> DEFINE c == [jobs[j] EXCEPT !.status = "queued", !.generation = @ + 1]
<1>1. c \in JobType /\ c.status = "queued"
      /\ c.generation = jobs[j].generation + 1 /\ c.files = jobs[j].files
  BY GenerationUpdate, JobFields DEF TypeOK
<1>2. UNCHANGED jobs \/ jobs' = [jobs EXCEPT ![j] = c]
  BY DEF Retry, Requeued, Refused
<1> HIDE DEF c
<1> QED
  BY <1>1, <1>2, Put DEF TypeOK

(* A removed job is none.                                                  *)
LEMMA RemoveChanges ==
  ASSUME TypeOK, NEW j \in Job, Remove(j)
  PROVE  UNCHANGED jobs \/ Changed(j, "none", Absent.generation, {})
<1>1. UNCHANGED jobs \/ jobs' = [jobs EXCEPT ![j] = Absent]
  BY DEF Remove, Refused
<1>2. jobs' = [jobs EXCEPT ![j] = Absent] =>
        Changed(j, Absent.status, Absent.generation, Absent.files)
  BY Put, JobFields DEF TypeOK
<1> QED
  BY <1>1, <1>2, JobFields

(* A scan marks what has expired, and may claim a ready job of the rest.   *)
LEMMA ScanChanges ==
  ASSUME TypeOK, Scan
  PROVE  \/ jobs' = Aged(jobs) /\ worker' = worker
         \/ \E j \in Job :
              /\ jobs[j].status \in {"queued", "waiting"}
              /\ jobs' \in [Job -> JobType]
              /\ jobs'[j].status = "running" /\ jobs'[j].files = jobs[j].files
              /\ jobs'[j].generation = jobs[j].generation + 1
              /\ \A k \in Job \ {j} : jobs'[k] = Aged(jobs)[k]
              /\ worker' = Attempt(j) /\ Persisted(jobs')
<1> DEFINE aged == Aged(jobs)
<1>1. /\ aged \in [Job -> JobType]
      /\ \A j \in Job : /\ aged[j].generation = jobs[j].generation
                        /\ aged[j].files = jobs[j].files
                        /\ \/ aged[j] = jobs[j]
                           \/ aged[j].status = "expired" /\ jobs[j].status \in Active
  BY AgedJobs DEF TypeOK
<1>2. \/ jobs' = aged /\ worker' = worker
      \/ \E j \in Ready(aged) :
           jobs' = Claimed(aged, j) /\ Persisted(jobs') /\ worker' = Attempt(j)
  BY DEF Scan
<1> HIDE DEF aged
<1>3. ASSUME NEW j \in Ready(aged),
             jobs' = Claimed(aged, j), Persisted(jobs'), worker' = Attempt(j)
      PROVE  /\ j \in Job /\ jobs[j].status \in {"queued", "waiting"}
             /\ jobs' \in [Job -> JobType]
             /\ jobs'[j].status = "running" /\ jobs'[j].files = jobs[j].files
             /\ jobs'[j].generation = jobs[j].generation + 1
             /\ \A k \in Job \ {j} : jobs'[k] = aged[k]
  <2>1. j \in Job /\ aged[j].status \in {"queued", "waiting"}
    BY DEF Ready
  <2>2. aged[j] = jobs[j]
    BY <1>1, <2>1
  <2> QED
    BY <1>1, <1>3, <2>1, <2>2, ClaimedJobs
<1> QED
  BY <1>2, <1>3 DEF aged

(* A claim that is taken back is queued again.                             *)
LEMMA TakeBackChanges ==
  ASSUME TypeOK, TakeBack
  PROVE  /\ worker.job \in Job /\ worker.phase = "claimed" /\ worker' = Idle
         /\ \/ UNCHANGED <<jobs, disk, failed>> /\ jobs[worker.job].status # "running"
            \/ /\ jobs[worker.job].status = "running"
               /\ Changed(worker.job, "queued", jobs[worker.job].generation,
                          jobs[worker.job].files)
               /\ Persisted(jobs') \/ NotPersisted
<1> DEFINE c == [jobs[worker.job] EXCEPT !.status = "queued"]
<1>0. worker.job \in Job
  BY DEF TakeBack, TypeOK
<1>1. c \in JobType /\ c.status = "queued"
      /\ c.generation = jobs[worker.job].generation /\ c.files = jobs[worker.job].files
  BY <1>0, StatusUpdate, JobFields DEF TypeOK
<1>2. \/ UNCHANGED <<jobs, disk, failed>> /\ jobs[worker.job].status # "running"
      \/ /\ jobs[worker.job].status = "running"
         /\ jobs' = [jobs EXCEPT ![worker.job] = c] /\ (Persisted(jobs') \/ NotPersisted)
  BY DEF TakeBack, Store
<1> HIDE DEF c
<1>3. ASSUME jobs' = [jobs EXCEPT ![worker.job] = c]
      PROVE  Changed(worker.job, "queued", jobs[worker.job].generation, jobs[worker.job].files)
  <2>1. Changed(worker.job, c.status, c.generation, c.files)
    BY <1>0, <1>1, <1>3, Put DEF TypeOK
  <2> QED
    BY <1>1, <2>1
<1> QED
  BY <1>0, <1>2, <1>3 DEF TakeBack

(* A recorded file is one more.                                            *)
LEMMA RecordChanges ==
  ASSUME TypeOK, RecordFile, worker.file \in File
  PROVE  /\ worker.job \in Job
         /\ Changed(worker.job, jobs[worker.job].status, jobs[worker.job].generation,
                    jobs[worker.job].files \cup {worker.file})
<1> DEFINE c == [jobs[worker.job] EXCEPT !.files = @ \cup {worker.file}]
<1>0. worker.job \in Job
  BY DEF RecordFile, TypeOK
<1>1. c \in JobType /\ c.status = jobs[worker.job].status
      /\ c.generation = jobs[worker.job].generation
      /\ c.files = jobs[worker.job].files \cup {worker.file}
  BY <1>0, FilesUpdate, JobFields DEF TypeOK
<1>2. jobs' = [jobs EXCEPT ![worker.job] = c]
  BY DEF RecordFile
<1> HIDE DEF c
<1> QED
  BY <1>0, <1>1, <1>2, Put DEF TypeOK

(* The result of an attempt is stored for its own job only.                *)
LEMMA SettleChanges ==
  ASSUME TypeOK, Settle
  PROVE  /\ worker.job \in Job /\ worker.phase = "settling" /\ worker' = Idle
         /\ \/ UNCHANGED <<jobs, disk, failed>> /\ ~Own
            \/ UNCHANGED jobs /\ (Persisted(jobs') \/ NotPersisted) /\ ~Own
            \/ /\ Own /\ (Persisted(jobs') \/ NotPersisted)
               /\ \E s \in {"completed", "waiting", "failed", "expired"} :
                    /\ Changed(worker.job, s, jobs[worker.job].generation,
                               jobs[worker.job].files)
                    /\ s = "completed" => worker.outcome = "done"
<1>0. worker.job \in Job /\ jobs[worker.job] \in JobType
  BY DEF Settle, TypeOK
<1>1. PICK s \in {"completed", "waiting", "failed", "expired"} :
        /\ Result(jobs[worker.job]) = [jobs[worker.job] EXCEPT !.status = s]
        /\ s = "completed" => worker.outcome = "done"
  BY DEF Result
<1> DEFINE c == [jobs[worker.job] EXCEPT !.status = s]
<1>2. c \in JobType /\ c.status = s
      /\ c.generation = jobs[worker.job].generation /\ c.files = jobs[worker.job].files
  BY <1>0, StatusUpdate, JobFields
<1>3. \/ UNCHANGED <<jobs, disk, failed>> /\ ~Own
      \/ UNCHANGED jobs /\ (Persisted(jobs') \/ NotPersisted) /\ ~Own
      \/ /\ Own /\ (Persisted(jobs') \/ NotPersisted)
         /\ jobs' = [jobs EXCEPT ![worker.job] = c]
  BY <1>1 DEF Settle, Store
<1> HIDE DEF c
<1>4. jobs' = [jobs EXCEPT ![worker.job] = c] =>
        Changed(worker.job, s, jobs[worker.job].generation, jobs[worker.job].files)
  BY <1>0, <1>2, Put DEF TypeOK
<1> QED
  BY <1>0, <1>1, <1>3, <1>4 DEF Settle

-----------------------------------------------------------------------------
(* Types *)

(* The empty queue has its type.                                           *)
LEMMA InitType == Init => TypeOK
<1> SUFFICES ASSUME Init PROVE TypeOK
  OBVIOUS
<1>1. jobs \in [Job -> JobType] /\ disk \in [Job -> JobType]
  BY JobFields DEF Init
<1>2. worker \in WorkerType /\ worker.phase = "idle"
  BY WorkerFields DEF Init
<1> QED
  BY <1>1, <1>2 DEF Init, TypeOK

(* A request writes the list or leaves the file.                           *)
LEMMA RequestPersists ==
  ASSUME NEW j \in Job, Create(j) \/ Cancel(j) \/ Retry(j) \/ Remove(j)
  PROVE  /\ Persisted(jobs') \/ (NotPersisted /\ UNCHANGED <<jobs, requests, stopped, used>>)
         /\ UNCHANGED <<worker, closed, late, due, wire, delivered, recorded, restarts>>
BY DEF Create, Cancel, Retry, Remove, Refused

(* Requests keep the types.                                                *)
LEMMA UserType == TypeOK /\ UserStep => TypeOK'
<1> SUFFICES ASSUME TypeOK, UserStep PROVE TypeOK'
  OBVIOUS
<1>1. CASE AskCreate \/ GiveUpCreate
  BY <1>1 DEF AskCreate, GiveUpCreate, TypeOK, requests, history
<1>2. ASSUME NEW j \in Job, Create(j) \/ Cancel(j) \/ Retry(j) \/ Remove(j)
      PROVE  TypeOK'
  <2>1. jobs' \in [Job -> JobType]
    BY <1>2, CreateChanges, CancelChanges, RetryChanges, RemoveChanges DEF Changed, TypeOK
  <2>2. asking' \in BOOLEAN /\ cancelling' \subseteq Job /\ used' \subseteq Job
        /\ stopped' \subseteq Job
    BY <1>2 DEF Create, Cancel, Retry, Remove, Refused, requests, TypeOK
  <2> QED
    BY <1>2, <2>1, <2>2, RequestPersists DEF Persisted, NotPersisted, TypeOK
<1> QED
  BY <1>1, <1>2 DEF UserStep

(* An attempt keeps the types.                                             *)
LEMMA AttemptKeepsType ==
  ASSUME TypeOK,
         \/ Enter \/ CheckStale \/ ExpiryFires \/ NoticeCancel \/ AttemptFails \/ BeginPush
         \/ PushReturns \/ FetchEnds \/ NothingToFetch \/ DropToken
         \/ \E f \in File : BeginFetch(f)
  PROVE  TypeOK'
<1>0. worker \in WorkerType /\ worker.job \in Job \cup {0}
  BY DEF TypeOK, WorkerType
<1>1. CASE Enter
  BY <1>1 DEF Enter, TypeOK, WorkerType, requests, history
<1>2. CASE CheckStale
  <2>1. [worker EXCEPT !.phase = "running", !.cancelled = @ \/ Stale] \in WorkerType
    <3>1. worker.cancelled \/ Stale \in BOOLEAN
      BY DEF Stale
    <3> QED
      BY <1>0, <3>1 DEF WorkerType, Attempting
  <2> QED
    BY <1>2, <2>1 DEF CheckStale, TypeOK, WorkerType, requests, history
<1>3. CASE ExpiryFires
  BY <1>3 DEF ExpiryFires, OnlyWorker, TypeOK, WorkerType, requests, history
<1>4. CASE NoticeCancel \/ AttemptFails \/ PushReturns \/ NothingToFetch
  <2>1. PICK o \in {"retry", "failed", "done"} :
          worker' = [worker EXCEPT !.phase = "ended", !.outcome = o]
    BY <1>4 DEF NoticeCancel, AttemptFails, PushReturns, NothingToFetch, Failures, End
  <2>2. worker' \in WorkerType /\ worker'.job = worker.job
    BY <1>0, <2>1 DEF WorkerType
  <2>3. worker.phase # "idle"
    BY <1>4 DEF NoticeCancel, AttemptFails, PushReturns, NothingToFetch
  <2> QED
    BY <1>4, <2>2, <2>3 DEF NoticeCancel, AttemptFails, PushReturns, NothingToFetch, OnlyWorker,
       TypeOK, requests, history
<1>5. CASE BeginPush
  <2>1. worker' \in WorkerType /\ worker'.job = worker.job
    BY <1>0, <1>5 DEF BeginPush, WorkerType, Attempting
  <2>2. worker.phase # "idle" /\ worker.generation \in Nat
    BY <1>0, <1>5 DEF BeginPush, WorkerType
  <2> QED
    BY <1>5, <2>1, <2>2 DEF BeginPush, OnlyWorker, TypeOK, requests, history
<1>6. CASE FetchEnds \/ DropToken
  BY <1>6 DEF FetchEnds, DropToken, OnlyWorker, TypeOK, WorkerType, Attempting, requests, history
<1>7. ASSUME NEW f \in File, BeginFetch(f) PROVE TypeOK'
  <2>1. [worker EXCEPT !.phase = "fetching", !.file = f] \in WorkerType
    BY <1>0 DEF WorkerType, Attempting
  <2> QED
    BY <1>7, <2>1 DEF BeginFetch, OnlyWorker, TypeOK, WorkerType, requests, history
<1> QED
  BY <1>1, <1>2, <1>3, <1>4, <1>5, <1>6, <1>7

(* Whose file is fetched.                                                  *)
Fetching == worker.phase \in {"fetching", "saved"} => worker.file \in File

(* So does what the worker does to the list.                               *)
LEMMA ListKeepsType ==
  ASSUME TypeOK, Fetching, Scan \/ TakeBack \/ RecordFile \/ Settle
  PROVE  TypeOK'
<1>1. CASE Scan
  <2>1. jobs' \in [Job -> JobType] /\ disk' \in [Job -> JobType]
    <3>1. jobs' \in [Job -> JobType]
      BY <1>1, ScanChanges, AgedJobs DEF TypeOK
    <3> QED
      BY <1>1, <3>1, AgedJobs DEF Scan, Persisted, NotPersisted, TypeOK
  <2>2. worker' \in WorkerType /\ (worker'.phase # "idle" => worker'.job \in Job)
    BY <1>1, ScanChanges, WorkerFields DEF TypeOK
  <2> QED
    BY <1>1, <2>1, <2>2 DEF Scan, Persisted, NotPersisted, TypeOK, requests, history
<1>2. CASE TakeBack
  <2>1. jobs' \in [Job -> JobType] /\ disk' \in [Job -> JobType] /\ failed' \in BOOLEAN
    BY <1>2, TakeBackChanges DEF Changed, Persisted, NotPersisted, TypeOK
  <2> QED
    BY <1>2, <2>1, TakeBackChanges, WorkerFields DEF TakeBack, TypeOK, requests, history
<1>3. CASE RecordFile
  <2>1. worker \in WorkerType /\ worker.job \in Job /\ worker.file \in File
        /\ worker.phase = "saved"
    BY <1>3 DEF RecordFile, TypeOK, Fetching
  <2>2. jobs' \in [Job -> JobType] /\ disk' \in [Job -> JobType] /\ failed' \in BOOLEAN
    BY <1>3, <2>1, RecordChanges DEF Changed, RecordFile, Persisted, NotPersisted, TypeOK
  <2>3. worker' \in WorkerType /\ worker'.job = worker.job
    <3> DEFINE kept == worker.kept \cup {worker.file}
    <3>1. kept \subseteq File
      BY <2>1 DEF WorkerType
    <3>2. \/ worker' = [worker EXCEPT !.phase = "ended", !.kept = kept, !.outcome = "failed"]
          \/ worker' = [worker EXCEPT !.phase = "ended", !.kept = kept, !.outcome = "done"]
          \/ worker' = [worker EXCEPT !.phase = "running", !.kept = kept]
          \/ worker' = [worker EXCEPT !.phase = "ended", !.outcome = "failed"]
      BY <1>3 DEF RecordFile, End
    <3> HIDE DEF kept
    <3> QED
      BY <2>1, <3>1, <3>2 DEF WorkerType, Attempting
  <2>4. recorded' \subseteq Job \X File
    BY <1>3, <2>1 DEF RecordFile, TypeOK
  <2> QED
    BY <1>3, <2>1, <2>2, <2>3, <2>4 DEF RecordFile, TypeOK, requests
<1>4. CASE Settle
  <2>1. jobs' \in [Job -> JobType] /\ disk' \in [Job -> JobType] /\ failed' \in BOOLEAN
    BY <1>4, SettleChanges DEF Changed, Persisted, NotPersisted, TypeOK
  <2> QED
    BY <1>4, <2>1, SettleChanges, WorkerFields DEF Settle, TypeOK, requests, history
<1> QED
  BY <1>1, <1>2, <1>3, <1>4

(* After a restart the list is what was recovered, or nothing.             *)
LEMMA RestartChanges ==
  ASSUME TypeOK, Restart
  PROVE  /\ jobs' \in [Job -> JobType] /\ worker' = Idle
         /\ \/ /\ \A j \in Job : jobs'[j] = Recovered(j)
               /\ \/ disk' = jobs' /\ failed' = FALSE
                  \/ disk' = disk /\ failed' = TRUE
            \/ /\ \A j \in Job : jobs'[j] = Absent
               /\ disk' = disk /\ failed' = TRUE
BY RecoveredJob, JobFields DEF Restart, TypeOK

(* Time, the wire, restarts and updates keep the types.                    *)
LEMMA EnvironmentKeepsType ==
  ASSUME TypeOK,
         \/ TryQuiesce \/ Resume \/ Restart
         \/ \E j \in Job : CancelToken(j) \/ RetryDue(j) \/ Expires(j)
         \/ \E w \in wire : PushArrives(w[1], w[2]) \/ PushLost(w[1], w[2])
  PROVE  TypeOK'
<1>1. CASE TryQuiesce \/ Resume
  BY <1>1 DEF TryQuiesce, Resume, TypeOK, requests, history
<1>2. CASE Restart
  <2>1. disk' \in [Job -> JobType] /\ failed' \in BOOLEAN
    BY <1>2, RestartChanges DEF TypeOK
  <2>2. jobs' \in [Job -> JobType] /\ worker' \in WorkerType /\ worker'.phase = "idle"
    BY <1>2, RestartChanges, WorkerFields
  <2>3. /\ asking' = FALSE /\ cancelling' = {} /\ closed' = FALSE /\ restarts' \in Nat
        /\ UNCHANGED <<late, due, wire, used, delivered, recorded, stopped>>
    BY <1>2 DEF Restart, history, TypeOK
  <2>4. cancelling' \subseteq Job /\ asking' \in BOOLEAN /\ closed' \in BOOLEAN
    BY <2>3
  <2> QED
    BY <2>1, <2>2, <2>3, <2>4 DEF TypeOK
<1>3. ASSUME NEW j \in Job, CancelToken(j) PROVE TypeOK'
  <2>1. worker' \in WorkerType /\ worker'.phase = worker.phase /\ worker'.job = worker.job
    BY <1>3 DEF CancelToken, TypeOK, WorkerType
  <2> QED
    BY <1>3, <2>1 DEF CancelToken, TypeOK
<1>4. ASSUME NEW j \in Job, RetryDue(j) \/ Expires(j) PROVE TypeOK'
  BY <1>4 DEF RetryDue, Expires, TypeOK, requests, history
<1>5. ASSUME NEW w \in wire, PushArrives(w[1], w[2]) PROVE TypeOK'
  <2>1. worker' \in WorkerType /\ worker'.job = worker.job
        /\ (worker'.phase # "idle" => worker.phase # "idle")
    BY <1>5 DEF PushArrives, TypeOK, WorkerType, Attempting
  <2>2. w[1] \in Job
    BY DEF TypeOK
  <2> QED
    BY <1>5, <2>1, <2>2 DEF PushArrives, TypeOK, requests
<1>6. ASSUME NEW w \in wire, PushLost(w[1], w[2]) PROVE TypeOK'
  BY <1>6 DEF PushLost, OnlyWorker, TypeOK, requests, history
<1> QED
  BY <1>1, <1>2, <1>3, <1>4, <1>5, <1>6

(* Every step keeps the types.                                             *)
LEMMA StepType == TypeOK /\ Fetching /\ [Next]_vars => TypeOK'
<1> SUFFICES ASSUME TypeOK, Fetching, [Next]_vars PROVE TypeOK'
  OBVIOUS
<1>1. CASE UNCHANGED vars
  BY <1>1 DEF vars, requests, history, TypeOK
<1> QED
  BY <1>1, UserType, AttemptKeepsType, ListKeepsType, EnvironmentKeepsType DEF Next, WorkerStep


-----------------------------------------------------------------------------
(* Which steps touch what *)

(* The steps of the worker that leave the list alone.                      *)
AttemptStep ==
  \/ Enter \/ CheckStale \/ ExpiryFires \/ NoticeCancel \/ AttemptFails \/ BeginPush
  \/ PushReturns \/ FetchEnds \/ NothingToFetch \/ DropToken
  \/ \E f \in File : BeginFetch(f)

RequestStep(j) == Create(j) \/ Cancel(j) \/ Retry(j) \/ Remove(j)

(* Only requests, restarts and four steps of the worker touch the list.    *)
LEMMA ListSteps ==
  ASSUME [Next]_vars
  PROVE  \/ UNCHANGED <<jobs, disk, failed>>
         \/ \E j \in Job : RequestStep(j)
         \/ Scan \/ TakeBack \/ RecordFile \/ Settle \/ Restart
<1>1. CASE AttemptStep
  BY <1>1 DEF AttemptStep, Enter, CheckStale, ExpiryFires, NoticeCancel, AttemptFails, BeginPush,
     PushReturns, FetchEnds, NothingToFetch, DropToken, BeginFetch, OnlyWorker
<1>2. CASE AskCreate \/ GiveUpCreate \/ TryQuiesce \/ Resume \/ UNCHANGED vars
  BY <1>2 DEF AskCreate, GiveUpCreate, TryQuiesce, Resume, vars
<1>3. ASSUME NEW j \in Job, CancelToken(j) \/ RetryDue(j) \/ Expires(j)
      PROVE  UNCHANGED <<jobs, disk, failed>>
  BY <1>3 DEF CancelToken, RetryDue, Expires
<1>4. ASSUME NEW w \in wire, PushArrives(w[1], w[2]) \/ PushLost(w[1], w[2])
      PROVE  UNCHANGED <<jobs, disk, failed>>
  BY <1>4 DEF PushArrives, PushLost, OnlyWorker
<1> QED
  BY <1>1, <1>2, <1>3, <1>4 DEF Next, UserStep, WorkerStep, AttemptStep, RequestStep

(* The worker moves by its own steps, a token, an arrival or a restart.    *)
LEMMA WorkerMoves ==
  ASSUME [Next]_vars
  PROVE  \/ UNCHANGED worker
         \/ AttemptStep \/ Scan \/ TakeBack \/ RecordFile \/ Settle \/ Restart
         \/ \E j \in Job : CancelToken(j)
         \/ \E w \in wire : PushArrives(w[1], w[2])
<1>1. CASE AskCreate \/ GiveUpCreate \/ TryQuiesce \/ Resume \/ UNCHANGED vars
  BY <1>1 DEF AskCreate, GiveUpCreate, TryQuiesce, Resume, vars
<1>2. ASSUME NEW j \in Job, RequestStep(j) \/ RetryDue(j) \/ Expires(j) PROVE UNCHANGED worker
  BY <1>2, RequestPersists DEF RequestStep, RetryDue, Expires
<1>3. ASSUME NEW w \in wire, PushLost(w[1], w[2]) PROVE UNCHANGED worker
  BY <1>3 DEF PushLost
<1> QED
  BY <1>1, <1>2, <1>3 DEF Next, UserStep, WorkerStep, AttemptStep, RequestStep

(* What a step of an attempt leaves alone.                                 *)
LEMMA AttemptLeaves ==
  ASSUME AttemptStep
  PROVE  UNCHANGED <<jobs, disk, failed, asking, cancelling, closed, late, due, used, delivered,
                     recorded, stopped>>
BY DEF AttemptStep, Enter, CheckStale, ExpiryFires, NoticeCancel, AttemptFails, BeginPush,
   PushReturns, FetchEnds, NothingToFetch, DropToken, BeginFetch, OnlyWorker, requests, history

(* A step of an attempt stays with its job.                                *)
LEMMA AttemptStays ==
  ASSUME TypeOK, AttemptStep
  PROVE  /\ worker'.job = worker.job /\ worker'.generation = worker.generation
         /\ worker'.kept = worker.kept
         /\ worker'.phase # "idle" /\ worker.phase # "idle"
<1>0. worker \in WorkerType
  BY DEF TypeOK
<1>1. CASE Enter \/ CheckStale \/ ExpiryFires
  BY <1>0, <1>1 DEF Enter, CheckStale, ExpiryFires, WorkerType, Attempting
<1>2. CASE NoticeCancel \/ AttemptFails \/ PushReturns \/ NothingToFetch
  <2>1. \E o : worker' = [worker EXCEPT !.phase = "ended", !.outcome = o]
    BY <1>2 DEF NoticeCancel, AttemptFails, PushReturns, NothingToFetch, End
  <2>2. worker.phase # "idle"
    BY <1>2 DEF NoticeCancel, AttemptFails, PushReturns, NothingToFetch
  <2> QED
    BY <1>0, <2>1, <2>2 DEF WorkerType
<1>3. CASE BeginPush \/ FetchEnds \/ DropToken
  BY <1>0, <1>3 DEF BeginPush, FetchEnds, DropToken, WorkerType
<1>4. ASSUME NEW f \in File, BeginFetch(f)
      PROVE  /\ worker'.job = worker.job /\ worker'.generation = worker.generation
             /\ worker'.kept = worker.kept
             /\ worker'.phase # "idle" /\ worker.phase # "idle"
  BY <1>0, <1>4 DEF BeginFetch, WorkerType
<1> QED
  BY <1>1, <1>2, <1>3, <1>4 DEF AttemptStep

(* So does every other step while the attempt goes on.                     *)
LEMMA AttemptGoesOn ==
  ASSUME TypeOK,
         \/ AttemptStep \/ RecordFile
         \/ \E j \in Job : CancelToken(j)
         \/ \E w \in wire : PushArrives(w[1], w[2])
  PROVE  /\ worker'.job = worker.job /\ worker'.generation = worker.generation
         /\ (worker'.phase = "idle") <=> (worker.phase = "idle")
         /\ RecordFile \/ worker'.kept = worker.kept
<1>0. worker \in WorkerType
  BY DEF TypeOK
<1>1. CASE RecordFile
  BY <1>0, <1>1 DEF RecordFile, End, WorkerType
<1>2. ASSUME NEW j \in Job, CancelToken(j)
      PROVE  /\ worker'.job = worker.job /\ worker'.generation = worker.generation
             /\ (worker'.phase = "idle") <=> (worker.phase = "idle")
             /\ worker'.kept = worker.kept
  BY <1>0, <1>2 DEF CancelToken, WorkerType
<1>3. ASSUME NEW w \in wire, PushArrives(w[1], w[2])
      PROVE  /\ worker'.job = worker.job /\ worker'.generation = worker.generation
             /\ (worker'.phase = "idle") <=> (worker.phase = "idle")
             /\ worker'.kept = worker.kept
  BY <1>0, <1>3 DEF PushArrives, WorkerType
<1> QED
  BY <1>1, <1>2, <1>3, AttemptStays

(* An attempt ends well only with an answer or all files.                  *)
LEMMA AttemptEnds ==
  ASSUME TypeOK, NoticeCancel \/ AttemptFails \/ PushReturns \/ NothingToFetch
  PROVE  /\ worker'.phase = "ended" /\ worker'.cancelled = worker.cancelled
         /\ worker'.outcome = "done" =>
              \/ worker.phase = "answered"
              \/ worker.job \notin Sends /\ worker.kept = File
<1>1. PICK o \in {"retry", "failed", "done"} :
        /\ worker' = [worker EXCEPT !.phase = "ended", !.outcome = o]
        /\ o = "done" => PushReturns \/ NothingToFetch
  BY DEF NoticeCancel, AttemptFails, PushReturns, NothingToFetch, Failures, End
<1>2. /\ worker'.phase = "ended" /\ worker'.cancelled = worker.cancelled
      /\ worker'.outcome = o
  BY <1>1 DEF TypeOK, WorkerType
<1> QED
  BY <1>1, <1>2 DEF PushReturns, NothingToFetch

(* The file is left alone, or has the list, and else the queue is disabled.*)
LEMMA DiskFollows ==
  ASSUME TypeOK, [Next]_vars
  PROVE  \/ UNCHANGED <<jobs, disk, failed>>
         \/ disk' = jobs'
         \/ disk' = disk /\ failed'
<1>1. ASSUME NEW j \in Job, RequestStep(j)
      PROVE  disk' = jobs' \/ (disk' = disk /\ failed')
  BY <1>1, RequestPersists DEF RequestStep, Persisted, NotPersisted
<1>2. CASE Scan
  BY <1>2 DEF Scan, Persisted, NotPersisted
<1>3. CASE TakeBack \/ RecordFile \/ Settle
  BY <1>3 DEF TakeBack, RecordFile, Settle, Store, Persisted, NotPersisted
<1>4. CASE Restart
  BY <1>4, RestartChanges
<1> QED
  BY <1>1, <1>2, <1>3, <1>4, ListSteps

-----------------------------------------------------------------------------
(* The inductive invariant *)

(* Memory and file agree as long as the file can be written.               *)
Synced == ~failed => disk = jobs

(* What is running is what the worker is at.                               *)
AtWork ==
  \A j \in Job : jobs[j].status = "running" =>
    worker.phase # "idle" /\ worker.job = j /\ jobs[j].generation = worker.generation

(* An attempt that may still begin something has its job, or a cancel that *)
(* has not reached the token yet.                                          *)
Attempted ==
  worker.phase \in Attempting /\ (worker.phase = "running" => ~worker.cancelled) =>
    jobs[worker.job].status = "cancelled" \/ Own

(* No job comes back once it has been removed.                             *)
Listed ==
  /\ \A j \in Job : jobs[j].status # "none" \/ disk[j].status # "none" => j \in used
  /\ worker.phase # "idle" => worker.job \in used
  /\ \A j \in Job, f \in File : <<j, f>> \in recorded => j \in used

Halted(js, j) == js[j].status \in {"none", "cancelled"}

(* A cancelled job is cancelled in the file, too, and, once that has been  *)
(* answered, at the token.                                                 *)
Halting ==
  /\ \A j \in Job : jobs[j].status = "cancelled" => disk[j].status = "cancelled"
  /\ \A j \in stopped :
       /\ j \in used /\ Halted(jobs, j) /\ Halted(disk, j)
       /\ worker.job = j /\ worker.phase \in Attempting => worker.cancelled

Keeps(js) ==
  \A j \in Job, f \in File :
    <<j, f>> \in recorded /\ js[j].status # "none" => f \in js[j].files

(* What was recorded is known to memory, file and worker, and the worker   *)
(* knows nothing that was not.                                             *)
Kept ==
  /\ Keeps(jobs) /\ Keeps(disk)
  /\ worker.phase # "idle" =>
       /\ \A f \in File : <<worker.job, f>> \in recorded => f \in worker.kept
       /\ jobs[worker.job].status # "none" => worker.kept \subseteq jobs[worker.job].files

Truthful(js) ==
  \A j \in Job : js[j].status = "completed" =>
    IF j \in Sends THEN j \in delivered ELSE js[j].files = File

(* A completed job in memory or file is one; and so is one whose attempt   *)
(* has ended well.                                                         *)
Earned ==
  /\ Truthful(jobs) /\ Truthful(disk)
  /\ worker.phase \in {"pushing", "answered"} => worker.job \in Sends
  /\ worker.phase \in {"fetching", "saved"} => worker.job \notin Sends
  /\ worker.phase = "answered" => worker.job \in delivered
  /\ worker.phase \in {"ended", "settling"} /\ worker.outcome = "done" =>
       IF worker.job \in Sends THEN worker.job \in delivered ELSE worker.kept = File

Alone == UpdateIsAlone /\ IsFiniteSet(cancelling)

-----------------------------------------------------------------------------
(* Every step keeps it *)

(* A file that is being fetched is one.                                    *)
LEMMA StepFetching == TypeOK /\ Fetching /\ [Next]_vars => Fetching'
<1> SUFFICES ASSUME TypeOK, Fetching, [Next]_vars PROVE Fetching'
  OBVIOUS
<1>0. worker \in WorkerType
  BY DEF TypeOK
<1>1. CASE AttemptStep
  <2>1. CASE Enter \/ CheckStale \/ ExpiryFires \/ BeginPush \/ FetchEnds \/ DropToken
    BY <1>0, <2>1 DEF Enter, CheckStale, ExpiryFires, BeginPush, FetchEnds, DropToken, Fetching,
       WorkerType
  <2>2. CASE NoticeCancel \/ AttemptFails \/ PushReturns \/ NothingToFetch
    BY <2>2, AttemptEnds DEF Fetching
  <2>3. ASSUME NEW f \in File, BeginFetch(f) PROVE Fetching'
    BY <1>0, <2>3 DEF BeginFetch, Fetching, WorkerType
  <2> QED
    BY <1>1, <2>1, <2>2, <2>3 DEF AttemptStep
<1>2. CASE Scan
  BY <1>2, ScanChanges, WorkerFields DEF Fetching, TypeOK
<1>3. CASE TakeBack \/ Settle \/ Restart
  BY <1>3, TakeBackChanges, SettleChanges, RestartChanges, WorkerFields DEF Fetching
<1>4. CASE RecordFile
  BY <1>0, <1>4 DEF RecordFile, End, Fetching, WorkerType
<1>5. ASSUME NEW j \in Job, CancelToken(j) PROVE Fetching'
  BY <1>0, <1>5 DEF CancelToken, Fetching, WorkerType
<1>6. ASSUME NEW w \in wire, PushArrives(w[1], w[2]) PROVE Fetching'
  BY <1>0, <1>6 DEF PushArrives, Fetching, WorkerType
<1> QED
  BY <1>1, <1>2, <1>3, <1>4, <1>5, <1>6, WorkerMoves DEF Fetching

(* A write that fails disables the queue.                                  *)
LEMMA StepSynced == TypeOK /\ Synced /\ [Next]_vars => Synced'
BY DiskFollows DEF Synced

(* Nothing runs for nobody.                                                *)
LEMMA StepAtWork ==
  TypeOK /\ Fetching /\ AtWork /\ [Next]_vars => AtWork'
<1> SUFFICES ASSUME TypeOK, Fetching, AtWork, [Next]_vars,
                    NEW k \in Job, jobs'[k].status = "running"
             PROVE  worker'.phase # "idle" /\ worker'.job = k
                    /\ jobs'[k].generation = worker'.generation
  BY DEF AtWork
<1>1. CASE UNCHANGED jobs /\ ~Scan /\ ~TakeBack /\ ~Settle /\ ~Restart
  <2>1. worker.phase # "idle" /\ worker.job = k /\ jobs[k].generation = worker.generation
    BY <1>1 DEF AtWork
  <2>2. /\ worker'.job = worker.job /\ worker'.generation = worker.generation
        /\ (worker'.phase = "idle") <=> (worker.phase = "idle")
    BY <1>1, WorkerMoves, AttemptGoesOn
  <2> QED
    BY <1>1, <2>1, <2>2
<1>2. ASSUME NEW j \in Job, RequestStep(j), ~UNCHANGED jobs
      PROVE  worker'.phase # "idle" /\ worker'.job = k
             /\ jobs'[k].generation = worker'.generation
  <2>1. jobs'[j].status \in {"queued", "cancelled", "none"}
        /\ \A i \in Job \ {j} : jobs'[i] = jobs[i]
    BY <1>2, CreateChanges, CancelChanges, RetryChanges, RemoveChanges DEF RequestStep, Changed
  <2>2. k # j /\ jobs'[k] = jobs[k]
    BY <2>1
  <2> QED
    BY <1>2, <2>2, RequestPersists DEF RequestStep, AtWork
<1>3. CASE Scan
  <2>1. worker.phase = "idle" /\ jobs[k].status # "running"
    BY <1>3 DEF Scan, AtWork
  <2>2. Aged(jobs)[k].status # "running"
    BY <2>1, AgedJobs DEF TypeOK
  <2> QED
    BY <1>3, <2>2, ScanChanges, WorkerFields DEF TypeOK
<1>4. CASE TakeBack
  <2>1. k # worker.job => jobs'[k] = jobs[k]
    BY <1>4, TakeBackChanges DEF Changed
  <2>2. k # worker.job
    BY <1>4, TakeBackChanges DEF Changed
  <2> QED
    BY <2>1, <2>2 DEF AtWork
<1>5. CASE Settle
  <2>1. k # worker.job => jobs'[k] = jobs[k]
    BY <1>5, SettleChanges DEF Changed
  <2>2. k # worker.job
    BY <1>5, SettleChanges DEF Changed, AtWork, Own
  <2> QED
    BY <2>1, <2>2 DEF AtWork
<1>6. CASE RecordFile
  <2>1. /\ jobs'[k].status = jobs[k].status /\ jobs'[k].generation = jobs[k].generation
    BY <1>6, RecordChanges DEF Changed, RecordFile, Fetching
  <2> QED
    BY <1>6, <2>1, AttemptGoesOn DEF AtWork
<1>7. CASE Restart
  BY <1>7, RestartChanges, RecoveredJob, JobFields DEF TypeOK
<1> QED
  BY <1>1, <1>2, <1>3, <1>4, <1>5, <1>6, <1>7, ListSteps

(* An attempt goes on only with its job.                                   *)
LEMMA StepAttempted ==
  TypeOK /\ Fetching /\ Listed /\ Attempted /\ [Next]_vars => Attempted'
<1> SUFFICES ASSUME TypeOK, Fetching, Listed, Attempted, [Next]_vars,
                    worker'.phase \in Attempting,
                    worker'.phase = "running" => ~worker'.cancelled
             PROVE  jobs'[worker'.job].status = "cancelled" \/ Own'
  BY DEF Attempted
<1>0. worker \in WorkerType
  BY DEF TypeOK
<1>1. CASE AttemptStep \/ (\E w \in wire : PushArrives(w[1], w[2]))
  <2>1. jobs' = jobs /\ worker'.job = worker.job /\ worker'.generation = worker.generation
    BY <1>1, AttemptLeaves, AttemptGoesOn DEF PushArrives
  <2>2. CASE CheckStale
    BY <1>0, <2>1, <2>2 DEF CheckStale, Stale, Own, WorkerType
  <2>3. CASE Enter \/ DropToken
    BY <1>0, <2>3 DEF Enter, DropToken, WorkerType, Attempting
  <2>4. CASE NoticeCancel \/ AttemptFails \/ PushReturns \/ NothingToFetch
    BY <2>4, AttemptEnds DEF Attempting
  <2>5. CASE ExpiryFires
    BY <1>0, <2>1, <2>5 DEF ExpiryFires, WorkerType, Attempting, Attempted, Own
  <2>8. CASE BeginPush \/ FetchEnds
    <3>1. worker.phase \in Attempting /\ (worker.phase = "running" => ~worker.cancelled)
      BY <2>8 DEF BeginPush, FetchEnds, Attempting
    <3> QED
      BY <2>1, <3>1 DEF Attempted, Own
  <2>6. ASSUME NEW f \in File, BeginFetch(f)
        PROVE  jobs'[worker'.job].status = "cancelled" \/ Own'
    BY <1>0, <2>1, <2>6 DEF BeginFetch, WorkerType, Attempting, Attempted, Own
  <2>7. ASSUME NEW w \in wire, PushArrives(w[1], w[2])
        PROVE  jobs'[worker'.job].status = "cancelled" \/ Own'
    BY <1>0, <2>1, <2>7 DEF PushArrives, WorkerType, Attempting, Attempted, Own
  <2> QED
    BY <1>1, <2>2, <2>3, <2>4, <2>5, <2>6, <2>7, <2>8 DEF AttemptStep
<1>2. ASSUME NEW j \in Job, CancelToken(j)
      PROVE  jobs'[worker'.job].status = "cancelled" \/ Own'
  <2>1. /\ jobs' = jobs /\ worker'.job = worker.job /\ worker'.generation = worker.generation
        /\ worker'.phase = worker.phase /\ (worker.cancelled => worker'.cancelled)
    BY <1>0, <1>2 DEF CancelToken, WorkerType
  <2> QED
    BY <2>1 DEF Attempted, Own
<1>3. CASE Scan \/ TakeBack \/ Settle \/ Restart
  <2>1. worker'.phase \in {"idle", "claimed"}
    BY <1>3, ScanChanges, TakeBackChanges, SettleChanges, RestartChanges, WorkerFields
       DEF TypeOK, Scan
  <2> QED
    BY <2>1 DEF Attempting
<1>4. CASE RecordFile
  <2>1. /\ worker.job \in Job /\ jobs'[worker.job].status = jobs[worker.job].status
        /\ jobs'[worker.job].generation = jobs[worker.job].generation
    BY <1>4, RecordChanges DEF Changed, RecordFile, Fetching
  <2>2. jobs[worker.job].status = "cancelled" \/ Own
    BY <1>4 DEF RecordFile, Attempted, Attempting
  <2> QED
    BY <1>4, <2>1, <2>2, AttemptGoesOn DEF Own
<1>5. ASSUME NEW j \in Job, RequestStep(j)
      PROVE  jobs'[worker'.job].status = "cancelled" \/ Own'
  <2>1. worker' = worker /\ worker.job \in Job
    BY <1>5, RequestPersists DEF RequestStep, Attempting, TypeOK
  <2>2. jobs[worker.job].status = "cancelled" \/ Own
    BY <2>1 DEF Attempted
  <2>3. CASE j # worker.job \/ UNCHANGED jobs
    <3>1. jobs'[worker.job] = jobs[worker.job]
      BY <1>5, <2>1, <2>3, CreateChanges, CancelChanges, RetryChanges, RemoveChanges
         DEF RequestStep, Changed
    <3> QED
      BY <2>1, <2>2, <3>1 DEF Own
  <2>4. CASE j = worker.job /\ ~UNCHANGED jobs
    <3>1. Cancel(j)
      <4>1. HasToken(j) /\ j \in used
        BY <2>1, <2>4, <2>2 DEF HasToken, Listed, Own
      <4> QED
        BY <1>5, <4>1 DEF RequestStep, Create, Retry, Remove, StillStopping
    <3> QED
      BY <2>1, <2>4, <3>1, CancelChanges DEF Changed
  <2> QED
    BY <2>3, <2>4
<1>6. CASE UNCHANGED <<jobs, worker>>
  BY <1>6 DEF Attempted, Own
<1> QED
  BY <1>1, <1>2, <1>3, <1>4, <1>5, <1>6, WorkerMoves, ListSteps

(* Jobs, once created, stay used up.                                       *)
LEMMA UsedGrows ==
  ASSUME [Next]_vars PROVE used \subseteq used'
<1>1. ASSUME NEW j \in Job, RequestStep(j) PROVE used \subseteq used'
  BY <1>1 DEF RequestStep, Create, Cancel, Retry, Remove, Refused, requests
<1>2. CASE Scan \/ TakeBack \/ RecordFile \/ Settle \/ Restart \/ AttemptStep
  BY <1>2, AttemptLeaves DEF Scan, TakeBack, RecordFile, Settle, Restart, history
<1>3. CASE AskCreate \/ GiveUpCreate \/ TryQuiesce \/ Resume \/ UNCHANGED vars
  BY <1>3 DEF AskCreate, GiveUpCreate, TryQuiesce, Resume, vars, history
<1>4. ASSUME NEW j \in Job, CancelToken(j) \/ RetryDue(j) \/ Expires(j) PROVE used \subseteq used'
  BY <1>4 DEF CancelToken, RetryDue, Expires, history
<1>5. ASSUME NEW w \in wire, PushArrives(w[1], w[2]) \/ PushLost(w[1], w[2])
      PROVE  used \subseteq used'
  BY <1>5 DEF PushArrives, PushLost, OnlyWorker, history
<1> QED
  BY <1>1, <1>2, <1>3, <1>4, <1>5 DEF Next, UserStep, WorkerStep, AttemptStep, RequestStep

(* What is recorded is a file that the worker has just saved.              *)
LEMMA RecordedSteps ==
  ASSUME [Next]_vars
  PROVE  \/ recorded' = recorded
         \/ /\ RecordFile /\ disk' = jobs'
            /\ recorded' = recorded \cup {<<worker.job, worker.file>>}
<1>1. ASSUME NEW j \in Job, RequestStep(j) PROVE recorded' = recorded
  BY <1>1, RequestPersists DEF RequestStep
<1>2. CASE Scan \/ TakeBack \/ Settle \/ Restart \/ AttemptStep
  BY <1>2, AttemptLeaves DEF Scan, TakeBack, Settle, Restart, history
<1>3. CASE AskCreate \/ GiveUpCreate \/ TryQuiesce \/ Resume \/ UNCHANGED vars
  BY <1>3 DEF AskCreate, GiveUpCreate, TryQuiesce, Resume, vars, history
<1>4. ASSUME NEW j \in Job, CancelToken(j) \/ RetryDue(j) \/ Expires(j)
      PROVE  recorded' = recorded
  BY <1>4 DEF CancelToken, RetryDue, Expires, history
<1>5. ASSUME NEW w \in wire, PushArrives(w[1], w[2]) \/ PushLost(w[1], w[2])
      PROVE  recorded' = recorded
  BY <1>5 DEF PushArrives, PushLost, OnlyWorker, history
<1>6. CASE RecordFile
  BY <1>6 DEF RecordFile, Persisted
<1> QED
  BY <1>1, <1>2, <1>3, <1>4, <1>5, <1>6 DEF Next, UserStep, WorkerStep, AttemptStep, RequestStep

(* Only the answer to a cancel makes a job count as stopped.               *)
LEMMA StoppedSteps ==
  ASSUME [Next]_vars
  PROVE  \/ stopped' \subseteq stopped
         \/ \E j \in Job : /\ CancelToken(j) /\ jobs[j].status = "cancelled"
                          /\ stopped' = stopped \cup {j}
<1>1. ASSUME NEW j \in Job, RequestStep(j) PROVE stopped' \subseteq stopped
  BY <1>1 DEF RequestStep, Create, Cancel, Retry, Remove, Refused
<1>2. CASE Scan \/ TakeBack \/ RecordFile \/ Settle \/ Restart \/ AttemptStep
  BY <1>2, AttemptLeaves DEF Scan, TakeBack, RecordFile, Settle, Restart, history
<1>3. CASE AskCreate \/ GiveUpCreate \/ TryQuiesce \/ Resume \/ UNCHANGED vars
  BY <1>3 DEF AskCreate, GiveUpCreate, TryQuiesce, Resume, vars, history
<1>4. ASSUME NEW j \in Job, RetryDue(j) \/ Expires(j) PROVE stopped' = stopped
  BY <1>4 DEF RetryDue, Expires, history
<1>5. ASSUME NEW j \in Job, CancelToken(j)
      PROVE  stopped' = stopped \/ (jobs[j].status = "cancelled" /\ stopped' = stopped \cup {j})
  BY <1>5 DEF CancelToken
<1>6. ASSUME NEW w \in wire, PushArrives(w[1], w[2]) \/ PushLost(w[1], w[2])
      PROVE  stopped' = stopped
  BY <1>6 DEF PushArrives, PushLost, OnlyWorker, history
<1> QED
  BY <1>1, <1>2, <1>3, <1>4, <1>5, <1>6 DEF Next, UserStep, WorkerStep, AttemptStep, RequestStep

(* Everything that can become of a job, but by a restart.                  *)
Fate(k) ==
  \/ jobs'[k] = jobs[k]
  \/ /\ k \notin used /\ k \in used' /\ jobs'[k].status = "queued"
     /\ disk' = jobs' /\ UNCHANGED <<stopped, recorded, worker>>
  \/ /\ jobs[k].status \in Active /\ jobs'[k].status = "cancelled"
     /\ jobs'[k].files = jobs[k].files /\ disk' = jobs' /\ UNCHANGED recorded
  \/ /\ jobs[k].status \in {"failed", "cancelled", "paused", "waiting"}
     /\ jobs'[k].status = "queued" /\ jobs'[k].generation = jobs[k].generation + 1
     /\ jobs'[k].files = jobs[k].files /\ k \notin stopped' /\ UNCHANGED recorded
  \/ jobs'[k].status = "none" /\ UNCHANGED <<stopped, recorded>>
  \/ /\ jobs[k].status \in Active /\ jobs'[k].files = jobs[k].files
     /\ jobs'[k].status \in {"expired", "running", "queued", "waiting", "failed", "completed"}
     /\ jobs'[k].status = "completed" =>
          worker.job = k /\ worker.phase = "settling" /\ worker.outcome = "done"
     /\ UNCHANGED <<stopped, recorded>>
  \/ /\ RecordFile /\ k = worker.job /\ jobs'[k].status = jobs[k].status
     /\ jobs'[k].files = jobs[k].files \cup {worker.file}

(* Nothing else becomes of a job in a step.                                *)
LEMMA Fates ==
  ASSUME TypeOK, Fetching, [Next]_vars, ~Restart, NEW k \in Job PROVE Fate(k)
<1>1. ASSUME NEW j \in Job, RequestStep(j) PROVE Fate(k)
  <2>1. CASE j # k \/ UNCHANGED jobs
    BY <1>1, <2>1, CreateChanges, CancelChanges, RetryChanges, RemoveChanges
       DEF RequestStep, Changed, Fate
  <2>2. CASE Create(k) /\ ~UNCHANGED jobs
    BY <2>2, CreateChanges DEF Create, Refused, Persisted, Changed, Fate
  <2>3. CASE Cancel(k) /\ ~UNCHANGED jobs
    BY <2>3, CancelChanges DEF Cancel, Refused, Persisted, Changed, Fate
  <2>4. CASE Retry(k) /\ ~UNCHANGED jobs
    BY <2>4, RetryChanges DEF Retry, Refused, Changed, Fate
  <2>5. CASE Remove(k) /\ ~UNCHANGED jobs
    BY <2>5, RemoveChanges DEF Remove, Refused, Changed, Fate
  <2> QED
    BY <1>1, <2>1, <2>2, <2>3, <2>4, <2>5 DEF RequestStep
<1>2. CASE Scan
  <2>1. UNCHANGED <<stopped, recorded>>
    BY <1>2 DEF Scan, history
  <2>2. /\ Aged(jobs)[k].files = jobs[k].files
        /\ \/ Aged(jobs)[k] = jobs[k]
           \/ Aged(jobs)[k].status = "expired" /\ jobs[k].status \in Active
    BY AgedJobs DEF TypeOK
  <2>3. CASE jobs'[k] = Aged(jobs)[k]
    BY <2>1, <2>2, <2>3 DEF Fate
  <2>4. CASE /\ jobs[k].status \in {"queued", "waiting"} /\ jobs'[k].status = "running"
             /\ jobs'[k].files = jobs[k].files
    BY <2>1, <2>4 DEF Fate, Active
  <2> QED
    BY <1>2, <2>3, <2>4, ScanChanges
<1>3. CASE TakeBack
  <2>1. UNCHANGED <<stopped, recorded>>
    BY <1>3 DEF TakeBack, history
  <2> QED
    BY <1>3, <2>1, TakeBackChanges DEF Changed, Fate, Active
<1>4. CASE Settle
  <2>1. UNCHANGED <<stopped, recorded>>
    BY <1>4 DEF Settle, history
  <2>2. CASE k # worker.job \/ UNCHANGED jobs
    BY <1>4, <2>2, SettleChanges DEF Changed, Fate
  <2>3. CASE k = worker.job /\ ~UNCHANGED jobs
    <3>1. PICK s \in {"completed", "waiting", "failed", "expired"} :
            /\ Own /\ jobs'[k].status = s /\ jobs'[k].files = jobs[k].files
            /\ s = "completed" => worker.outcome = "done"
      BY <1>4, <2>3, SettleChanges DEF Changed
    <3>2. jobs[k].status \in Active /\ worker.phase = "settling"
      BY <1>4, <2>3, <3>1 DEF Own, Active, Settle
    <3> QED
      BY <2>1, <2>3, <3>1, <3>2 DEF Fate
  <2> QED
    BY <2>2, <2>3
<1>5. CASE RecordFile
  BY <1>5, RecordChanges DEF RecordFile, Fetching, Changed, Fate
<1>6. CASE UNCHANGED jobs
  BY <1>6 DEF Fate
<1> QED
  BY <1>1, <1>2, <1>3, <1>4, <1>5, <1>6, ListSteps

(* Removed jobs are not created again.                                     *)
LEMMA StepListed ==
  TypeOK /\ Fetching /\ Attempted /\ Listed /\ [Next]_vars => Listed'
<1> SUFFICES ASSUME TypeOK, Fetching, Attempted, Listed, [Next]_vars PROVE Listed'
  OBVIOUS
<1>0. used \subseteq used'
  BY UsedGrows
<1>1. ASSUME NEW k \in Job, jobs'[k].status # "none" PROVE k \in used'
  <2>1. CASE Restart
    <3>1. disk[k].status # "none"
      BY <1>1, <2>1, RestartChanges, RecoveredJob, JobFields DEF TypeOK
    <3> QED
      BY <1>0, <3>1 DEF Listed
  <2>2. CASE ~Restart
    <3>1. k \in used' \/ jobs[k].status # "none"
      BY <1>1, <2>2, Fates DEF Fate, Active
    <3> QED
      BY <1>0, <3>1 DEF Listed
  <2> QED
    BY <2>1, <2>2
<1>2. ASSUME NEW k \in Job, disk'[k].status # "none" PROVE k \in used'
  BY <1>0, <1>1, <1>2, DiskFollows DEF Listed
<1>3. worker'.phase # "idle" => worker'.job \in used'
  <2>1. CASE Scan
    <3>1. CASE worker' = worker
      BY <2>1, <3>1 DEF Scan
    <3>2. ASSUME NEW j \in Job, jobs[j].status \in {"queued", "waiting"}, worker' = Attempt(j)
          PROVE  worker'.job \in used'
      <4>1. j \in used /\ jobs[j] \in JobType
        BY <3>2 DEF Listed, TypeOK
      <4> QED
        BY <1>0, <3>2, <4>1, WorkerFields
    <3> QED
      BY <2>1, <3>1, <3>2, ScanChanges
  <2>2. CASE ~Scan
    <3>1. CASE TakeBack \/ Settle \/ Restart
      BY <3>1, TakeBackChanges, SettleChanges, RestartChanges, WorkerFields
    <3>2. CASE ~(TakeBack \/ Settle \/ Restart)
      <4>1. /\ worker'.job = worker.job
            /\ (worker'.phase = "idle") <=> (worker.phase = "idle")
        BY <2>2, <3>2, WorkerMoves, AttemptGoesOn
      <4> QED
        BY <1>0, <4>1 DEF Listed
    <3> QED
      BY <3>1, <3>2
  <2> QED
    BY <2>1, <2>2
<1>4. recorded' = recorded \/ (RecordFile /\ recorded' = recorded \cup {<<worker.job, worker.file>>})
  BY RecordedSteps
<1>5. RecordFile => worker.job \in used
  BY DEF RecordFile, Listed
<1> QED
  BY <1>0, <1>1, <1>2, <1>3, <1>4, <1>5 DEF Listed

(* A cancelled job starts nothing.                                         *)
LEMMA StepHalting ==
  TypeOK /\ Fetching /\ Listed /\ Halting /\ [Next]_vars => Halting'
<1> SUFFICES ASSUME TypeOK, Fetching, Listed, Halting, [Next]_vars PROVE Halting'
  OBVIOUS
<1>0. worker \in WorkerType
  BY DEF TypeOK
<1>1. ASSUME NEW k \in Job, jobs'[k].status = "cancelled" PROVE disk'[k].status = "cancelled"
  <2>1. CASE Restart
    BY <1>1, <2>1, RestartChanges, RecoveredJob, JobFields DEF TypeOK
  <2>2. CASE ~Restart
    BY <1>1, <2>2, Fates, DiskFollows DEF Fate, Halting
  <2> QED
    BY <2>1, <2>2
<1>2. stopped' \subseteq stopped
      \/ \E j \in Job : CancelToken(j) /\ jobs[j].status = "cancelled" /\ stopped' = stopped \cup {j}
  BY StoppedSteps
<1>3. ASSUME NEW k \in stopped' PROVE k \in used' /\ Halted(jobs, k)' /\ Halted(disk, k)'
  <2>1. CASE k \in stopped
    <3>0. k \in Job /\ k \in used /\ Halted(jobs, k) /\ Halted(disk, k) /\ k \in used'
      BY <2>1, UsedGrows DEF Halting, TypeOK
    <3>1. Halted(jobs, k)'
      <4>1. CASE Restart
        BY <3>0, <4>1, RestartChanges, RecoveredJob, JobFields DEF Halted, TypeOK
      <4>2. CASE ~Restart
        BY <1>3, <3>0, <4>2, Fates DEF Fate, Halted, Active, RecordFile
      <4> QED
        BY <4>1, <4>2
    <3> QED
      BY <3>0, <3>1, DiskFollows DEF Halted
  <2>2. CASE k \notin stopped
    <3>1. jobs[k].status = "cancelled" /\ UNCHANGED <<jobs, disk, used>> /\ k \in Job
      BY <1>2, <1>3, <2>2 DEF CancelToken
    <3> QED
      BY <3>1 DEF Halting, Halted, Listed
  <2> QED
    BY <2>1, <2>2
<1>4. ASSUME NEW k \in stopped', worker'.job = k, worker'.phase \in Attempting
      PROVE  worker'.cancelled
  <2>1. CASE \E j \in Job : CancelToken(j)
    <3>1. PICK j \in Job : CancelToken(j)
      BY <2>1
    <3>2. /\ worker.phase = worker'.phase /\ worker.job = k
          /\ k = j => worker'.cancelled
          /\ worker.cancelled => worker'.cancelled
      BY <1>0, <1>4, <3>1 DEF CancelToken, HasToken, WorkerType
    <3>3. k # j => k \in stopped
      BY <1>4, <3>1 DEF CancelToken
    <3> QED
      BY <1>4, <3>2, <3>3 DEF Halting
  <2>2. CASE k \in stopped /\ AttemptStep
    <3>1. worker.job = k /\ jobs[k].status # "running"
      BY <1>4, <2>2, AttemptGoesOn DEF Halting, Halted
    <3>2. CASE CheckStale
      BY <1>0, <3>1, <3>2 DEF CheckStale, Stale, WorkerType
    <3>3. CASE Enter \/ DropToken
      BY <1>0, <1>4, <3>3 DEF Enter, DropToken, WorkerType, Attempting
    <3>4. CASE NoticeCancel \/ AttemptFails \/ PushReturns \/ NothingToFetch
      BY <1>4, <3>4, AttemptEnds DEF Attempting
    <3>5. CASE ExpiryFires
      BY <1>0, <3>5 DEF ExpiryFires, WorkerType
    <3>6. CASE BeginPush \/ FetchEnds \/ \E f \in File : BeginFetch(f)
      <4>1. worker.phase \in Attempting
        BY <3>6 DEF BeginPush, FetchEnds, BeginFetch, Attempting
      <4>2. worker'.cancelled = worker.cancelled
        BY <1>0, <3>6 DEF BeginPush, FetchEnds, BeginFetch, WorkerType
      <4> QED
        BY <2>2, <3>1, <4>1, <4>2 DEF Halting
    <3> QED
      BY <2>2, <3>2, <3>3, <3>4, <3>5, <3>6 DEF AttemptStep
  <2>3. CASE RecordFile
    <3>1. worker'.cancelled = worker.cancelled /\ worker.phase \in Attempting
      BY <1>0, <2>3 DEF RecordFile, End, WorkerType, Attempting
    <3>2. worker'.job = worker.job /\ stopped' = stopped
      BY <2>3, AttemptGoesOn DEF RecordFile
    <3> QED
      BY <1>4, <3>1, <3>2 DEF Halting
  <2>4. CASE Scan \/ TakeBack \/ Settle \/ Restart
    <3>1. worker'.phase \in {"idle", "claimed"}
      BY <2>4, ScanChanges, TakeBackChanges, SettleChanges, RestartChanges, WorkerFields
         DEF TypeOK, Scan
    <3> QED
      BY <1>4, <3>1 DEF Attempting
  <2>5. ASSUME NEW w \in wire, PushArrives(w[1], w[2]) PROVE worker'.cancelled
    <3>1. /\ worker'.cancelled = worker.cancelled /\ worker'.job = worker.job
          /\ worker.phase \in Attempting
      BY <1>0, <1>4, <2>5 DEF PushArrives, WorkerType, Attempting
    <3>2. stopped' = stopped
      BY <2>5 DEF PushArrives
    <3> QED
      BY <1>4, <3>1, <3>2 DEF Halting
  <2>6. CASE k \in stopped /\ UNCHANGED worker
    BY <1>4, <2>6 DEF Halting
  <2>7. k \in stopped \/ \E j \in Job : CancelToken(j)
    BY <1>2
  <2> QED
    BY <2>1, <2>2, <2>3, <2>4, <2>5, <2>6, <2>7, WorkerMoves
<1> QED
  BY <1>1, <1>3, <1>4 DEF Halting, Halted

(* Records are kept.                                                       *)
LEMMA StepKept ==
  TypeOK /\ Fetching /\ Attempted /\ Listed /\ Kept /\ [Next]_vars => Kept'
<1> SUFFICES ASSUME TypeOK, Fetching, Attempted, Listed, Kept, [Next]_vars PROVE Kept'
  OBVIOUS
<1>0. worker \in WorkerType
  BY DEF TypeOK
<1>1. Keeps(jobs)'
  <2> SUFFICES ASSUME NEW k \in Job, NEW f \in File, <<k, f>> \in recorded',
                      jobs'[k].status # "none"
               PROVE  f \in jobs'[k].files
    BY DEF Keeps
  <2>1. CASE Restart
    <3>1. <<k, f>> \in recorded /\ disk[k].status # "none" /\ jobs'[k].files = disk[k].files
      BY <2>1, RestartChanges, RecoveredJob, JobFields DEF Restart, history, TypeOK
    <3> QED
      BY <3>1 DEF Kept, Keeps
  <2>2. CASE ~Restart /\ <<k, f>> \in recorded
    <3>1. k \in used /\ (jobs[k].status # "none" => f \in jobs[k].files)
      BY <2>2 DEF Listed, Kept, Keeps
    <3> QED
      BY <2>2, <3>1, Fates DEF Fate, Active
  <2>3. CASE RecordFile /\ k = worker.job /\ f = worker.file
    BY <2>3, RecordChanges DEF Changed, Fetching, RecordFile
  <2>4. <<k, f>> \in recorded \/ (RecordFile /\ k = worker.job /\ f = worker.file)
    BY RecordedSteps
  <2>5. Restart => <<k, f>> \in recorded
    BY DEF Restart, history
  <2> QED
    BY <2>1, <2>2, <2>3, <2>4, <2>5
<1>2. Keeps(disk)'
  <2>1. CASE disk' = jobs'
    BY <1>1, <2>1 DEF Keeps
  <2>2. CASE disk' = disk /\ disk' # jobs'
    <3>1. recorded' = recorded
      BY <2>2, RecordedSteps
    <3> QED
      BY <2>2, <3>1 DEF Kept, Keeps
  <2> QED
    BY <2>1, <2>2, DiskFollows
<1>3. ASSUME worker'.phase # "idle"
      PROVE  /\ \A f \in File : <<worker'.job, f>> \in recorded' => f \in worker'.kept
             /\ jobs'[worker'.job].status # "none" =>
                  worker'.kept \subseteq jobs'[worker'.job].files
  <2>1. CASE Scan
    <3>1. CASE worker' = worker
      BY <1>3, <2>1, <3>1 DEF Scan
    <3>2. ASSUME NEW j \in Job, jobs[j].status \in {"queued", "waiting"}, worker' = Attempt(j),
                 jobs'[j].files = jobs[j].files
          PROVE  /\ \A f \in File : <<worker'.job, f>> \in recorded' => f \in worker'.kept
                 /\ worker'.kept \subseteq jobs'[worker'.job].files
      <4>1. worker'.job = j /\ worker'.kept = jobs[j].files
        BY <3>2, WorkerFields DEF TypeOK
      <4>2. recorded' = recorded
        BY <2>1 DEF Scan, history
      <4> QED
        BY <3>2, <4>1, <4>2 DEF Kept, Keeps
    <3> QED
      BY <2>1, <3>1, <3>2, ScanChanges
  <2>2. CASE RecordFile
    <3> DEFINE kept == worker.kept \cup {worker.file}
    <3>1. /\ worker.phase = "saved" /\ worker.job \in Job /\ worker'.job = worker.job
          /\ jobs[worker.job].status # "none"
      BY <2>2, AttemptGoesOn DEF RecordFile, Attempted, Attempting, Own, TypeOK
    <3>2. jobs'[worker.job].files = jobs[worker.job].files \cup {worker.file}
      BY <2>2, RecordChanges DEF Changed, RecordFile, Fetching
    <3>3. \/ worker'.kept = kept /\ recorded' = recorded \cup {<<worker.job, worker.file>>}
          \/ worker'.kept = worker.kept /\ recorded' = recorded
      BY <1>0, <2>2 DEF RecordFile, End, WorkerType
    <3> QED
      BY <3>1, <3>2, <3>3 DEF Kept
  <2>3. CASE TakeBack \/ Settle \/ Restart
    BY <1>3, <2>3, TakeBackChanges, SettleChanges, RestartChanges, WorkerFields
  <2>4. CASE ~(Scan \/ RecordFile \/ TakeBack \/ Settle \/ Restart)
    <3>1. worker'.job = worker.job /\ worker'.kept = worker.kept /\ worker.phase # "idle"
      BY <1>3, <2>4, WorkerMoves, AttemptGoesOn
    <3>2. recorded' = recorded /\ worker.job \in Job /\ worker.job \in used
      BY <2>4, <3>1, RecordedSteps DEF Listed, TypeOK
    <3>3. jobs'[worker.job].status # "none" =>
            jobs[worker.job].status # "none" /\ jobs'[worker.job].files = jobs[worker.job].files
      BY <2>4, <3>2, Fates DEF Fate, Active
    <3> QED
      BY <3>1, <3>2, <3>3 DEF Kept
  <2> QED
    BY <2>1, <2>2, <2>3, <2>4
<1> QED
  BY <1>1, <1>2, <1>3 DEF Kept

(* The peer does not lose what it was sent.                                *)
LEMMA DeliveredGrows ==
  ASSUME [Next]_vars PROVE delivered \subseteq delivered'
<1>1. ASSUME NEW j \in Job, RequestStep(j) PROVE delivered' = delivered
  BY <1>1, RequestPersists DEF RequestStep
<1>2. CASE Scan \/ TakeBack \/ RecordFile \/ Settle \/ Restart \/ AttemptStep
  BY <1>2, AttemptLeaves DEF Scan, TakeBack, RecordFile, Settle, Restart, history
<1>3. CASE AskCreate \/ GiveUpCreate \/ TryQuiesce \/ Resume \/ UNCHANGED vars
  BY <1>3 DEF AskCreate, GiveUpCreate, TryQuiesce, Resume, vars, history
<1>4. ASSUME NEW j \in Job, CancelToken(j) \/ RetryDue(j) \/ Expires(j)
      PROVE  delivered' = delivered
  BY <1>4 DEF CancelToken, RetryDue, Expires, history
<1>5. ASSUME NEW w \in wire, PushArrives(w[1], w[2]) \/ PushLost(w[1], w[2])
      PROVE  delivered \subseteq delivered'
  BY <1>5 DEF PushArrives, PushLost, OnlyWorker, history
<1> QED
  BY <1>1, <1>2, <1>3, <1>4, <1>5 DEF Next, UserStep, WorkerStep, AttemptStep, RequestStep

(* What the worker has earned so far.                                      *)
EarnedAtWork ==
  /\ worker.phase \in {"pushing", "answered"} => worker.job \in Sends
  /\ worker.phase \in {"fetching", "saved"} => worker.job \notin Sends
  /\ worker.phase = "answered" => worker.job \in delivered
  /\ worker.phase \in {"ended", "settling"} /\ worker.outcome = "done" =>
       IF worker.job \in Sends THEN worker.job \in delivered ELSE worker.kept = File

(* An attempt ends well only after its work is done.                       *)
LEMMA StepEarnedAtWork ==
  TypeOK /\ EarnedAtWork /\ [Next]_vars => EarnedAtWork'
<1> SUFFICES ASSUME TypeOK, EarnedAtWork, [Next]_vars PROVE EarnedAtWork'
  OBVIOUS
<1>0. worker \in WorkerType
  BY DEF TypeOK
<1>1. CASE AttemptStep
  <2>1. delivered' = delivered /\ worker'.job = worker.job /\ worker'.kept = worker.kept
    BY <1>1, AttemptLeaves, AttemptStays
  <2>2. CASE Enter \/ CheckStale
    BY <1>0, <2>2 DEF Enter, CheckStale, WorkerType, EarnedAtWork
  <2>3. CASE ExpiryFires
    BY <1>0, <2>1, <2>3 DEF ExpiryFires, WorkerType, EarnedAtWork
  <2>4. CASE BeginPush \/ FetchEnds
    BY <1>0, <2>1, <2>4 DEF BeginPush, FetchEnds, WorkerType, EarnedAtWork
  <2>5. CASE DropToken
    BY <1>0, <2>1, <2>5 DEF DropToken, WorkerType, EarnedAtWork
  <2>6. ASSUME NEW f \in File, BeginFetch(f) PROVE EarnedAtWork'
    BY <1>0, <2>1, <2>6 DEF BeginFetch, WorkerType, EarnedAtWork
  <2>7. CASE NoticeCancel \/ AttemptFails \/ PushReturns \/ NothingToFetch
    BY <2>1, <2>7, AttemptEnds DEF EarnedAtWork
  <2> QED
    BY <1>1, <2>2, <2>3, <2>4, <2>5, <2>6, <2>7 DEF AttemptStep
<1>2. CASE RecordFile
  <2>1. worker'.job = worker.job /\ worker.job \notin Sends /\ worker.phase = "saved"
    BY <1>2, AttemptGoesOn DEF RecordFile, EarnedAtWork
  <2>2. /\ worker'.phase \in {"running", "ended"}
        /\ worker'.outcome = "done" /\ worker'.phase = "ended" => worker'.kept = File
    BY <1>0, <1>2 DEF RecordFile, End, WorkerType
  <2> QED
    BY <2>1, <2>2 DEF EarnedAtWork
<1>3. ASSUME NEW w \in wire, PushArrives(w[1], w[2]) PROVE EarnedAtWork'
  <2>1. /\ worker'.job = worker.job /\ worker'.kept = worker.kept
        /\ worker'.outcome = worker.outcome
        /\ \/ worker'.phase = worker.phase
           \/ worker.phase = "pushing" /\ worker'.phase = "answered" /\ worker.job = w[1]
    BY <1>0, <1>3 DEF PushArrives, WorkerType
  <2>2. delivered' = delivered \cup {w[1]}
    BY <1>3 DEF PushArrives
  <2> QED
    BY <2>1, <2>2 DEF EarnedAtWork
<1>4. ASSUME NEW j \in Job, CancelToken(j) PROVE EarnedAtWork'
  <2>1. /\ worker'.job = worker.job /\ worker'.kept = worker.kept
        /\ worker'.outcome = worker.outcome /\ worker'.phase = worker.phase
        /\ delivered' = delivered
    BY <1>0, <1>4 DEF CancelToken, WorkerType
  <2> QED
    BY <2>1 DEF EarnedAtWork
<1>5. CASE Scan \/ TakeBack \/ Settle \/ Restart
  <2>1. worker'.phase \in {"idle", "claimed"}
    BY <1>5, ScanChanges, TakeBackChanges, SettleChanges, RestartChanges, WorkerFields
       DEF TypeOK, Scan
  <2> QED
    BY <2>1 DEF EarnedAtWork
<1>6. CASE UNCHANGED worker
  BY <1>6, DeliveredGrows DEF EarnedAtWork
<1> QED
  BY <1>1, <1>2, <1>3, <1>4, <1>5, <1>6, WorkerMoves

(* A job only counts as completed when it is.                              *)
LEMMA StepEarned ==
  TypeOK /\ Fetching /\ Kept /\ Earned /\ [Next]_vars => Earned'
<1> SUFFICES ASSUME TypeOK, Fetching, Kept, Earned, [Next]_vars PROVE Earned'
  OBVIOUS
<1>0. delivered \subseteq delivered'
  BY DeliveredGrows
<1>1. Truthful(jobs)'
  <2> SUFFICES ASSUME NEW k \in Job, jobs'[k].status = "completed"
               PROVE  IF k \in Sends THEN k \in delivered' ELSE jobs'[k].files = File
    BY DEF Truthful
  <2>1. CASE Restart
    <3>1. disk[k].status = "completed" /\ jobs'[k].files = disk[k].files
      BY <2>1, RestartChanges, RecoveredJob, JobFields DEF TypeOK
    <3> QED
      BY <1>0, <3>1 DEF Earned, Truthful
  <2>2. CASE ~Restart /\ jobs[k].status = "completed"
    <3>1. jobs'[k].files = jobs[k].files
          \/ (RecordFile /\ jobs'[k].files = jobs[k].files \cup {worker.file})
      BY <2>2, Fates DEF Fate, Active
    <3>2. RecordFile => worker.file \in File
      BY DEF RecordFile, Fetching
    <3>3. IF k \in Sends THEN k \in delivered ELSE jobs[k].files = File
      BY <2>2 DEF Earned, Truthful
    <3> QED
      BY <1>0, <3>1, <3>2, <3>3
  <2>3. CASE ~Restart /\ jobs[k].status # "completed"
    <3>1. /\ worker.job = k /\ worker.phase = "settling" /\ worker.outcome = "done"
          /\ jobs[k].status \in Active /\ jobs'[k].files = jobs[k].files
      BY <2>3, Fates DEF Fate
    <3>2. worker.kept \subseteq jobs[k].files /\ jobs[k].files \subseteq File
      <4>1. jobs[k] \in JobType
        BY DEF TypeOK
      <4> QED
        BY <3>1, <4>1, JobFields DEF Kept, Active
    <3>3. IF k \in Sends THEN k \in delivered ELSE worker.kept = File
      BY <3>1 DEF Earned
    <3> QED
      BY <1>0, <3>1, <3>2, <3>3
  <2> QED
    BY <2>1, <2>2, <2>3
<1>2. Truthful(disk)'
  BY <1>0, <1>1, DiskFollows DEF Earned, Truthful
<1> QED
  BY <1>1, <1>2, StepEarnedAtWork DEF Earned, EarnedAtWork

(* Nothing is at work while an update is installed.                        *)
LEMMA StepAlone == TypeOK /\ Alone /\ [Next]_vars => Alone'
<1> SUFFICES ASSUME TypeOK, Alone, [Next]_vars PROVE Alone'
  OBVIOUS
<1>0. worker \in WorkerType
  BY DEF TypeOK
<1>1. CASE TryQuiesce
  <2>1. Cardinality(cancelling) \in Nat /\ (Cardinality(cancelling) = 0 <=> cancelling = {})
    BY FS_CardinalityType, FS_EmptySet DEF Alone
  <2>2. Activities = 0
    BY <1>1 DEF TryQuiesce
  <2>3. ~asking /\ Cardinality(cancelling) = 0 /\ worker.phase \in {"idle", "claimed"}
    BY <2>1, <2>2 DEF Activities
  <2> QED
    BY <1>1, <2>1, <2>3 DEF TryQuiesce, Alone, UpdateIsAlone, requests
<1>2. CASE Resume \/ Restart
  BY <1>2, FS_EmptySet DEF Resume, Restart, Alone, UpdateIsAlone, requests
<1>3. CASE AskCreate \/ GiveUpCreate \/ UNCHANGED vars
  BY <1>3 DEF AskCreate, GiveUpCreate, vars, requests, Alone, UpdateIsAlone
<1>4. ASSUME NEW j \in Job, RequestStep(j) PROVE Alone'
  <2>1. closed' = closed /\ worker' = worker
    BY <1>4, RequestPersists DEF RequestStep
  <2>2. IsFiniteSet(cancelling')
    <3>1. cancelling' = cancelling \/ cancelling' = cancelling \cup {j}
      BY <1>4 DEF RequestStep, Create, Cancel, Retry, Remove, Refused, requests
    <3> QED
      BY <3>1, FS_AddElement DEF Alone
  <2>3. closed => ~asking' /\ cancelling' = {}
    BY <1>4 DEF RequestStep, Create, Cancel, Retry, Remove, Refused, requests, Alone, UpdateIsAlone
  <2> QED
    BY <2>1, <2>2, <2>3 DEF Alone, UpdateIsAlone
<1>5. ASSUME NEW j \in Job, CancelToken(j) PROVE Alone'
  <2>1. IsFiniteSet(cancelling') /\ ~closed' /\ ~closed
    BY <1>5, FS_RemoveElement DEF CancelToken, Alone, UpdateIsAlone
  <2> QED
    BY <2>1 DEF Alone, UpdateIsAlone
<1>6. ASSUME NEW j \in Job, RetryDue(j) \/ Expires(j) PROVE Alone'
  BY <1>6 DEF RetryDue, Expires, requests, Alone, UpdateIsAlone
<1>7. ASSUME NEW w \in wire, PushArrives(w[1], w[2]) \/ PushLost(w[1], w[2]) PROVE Alone'
  BY <1>0, <1>7 DEF PushArrives, PushLost, OnlyWorker, requests, WorkerType, Alone, UpdateIsAlone
<1>8. CASE AttemptStep
  <2>1. UNCHANGED <<asking, cancelling, closed>>
    BY <1>8, AttemptLeaves
  <2>2. closed => FALSE
    BY <1>8 DEF AttemptStep, Enter, CheckStale, ExpiryFires, NoticeCancel, AttemptFails, BeginPush,
       PushReturns, FetchEnds, NothingToFetch, DropToken, BeginFetch, Attempting, Alone,
       UpdateIsAlone
  <2> QED
    BY <2>1, <2>2 DEF Alone, UpdateIsAlone
<1>9. CASE Scan \/ TakeBack \/ RecordFile \/ Settle
  <2>1. UNCHANGED <<asking, cancelling, closed>>
    BY <1>9 DEF Scan, TakeBack, RecordFile, Settle, requests
  <2>2. RecordFile => ~closed
    BY DEF RecordFile, Alone, UpdateIsAlone
  <2>3. Scan \/ TakeBack \/ Settle => worker'.phase \in {"idle", "claimed"}
    BY ScanChanges, TakeBackChanges, SettleChanges, WorkerFields DEF TypeOK, Scan
  <2> QED
    BY <1>9, <2>1, <2>2, <2>3 DEF Alone, UpdateIsAlone
<1> QED
  BY <1>1, <1>2, <1>3, <1>4, <1>5, <1>6, <1>7, <1>8, <1>9
     DEF Next, UserStep, WorkerStep, AttemptStep, RequestStep

-----------------------------------------------------------------------------
(* Theorems *)

IInv ==
  TypeOK /\ Fetching /\ Synced /\ AtWork /\ Attempted /\ Listed /\ Halting /\ Kept /\ Earned /\ Alone

(* The empty queue satisfies the invariant.                                *)
LEMMA InitInvariant == Init => IInv
<1> SUFFICES ASSUME Init PROVE IInv
  OBVIOUS
<1>1. /\ \A j \in Job : jobs[j] = Absent
      /\ disk = jobs /\ worker = Idle /\ recorded = {} /\ stopped = {} /\ cancelling = {}
      /\ closed = FALSE
  BY DEF Init
<1>2. \A j \in Job : jobs[j].status = "none"
  BY <1>1, JobFields
<1>3. Idle.phase = "idle"
  BY DEF Idle
<1>4. AtWork /\ Attempted /\ Fetching /\ Synced
  BY <1>1, <1>2, <1>3 DEF AtWork, Attempted, Fetching, Synced, Attempting
<1>5. Listed /\ Halting
  BY <1>1, <1>2, <1>3 DEF Listed, Halting
<1>6. Kept /\ Earned
  BY <1>1, <1>2, <1>3 DEF Kept, Keeps, Earned, Truthful
<1>7. Alone
  BY <1>1, FS_EmptySet DEF Alone, UpdateIsAlone
<1> QED
  BY <1>4, <1>5, <1>6, <1>7, InitType DEF IInv

(* Every step keeps it.                                                    *)
LEMMA StepInvariant == IInv /\ [Next]_vars => IInv'
BY StepType, StepFetching, StepSynced, StepAtWork, StepAttempted, StepListed, StepHalting, StepKept,
   StepEarned, StepAlone DEF IInv

(* The invariant holds in every reachable state.                           *)
THEOREM QueueInvariantKept == Spec => []IInv
BY InitInvariant, StepInvariant, PTL DEF Spec

(* Every variable always has its type.                                     *)
THEOREM TypeCorrect == Spec => []TypeOK
BY QueueInvariantKept, PTL DEF IInv

(* In every state of the queue a running job is the one the worker is at,  *)
(* and no attempt has an effect for a job that was queued again, or        *)
(* removed: whatever was cancelled, retried, restarted or not written.     *)
THEOREM RunningIsAlwaysWorkedOn == Spec => []RunningIsWorkedOn
<1>1. IInv => RunningIsWorkedOn
  <2> SUFFICES ASSUME IInv PROVE RunningIsWorkedOn
    OBVIOUS
  <2>1. AttemptHasItsJob
    BY DEF IInv, Attempted, AttemptHasItsJob
  <2>2. ASSUME NEW j \in Job, jobs[j].status = "running"
        PROVE  worker.phase # "idle" /\ worker.job = j /\ Own
    BY <2>2 DEF IInv, AtWork, Own
  <2> QED
    BY <2>1, <2>2 DEF RunningIsWorkedOn
<1> QED
  BY <1>1, QueueInvariantKept, PTL

(* A job that counts as completed has been carried out.                    *)
THEOREM CompletedIsAlwaysTrue == Spec => []CompletedIsTrue
<1>1. IInv => CompletedIsTrue
  BY DEF IInv, Earned, Truthful, CompletedIsTrue
<1> QED
  BY <1>1, QueueInvariantKept, PTL

(* The gate of an update closes on nothing at work.                        *)
THEOREM UpdateIsAlwaysAlone == Spec => []UpdateIsAlone
<1>1. IInv => UpdateIsAlone
  BY DEF IInv, Alone
<1> QED
  BY <1>1, QueueInvariantKept, PTL

(* Only these steps begin a push or the fetching of a file.                *)
LEMMA Beginnings ==
  ASSUME TypeOK, [Next]_vars
  PROVE  /\ wire' \subseteq wire
            \/ (BeginPush /\ wire' = wire \cup {<<worker.job, worker.generation>>})
         /\ worker'.phase = "fetching" /\ worker.phase # "fetching" =>
              \E f \in File : BeginFetch(f)
<1>0. worker \in WorkerType
  BY DEF TypeOK
<1>1. wire' \subseteq wire
      \/ (BeginPush /\ wire' = wire \cup {<<worker.job, worker.generation>>})
  <2>1. CASE Enter \/ CheckStale \/ ExpiryFires \/ NoticeCancel \/ AttemptFails \/ PushReturns
             \/ FetchEnds \/ NothingToFetch \/ DropToken \/ \E f \in File : BeginFetch(f)
    BY <2>1 DEF Enter, CheckStale, ExpiryFires, NoticeCancel, AttemptFails, PushReturns, FetchEnds,
       NothingToFetch, DropToken, BeginFetch
  <2>2. CASE BeginPush
    BY <2>2 DEF BeginPush
  <2>3. ASSUME NEW j \in Job, RequestStep(j) \/ CancelToken(j) \/ RetryDue(j) \/ Expires(j)
        PROVE  wire' = wire
    BY <2>3, RequestPersists DEF RequestStep, CancelToken, RetryDue, Expires
  <2>4. ASSUME NEW w \in wire, PushArrives(w[1], w[2]) \/ PushLost(w[1], w[2])
        PROVE  wire' \subseteq wire
    BY <2>4 DEF PushArrives, PushLost
  <2>5. CASE AskCreate \/ GiveUpCreate \/ TryQuiesce \/ Resume \/ Restart \/ UNCHANGED vars
    BY <2>5 DEF AskCreate, GiveUpCreate, TryQuiesce, Resume, Restart, vars
  <2>6. CASE Scan \/ TakeBack \/ RecordFile \/ Settle
    BY <2>6 DEF Scan, TakeBack, RecordFile, Settle
  <2> QED
    BY <2>1, <2>2, <2>3, <2>4, <2>5, <2>6 DEF Next, UserStep, WorkerStep, RequestStep
<1>2. ASSUME worker'.phase = "fetching", worker.phase # "fetching"
      PROVE  \E f \in File : BeginFetch(f)
  <2>1. CASE Scan \/ TakeBack \/ Settle \/ Restart
    BY <1>2, <2>1, ScanChanges, TakeBackChanges, SettleChanges, RestartChanges, WorkerFields
       DEF TypeOK
  <2>2. CASE RecordFile
    BY <1>0, <1>2, <2>2 DEF RecordFile, End, WorkerType
  <2>3. ASSUME NEW j \in Job, CancelToken(j) PROVE FALSE
    BY <1>0, <1>2, <2>3 DEF CancelToken, WorkerType
  <2>4. ASSUME NEW w \in wire, PushArrives(w[1], w[2]) PROVE FALSE
    BY <1>0, <1>2, <2>4 DEF PushArrives, WorkerType
  <2>5. CASE AttemptStep
    <3>1. ~(NoticeCancel \/ AttemptFails \/ PushReturns \/ NothingToFetch)
      BY <1>2, AttemptEnds
    <3>2. ~(Enter \/ CheckStale \/ ExpiryFires)
      BY <1>0, <1>2 DEF Enter, CheckStale, ExpiryFires, WorkerType
    <3>3. ~(BeginPush \/ FetchEnds \/ DropToken)
      BY <1>0, <1>2 DEF BeginPush, FetchEnds, DropToken, WorkerType
    <3> QED
      BY <2>5, <3>1, <3>2, <3>3 DEF AttemptStep
  <2> QED
    BY <1>2, <2>1, <2>2, <2>3, <2>4, <2>5, WorkerMoves
<1> QED
  BY <1>1, <1>2

(* After the answer to a cancel nothing of the job is begun, until it is   *)
(* retried: neither by the attempt that was being started, nor after a     *)
(* restart or a write that failed.                                         *)
THEOREM CancelsAlwaysHold == Spec => CancelHolds
<1>1. IInv /\ [Next]_vars =>
        [\A j \in stopped :
           /\ \A w \in wire' \ wire : w[1] # j
           /\ worker'.phase = "fetching" /\ worker.phase # "fetching" => worker'.job # j]_vars
  <2> SUFFICES ASSUME IInv, [Next]_vars, NEW j \in stopped
               PROVE  /\ \A w \in wire' \ wire : w[1] # j
                      /\ worker'.phase = "fetching" /\ worker.phase # "fetching" =>
                           worker'.job # j
    OBVIOUS
  <2>0. TypeOK /\ (worker.phase = "running" /\ ~worker.cancelled => worker.job # j)
    BY DEF IInv, Halting, Attempting
  <2>1. BeginPush \/ (\E f \in File : BeginFetch(f)) => worker.job # j
    BY <2>0 DEF BeginPush, BeginFetch
  <2>2. (\E f \in File : BeginFetch(f)) => worker'.job = worker.job
    BY <2>0, AttemptStays DEF AttemptStep
  <2> QED
    BY <2>0, <2>1, <2>2, Beginnings
<1> QED
  BY <1>1, QueueInvariantKept, PTL DEF Spec, CancelHolds

(* No file that was recorded is fetched again.                             *)
THEOREM FilesAreAlwaysKept == Spec => FilesAreKept
<1>1. IInv /\ [Next]_vars =>
        [worker'.phase = "fetching" /\ worker.phase # "fetching" =>
           <<worker'.job, worker'.file>> \notin recorded]_vars
  <2> SUFFICES ASSUME IInv, [Next]_vars, worker'.phase = "fetching", worker.phase # "fetching"
               PROVE  <<worker'.job, worker'.file>> \notin recorded
    OBVIOUS
  <2>1. PICK f \in File : BeginFetch(f)
    BY Beginnings DEF IInv
  <2>2. worker'.job = worker.job /\ worker'.file = f
    BY <2>1 DEF BeginFetch, IInv, TypeOK, WorkerType
  <2>3. worker.phase # "idle" /\ f \notin worker.kept
    BY <2>1 DEF BeginFetch
  <2> QED
    BY <2>2, <2>3 DEF IInv, Kept
<1> QED
  BY <1>1, QueueInvariantKept, PTL DEF Spec, FilesAreKept

(* While the queue can be written, also through restarts, an ended job     *)
(* only starts again as a new generation that somebody asked for.          *)
THEOREM FatesAreAlwaysFinal == Spec => FateIsFinal
<1>1. IInv /\ [Next]_vars =>
        [\A j \in Job :
           jobs[j].status \in Terminal /\ jobs'[j].status # jobs[j].status /\ ~failed =>
             \/ jobs'[j].status = "none"
             \/ /\ jobs[j].status \in {"failed", "cancelled"}
                /\ jobs'[j].status = "queued"
                /\ jobs'[j].generation > jobs[j].generation]_vars
  <2> SUFFICES ASSUME IInv, [Next]_vars, NEW j \in Job,
                      jobs[j].status \in Terminal, jobs'[j].status # jobs[j].status, ~failed
               PROVE  \/ jobs'[j].status = "none"
                      \/ /\ jobs[j].status \in {"failed", "cancelled"}
                         /\ jobs'[j].status = "queued"
                         /\ jobs'[j].generation > jobs[j].generation
    OBVIOUS
  <2>0. TypeOK /\ Fetching /\ disk = jobs /\ jobs[j].generation \in Nat
    BY JobFields DEF IInv, Synced, TypeOK
  <2>1. CASE Restart
    <3>1. jobs[j].status # "running"
      BY DEF Terminal
    <3>2. jobs'[j] = Recovered(j) \/ jobs'[j] = Absent
      BY <2>0, <2>1, RestartChanges
    <3>3. Recovered(j) = jobs[j]
      BY <2>0, <3>1, RecoveredJob DEF TypeOK
    <3> QED
      BY <3>2, <3>3, JobFields
  <2>2. CASE ~Restart
    <3>1. j \in used
      BY DEF IInv, Listed, Terminal
    <3> QED
      BY <2>0, <2>2, <3>1, Fates DEF Fate, Active, Terminal
  <2> QED
    BY <2>1, <2>2
<1> QED
  BY <1>1, QueueInvariantKept, PTL DEF Spec, FateIsFinal
=============================================================================
