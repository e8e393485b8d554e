-------------------------------- MODULE Jobs --------------------------------
(***************************************************************************)
(* Background jobs: JobStore's durable records, JobRuntime's limiter and   *)
(* cancellation flags, the worker task that each submission spawns, the    *)
(* callers of cancel, and recovery of interrupted jobs after a restart.    *)
(* The store's mutex makes one get or one update atomic; everything a      *)
(* worker or a caller does between two of them interleaves.                *)
(***************************************************************************)
EXTENDS Integers, FiniteSets

CONSTANTS
    Kinds,        \* job kinds
    Cancellable,  \* the kinds that cancel still touches once they run
    Callers,      \* requests to cancel
    Concurrency,  \* permits of JobRuntime.limiter
    MaxJobs,      \* bound: job ids handed out
    MaxCrashes,   \* bound: process deaths
    MaxIoErrors   \* bound: failed store operations

ASSUME JobsAssumption ==
    /\ Cancellable \subseteq Kinds
    /\ Concurrency \in Nat \ {0}
    /\ MaxJobs \in Nat
    /\ MaxCrashes \in Nat
    /\ MaxIoErrors \in Nat

VARIABLES
    jobs,      \* jobs/: id -> record
    process,     \* "down", "recovering", "ready" or "draining"
    flags,     \* JobRuntime.cancellation: id -> AtomicBool
    permits,   \* available permits of the limiter
    running,   \* JOBS_RUNNING
    worker,    \* id -> where its task is
    seen,      \* id -> the state the worker has read
    caller,    \* where each cancel request is
    target,    \* the job it is for
    crashes, ioErrors,
    ran,       \* history: jobs whose work has started
    early      \* history: jobs found cancelled before their worker looked

runtime == <<flags, permits, running, worker, seen, caller, target>>
bounds  == <<crashes, ioErrors>>
history == <<ran, early>>
jobVars == <<jobs, process, runtime, bounds, history>>

JobIds   == 1 .. MaxJobs
Live     == {"Queued", "Running"}
Final    == {"Completed", "Failed", "Cancelled"}
NotYetRead == {"created", "waiting", "admitted"}
Working  == {"admitted", "read", "cancelling", "starting", "executing"}

Exists(id) == id \in DOMAIN jobs
Up == process \in {"ready", "draining"}

-----------------------------------------------------------------------------
(* JobStore *)

\* create: the next id follows the largest file name.
IsNextId(id) == id \notin DOMAIN jobs /\ (id = 1 \/ Exists(id - 1))

SetState(id, state) == jobs' = [jobs EXCEPT ![id].state = state]

NewlyEarly ==
    {id \in DOMAIN jobs' : jobs'[id].state = "Cancelled" /\ worker[id] \in NotYetRead}

-----------------------------------------------------------------------------
(* submit_* *)

Create(id) ==
    /\ process = "ready"
    /\ IsNextId(id)
    /\ \E kind \in Kinds :
         jobs' = [i \in DOMAIN jobs \cup {id} |->
                    IF i = id
                    THEN [kind |-> kind, state |-> "Queued", cancelRequested |-> FALSE]
                    ELSE jobs[i]]
    /\ worker' = [worker EXCEPT ![id] = "created"]
    /\ UNCHANGED <<process, flags, permits, running, seen, caller, target, bounds, history>>

\* install_cancellation, then the task is spawned.
Spawn(id) ==
    /\ worker[id] = "created"
    /\ flags' = [i \in DOMAIN flags \cup {id} |-> IF i = id THEN FALSE ELSE flags[i]]
    /\ worker' = [worker EXCEPT ![id] = "waiting"]
    /\ UNCHANGED <<jobs, process, permits, running, seen, caller, target, bounds, history>>

-----------------------------------------------------------------------------
(* The worker *)

\* The limiter's permit, and the resource scheduler's.
Admit(id) ==
    /\ worker[id] = "waiting"
    /\ permits > 0
    /\ permits' = permits - 1
    /\ worker' = [worker EXCEPT ![id] = "admitted"]
    /\ UNCHANGED <<jobs, process, flags, running, seen, caller, target, bounds, history>>

ReadRecord(id) ==
    /\ worker[id] = "admitted"
    /\ seen' = [seen EXCEPT ![id] = jobs[id].state]
    /\ worker' = [worker EXCEPT ![id] = "read"]
    /\ UNCHANGED <<jobs, process, flags, permits, running, caller, target, bounds, history>>

\* Mutant: the permit stays with the finished task.
FinishKeepingPermit(id) ==
    /\ worker' = [worker EXCEPT ![id] = "done"]
    /\ flags' = [i \in DOMAIN flags \ {id} |-> flags[i]]
    /\ UNCHANGED permits

\* remove_cancellation and drop(permit).
Finish(id) ==
    /\ worker' = [worker EXCEPT ![id] = "done"]
    /\ flags' = [i \in DOMAIN flags \ {id} |-> flags[i]]
    /\ permits' = permits + 1

\* Mutant: only the flag is looked at.
CancelledByFlag(id) == flags[id]

IsCancelled(id) == flags[id] \/ seen[id] = "Cancelled"

\* Somebody else has recorded the cancellation: nothing to write.
StopCancelled(id) ==
    /\ worker[id] = "read"
    /\ IsCancelled(id)
    /\ seen[id] # "Queued"
    /\ Finish(id)
    /\ UNCHANGED <<jobs, process, running, seen, caller, target, bounds, history>>

SeeCancelRequest(id) ==
    /\ worker[id] = "read"
    /\ IsCancelled(id)
    /\ seen[id] = "Queued"
    /\ worker' = [worker EXCEPT ![id] = "cancelling"]
    /\ UNCHANGED <<jobs, process, flags, permits, running, seen, caller, target, bounds, history>>

RecordCancelled(id) ==
    /\ worker[id] = "cancelling"
    /\ jobs' = [jobs EXCEPT ![id].state = "Cancelled", ![id].cancelRequested = TRUE]
    /\ Finish(id)
    /\ UNCHANGED <<process, running, seen, caller, target, bounds, history>>

DecideToRun(id) ==
    /\ worker[id] = "read"
    /\ ~IsCancelled(id)
    /\ worker' = [worker EXCEPT ![id] = "starting"]
    /\ UNCHANGED <<jobs, process, flags, permits, running, seen, caller, target, bounds, history>>

\* The update does not look at the state it overwrites.
MarkRunning(id) ==
    /\ worker[id] = "starting"
    /\ SetState(id, "Running")
    /\ running' = running + 1
    /\ worker' = [worker EXCEPT ![id] = "executing"]
    /\ ran' = ran \cup {id}
    /\ UNCHANGED <<process, flags, permits, seen, caller, target, bounds, early>>

\* The work succeeds, or it fails and fail_job records that.
End(id) ==
    /\ worker[id] = "executing"
    /\ \E outcome \in {"Completed", "Failed"} : SetState(id, outcome)
    /\ running' = running - 1
    /\ Finish(id)
    /\ UNCHANGED <<process, seen, caller, target, bounds, history>>

-----------------------------------------------------------------------------
(* Store operations that fail *)

CanFail == ioErrors < MaxIoErrors

\* An unreadable record is neither cancelled nor queued.
ReadFails(id) ==
    /\ CanFail
    /\ worker[id] = "admitted"
    /\ seen' = [seen EXCEPT ![id] = "unreadable"]
    /\ worker' = [worker EXCEPT ![id] = "read"]
    /\ ioErrors' = ioErrors + 1
    /\ UNCHANGED <<jobs, process, flags, permits, running, caller, target, crashes, history>>

\* A failed update leaves the record; the task ends all the same. fail_job
\* that cannot read the record returns before it touches the gauge.
UpdateFails(id) ==
    /\ CanFail
    /\ worker[id] \in {"cancelling", "starting", "executing"}
    /\ Finish(id)
    /\ IF worker[id] = "executing" THEN running' \in {running, running - 1}
       ELSE UNCHANGED running
    /\ ioErrors' = ioErrors + 1
    /\ UNCHANGED <<jobs, process, seen, caller, target, crashes, history>>

-----------------------------------------------------------------------------
(* cancel *)

\* get, and the early returns.
CancelRead(r, id) ==
    /\ Up
    /\ caller[r] = "idle"
    /\ Exists(id)
    /\ jobs[id].state \in Live
    /\ jobs[id].state = "Running" => jobs[id].kind \in Cancellable
    /\ caller' = [caller EXCEPT ![r] = "flagging"]
    /\ target' = [target EXCEPT ![r] = id]
    /\ UNCHANGED <<jobs, process, flags, permits, running, worker, seen, bounds, history>>

\* request_cancel.
CancelFlag(r) ==
    /\ caller[r] = "flagging"
    /\ flags' = [i \in DOMAIN flags |-> flags[i] \/ i = target[r]]
    /\ caller' = [caller EXCEPT ![r] = "updating"]
    /\ UNCHANGED <<jobs, process, permits, running, worker, seen, target, bounds, history>>

\* Mutant: whatever is not running any more counts as queued.
CancelUnlessRunning(id) ==
    jobs' = [jobs EXCEPT ![id].cancelRequested = TRUE,
                         ![id].state = IF @ = "Running" THEN @ ELSE "Cancelled"]

\* The closure of the update looks at the current state.
ApplyCancel(id) ==
    IF jobs[id].state \in Live
    THEN jobs' = [jobs EXCEPT ![id].cancelRequested = TRUE,
                              ![id].state = IF @ = "Queued" THEN "Cancelled" ELSE @]
    ELSE UNCHANGED jobs

CancelUpdate(r) ==
    /\ caller[r] = "updating"
    /\ ApplyCancel(target[r])
    /\ caller' = [caller EXCEPT ![r] = "idle"]
    /\ early' = early \cup NewlyEarly
    /\ UNCHANGED <<process, flags, permits, running, worker, seen, target, bounds, ran>>

\* The update fails: the caller gets an error, the flag stays.
CancelFails(r) ==
    /\ CanFail
    /\ caller[r] = "updating"
    /\ caller' = [caller EXCEPT ![r] = "idle"]
    /\ ioErrors' = ioErrors + 1
    /\ UNCHANGED <<jobs, process, flags, permits, running, worker, seen, target, crashes, history>>

-----------------------------------------------------------------------------
(* The process *)

DrainJobs ==
    /\ process = "ready"
    /\ process' = "draining"
    /\ UNCHANGED <<jobs, runtime, bounds, history>>

\* The process dies or stops: its tasks go with it.
Stop ==
    /\ process # "down"
    /\ crashes < MaxCrashes
    /\ process' = "down"
    /\ flags' = <<>>
    /\ permits' = Concurrency
    /\ running' = 0
    /\ worker' = [id \in JobIds |-> "none"]
    /\ seen' = [id \in JobIds |-> "unread"]
    /\ caller' = [r \in Callers |-> "idle"]
    /\ crashes' = crashes + 1
    /\ UNCHANGED <<jobs, target, ioErrors, history>>

StartProcess ==
    /\ process = "down"
    /\ process' = "recovering"
    /\ UNCHANGED <<jobs, runtime, bounds, history>>

Interrupted == {id \in DOMAIN jobs : jobs[id].state \in Live}

\* recover_interrupted goes through the files one by one.
RecoverOne ==
    /\ process = "recovering"
    /\ \E id \in Interrupted : SetState(id, "Failed")
    /\ UNCHANGED <<process, runtime, bounds, history>>

RecoverDone ==
    /\ process = "recovering"
    /\ Interrupted = {}
    /\ process' = "ready"
    /\ UNCHANGED <<jobs, runtime, bounds, history>>

\* run_standalone_from_env panics if recovery fails.
RecoverFails ==
    /\ process = "recovering"
    /\ CanFail
    /\ process' = "down"
    /\ ioErrors' = ioErrors + 1
    /\ UNCHANGED <<jobs, runtime, crashes, history>>

-----------------------------------------------------------------------------
JobsInit ==
    /\ jobs = <<>>
    /\ process = "ready"
    /\ flags = <<>>
    /\ permits = Concurrency
    /\ running = 0
    /\ worker = [id \in JobIds |-> "none"]
    /\ seen = [id \in JobIds |-> "unread"]
    /\ caller = [r \in Callers |-> "idle"]
    /\ target = [r \in Callers |-> 0]
    /\ crashes = 0
    /\ ioErrors = 0
    /\ ran = {}
    /\ early = {}

WorkerStep(id) ==
    \/ Spawn(id) \/ Admit(id) \/ ReadRecord(id) \/ StopCancelled(id) \/ SeeCancelRequest(id)
    \/ RecordCancelled(id) \/ DecideToRun(id) \/ MarkRunning(id) \/ End(id)

CancelStep(r) == CancelFlag(r) \/ CancelUpdate(r)

JobsNext ==
    \/ \E id \in JobIds :
         \/ Create(id) \/ WorkerStep(id) \/ ReadFails(id) \/ UpdateFails(id)
         \/ \E r \in Callers : CancelRead(r, id)
    \/ \E r \in Callers : CancelStep(r) \/ CancelFails(r)
    \/ DrainJobs \/ Stop \/ StartProcess \/ RecoverOne \/ RecoverDone \/ RecoverFails

JobsSpec == JobsInit /\ [][JobsNext]_jobVars

\* Tasks that can go on are polled, the limiter serves its queue in order,
\* and the work of a job ends. Nobody has to submit, cancel or restart.
JobsFairness ==
    /\ \A id \in JobIds : WF_jobVars(WorkerStep(id))
    /\ \A r \in Callers : WF_jobVars(CancelStep(r))

JobsFairSpec == JobsSpec /\ JobsFairness

-----------------------------------------------------------------------------
(* Properties *)

\* The state variables hold values of the types the code gives them.
JobsTypeOK ==
    /\ DOMAIN jobs \subseteq JobIds
    /\ \A id \in DOMAIN jobs :
         jobs[id] \in [kind : Kinds, state : Live \cup Final, cancelRequested : BOOLEAN]
    /\ process \in {"down", "recovering", "ready", "draining"}
    /\ DOMAIN flags \subseteq DOMAIN jobs
    /\ \A id \in DOMAIN flags : flags[id] \in BOOLEAN
    /\ permits \in 0 .. Concurrency
    /\ running \in 0 .. MaxJobs
    /\ worker \in [JobIds -> {"none", "created", "waiting", "read", "done"} \cup Working]
    /\ seen \in [JobIds -> Live \cup Final \cup {"unread", "unreadable"}]
    /\ caller \in [Callers -> {"idle", "flagging", "updating"}]
    /\ target \in [Callers -> JobIds \cup {0}]
    /\ crashes \in 0 .. MaxCrashes
    /\ ioErrors \in 0 .. MaxIoErrors
    /\ ran \subseteq JobIds /\ early \subseteq JobIds

\* A job that has completed or failed keeps that outcome: neither a cancel
\* that read an older state, nor a second recovery, writes over it.
OutcomeIsFinal ==
    [][\A id \in DOMAIN jobs :
          jobs[id].state \in {"Completed", "Failed"} => jobs'[id].state = jobs[id].state]_jobVars

\* As long as the store works, a record says Running exactly while a task is
\* doing the work, the JOBS_RUNNING gauge counts those tasks, and the limiter
\* bounds them; a job that waits has a task that waits.
RecordsMatchTasks ==
    Up /\ ioErrors = 0 =>
        LET executing == {id \in JobIds : worker[id] = "executing"} IN
        /\ executing = {id \in DOMAIN jobs : jobs[id].state = "Running"}
        /\ running = Cardinality(executing)
        /\ running <= Concurrency
        /\ \A id \in DOMAIN jobs :
             jobs[id].state = "Queued" => worker[id] \in NotYetRead \cup Working

\* A job whose record said Cancelled before its task looked at it never does
\* its work, even if the cancel came before the cancellation flag existed.
EarlyCancelPreventsRun == ioErrors = 0 => early \cap ran = {}

\* Without crashes and store errors every job ends: no cancel, however timed,
\* leaves it waiting, and finished jobs let the next ones in.
JobsEnd ==
    \A id \in JobIds :
        (Exists(id) /\ jobs[id].state \in Live)
            ~> (crashes > 0 \/ ioErrors > 0 \/ (Exists(id) /\ jobs[id].state \in Final))

\* Job records tell the truth: they agree with the tasks, the gauge and the permits (JobsTypeOK,
\* RecordsMatchTasks), and a job cancelled before its worker looked never runs
\* (EarlyCancelPreventsRun).
JobsInv == JobsTypeOK /\ RecordsMatchTasks /\ EarlyCancelPreventsRun
=============================================================================
