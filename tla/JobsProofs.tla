----------------------------- MODULE JobsProofs -----------------------------
(***************************************************************************)
(* Proofs about Jobs for any number of jobs, callers, permits, crashes and *)
(* store errors.                                                           *)
(***************************************************************************)
EXTENDS Jobs, FiniteSetTheorems, TLAPS

-----------------------------------------------------------------------------
(* The inductive invariant *)

Flagged      == {"waiting"} \cup Working
WorkerStates == {"none", "created", "waiting", "read", "done"} \cup Working
SeenStates   == Live \cup Final \cup {"unread", "unreadable"}
JobRecord    == [kind : Kinds, state : Live \cup Final, cancelRequested : BOOLEAN]

HoldsPermit == {id \in JobIds : worker[id] \in Working}
Executing   == {id \in JobIds : worker[id] = "executing"}
Counted     == {id \in JobIds : worker[id] \in {"executing", "done"}}

\* JobsTypeOK, with the counters only known to be numbers.
JobsShape ==
    /\ DOMAIN jobs \subseteq JobIds
    /\ \A id \in DOMAIN jobs : jobs[id] \in JobRecord
    /\ process \in {"down", "recovering", "ready", "draining"}
    /\ DOMAIN flags = {id \in JobIds : worker[id] \in Flagged}
    /\ \A id \in DOMAIN flags : flags[id] \in BOOLEAN
    /\ permits \in Nat
    /\ running \in Int
    /\ worker \in [JobIds -> WorkerStates]
    /\ seen \in [JobIds -> SeenStates]
    /\ caller \in [Callers -> {"idle", "flagging", "updating"}]
    /\ target \in [Callers -> JobIds \cup {0}]
    /\ crashes \in 0 .. MaxCrashes
    /\ ioErrors \in 0 .. MaxIoErrors
    /\ ran \subseteq JobIds
    /\ early \subseteq JobIds

\* Tasks and cancel requests live in an open process and work on records
\* that exist.
Owners ==
    /\ \A id \in JobIds : worker[id] # "none" => Up /\ id \in DOMAIN jobs
    /\ \A r \in Callers : caller[r] # "idle" => Up /\ target[r] \in DOMAIN jobs

\* What the place of a task says about the record it is for.
Progress ==
    \A id \in DOMAIN jobs :
        /\ worker[id] \in NotYetRead \cup {"read", "cancelling", "starting"}
             => jobs[id].state \in {"Queued", "Cancelled"}
        /\ worker[id] = "read" =>
             /\ seen[id] \in {"Queued", "Cancelled", "unreadable"}
             /\ seen[id] = "Cancelled" => jobs[id].state = "Cancelled"
             /\ seen[id] = "unreadable" => ioErrors > 0
        /\ worker[id] = "executing" => jobs[id].state = "Running"
        /\ worker[id] = "done" /\ ioErrors = 0 => jobs[id].state \in Final
        /\ worker[id] = "none" /\ Up => jobs[id].state \in Final

\* Every permit is free or with one task; the gauge counts the executing
\* tasks, and may only count too many after a store error.
Counts ==
    /\ permits + Cardinality(HoldsPermit) = Concurrency
    /\ Cardinality(Executing) <= running
    /\ running <= Cardinality(Counted)
    /\ ioErrors = 0 => running = Cardinality(Executing)

\* A job that was cancelled early stays cancelled, and its task can only
\* find that out; a job that ran has no task before its work.
History ==
    /\ \A id \in ran : id \in DOMAIN jobs /\ worker[id] \in {"executing", "done", "none"}
    /\ ioErrors = 0 =>
         \A id \in early :
            /\ id \in DOMAIN jobs
            /\ id \notin ran
            /\ jobs[id].state = "Cancelled"
            /\ worker[id] \notin {"cancelling", "starting", "executing"}
            /\ worker[id] = "read" => seen[id] = "Cancelled"

JobsIInv == JobsShape /\ Owners /\ Progress /\ Counts /\ History
-----------------------------------------------------------------------------
(* Facts about the operators *)

\* Writing a state or a cancel request keeps a record a record.
LEMMA RecordKept ==
    ASSUME NEW rec \in JobRecord, NEW s \in Live \cup Final, NEW b \in BOOLEAN
    PROVE  /\ [rec EXCEPT !.state = s] \in JobRecord
           /\ [rec EXCEPT !.state = s, !.cancelRequested = b] \in JobRecord
           /\ [rec EXCEPT !.cancelRequested = b, !.state = s] \in JobRecord
  BY DEF JobRecord
\* The closure of cancel changes at most a queued record, to cancelled.
LEMMA CancelFact ==
    ASSUME NEW id \in DOMAIN jobs, JobsShape, ApplyCancel(id)
    PROVE  /\ DOMAIN jobs' = DOMAIN jobs
           /\ \A i \in DOMAIN jobs :
                /\ jobs'[i] \in JobRecord
                /\ \/ jobs'[i].state = jobs[i].state
                   \/ jobs[i].state = "Queued" /\ jobs'[i].state = "Cancelled"
<1>1. CASE jobs[id].state \notin Live
  BY <1>1 DEF ApplyCancel, JobsShape
<1>2. CASE jobs[id].state \in Live
  <2>0. jobs[id] \in JobRecord
    BY DEF JobsShape
  <2> DEFINE new == IF jobs[id].state = "Queued" THEN "Cancelled" ELSE jobs[id].state
  <2>1. jobs' = [jobs EXCEPT ![id] = [jobs[id] EXCEPT !.cancelRequested = TRUE, !.state = new]]
    BY <1>2, <2>0 DEF ApplyCancel, JobRecord
  <2>2. new \in Live \cup Final
    BY <1>2, <2>0 DEF Live, Final
  <2>3. [jobs[id] EXCEPT !.cancelRequested = TRUE, !.state = new] \in JobRecord
    BY <2>0, <2>2, RecordKept
  <2>4. [jobs[id] EXCEPT !.cancelRequested = TRUE, !.state = new].state = new
    BY <2>0 DEF JobRecord
  <2> QED BY <2>1, <2>3, <2>4, <1>2 DEF JobsShape, Live
<1> QED BY <1>1, <1>2
\* The update that writes a state changes one record.
LEMMA WriteFact ==
    ASSUME JobsShape, NEW id \in DOMAIN jobs, NEW s \in Live \cup Final,
           SetState(id, s) \/ jobs' = [jobs EXCEPT ![id].state = s, ![id].cancelRequested = TRUE]
    PROVE  /\ DOMAIN jobs' = DOMAIN jobs
           /\ \A i \in DOMAIN jobs' : jobs'[i] \in JobRecord
<1>1. jobs[id] \in JobRecord /\ TRUE \in BOOLEAN
  BY DEF JobsShape
<1>2. CASE SetState(id, s)
  BY <1>1, <1>2, RecordKept DEF SetState, JobsShape
<1>3. CASE jobs' = [jobs EXCEPT ![id].state = s, ![id].cancelRequested = TRUE]
  <2>1. jobs' = [jobs EXCEPT ![id] = [jobs[id] EXCEPT !.state = s, !.cancelRequested = TRUE]]
    BY <1>3
  <2> QED BY <1>1, <2>1, RecordKept DEF JobsShape
<1> QED BY <1>2, <1>3

\* Ending a task removes its flag with it.
LEMMA FinishFact ==
    ASSUME JobsShape, NEW id \in JobIds, Finish(id), worker[id] \in Working
    PROVE  /\ DOMAIN flags' = {i \in JobIds : worker'[i] \in Flagged}
           /\ \A i \in DOMAIN flags' : flags'[i] \in BOOLEAN
           /\ permits' \in Nat
           /\ worker' \in [JobIds -> WorkerStates]
  BY DEF JobsShape, Finish, Flagged, Working, WorkerStates

-----------------------------------------------------------------------------
(* Every step keeps the invariant *)

\* Every step keeps the types.
LEMMA JobsShapeStep ==
    ASSUME JobsIInv, JobsNext
    PROVE  JobsShape'
<1> USE JobsAssumption
    DEF JobsIInv, JobsShape, Owners,
        Live, Final, NotYetRead, Working, Flagged, WorkerStates, SeenStates, JobRecord, JobIds, Up, runtime, bounds, history
<1>1. ASSUME NEW id \in JobIds, Create(id) PROVE JobsShape'
  BY <1>1 DEF Create, IsNextId, Exists
<1>2. ASSUME NEW id \in JobIds, Spawn(id) PROVE JobsShape'
  <2>1. DOMAIN flags' = {i \in JobIds : worker'[i] \in Flagged}
    BY <1>2 DEF Spawn
  <2>2. \A i \in DOMAIN flags' : flags'[i] \in BOOLEAN
    BY <1>2 DEF Spawn
  <2> QED BY <1>2, <2>1, <2>2 DEF Spawn
<1>3. ASSUME NEW id \in JobIds, Admit(id) PROVE JobsShape'
  BY <1>3 DEF Admit
<1>4. ASSUME NEW id \in JobIds, ReadRecord(id) PROVE JobsShape'
  BY <1>4 DEF ReadRecord
<1>5. ASSUME NEW id \in JobIds, StopCancelled(id) PROVE JobsShape'
  <2>1. Finish(id) /\ worker[id] \in Working
    BY <1>5 DEF StopCancelled
  <2> QED BY <1>5, <2>1, FinishFact DEF StopCancelled
<1>6. ASSUME NEW id \in JobIds, SeeCancelRequest(id) PROVE JobsShape'
  BY <1>6 DEF SeeCancelRequest, IsCancelled
<1>7. ASSUME NEW id \in JobIds, RecordCancelled(id) PROVE JobsShape'
  <2>1. Finish(id) /\ worker[id] \in Working /\ id \in DOMAIN jobs
    BY <1>7 DEF RecordCancelled
  <2>2. /\ DOMAIN jobs' = DOMAIN jobs
        /\ \A i \in DOMAIN jobs' : jobs'[i] \in JobRecord
    BY <1>7, <2>1, WriteFact DEF RecordCancelled
  <2> QED BY <1>7, <2>1, <2>2, FinishFact DEF RecordCancelled
<1>8. ASSUME NEW id \in JobIds, DecideToRun(id) PROVE JobsShape'
  BY <1>8 DEF DecideToRun, IsCancelled
<1>9. ASSUME NEW id \in JobIds, MarkRunning(id) PROVE JobsShape'
  <2>1. id \in DOMAIN jobs /\ SetState(id, "Running")
    BY <1>9 DEF MarkRunning
  <2>2. /\ DOMAIN jobs' = DOMAIN jobs
        /\ \A i \in DOMAIN jobs' : jobs'[i] \in JobRecord
    BY <2>1, WriteFact
  <2> QED BY <1>9, <2>2 DEF MarkRunning
<1>10. ASSUME NEW id \in JobIds, End(id) PROVE JobsShape'
  <2>1. Finish(id) /\ worker[id] \in Working /\ id \in DOMAIN jobs
    BY <1>10 DEF End
  <2>2. PICK s \in {"Completed", "Failed"} : SetState(id, s)
    BY <1>10 DEF End
  <2>3. /\ DOMAIN jobs' = DOMAIN jobs
        /\ \A i \in DOMAIN jobs' : jobs'[i] \in JobRecord
    BY <2>1, <2>2, WriteFact
  <2>4. running' \in Int
    BY <1>10 DEF End
  <2> QED BY <1>10, <2>1, <2>3, <2>4, FinishFact DEF End
<1>11. ASSUME NEW id \in JobIds, ReadFails(id) PROVE JobsShape'
  BY <1>11 DEF ReadFails, CanFail
<1>12. ASSUME NEW id \in JobIds, UpdateFails(id) PROVE JobsShape'
  <2>1. Finish(id) /\ worker[id] \in Working
    BY <1>12 DEF UpdateFails
  <2>2. running' \in Int
    BY <1>12 DEF UpdateFails
  <2>3. ioErrors' \in 0 .. MaxIoErrors
    BY <1>12 DEF UpdateFails, CanFail
  <2> QED BY <1>12, <2>1, <2>2, <2>3, FinishFact DEF UpdateFails
<1>13. ASSUME NEW id \in JobIds, NEW r \in Callers, CancelRead(r, id) PROVE JobsShape'
  BY <1>13 DEF CancelRead, Exists
<1>14. ASSUME NEW r \in Callers, CancelFlag(r) PROVE JobsShape'
  BY <1>14 DEF CancelFlag
<1>15. ASSUME NEW r \in Callers, CancelUpdate(r) PROVE JobsShape'
  <2>1. target[r] \in DOMAIN jobs
    BY <1>15 DEF CancelUpdate
  <2>2. /\ DOMAIN jobs' = DOMAIN jobs
        /\ \A i \in DOMAIN jobs' : jobs'[i] \in JobRecord
    BY <1>15, <2>1, CancelFact DEF CancelUpdate
  <2>3. early' \subseteq JobIds
    BY <1>15, <2>2 DEF CancelUpdate, NewlyEarly
  <2> QED BY <1>15, <2>2, <2>3 DEF CancelUpdate
<1>16. ASSUME NEW r \in Callers, CancelFails(r) PROVE JobsShape'
  BY <1>16 DEF CancelFails, CanFail
<1>17. ASSUME DrainJobs PROVE JobsShape'
  BY <1>17 DEF DrainJobs
<1>18. ASSUME Stop PROVE JobsShape'
  BY <1>18 DEF Stop
<1>19. ASSUME StartProcess PROVE JobsShape'
  BY <1>19 DEF StartProcess
<1>20. ASSUME RecoverOne PROVE JobsShape'
  BY <1>20 DEF RecoverOne, SetState, Interrupted
<1>21. ASSUME RecoverDone PROVE JobsShape'
  BY <1>21 DEF RecoverDone, Interrupted
<1>22. ASSUME RecoverFails PROVE JobsShape'
  BY <1>22 DEF RecoverFails, CanFail
<1> QED BY <1>1, <1>2, <1>3, <1>4, <1>5, <1>6, <1>7, <1>8, <1>9, <1>10, <1>11,
          <1>12, <1>13, <1>14, <1>15, <1>16, <1>17, <1>18, <1>19, <1>20, <1>21, <1>22
       DEF JobsNext, WorkerStep, CancelStep

\* No step leaves a task or a cancel request without its record or its process.
LEMMA OwnersStep ==
    ASSUME JobsIInv, JobsNext
    PROVE  Owners'
<1> USE JobsAssumption
    DEF JobsIInv, JobsShape, Owners,
        Live, Final, NotYetRead, Working, Flagged, WorkerStates, SeenStates, JobRecord, JobIds, Up, runtime, bounds, history
<1>1. ASSUME NEW id \in JobIds, Create(id) PROVE Owners'
  BY <1>1 DEF Create, IsNextId, Exists
<1>2. ASSUME NEW id \in JobIds, Spawn(id) PROVE Owners'
  BY <1>2 DEF Spawn
<1>3. ASSUME NEW id \in JobIds, Admit(id) PROVE Owners'
  BY <1>3 DEF Admit
<1>4. ASSUME NEW id \in JobIds, ReadRecord(id) PROVE Owners'
  BY <1>4 DEF ReadRecord
<1>5. ASSUME NEW id \in JobIds, StopCancelled(id) PROVE Owners'
  BY <1>5 DEF StopCancelled, Finish, IsCancelled
<1>6. ASSUME NEW id \in JobIds, SeeCancelRequest(id) PROVE Owners'
  BY <1>6 DEF SeeCancelRequest, IsCancelled
<1>7. ASSUME NEW id \in JobIds, RecordCancelled(id) PROVE Owners'
  BY <1>7 DEF RecordCancelled, Finish
<1>8. ASSUME NEW id \in JobIds, DecideToRun(id) PROVE Owners'
  BY <1>8 DEF DecideToRun, IsCancelled
<1>9. ASSUME NEW id \in JobIds, MarkRunning(id) PROVE Owners'
  BY <1>9 DEF MarkRunning, SetState
<1>10. ASSUME NEW id \in JobIds, End(id) PROVE Owners'
  BY <1>10 DEF End, Finish, SetState
<1>11. ASSUME NEW id \in JobIds, ReadFails(id) PROVE Owners'
  BY <1>11 DEF ReadFails, CanFail
<1>12. ASSUME NEW id \in JobIds, UpdateFails(id) PROVE Owners'
  BY <1>12 DEF UpdateFails, Finish, CanFail
<1>13. ASSUME NEW id \in JobIds, NEW r \in Callers, CancelRead(r, id) PROVE Owners'
  BY <1>13 DEF CancelRead, Exists
<1>14. ASSUME NEW r \in Callers, CancelFlag(r) PROVE Owners'
  BY <1>14 DEF CancelFlag
<1>15. ASSUME NEW r \in Callers, CancelUpdate(r) PROVE Owners'
  <2>1. DOMAIN jobs' = DOMAIN jobs
    BY <1>15, CancelFact DEF CancelUpdate
  <2> QED BY <1>15, <2>1 DEF CancelUpdate
<1>16. ASSUME NEW r \in Callers, CancelFails(r) PROVE Owners'
  BY <1>16 DEF CancelFails, CanFail
<1>17. ASSUME DrainJobs PROVE Owners'
  BY <1>17 DEF DrainJobs
<1>18. ASSUME Stop PROVE Owners'
  BY <1>18 DEF Stop
<1>19. ASSUME StartProcess PROVE Owners'
  BY <1>19 DEF StartProcess
<1>20. ASSUME RecoverOne PROVE Owners'
  BY <1>20 DEF RecoverOne, SetState, Interrupted
<1>21. ASSUME RecoverDone PROVE Owners'
  BY <1>21 DEF RecoverDone, Interrupted
<1>22. ASSUME RecoverFails PROVE Owners'
  BY <1>22 DEF RecoverFails, CanFail
<1> QED BY <1>1, <1>2, <1>3, <1>4, <1>5, <1>6, <1>7, <1>8, <1>9, <1>10, <1>11,
          <1>12, <1>13, <1>14, <1>15, <1>16, <1>17, <1>18, <1>19, <1>20, <1>21, <1>22
       DEF JobsNext, WorkerStep, CancelStep

\* No step separates a record from the place of its task.
LEMMA ProgressStep ==
    ASSUME JobsIInv, JobsNext
    PROVE  Progress'
<1> USE JobsAssumption
    DEF JobsIInv, JobsShape, Owners, Progress,
        Live, Final, NotYetRead, Working, Flagged, WorkerStates, SeenStates, JobRecord, JobIds, Up, runtime, bounds, history
<1>1. ASSUME NEW id \in JobIds, Create(id) PROVE Progress'
  BY <1>1 DEF Create, IsNextId, Exists
<1>2. ASSUME NEW id \in JobIds, Spawn(id) PROVE Progress'
  BY <1>2 DEF Spawn
<1>3. ASSUME NEW id \in JobIds, Admit(id) PROVE Progress'
  BY <1>3 DEF Admit
<1>4. ASSUME NEW id \in JobIds, ReadRecord(id) PROVE Progress'
  BY <1>4 DEF ReadRecord
<1>5. ASSUME NEW id \in JobIds, StopCancelled(id) PROVE Progress'
  BY <1>5 DEF StopCancelled, Finish, IsCancelled
<1>6. ASSUME NEW id \in JobIds, SeeCancelRequest(id) PROVE Progress'
  BY <1>6 DEF SeeCancelRequest, IsCancelled
<1>7. ASSUME NEW id \in JobIds, RecordCancelled(id) PROVE Progress'
  BY <1>7 DEF RecordCancelled, Finish
<1>8. ASSUME NEW id \in JobIds, DecideToRun(id) PROVE Progress'
  BY <1>8 DEF DecideToRun, IsCancelled
<1>9. ASSUME NEW id \in JobIds, MarkRunning(id) PROVE Progress'
  BY <1>9 DEF MarkRunning, SetState
<1>10. ASSUME NEW id \in JobIds, End(id) PROVE Progress'
  BY <1>10 DEF End, Finish, SetState
<1>11. ASSUME NEW id \in JobIds, ReadFails(id) PROVE Progress'
  BY <1>11 DEF ReadFails, CanFail
<1>12. ASSUME NEW id \in JobIds, UpdateFails(id) PROVE Progress'
  BY <1>12 DEF UpdateFails, Finish, CanFail
<1>13. ASSUME NEW id \in JobIds, NEW r \in Callers, CancelRead(r, id) PROVE Progress'
  BY <1>13 DEF CancelRead, Exists
<1>14. ASSUME NEW r \in Callers, CancelFlag(r) PROVE Progress'
  BY <1>14 DEF CancelFlag
<1>15. ASSUME NEW r \in Callers, CancelUpdate(r) PROVE Progress'
  <2>1. target[r] \in DOMAIN jobs
    BY <1>15 DEF CancelUpdate
  <2>2. /\ DOMAIN jobs' = DOMAIN jobs
        /\ \A i \in DOMAIN jobs : \/ jobs'[i].state = jobs[i].state
                                  \/ jobs[i].state = "Queued" /\ jobs'[i].state = "Cancelled"
    BY <1>15, <2>1, CancelFact DEF CancelUpdate
  <2> QED BY <1>15, <2>1, <2>2 DEF CancelUpdate
<1>16. ASSUME NEW r \in Callers, CancelFails(r) PROVE Progress'
  BY <1>16 DEF CancelFails, CanFail
<1>17. ASSUME DrainJobs PROVE Progress'
  BY <1>17 DEF DrainJobs
<1>18. ASSUME Stop PROVE Progress'
  BY <1>18 DEF Stop
<1>19. ASSUME StartProcess PROVE Progress'
  BY <1>19 DEF StartProcess
<1>20. ASSUME RecoverOne PROVE Progress'
  BY <1>20 DEF RecoverOne, SetState, Interrupted
<1>21. ASSUME RecoverDone PROVE Progress'
  BY <1>21 DEF RecoverDone, Interrupted
<1>22. ASSUME RecoverFails PROVE Progress'
  BY <1>22 DEF RecoverFails, CanFail
<1> QED BY <1>1, <1>2, <1>3, <1>4, <1>5, <1>6, <1>7, <1>8, <1>9, <1>10, <1>11,
          <1>12, <1>13, <1>14, <1>15, <1>16, <1>17, <1>18, <1>19, <1>20, <1>21, <1>22
       DEF JobsNext, WorkerStep, CancelStep

\* No step takes an early cancellation back.
LEMMA HistoryStep ==
    ASSUME JobsIInv, JobsNext
    PROVE  History'
<1> USE JobsAssumption
    DEF JobsIInv, JobsShape, Owners, Progress, History,
        Live, Final, NotYetRead, Working, Flagged, WorkerStates, SeenStates, JobRecord, JobIds, Up, runtime, bounds, history
<1>1. ASSUME NEW id \in JobIds, Create(id) PROVE History'
  BY <1>1 DEF Create, IsNextId, Exists
<1>2. ASSUME NEW id \in JobIds, Spawn(id) PROVE History'
  BY <1>2 DEF Spawn
<1>3. ASSUME NEW id \in JobIds, Admit(id) PROVE History'
  BY <1>3 DEF Admit
<1>4. ASSUME NEW id \in JobIds, ReadRecord(id) PROVE History'
  BY <1>4 DEF ReadRecord
<1>5. ASSUME NEW id \in JobIds, StopCancelled(id) PROVE History'
  BY <1>5 DEF StopCancelled, Finish, IsCancelled
<1>6. ASSUME NEW id \in JobIds, SeeCancelRequest(id) PROVE History'
  BY <1>6 DEF SeeCancelRequest, IsCancelled
<1>7. ASSUME NEW id \in JobIds, RecordCancelled(id) PROVE History'
  BY <1>7 DEF RecordCancelled, Finish
<1>8. ASSUME NEW id \in JobIds, DecideToRun(id) PROVE History'
  BY <1>8 DEF DecideToRun, IsCancelled
<1>9. ASSUME NEW id \in JobIds, MarkRunning(id) PROVE History'
  BY <1>9 DEF MarkRunning, SetState
<1>10. ASSUME NEW id \in JobIds, End(id) PROVE History'
  BY <1>10 DEF End, Finish, SetState
<1>11. ASSUME NEW id \in JobIds, ReadFails(id) PROVE History'
  BY <1>11 DEF ReadFails, CanFail
<1>12. ASSUME NEW id \in JobIds, UpdateFails(id) PROVE History'
  BY <1>12 DEF UpdateFails, Finish, CanFail
<1>13. ASSUME NEW id \in JobIds, NEW r \in Callers, CancelRead(r, id) PROVE History'
  BY <1>13 DEF CancelRead, Exists
<1>14. ASSUME NEW r \in Callers, CancelFlag(r) PROVE History'
  BY <1>14 DEF CancelFlag
<1>15. ASSUME NEW r \in Callers, CancelUpdate(r) PROVE History'
  <2>1. target[r] \in DOMAIN jobs
    BY <1>15 DEF CancelUpdate
  <2>2. /\ DOMAIN jobs' = DOMAIN jobs
        /\ \A i \in DOMAIN jobs : \/ jobs'[i].state = jobs[i].state
                                  \/ jobs[i].state = "Queued" /\ jobs'[i].state = "Cancelled"
    BY <1>15, <2>1, CancelFact DEF CancelUpdate
  <2> QED BY <1>15, <2>1, <2>2 DEF CancelUpdate, NewlyEarly
<1>16. ASSUME NEW r \in Callers, CancelFails(r) PROVE History'
  BY <1>16 DEF CancelFails, CanFail
<1>17. ASSUME DrainJobs PROVE History'
  BY <1>17 DEF DrainJobs
<1>18. ASSUME Stop PROVE History'
  BY <1>18 DEF Stop
<1>19. ASSUME StartProcess PROVE History'
  BY <1>19 DEF StartProcess
<1>20. ASSUME RecoverOne PROVE History'
  BY <1>20 DEF RecoverOne, SetState, Interrupted
<1>21. ASSUME RecoverDone PROVE History'
  BY <1>21 DEF RecoverDone, Interrupted
<1>22. ASSUME RecoverFails PROVE History'
  BY <1>22 DEF RecoverFails, CanFail
<1> QED BY <1>1, <1>2, <1>3, <1>4, <1>5, <1>6, <1>7, <1>8, <1>9, <1>10, <1>11,
          <1>12, <1>13, <1>14, <1>15, <1>16, <1>17, <1>18, <1>19, <1>20, <1>21, <1>22
       DEF JobsNext, WorkerStep, CancelStep

\* The sets of tasks are finite.
LEMMA TaskSetsFinite ==
    /\ IsFiniteSet(JobIds) /\ Cardinality(JobIds) = MaxJobs
    /\ IsFiniteSet(HoldsPermit) /\ IsFiniteSet(Executing) /\ IsFiniteSet(Counted)
    /\ Cardinality(HoldsPermit) \in Nat
    /\ Cardinality(Executing) \in Nat
    /\ Cardinality(Counted) \in 0 .. MaxJobs
<1>1. IsFiniteSet(JobIds) /\ Cardinality(JobIds) = MaxJobs
  BY FS_Interval, JobsAssumption DEF JobIds
<1>2. /\ HoldsPermit \in SUBSET JobIds
      /\ Executing \in SUBSET JobIds
      /\ Counted \in SUBSET JobIds
  BY DEF HoldsPermit, Executing, Counted
<1>3. /\ IsFiniteSet(HoldsPermit) /\ IsFiniteSet(Executing) /\ IsFiniteSet(Counted)
      /\ Cardinality(Counted) <= MaxJobs
  BY <1>1, <1>2, FS_Subset
<1>4. /\ Cardinality(HoldsPermit) \in Nat
      /\ Cardinality(Executing) \in Nat
      /\ Cardinality(Counted) \in Nat
  BY <1>3, FS_CardinalityType
<1> QED BY <1>1, <1>3, <1>4

\* The task of one job goes on to w.
Moves(id, w) == \A i \in JobIds : worker'[i] = IF i = id THEN w ELSE worker[i]

\* What a move does to the three counts.
LEMMA Recount ==
    ASSUME JobsShape, NEW id \in JobIds, NEW w \in WorkerStates,
           Moves(id, w)
    PROVE  /\ Cardinality(HoldsPermit') = Cardinality(HoldsPermit)
                + (IF w \in Working THEN 1 ELSE 0) - (IF worker[id] \in Working THEN 1 ELSE 0)
           /\ Cardinality(Executing') = Cardinality(Executing)
                + (IF w = "executing" THEN 1 ELSE 0) - (IF worker[id] = "executing" THEN 1 ELSE 0)
           /\ Cardinality(Counted') = Cardinality(Counted)
                + (IF w \in {"executing", "done"} THEN 1 ELSE 0)
                - (IF worker[id] \in {"executing", "done"} THEN 1 ELSE 0)
<1>1. worker \in [JobIds -> WorkerStates]
  BY DEF JobsShape
<1>2. /\ HoldsPermit' = IF w \in Working THEN HoldsPermit \cup {id} ELSE HoldsPermit \ {id}
      /\ id \in HoldsPermit <=> worker[id] \in Working
  BY <1>1 DEF HoldsPermit, Moves
<1>3. /\ Executing' = IF w = "executing" THEN Executing \cup {id} ELSE Executing \ {id}
      /\ id \in Executing <=> worker[id] = "executing"
  BY <1>1 DEF Executing, Moves
<1>4. /\ Counted' = IF w \in {"executing", "done"} THEN Counted \cup {id} ELSE Counted \ {id}
      /\ id \in Counted <=> worker[id] \in {"executing", "done"}
  BY <1>1 DEF Counted, Moves
<1>5. ASSUME NEW S, IsFiniteSet(S)
      PROVE  /\ Cardinality(S) \in Nat
             /\ Cardinality(S \cup {id}) = IF id \in S THEN Cardinality(S) ELSE Cardinality(S) + 1
             /\ Cardinality(S \ {id}) = IF id \in S THEN Cardinality(S) - 1 ELSE Cardinality(S)
  BY <1>5, FS_AddElement, FS_RemoveElement, FS_CardinalityType
<1>6. /\ Cardinality(HoldsPermit \cup {id}) = IF id \in HoldsPermit THEN Cardinality(HoldsPermit) ELSE Cardinality(HoldsPermit) + 1
      /\ Cardinality(HoldsPermit \ {id}) = IF id \in HoldsPermit THEN Cardinality(HoldsPermit) - 1 ELSE Cardinality(HoldsPermit)
  BY <1>5, TaskSetsFinite
<1>7. /\ Cardinality(Executing \cup {id}) = IF id \in Executing THEN Cardinality(Executing) ELSE Cardinality(Executing) + 1
      /\ Cardinality(Executing \ {id}) = IF id \in Executing THEN Cardinality(Executing) - 1 ELSE Cardinality(Executing)
  BY <1>5, TaskSetsFinite
<1>8. /\ Cardinality(Counted \cup {id}) = IF id \in Counted THEN Cardinality(Counted) ELSE Cardinality(Counted) + 1
      /\ Cardinality(Counted \ {id}) = IF id \in Counted THEN Cardinality(Counted) - 1 ELSE Cardinality(Counted)
  BY <1>5, TaskSetsFinite
<1>9. Cardinality(HoldsPermit) \in Nat /\ Cardinality(Executing) \in Nat /\ Cardinality(Counted) \in Nat
  BY TaskSetsFinite
<1>10. Cardinality(HoldsPermit') = Cardinality(HoldsPermit)
                + (IF w \in Working THEN 1 ELSE 0) - (IF worker[id] \in Working THEN 1 ELSE 0)
  BY <1>2, <1>6, <1>9
<1>11. Cardinality(Executing') = Cardinality(Executing)
                + (IF w = "executing" THEN 1 ELSE 0) - (IF worker[id] = "executing" THEN 1 ELSE 0)
  BY <1>3, <1>7, <1>9
<1>12. Cardinality(Counted') = Cardinality(Counted)
                + (IF w \in {"executing", "done"} THEN 1 ELSE 0)
                - (IF worker[id] \in {"executing", "done"} THEN 1 ELSE 0)
  BY <1>4, <1>8, <1>9
<1> QED BY <1>10, <1>11, <1>12


\* No step loses a permit or miscounts the executing tasks.
LEMMA CountsStep ==
    ASSUME JobsIInv, JobsNext
    PROVE  Counts'
<1>0. /\ permits \in Nat /\ running \in Int /\ ioErrors \in Nat /\ Concurrency \in Nat
      /\ Cardinality(HoldsPermit) \in Nat
      /\ Cardinality(Executing) \in Nat
      /\ Cardinality(Counted) \in Nat
      /\ worker \in [JobIds -> WorkerStates]
      /\ JobsShape /\ Owners /\ Counts
  BY TaskSetsFinite, JobsAssumption DEF JobsShape, JobsIInv
<1> USE <1>0 DEF WorkerStates, Working, bounds
<1>1. ASSUME NEW id \in JobIds, Create(id) PROVE Counts'
  <2>1. Moves(id, "created") /\ worker[id] = "none"
    BY <1>1 DEF Create, IsNextId, Owners, Moves
  <2> QED BY <1>1, <2>1, Recount DEF Create, Counts
<1>2. ASSUME NEW id \in JobIds, Spawn(id) PROVE Counts'
  <2>1. Moves(id, "waiting")
    BY <1>2 DEF Spawn, Moves
  <2> QED BY <1>2, <2>1, Recount DEF Spawn, Counts
<1>3. ASSUME NEW id \in JobIds, Admit(id) PROVE Counts'
  <2>1. Moves(id, "admitted")
    BY <1>3 DEF Admit, Moves
  <2> QED BY <1>3, <2>1, Recount DEF Admit, Counts
<1>4. ASSUME NEW id \in JobIds, ReadRecord(id) PROVE Counts'
  <2>1. Moves(id, "read")
    BY <1>4 DEF ReadRecord, Moves
  <2> QED BY <1>4, <2>1, Recount DEF ReadRecord, Counts
<1>5. ASSUME NEW id \in JobIds, StopCancelled(id) PROVE Counts'
  <2>1. Moves(id, "done")
    BY <1>5 DEF StopCancelled, Finish, Moves
  <2> QED BY <1>5, <2>1, Recount DEF StopCancelled, Finish, Counts
<1>6. ASSUME NEW id \in JobIds, SeeCancelRequest(id) PROVE Counts'
  <2>1. Moves(id, "cancelling")
    BY <1>6 DEF SeeCancelRequest, Moves
  <2> QED BY <1>6, <2>1, Recount DEF SeeCancelRequest, Counts
<1>7. ASSUME NEW id \in JobIds, RecordCancelled(id) PROVE Counts'
  <2>1. Moves(id, "done")
    BY <1>7 DEF RecordCancelled, Finish, Moves
  <2> QED BY <1>7, <2>1, Recount DEF RecordCancelled, Finish, Counts
<1>8. ASSUME NEW id \in JobIds, DecideToRun(id) PROVE Counts'
  <2>1. Moves(id, "starting")
    BY <1>8 DEF DecideToRun, Moves
  <2> QED BY <1>8, <2>1, Recount DEF DecideToRun, Counts
<1>9. ASSUME NEW id \in JobIds, MarkRunning(id) PROVE Counts'
  <2>1. Moves(id, "executing")
    BY <1>9 DEF MarkRunning, Moves
  <2> QED BY <1>9, <2>1, Recount DEF MarkRunning, Counts
<1>10. ASSUME NEW id \in JobIds, End(id) PROVE Counts'
  <2>1. Moves(id, "done")
    BY <1>10 DEF End, Finish, Moves
  <2> QED BY <1>10, <2>1, Recount DEF End, Finish, Counts
<1>11. ASSUME NEW id \in JobIds, ReadFails(id) PROVE Counts'
  <2>1. Moves(id, "read")
    BY <1>11 DEF ReadFails, Moves
  <2> QED BY <1>11, <2>1, Recount DEF ReadFails, Counts
<1>12. ASSUME NEW id \in JobIds, UpdateFails(id) PROVE Counts'
  <2>1. Moves(id, "done")
    BY <1>12 DEF UpdateFails, Finish, Moves
  <2> QED BY <1>12, <2>1, Recount DEF UpdateFails, Finish, Counts
<1>13. ASSUME UNCHANGED <<worker, permits, running>>, ioErrors' \in {ioErrors, ioErrors + 1}
       PROVE Counts'
  BY <1>13 DEF Counts, HoldsPermit, Executing, Counted
<1>14. ASSUME Stop PROVE Counts'
  <2>1. HoldsPermit' = {} /\ Executing' = {} /\ Counted' = {}
    BY <1>14 DEF Stop, HoldsPermit, Executing, Counted
  <2>2. Cardinality({}) = 0
    BY FS_EmptySet
  <2> QED BY <1>14, <2>1, <2>2 DEF Stop, Counts
<1> QED BY <1>1, <1>2, <1>3, <1>4, <1>5, <1>6, <1>7, <1>8, <1>9, <1>10, <1>11, <1>12, <1>13, <1>14
        DEF JobsNext, WorkerStep, CancelStep, CancelRead, CancelFlag, CancelUpdate,
            CancelFails, DrainJobs, StartProcess, RecoverOne, RecoverDone, RecoverFails, runtime

-----------------------------------------------------------------------------
(* Theorems *)

\* A process that has just started has no job, no task and all permits.
LEMMA JobsInitInv == JobsInit => JobsIInv
<1> SUFFICES ASSUME JobsInit PROVE JobsIInv
  OBVIOUS
<1> USE JobsAssumption DEF JobsInit, JobIds
<1>1. DOMAIN jobs = {} /\ DOMAIN flags = {}
  OBVIOUS
<1>2. JobsShape
  BY <1>1 DEF JobsShape, WorkerStates, SeenStates, Flagged, Working
<1>3. Owners /\ Progress /\ History
  BY <1>1 DEF Owners, Progress, History
<1>4. HoldsPermit = {} /\ Executing = {} /\ Counted = {}
  BY DEF HoldsPermit, Executing, Counted, Working
<1>5. Counts
  BY <1>4, FS_EmptySet DEF Counts
<1> QED BY <1>2, <1>3, <1>5 DEF JobsIInv

\* The invariant is inductive.
LEMMA JobsStepInv == JobsIInv /\ [JobsNext]_jobVars => JobsIInv'
<1> SUFFICES ASSUME JobsIInv, [JobsNext]_jobVars PROVE JobsIInv'
  OBVIOUS
<1>1. CASE JobsNext
  BY <1>1, JobsShapeStep, OwnersStep, ProgressStep, CountsStep, HistoryStep DEF JobsIInv
<1>2. CASE UNCHANGED jobVars
  BY <1>2 DEF jobVars, runtime, bounds, history, JobsIInv, JobsShape, Owners, Progress,
              Counts, History, HoldsPermit, Executing, Counted, Up
<1> QED BY <1>1, <1>2

\* The invariant holds in every state.
LEMMA JobsIInvHolds == JobsSpec => []JobsIInv
  BY JobsInitInv, JobsStepInv, PTL DEF JobsSpec

\* The invariant gives the properties that the run checks.
LEMMA JobsIInvImplies == JobsIInv => JobsInv
<1> SUFFICES ASSUME JobsIInv PROVE JobsInv
  OBVIOUS
<1> USE JobsAssumption DEF JobsIInv
<1>1. JobsTypeOK
  <2>1. permits \in 0 .. Concurrency /\ running \in 0 .. MaxJobs
    BY TaskSetsFinite DEF JobsShape, Counts
  <2>2. DOMAIN flags \subseteq DOMAIN jobs
    BY DEF JobsShape, Owners, Flagged, Working
  <2> QED BY <2>1, <2>2 DEF JobsTypeOK, JobsShape, JobRecord, WorkerStates, SeenStates
<1>2. RecordsMatchTasks
  <2>1. SUFFICES ASSUME Up, ioErrors = 0
                 PROVE  /\ Executing = {id \in DOMAIN jobs : jobs[id].state = "Running"}
                        /\ running = Cardinality(Executing)
                        /\ running <= Concurrency
                        /\ \A id \in DOMAIN jobs :
                             jobs[id].state = "Queued" => worker[id] \in NotYetRead \cup Working
    BY <2>1 DEF RecordsMatchTasks, Executing
  <2>2. \A id \in DOMAIN jobs : id \in JobIds /\ worker[id] \in WorkerStates
    BY DEF JobsShape
  <2>3. \A id \in DOMAIN jobs :
           /\ worker[id] = "executing" <=> jobs[id].state = "Running"
           /\ jobs[id].state = "Queued" => worker[id] \in NotYetRead \cup Working
    BY <2>1, <2>2 DEF Progress, WorkerStates, Working, NotYetRead, Final
  <2>4. Executing = {id \in DOMAIN jobs : jobs[id].state = "Running"}
    BY <2>2, <2>3 DEF Executing, Owners
  <2>5. running = Cardinality(Executing)
    BY <2>1 DEF Counts
  <2>6. Cardinality(Executing) <= Cardinality(HoldsPermit)
    <3>1. Executing \in SUBSET HoldsPermit
      BY DEF Executing, HoldsPermit, Working
    <3> QED BY <3>1, TaskSetsFinite, FS_Subset
  <2>7. running <= Concurrency
    BY <2>5, <2>6, TaskSetsFinite DEF Counts, JobsShape
  <2> QED BY <2>3, <2>4, <2>5, <2>7
<1>3. EarlyCancelPreventsRun
  BY DEF History, EarlyCancelPreventsRun
<1> QED BY <1>1, <1>2, <1>3 DEF JobsInv

\* As long as the store works, the records, the tasks, the gauge and the
\* permits agree in every reachable state, and a job cancelled before its
\* worker looked never runs: for any number of jobs, callers and permits.
THEOREM JobsSafe == JobsSpec => []JobsInv
  BY JobsIInvHolds, JobsIInvImplies, PTL

\* No step writes over the outcome of a job that has completed or failed.
LEMMA OutcomeStep ==
    ASSUME JobsIInv, JobsNext, NEW id \in DOMAIN jobs, jobs[id].state \in {"Completed", "Failed"}
    PROVE  jobs'[id].state = jobs[id].state
<1> USE DEF JobsIInv, JobsShape, Owners, Progress, Up, NotYetRead
<1>1. worker[id] \in {"none", "done"}
  BY DEF WorkerStates, Working
<1>2. ASSUME NEW i \in JobIds, Create(i) PROVE jobs'[id].state = jobs[id].state
  BY <1>2 DEF Create, IsNextId
<1>3. ASSUME NEW i \in JobIds,
             RecordCancelled(i) \/ MarkRunning(i) \/ End(i)
      PROVE  jobs'[id].state = jobs[id].state
  BY <1>1, <1>3 DEF RecordCancelled, MarkRunning, End, SetState
<1>4. ASSUME NEW r \in Callers, CancelUpdate(r) PROVE jobs'[id].state = jobs[id].state
  BY <1>4, CancelFact DEF CancelUpdate
<1>5. ASSUME RecoverOne PROVE jobs'[id].state = jobs[id].state
  BY <1>5 DEF RecoverOne, SetState, Interrupted, Live
<1>6. ASSUME UNCHANGED jobs PROVE jobs'[id].state = jobs[id].state
  BY <1>6
<1> QED BY <1>2, <1>3, <1>4, <1>5, <1>6
        DEF JobsNext, WorkerStep, CancelStep, Spawn, Admit, ReadRecord, StopCancelled,
            SeeCancelRequest, DecideToRun, ReadFails, UpdateFails, CancelRead, CancelFlag,
            CancelFails, DrainJobs, Stop, StartProcess, RecoverDone, RecoverFails

\* A completed or failed job keeps its outcome, whatever cancel, recovery or
\* store error comes after it.
THEOREM OutcomesFinal == JobsSpec => OutcomeIsFinal
<1> DEFINE Kept == \A id \in DOMAIN jobs :
          jobs[id].state \in {"Completed", "Failed"} => jobs'[id].state = jobs[id].state
<1>1. JobsIInv /\ [JobsNext]_jobVars => [Kept]_jobVars
  BY OutcomeStep
<1> QED BY <1>1, JobsIInvHolds, PTL DEF JobsSpec, OutcomeIsFinal
=============================================================================
