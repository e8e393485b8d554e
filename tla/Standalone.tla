----------------------------- MODULE Standalone -----------------------------
(***************************************************************************)
(* standalone.rs: the process.  It starts the transports and, if configured,  *)
(* the ingestion task, waits for a signal or the unexpected end of one of     *)
(* them, drains and stops.  Of the ingestion task (KafkaIngestion) only       *)
(* matters here whether it still runs.                                       *)
(***************************************************************************)
EXTENDS Lifecycle

CONSTANTS
  KafkaConfigured,   \* KETEBE_KAFKA_BROKERS is set
  MaxFaults          \* bound on failing server tasks and crashes

ASSUME StandaloneAssumption == KafkaConfigured \in BOOLEAN /\ MaxFaults \in Nat

\* The tasks main has spawned and joins.
Servers == Transports \cup (IF KafkaConfigured THEN {"kafka"} ELSE {})

VARIABLES
  main,      \* where run_standalone_from_env is
  server,    \* what each server task is
  outcome,   \* how the process last ended
  faults

standaloneVars == <<lifecycleVars, main, server, outcome, faults>>

\* Servers are joined in this order.
JoinOrder == [http |-> "grpc", grpc |-> IF KafkaConfigured THEN "kafka" ELSE "end", kafka |-> "end"]
Awaiting == [http |-> "await http", grpc |-> "await grpc", kafka |-> "await kafka"]

Finished(x) == server[x] # "serving"

-----------------------------------------------------------------------------
Halt(how) ==
  /\ main' = "down" /\ outcome' = how
  /\ server' = [x \in Servers |-> "serving"]
  /\ phase' = "stopped" /\ active' = 0 /\ waiter' = "none" /\ woken' = FALSE
  /\ writer' = [x \in Transports |-> "idle"]

\* Recovery has succeeded and the server tasks are spawned.
Start ==
  /\ main = "down"
  /\ main' = "select" /\ phase' = "ready" /\ outcome' = "none"
  /\ UNCHANGED <<active, writer, waiter, woken, server, faults>>

Crash ==
  /\ main # "down" /\ faults < MaxFaults
  /\ faults' = faults + 1
  /\ Halt("crashed")

ServerFails(x) ==
  /\ main # "down" /\ server[x] = "serving" /\ faults < MaxFaults
  /\ faults' = faults + 1
  /\ server' = [server EXCEPT ![x] = "failed"]
  /\ UNCHANGED <<lifecycleVars, main, outcome>>

\* A transport that drains ends when its requests have been answered, the ingestion task
\* when its buffers are flushed.
ServerStops(x) ==
  /\ main # "down" /\ server[x] = "serving" /\ IsDraining
  /\ x \in Transports => writer[x] = "idle"
  /\ server' = [server EXCEPT ![x] = "stopped"]
  /\ UNCHANGED <<lifecycleVars, main, outcome, faults>>

\* select!: whichever task ends before the signal ends the process.
UnexpectedEnd ==
  /\ main = "select"
  /\ \E x \in Servers : Finished(x)
  /\ Halt("panicked")
  /\ UNCHANGED faults

Signal ==
  /\ main = "select"
  /\ BeginDraining
  /\ main' = "writes"
  /\ UNCHANGED <<server, outcome, faults>>

WaitForWrites ==
  /\ main = "writes"
  /\ CreateNotified \/ CheckForegroundWrites \/ AwaitNotified
  /\ UNCHANGED <<main, server, outcome, faults>>

WritesDrained ==
  /\ main = "writes" /\ waiter = "drained"
  /\ main' = "http"
  /\ UNCHANGED <<lifecycleVars, server, outcome, faults>>

\* A task that has ended is passed over; any other is awaited ...
Join(x) ==
  /\ main = x
  /\ main' = IF Finished(x) THEN JoinOrder[x] ELSE Awaiting[x]
  /\ UNCHANGED <<lifecycleVars, server, outcome, faults>>

\* ... and finish_http, finish_grpc and finish_kafka panic on every result.
Awaited(x) ==
  /\ main = Awaiting[x] /\ Finished(x)
  /\ Halt("panicked")
  /\ UNCHANGED faults

MarkStopped ==
  /\ main = "end"
  /\ Halt("stopped")
  /\ UNCHANGED faults

\* The drain has taken longer than KETEBE_SHUTDOWN_TIMEOUT_MS: abort and stop.
DeadlineExceeded ==
  /\ main \notin {"down", "select", "end"}
  /\ Halt("deadline")
  /\ UNCHANGED faults

-----------------------------------------------------------------------------
StandaloneInit ==
  /\ phase = "stopped" /\ active = 0 /\ waiter = "none" /\ woken = FALSE
  /\ writer = [x \in Transports |-> "idle"]
  /\ main = "down" /\ outcome = "none" /\ faults = 0
  /\ server = [x \in Servers |-> "serving"]

AdmitWrite(x) ==
  /\ server[x] = "serving" /\ TryAdmitForegroundWrite(x)
  /\ UNCHANGED <<main, server, outcome, faults>>

EndWrite(x) ==
  /\ DropGuard(x) \/ NotifyWaiters(x)
  /\ UNCHANGED <<main, server, outcome, faults>>

MainStep ==
  \/ UnexpectedEnd \/ WaitForWrites \/ WritesDrained \/ MarkStopped
  \/ \E x \in Servers : Join(x) \/ Awaited(x)

StandaloneNext ==
  \/ \E x \in Transports : AdmitWrite(x) \/ EndWrite(x)
  \/ \E x \in Servers : ServerFails(x) \/ ServerStops(x)
  \/ Start \/ Signal \/ MainStep \/ DeadlineExceeded \/ Crash

StandaloneSpec == StandaloneInit /\ [][StandaloneNext]_standaloneVars

\* Tokio runs tasks that can run, and admitted writes end.  The deadline is left out: a
\* drain has to end by itself.
StandaloneFairness ==
  /\ \A x \in Transports : WF_standaloneVars(EndWrite(x))
  /\ \A x \in Servers : WF_standaloneVars(ServerStops(x))
  /\ WF_standaloneVars(MainStep)

StandaloneFairSpec == StandaloneSpec /\ StandaloneFairness

-----------------------------------------------------------------------------
\* Properties.

\* Every variable has its type.
StandaloneTypeOK ==
  /\ LifecycleTypeOK
  /\ main \in {"down", "select", "writes", "http", "grpc", "kafka", "end",
               "await http", "await grpc", "await kafka"}
  /\ server \in [Servers -> {"serving", "stopped", "failed"}]
  /\ outcome \in {"none", "crashed", "panicked", "deadline", "stopped"}
  /\ faults \in 0 .. MaxFaults

\* Once it drains, the process ends with an admitted write in progress only because of
\* the deadline or a crash: not by stopping, and not by the panic of a task it joins.
AdmittedWritesFinish ==
  [][phase = "draining" /\ outcome' \in {"stopped", "panicked"}
       => \A x \in Transports : writer[x] # "writing"]_standaloneVars

\* The wait for admitted writes misses no notification: even with no deadline, a process
\* that drains ends.
DrainEnds == main = "writes" ~> main = "down"

\* Shutdown as a whole (run_standalone_from_env, Lifecycle): the counter of admitted writes is
\* exact (StandaloneTypeOK), a drain cuts off no admitted write (AdmittedWritesFinish), and it
\* ends by itself (DrainEnds).
DrainCompletes == []StandaloneTypeOK /\ AdmittedWritesFinish /\ DrainEnds
=============================================================================
