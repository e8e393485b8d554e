----------------------------- MODULE Lifecycle -----------------------------
(***************************************************************************)
(* lifecycle.rs: the phase of the runtime, the admission of foreground       *)
(* writes and the wait for those that were admitted.                         *)
(*                                                                         *)
(* The write gate makes admission and a change of phase atomic.  Dropping a   *)
(* guard is two steps, the decrement and the notification, and so is the      *)
(* waiter's look at the counter: both run without the gate.                  *)
(***************************************************************************)
EXTENDS Naturals, FiniteSets

\* The transports that serve foreground writes, each with one write in flight at most.
Transports == {"http", "grpc"}

VARIABLES
  phase,    \* LifecyclePhase
  active,   \* active_foreground_writes
  writer,   \* where the write of each transport is
  waiter,   \* where wait_for_foreground_writes_drained is
  woken     \* its Notified future has been notified

lifecycleVars == <<phase, active, writer, waiter, woken>>

Phases == {"ready", "draining", "stopped"}

IsDraining == phase \in {"draining", "stopped"}

TryAdmitForegroundWrite(w) ==
  /\ writer[w] = "idle" /\ phase = "ready"
  /\ active' = active + 1
  /\ writer' = [writer EXCEPT ![w] = "writing"]
  /\ UNCHANGED <<phase, waiter, woken>>

\* The handler has returned, failed or been dropped; its guard is dropped with it.
DropGuard(w) ==
  /\ writer[w] = "writing"
  /\ active' = active - 1
  /\ writer' = [writer EXCEPT ![w] = IF active = 1 THEN "notify" ELSE "idle"]
  /\ UNCHANGED <<phase, waiter, woken>>

\* Mutant: the future is created after the look at the counter, so a waiter that has
\* looked may not have one yet.
NotifyBeforeCreation(w) ==
  /\ writer[w] = "notify"
  /\ writer' = [writer EXCEPT ![w] = "idle"]
  /\ woken' \in {FALSE, waiter = "waiting"}
  /\ UNCHANGED <<phase, active, waiter>>

\* notify_waiters reaches every Notified future that exists, polled or not.
NotifyWaiters(w) ==
  /\ writer[w] = "notify"
  /\ writer' = [writer EXCEPT ![w] = "idle"]
  /\ woken' = (waiter \in {"created", "waiting"})
  /\ UNCHANGED <<phase, active, waiter>>

BeginDraining ==
  /\ phase' = IF phase = "ready" THEN "draining" ELSE phase
  /\ UNCHANGED <<active, writer, waiter, woken>>

CreateNotified ==
  /\ waiter = "none"
  /\ waiter' = "created" /\ woken' = FALSE
  /\ UNCHANGED <<phase, active, writer>>

CheckForegroundWrites ==
  /\ waiter = "created"
  /\ waiter' = IF active = 0 THEN "drained" ELSE "waiting"
  /\ UNCHANGED <<phase, active, writer, woken>>

AwaitNotified ==
  /\ waiter = "waiting" /\ woken
  /\ waiter' = "none" /\ woken' = FALSE
  /\ UNCHANGED <<phase, active, writer>>

LifecycleTypeOK ==
  /\ phase \in Phases
  /\ active \in 0 .. Cardinality(Transports)
  /\ writer \in [Transports -> {"idle", "writing", "notify"}]
  /\ waiter \in {"none", "created", "waiting", "drained"}
  /\ woken \in BOOLEAN

=============================================================================
