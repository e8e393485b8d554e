-------------------------- MODULE ResourceScheduler --------------------------
(***************************************************************************)
(* The global ResourceScheduler: background work of five kinds passes      *)
(* through up to six semaphores, one after the other, before it runs.      *)
(* Holding some and waiting for the next, requests form a hold-and-wait    *)
(* chain; a job that embeds asks for a second permit while it holds one.   *)
(* tokio's Semaphore is modelled as it documents itself: first come, first *)
(* served, and what is available while somebody waits is set aside for the *)
(* one at the head of the queue.                                           *)
(***************************************************************************)
EXTENDS Integers, Sequences, FiniteSets, SequencesExt

CONSTANTS
    Clients,     \* tasks that ask for permits
    KindOf,      \* the WorkKind each of them asks for
    OuterOf,     \* the client on whose behalf it works, or NoClient
    NoClient,
    TryClients,  \* the clients that may use try_acquire
    Budget,      \* ResourceBudget
    MaxCancels   \* bound: acquire futures dropped while they wait

ASSUME SchedulerAssumption ==
    /\ KindOf \in [Clients -> {"Embedding", "LexicalBuild", "Compaction", "Migration", "Job"}]
    /\ OuterOf \in [Clients -> Clients \cup {NoClient}]
    /\ NoClient \notin Clients
    /\ TryClients \subseteq Clients
    /\ IsFiniteSet(Clients)
    /\ MaxCancels \in Nat

VARIABLES
    at,       \* position in Order: 0 outside, beyond its end admitted
    manner,   \* "wait" for acquire, "try" for try_acquire
    avail,    \* available permits of each semaphore
    queue,    \* the clients that wait on each semaphore, in order
    queued,   \* SchedulerMetrics.queued
    activePermits,   \* SchedulerMetrics.active
    cancels   \* futures dropped so far

schedulerVars == <<at, manner, avail, queue, queued, activePermits, cancels>>

-----------------------------------------------------------------------------
(* Kinds of work, budgets and limits *)

Priority(kind) ==
    CASE kind = "Embedding" -> "High"
      [] kind \in {"LexicalBuild", "Migration"} -> "Normal"
      [] kind \in {"Compaction", "Job"} -> "Low"

Resources(kind) ==
    CASE kind = "Embedding"    -> [cpu |-> 1, memory |-> 2, io |-> 0]
      [] kind = "LexicalBuild" -> [cpu |-> 2, memory |-> 2, io |-> 2]
      [] kind = "Compaction"   -> [cpu |-> 2, memory |-> 2, io |-> 2]
      [] kind = "Migration"    -> [cpu |-> 2, memory |-> 2, io |-> 1]
      [] kind = "Job"          -> [cpu |-> 1, memory |-> 1, io |-> 1]

AtLeastOne(n) == IF n < 1 THEN 1 ELSE n

\* ResourceBudget::validate.
ValidBudget(b) ==
    /\ DOMAIN b = {"cpu", "memory", "io", "tasks", "cpuReserve", "memoryReserve", "ioReserve"}
    /\ \A limit \in DOMAIN b : b[limit] \in Nat
    /\ 0 \notin {b.cpu, b.memory, b.io, b.tasks}
    /\ b.cpuReserve < b.cpu
    /\ b.memoryReserve < b.memory
    /\ b.ioReserve < b.io

ASSUME BudgetAssumption == ValidBudget(Budget)

NonHighLimit == AtLeastOne(Budget.tasks \div 2)
LowLimit     == AtLeastOne(NonHighLimit \div 2)

\* What ResourceScheduler::new gives each semaphore.
Limit ==
    [low |-> LowLimit, nonHigh |-> NonHighLimit, slots |-> Budget.tasks,
     cpu |-> Budget.cpu - Budget.cpuReserve, memory |-> Budget.memory - Budget.memoryReserve,
     io |-> Budget.io - Budget.ioReserve]

Semaphores == DOMAIN Limit

Need(kind, s) ==
    CASE s = "low"     -> IF Priority(kind) = "Low" THEN 1 ELSE 0
      [] s = "nonHigh" -> IF Priority(kind) = "High" THEN 0 ELSE 1
      [] s = "slots"   -> 1
      [] s \in {"cpu", "memory", "io"} -> Resources(kind)[s]

\* Mutant: low-priority work takes the shared pool first.
OrderSwapped == <<"nonHigh", "low", "slots", "cpu", "memory", "io">>

\* The order in which acquire_inner and try_acquire ask.
Order == <<"low", "nonHigh", "slots", "cpu", "memory", "io">>

Positions == 1 .. 6
Served == 7

\* The next position after i of a semaphore of which the client needs permits.
After(c, i) ==
    CHOOSE j \in i + 1 .. Served :
        /\ j = Served \/ Need(KindOf[c], Order[j]) > 0
        /\ \A k \in i + 1 .. j - 1 : Need(KindOf[c], Order[k]) = 0

\* validate_request.
Fits(c) == \A s \in {"cpu", "memory", "io"} : Resources(KindOf[c])[s] <= Limit[s]

-----------------------------------------------------------------------------
(* Clients *)

Outside(c)  == at[c] = 0
Admitted(c) == at[c] = Served
Asking(c)   == at[c] \in Positions
NextOf(c)   == Order[at[c]]
Held(c)     == {s \in {Order[i] : i \in 1 .. at[c] - 1} : Need(KindOf[c], s) > 0}
Holders(s)  == {c \in Clients : s \in Held(c)}

\* The permits of a semaphore that clients hold, each with its number in its holder's hands.
PermitsOut(s) == UNION {{c} \X (1 .. Need(KindOf[c], s)) : c \in Holders(s)}

\* Nested work runs inside the work it is for.
MayStart(c)  == Outside(c) /\ (OuterOf[c] # NoClient => Admitted(OuterOf[c]))
InnerDone(c) == \A d \in Clients : OuterOf[d] = c => Outside(d)

\* Mutant: the permit of the low-priority pool is forgotten.
GiveBackAllButLow(c) ==
    avail' = [s \in Semaphores |->
                avail[s] + IF s \in Held(c) \ {"low"} THEN Need(KindOf[c], s) ELSE 0]

\* Dropping the permits a client holds.
GiveBack(c) ==
    avail' = [s \in Semaphores |->
                avail[s] + IF s \in Held(c) THEN Need(KindOf[c], s) ELSE 0]

Take(c) ==
    /\ avail' = [avail EXCEPT ![NextOf(c)] = @ - Need(KindOf[c], NextOf(c))]
    /\ at' = [at EXCEPT ![c] = After(c, @)]

LastStep(c) == After(c, at[c]) = Served

-----------------------------------------------------------------------------
(* acquire *)

Acquire(c) ==
    /\ MayStart(c)
    /\ Fits(c)
    /\ at' = [at EXCEPT ![c] = After(c, 0)]
    /\ manner' = [manner EXCEPT ![c] = "wait"]
    /\ queued' = queued + 1
    /\ UNCHANGED <<avail, queue, activePermits, cancels>>

\* The queue once a client has left it; nobody is in it twice.
Without(q, c) ==
    IF \E i \in 1 .. Len(q) : q[i] = c
    THEN RemoveAt(q, CHOOSE i \in 1 .. Len(q) : q[i] = c) ELSE q

IsWaiting(c) == Asking(c) /\ manner[c] = "wait" /\ Contains(queue[NextOf(c)], c)

\* The future is polled and asks the next semaphore.
Enqueue(c) ==
    /\ Asking(c)
    /\ manner[c] = "wait"
    /\ ~IsWaiting(c)
    /\ queue' = [queue EXCEPT ![NextOf(c)] = Append(@, c)]
    /\ UNCHANGED <<at, manner, avail, queued, activePermits, cancels>>

\* Mutant: whoever looks first gets the permits.
GrantedToAnyone(c) ==
    /\ IsWaiting(c)
    /\ avail[NextOf(c)] >= Need(KindOf[c], NextOf(c))
    /\ Take(c)
    /\ queue' = [queue EXCEPT ![NextOf(c)] = Without(@, c)]
    /\ queued' = IF LastStep(c) THEN queued - 1 ELSE queued
    /\ activePermits' = IF LastStep(c) THEN activePermits + 1 ELSE activePermits
    /\ UNCHANGED <<manner, cancels>>

\* The head of the queue gets its permits, all at once.
Granted(c) ==
    /\ IsWaiting(c)
    /\ Head(queue[NextOf(c)]) = c
    /\ avail[NextOf(c)] >= Need(KindOf[c], NextOf(c))
    /\ Take(c)
    /\ queue' = [queue EXCEPT ![NextOf(c)] = Tail(@)]
    /\ queued' = IF LastStep(c) THEN queued - 1 ELSE queued
    /\ activePermits' = IF LastStep(c) THEN activePermits + 1 ELSE activePermits
    /\ UNCHANGED <<manner, cancels>>

\* The caller's future is dropped while it waits (a client hangs up on a
\* request that embeds or compacts): the permits go back, and the code after
\* the await that would decrement the gauge never runs.
Cancel(c) ==
    /\ cancels < MaxCancels
    /\ Asking(c)
    /\ manner[c] = "wait"
    /\ KindOf[c] \in {"Embedding", "Compaction"}
    /\ OuterOf[c] = NoClient
    /\ GiveBack(c)
    /\ queue' = [queue EXCEPT ![NextOf(c)] = Without(@, c)]
    /\ at' = [at EXCEPT ![c] = 0]
    /\ cancels' = cancels + 1
    /\ UNCHANGED <<manner, queued, activePermits>>

-----------------------------------------------------------------------------
(* try_acquire *)

TryAcquire(c) ==
    /\ c \in TryClients
    /\ MayStart(c)
    /\ Fits(c)
    /\ at' = [at EXCEPT ![c] = After(c, 0)]
    /\ manner' = [manner EXCEPT ![c] = "try"]
    /\ UNCHANGED <<avail, queue, queued, activePermits, cancels>>

\* Nothing is available to a try while somebody waits.
CanTake(c) == queue[NextOf(c)] = <<>> /\ avail[NextOf(c)] >= Need(KindOf[c], NextOf(c))

TryTake(c) ==
    /\ Asking(c)
    /\ manner[c] = "try"
    /\ CanTake(c)
    /\ Take(c)
    /\ activePermits' = IF LastStep(c) THEN activePermits + 1 ELSE activePermits
    /\ UNCHANGED <<manner, queue, queued, cancels>>

\* Overloaded: the permits taken so far are dropped.
TryRejected(c) ==
    /\ Asking(c)
    /\ manner[c] = "try"
    /\ ~CanTake(c)
    /\ GiveBack(c)
    /\ at' = [at EXCEPT ![c] = 0]
    /\ UNCHANGED <<manner, queue, queued, activePermits, cancels>>

\* Drop of ResourcePermit.
Release(c) ==
    /\ Admitted(c)
    /\ InnerDone(c)
    /\ GiveBack(c)
    /\ at' = [at EXCEPT ![c] = 0]
    /\ activePermits' = activePermits - 1
    /\ UNCHANGED <<manner, queue, queued, cancels>>

-----------------------------------------------------------------------------
SchedulerInit ==
    /\ at = [c \in Clients |-> 0]
    /\ manner = [c \in Clients |-> "wait"]
    /\ avail = Limit
    /\ queue = [s \in Semaphores |-> <<>>]
    /\ queued = 0
    /\ activePermits = 0
    /\ cancels = 0

SchedulerNext ==
    \E c \in Clients :
        \/ Acquire(c) \/ Enqueue(c) \/ Granted(c) \/ Cancel(c)
        \/ TryAcquire(c) \/ TryTake(c) \/ TryRejected(c)
        \/ Release(c)

SchedulerSpec == SchedulerInit /\ [][SchedulerNext]_schedulerVars

\* Tasks are polled and semaphores serve their queue; background work ends,
\* and a job embeds finitely often, so its permit is released although nested
\* requests keep interrupting the moments at which it could be.
SchedulerFairness ==
    \A c \in Clients :
        /\ WF_schedulerVars(Enqueue(c) \/ Granted(c) \/ TryTake(c) \/ TryRejected(c))
        /\ SF_schedulerVars(Release(c))

SchedulerFairSpec == SchedulerSpec /\ SchedulerFairness

-----------------------------------------------------------------------------
(* Properties *)

\* The state variables hold values of the types the code gives them.
SchedulerTypeOK ==
    /\ at \in [Clients -> 0 .. Served]
    /\ manner \in [Clients -> {"wait", "try"}]
    /\ \A s \in Semaphores : avail[s] \in 0 .. Limit[s]
    /\ \A s \in Semaphores : queue[s] \in Seq(Clients)
    /\ queued \in Nat
    /\ activePermits \in Nat
    /\ cancels \in 0 .. MaxCancels

\* No permit is lost or invented, whichever way a request ends: admitted and
\* dropped, rejected half-way through try_acquire, or its future dropped while
\* it waits. What is available and what clients hold adds up to the budget
\* that is left after the foreground reserve.
PermitsConserved ==
    \A s \in Semaphores : avail[s] + Cardinality(PermitsOut(s)) = Limit[s]

\* The gauges tell the truth: active counts the permits that are out, and queued the requests
\* that wait, except that a future dropped while it waited stays counted for ever.
GaugesExact ==
    /\ activePermits = Cardinality({c \in Clients : Admitted(c)})
    /\ queued = Cardinality({c \in Clients : Asking(c) /\ manner[c] = "wait"}) + cancels

\* Urgent work keeps capacity: however much other work is running or waiting
\* with some permits in hand, it never holds more than half of the slots.
HighKeepsSlots ==
    LET others == {c \in Holders("slots") : Priority(KindOf[c]) # "High"}
    IN  Cardinality(others) <= AtLeastOne(Budget.tasks \div 2)

\* Low-priority work keeps to its share of the common pool even while it is
\* queued, so that it cannot block normal work it does not run beside.
LowLeavesRoomForNormal ==
    LET lows == {c \in Holders("nonHigh") : Priority(KindOf[c]) = "Low"}
    IN  Cardinality(lows) <= LowLimit

\* Every request that waits is admitted in the end (or its caller gives up):
\* the chain of semaphores, with a job's nested request going through it a
\* second time, never ends in everyone waiting on everyone.
WaitersAreServed ==
    \A c \in Clients : (Asking(c) /\ manner[c] = "wait") ~> (Admitted(c) \/ Outside(c))

\* The scheduler's books are right: SchedulerTypeOK, no exit of acquire, try_acquire or a
\* dropped future loses or invents a permit (PermitsConserved), and the metrics count what is
\* there (GaugesExact).
SchedulerInv == SchedulerTypeOK /\ PermitsConserved /\ GaugesExact

\* Each priority keeps to its share: other work leaves slots to urgent work (HighKeepsSlots) and
\* background work leaves room for normal work (LowLeavesRoomForNormal).
SharesKept == HighKeepsSlots /\ LowLeavesRoomForNormal
=============================================================================
