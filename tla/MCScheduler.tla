----------------------------- MODULE MCScheduler -----------------------------
(***************************************************************************)
(* Who waits for whom in a process: a behaviour runs the resource          *)
(* scheduler, with the budget of ResourceBudget::default, or the process   *)
(* and its shutdown.  In the initial state of a part that does not run, no *)
(* fair action is enabled.                                                 *)
(***************************************************************************)
EXTENDS ResourceScheduler, Standalone, TLC

CONSTANTS embed, lexical, compact, job, jobEmbed

VARIABLE part

vars == <<part, schedulerVars, standaloneVars>>

\* jobEmbed is the embedding that a catch-up job does under its own permit.
MCKindOf ==
    embed :> "Embedding" @@ lexical :> "LexicalBuild"
    @@ compact :> "Compaction" @@ job :> "Job" @@ jobEmbed :> "Embedding"
MCOuterOf == [c \in Clients |-> IF c = jobEmbed THEN job ELSE NoClient]

DefaultBudget ==
    [cpu |-> 8, memory |-> 8, io |-> 8,
     cpuReserve |-> 2, memoryReserve |-> 2, ioReserve |-> 2, tasks |-> 4]

Init == part \in {"scheduler", "process"} /\ SchedulerInit /\ StandaloneInit
Next ==
    /\ UNCHANGED part
    /\ \/ part = "scheduler" /\ SchedulerNext /\ UNCHANGED standaloneVars
       \/ part = "process" /\ StandaloneNext /\ UNCHANGED schedulerVars
FairSpec == Init /\ [][Next]_vars /\ SchedulerFairness /\ StandaloneFairness
================================================================================
