--------------------------- MODULE KafkaIngestion ---------------------------
(***************************************************************************)
(* kafka_ingestion.rs and stream_ingestion_http.rs: tasks that consume a      *)
(* topic into one collection, and the requests that create, pause and resume *)
(* the managed one.                                                          *)
(*                                                                         *)
(* A task buffers the messages of each partition, applies a batch, then       *)
(* commits its offset; a poison message stops it or goes to the dead-letter   *)
(* topic.  The consumer group (broker and client library) is external: it     *)
(* gives a partition to one member at a time, tells a member of a revocation  *)
(* while that member polls, and accepts commits of its members.  All tasks    *)
(* are taken to share group and collection, which the code does not forbid.   *)
(***************************************************************************)
EXTENDS Naturals, FiniteSets, Sequences

CONSTANTS
  Tasks,           \* identities for ingestion tasks, used again after a task has ended
  NumPartitions,
  Keys,            \* record ids
  Configs,         \* the configurations to explore
  BatchMax,        \* batch_max_records
  MaxRebalances,   \* bound on revocations and expulsions
  MaxRequests,     \* bound on stream requests
  MaxFaults,       \* bound on failing writes, sends, commits and polls, and on crashes
  NoTask

Partitions == 1 .. NumPartitions
MessageKinds == {"write", "poison", "empty"}
Message == [kind : MessageKinds, key : Keys]

\* What the topic holds, what happens to poison messages, and whether the environment
\* configures an ingestion task beside the managed stream.
Config == [topic : [Partitions -> Seq(Message)], policy : {"block", "dlq"}, env : BOOLEAN]

ASSUME IngestionAssumption ==
  /\ NumPartitions \in Nat \ {0} /\ BatchMax \in Nat \ {0}
  /\ Configs \subseteq Config
  /\ MaxRebalances \in Nat /\ MaxRequests \in Nat /\ MaxFaults \in Nat
  /\ NoTask \notin Tasks

VARIABLES
  config,      \* one of Configs; offset o of a partition is its message at o + 1
  server,      \* the process: "down", "up", or "draining" once is_draining holds
  committed,   \* the group's committed offset per partition
  members,     \* tasks that are members of the group
  task,        \* the state of each task
  stored,      \* per partition and record the message last applied: its offset + 1, or 0
  handled,     \* history: offsets applied or dead-lettered
  stream,      \* MANAGED_STREAM: state and task handle
  rebalances, requests, faults,
  stale        \* history: partitions assigned while a task still had messages of them

vars == <<config, server, committed, members, task, stored, handled, stream, rebalances,
          requests, faults, stale>>
groupVars == <<config, server, committed, members>>

NoPositions == [p \in Partitions |-> 0]

\* A task without partitions and messages, and one that does not run.
FreshTask(pc, managed) ==
  [pc |-> pc, managed |-> managed, aborted |-> FALSE, assigned |-> {},
   position |-> NoPositions, revoked |-> <<>>,
   buffers |-> [p \in Partitions |-> <<>>], work |-> <<>>, mode |-> "batch", batch |-> <<>>]
IdleTask == FreshTask("idle", TRUE)

\* All partitions in the order of the map of buffers, and the orders in which the broker
\* may list the partitions in S.
InOrder == [p \in Partitions |-> p]
Listings(S) == {s \in [1 .. Cardinality(S) -> S] : \A p \in S : \E i \in DOMAIN s : s[i] = p}

End(p) == Len(config.topic[p])
MessageAt(p, o) == config.topic[p][o + 1]

IsDraining == server = "draining"

Buffered(t) == {p \in Partitions : task[t].buffers[p] # <<>>}

-----------------------------------------------------------------------------
\* flush_partition: the messages of one partition, batch by batch.

IsPoison(p, o) == MessageAt(p, o).kind = "poison"

\* Mutant: poison messages are left out of the batch and the rest is applied.
PoisonFiltered(p, buffer) == SelectSeq(buffer, LAMBDA o : ~IsPoison(p, o))

\* The buffer up to its first poison message.
CleanPrefix(p, buffer) ==
  LET poisoned == {i \in DOMAIN buffer : IsPoison(p, buffer[i])}
      first == CHOOSE i \in poisoned : \A j \in poisoned : i <= j
  IN  IF poisoned = {} THEN buffer ELSE SubSeq(buffer, 1, first - 1)

StrictlyIncreasing(offsets) ==
  \A i \in 1 .. Len(offsets) - 1 : offsets[i] < offsets[i + 1]

\* A message without payload, a poison message under the blocking policy, or offsets
\* that do not increase end the task before anything is written.
BatchRefused(p, buffer) ==
  \/ \E i \in DOMAIN buffer : MessageAt(p, buffer[i]).kind = "empty"
  \/ config.policy = "block" /\ \E i \in DOMAIN buffer : IsPoison(p, buffer[i])
  \/ ~StrictlyIncreasing(CleanPrefix(p, buffer))

\* How many messages the next commit covers: the clean prefix, or one dead letter.
BatchLength(p, buffer) ==
  IF CleanPrefix(p, buffer) = <<>> THEN 1 ELSE Len(CleanPrefix(p, buffer))

\* KafkaBatchAck::next_offset.
NextOffset(p, buffer) == buffer[BatchLength(p, buffer)] + 1

\* Where the loop goes on when nothing is left to flush.
AfterFlush == [batch |-> "loop", revoked |-> "recv", drain |-> "stop"]

\* What becomes of the next batch of a partition.
BatchPC(p, buffer) ==
  IF BatchRefused(p, buffer) THEN "fail"
  ELSE IF CleanPrefix(p, buffer) = <<>> THEN "deadletter" ELSE "write"

\* The places in a list of the partitions that have messages, and the list from the first
\* of them on.
Pending(buffers, list) == {i \in DOMAIN list : buffers[list[i]] # <<>>}
Rest(buffers, list) ==
  SubSeq(list, CHOOSE i \in Pending(buffers, list) : \A j \in Pending(buffers, list) : i <= j,
         Len(list))

\* The first partition in need of a flush is flushed, and the work left is kept.
BeginBatch(x, work, mode) ==
  LET p == Head(work)
      pc == BatchPC(p, x.buffers[p])
  IN  [x EXCEPT !.work = work, !.mode = mode, !.pc = pc,
                !.batch = IF pc = "write" THEN CleanPrefix(p, x.buffers[p]) ELSE @]

\* The next step of a flush of the listed partitions; empty buffers are passed over.
Flush(x, list, mode) ==
  IF Pending(x.buffers, list) = {}
  THEN [x EXCEPT !.work = <<>>, !.mode = "batch", !.pc = AfterFlush[mode]]
  ELSE BeginBatch(x, Rest(x.buffers, list), mode)

-----------------------------------------------------------------------------
\* The task's loop.

\* Creates the consumer and subscribes.
Subscribe(t) ==
  /\ task[t].pc = "new"
  /\ task' = [task EXCEPT ![t].pc = "loop"]
  /\ members' = members \cup {t}
  /\ UNCHANGED <<config, server, committed, stored, handled, stream, rebalances, requests, faults, stale>>

\* Draining first, then the rebalances the callback has recorded.
LoopTop(t) ==
  /\ task[t].pc = "loop"
  /\ \/ /\ IsDraining
        /\ task' = [task EXCEPT ![t] = Flush(@, InOrder, "drain")]
     \/ /\ ~IsDraining
        /\ task' = [task EXCEPT ![t] = Flush([@ EXCEPT !.revoked = <<>>], @.revoked, "revoked")]
  /\ UNCHANGED <<groupVars, stored, handled, stream, rebalances, requests, faults, stale>>

Polls(t) == task[t].pc = "recv"

Received(x, p) ==
  [x EXCEPT !.buffers[p] = Append(@, x.position[p]), !.position[p] = @ + 1]

Receive(t, p) ==
  /\ Polls(t) /\ t \in members
  /\ p \in task[t].assigned /\ task[t].position[p] < End(p)
  /\ LET x == Received(task[t], p)
     IN  task' = [task EXCEPT ![t] = IF Len(x.buffers[p]) >= BatchMax THEN Flush(x, <<p>>, "batch")
                                                                      ELSE [x EXCEPT !.pc = "loop"]]
  /\ UNCHANGED <<groupVars, stored, handled, stream, rebalances, requests, faults, stale>>

\* Mutant: the timeout goes back to the loop without flushing.
LingerIgnored(t) ==
  /\ Polls(t) /\ t \in members
  /\ task' = [task EXCEPT ![t].pc = "loop"]
  /\ UNCHANGED <<groupVars, stored, handled, stream, rebalances, requests, faults, stale>>

\* batch_linger_ms pass without a message.
Linger(t) ==
  /\ Polls(t) /\ t \in members
  /\ task' = [task EXCEPT ![t] = Flush(@, InOrder, "batch")]
  /\ UNCHANGED <<groupVars, stored, handled, stream, rebalances, requests, faults, stale>>

Fail(t) == task' = [task EXCEPT ![t].pc = "fail"]

\* The client reports an error when it is set up, polled or paused: the member was
\* expelled, or the broker is gone.
ClientError(t) ==
  /\ \/ Polls(t) /\ t \notin members /\ UNCHANGED faults
     \/ /\ Polls(t) \/ task[t].pc = "new" \/ (task[t].pc = "loop" /\ IsDraining)
        /\ faults < MaxFaults /\ faults' = faults + 1
  /\ Fail(t)
  /\ UNCHANGED <<groupVars, stored, handled, stream, rebalances, requests, stale>>

-----------------------------------------------------------------------------
\* The steps of a flush.

Apply(t) ==
  LET p == Head(task[t].work)
      o == Head(task[t].batch)
  IN  /\ stored' = [stored EXCEPT ![p][MessageAt(p, o).key] = o + 1]
      /\ handled' = [handled EXCEPT ![p] = @ \cup {o}]

\* One mutation of apply_partition_batch through the write service.
WriteRecord(t) ==
  /\ task[t].pc = "write"
  /\ Apply(t)
  /\ task' = [task EXCEPT ![t].batch = Tail(@),
                          ![t].pc = IF Len(task[t].batch) = 1 THEN "commit" ELSE "write"]
  /\ UNCHANGED <<groupVars, stream, rebalances, requests, faults, stale>>

\* A write may report an error after its record has become durable.
WriteFails(t) ==
  /\ task[t].pc = "write" /\ faults < MaxFaults
  /\ faults' = faults + 1
  /\ Apply(t) \/ UNCHANGED <<stored, handled>>
  /\ Fail(t)
  /\ UNCHANGED <<groupVars, stream, rebalances, requests, stale>>

DeadLetter(t) ==
  LET p == Head(task[t].work)
  IN  handled' = [handled EXCEPT ![p] = @ \cup {task[t].buffers[p][1]}]

PublishDlq(t) ==
  /\ task[t].pc = "deadletter"
  /\ DeadLetter(t)
  /\ task' = [task EXCEPT ![t].pc = "commit"]
  /\ UNCHANGED <<groupVars, stored, stream, rebalances, requests, faults, stale>>

PublishDlqFails(t) ==
  /\ task[t].pc = "deadletter" /\ faults < MaxFaults
  /\ faults' = faults + 1
  /\ DeadLetter(t) \/ UNCHANGED handled
  /\ Fail(t)
  /\ UNCHANGED <<groupVars, stored, stream, rebalances, requests, stale>>

Acknowledge(t) ==
  LET p == Head(task[t].work)
  IN  committed' = [committed EXCEPT ![p] = NextOffset(p, task[t].buffers[p])]

\* The messages of the batch leave the buffer.
Drained(x, p) ==
  [x EXCEPT !.buffers[p] = SubSeq(@, BatchLength(p, @) + 1, Len(@))]

\* The broker asks who commits, not whether the partition is still theirs.
CommitAck(t) ==
  /\ task[t].pc = "commit" /\ t \in members
  /\ Acknowledge(t)
  /\ task' = [task EXCEPT ![t] = Flush(Drained(@, Head(@.work)), @.work, @.mode)]
  /\ UNCHANGED <<config, server, members, stored, handled, stream, rebalances, requests, faults, stale>>

\* Not a member any more, a rebalance under way, or an error, after which the offset may
\* be committed all the same.
CommitFails(t) ==
  /\ task[t].pc = "commit"
  /\ \/ /\ t \notin members \/ Head(task[t].work) \notin task[t].assigned
        /\ UNCHANGED <<committed, faults>>
     \/ /\ t \in members /\ faults < MaxFaults
        /\ faults' = faults + 1
        /\ Acknowledge(t) \/ UNCHANGED committed
  /\ Fail(t)
  /\ UNCHANGED <<config, server, members, stored, handled, stream, rebalances, requests, stale>>

-----------------------------------------------------------------------------
\* The end of a task.  Its consumer is dropped with it and leaves the group.

TaskEnds(t) ==
  /\ task' = [task EXCEPT ![t] = IdleTask]
  /\ members' = members \ {t}
  /\ UNCHANGED <<config, server, committed, rebalances, requests, faults, stale>>

\* Mutant: the error of the task is dropped.
FailureUnreported(t) ==
  /\ task[t].pc = "fail" /\ task[t].managed
  /\ TaskEnds(t)
  /\ UNCHANGED <<stored, handled, stream>>

\* spawn_stream records the failure of the managed task, whatever the stream is by now.
ManagedTaskFails(t) ==
  /\ task[t].pc = "fail" /\ task[t].managed
  /\ stream' = [stream EXCEPT !.state = "failed"]
  /\ TaskEnds(t)
  /\ UNCHANGED <<stored, handled>>

ManagedTaskStops(t) ==
  /\ task[t].pc = "stop" /\ task[t].managed
  /\ TaskEnds(t)
  /\ UNCHANGED <<stored, handled, stream>>

\* An abort takes effect where the task waits; a write or a send under way may have
\* become durable.
AbortTakesEffect(t) ==
  /\ task[t].aborted
  /\ \/ task[t].pc \in {"new", "recv", "write", "deadletter"} /\ UNCHANGED <<stored, handled>>
     \/ task[t].pc = "write" /\ Apply(t)
     \/ task[t].pc = "deadletter" /\ DeadLetter(t) /\ UNCHANGED stored
  /\ TaskEnds(t)
  /\ UNCHANGED stream

-----------------------------------------------------------------------------
\* Requests on the managed stream.

Spawn(t, managed) ==
  task' = [task EXCEPT ![t] = FreshTask("new", managed)]

StreamRequest ==
  /\ server # "down" /\ requests < MaxRequests
  /\ requests' = requests + 1
  /\ UNCHANGED <<groupVars, stored, handled, rebalances, faults, stale>>

CreateStream(t) ==
  /\ stream.state = "none" /\ task[t].pc = "idle"
  /\ Spawn(t, TRUE)
  /\ stream' = [state |-> "running", handle |-> t]
  /\ StreamRequest

PauseStream ==
  /\ stream.state = "running"
  /\ task' = IF stream.handle = NoTask \/ task[stream.handle].pc = "idle" THEN task
             ELSE [task EXCEPT ![stream.handle].aborted = TRUE]
  /\ stream' = [state |-> "paused", handle |-> NoTask]
  /\ StreamRequest

ResumeStream(t) ==
  /\ stream.state \in {"paused", "failed"} /\ task[t].pc = "idle"
  /\ Spawn(t, TRUE)
  /\ stream' = [state |-> "running", handle |-> t]
  /\ StreamRequest

-----------------------------------------------------------------------------
\* The consumer group.

Free(p) == \A u \in members : p \notin task[u].assigned

\* The poll serves the rebalance callback: the revocation is recorded, the partitions are
\* gone at once.  A member that was expelled learns of it here and joins again.
Revoke(t) ==
  /\ Polls(t)
  /\ \/ t \notin members /\ UNCHANGED rebalances
     \/ /\ t \in members /\ task[t].assigned # {}
        /\ rebalances < MaxRebalances /\ rebalances' = rebalances + 1
  /\ members' = members \cup {t}
  /\ \E list \in Listings(task[t].assigned) :
       task' = [task EXCEPT ![t].revoked = @ \o list, ![t].assigned = {}, ![t].position = NoPositions]
  /\ UNCHANGED <<config, server, committed, stored, handled, stream, requests, faults, stale>>

\* An assignment; consumption begins at the committed offset.
Assign(t, P) ==
  /\ Polls(t) /\ t \in members /\ task[t].assigned = {}
  /\ P # {} /\ \A p \in P : Free(p)
  /\ task' = [task EXCEPT ![t].assigned = P,
                ![t].position = [p \in Partitions |-> IF p \in P THEN committed[p] ELSE 0]]
  /\ stale' = stale \cup {p \in P : \E u \in Tasks : p \in Buffered(u)}
  /\ UNCHANGED <<groupVars, stored, handled, stream, rebalances, requests, faults>>

\* A member that does not poll for too long is expelled.
Expel(t) ==
  /\ t \in members /\ task[t].pc \in {"write", "deadletter", "commit"}
  /\ rebalances < MaxRebalances
  /\ rebalances' = rebalances + 1
  /\ members' = members \ {t}
  /\ UNCHANGED <<config, server, committed, task, stored, handled, stream, requests, faults, stale>>

-----------------------------------------------------------------------------
\* The process.

\* Everything in memory is gone: tasks, the managed stream, the group membership.
Halt ==
  /\ server' = "down"
  /\ members' = {}
  /\ task' = [t \in Tasks |-> IdleTask]
  /\ stream' = [state |-> "none", handle |-> NoTask]
  /\ UNCHANGED <<config, committed, stored, handled, rebalances, requests, stale>>

Start ==
  /\ server = "down"
  /\ server' = "up"
  /\ IF config.env THEN \E t \in Tasks : Spawn(t, FALSE) ELSE UNCHANGED task
  /\ UNCHANGED <<config, committed, members, stored, handled, stream, rebalances, requests,
                 faults, stale>>

BeginDraining ==
  /\ server = "up"
  /\ server' = "draining"
  /\ UNCHANGED <<config, committed, members, task, stored, handled, stream, rebalances, requests,
                 faults, stale>>

\* The shutdown waits for the configured task only, and not beyond its deadline.
Exit ==
  /\ server = "draining"
  /\ Halt
  /\ UNCHANGED faults

Crash ==
  /\ server # "down" /\ faults < MaxFaults
  /\ faults' = faults + 1
  /\ Halt

\* The end of the configured task is a panic of the process.
ConfiguredTaskEnds(t) ==
  /\ task[t].pc \in {"fail", "stop"} /\ ~task[t].managed
  /\ Halt
  /\ UNCHANGED faults

-----------------------------------------------------------------------------
Init ==
  /\ config \in Configs /\ server = "down"
  /\ committed = [p \in Partitions |-> 0]
  /\ members = {}
  /\ task = [t \in Tasks |-> IdleTask]
  /\ stored = [p \in Partitions |-> [k \in Keys |-> 0]]
  /\ handled = [p \in Partitions |-> {}]
  /\ stream = [state |-> "none", handle |-> NoTask]
  /\ rebalances = 0 /\ requests = 0 /\ faults = 0 /\ stale = {}

TaskStep(t) ==
  \/ Subscribe(t) \/ LoopTop(t)
  \/ (\E p \in Partitions : Receive(t, p)) \/ Linger(t) \/ ClientError(t)
  \/ WriteRecord(t) \/ WriteFails(t) \/ PublishDlq(t) \/ PublishDlqFails(t)
  \/ CommitAck(t) \/ CommitFails(t)
  \/ ManagedTaskFails(t) \/ ManagedTaskStops(t) \/ ConfiguredTaskEnds(t) \/ AbortTakesEffect(t)

Request == \/ \E t \in Tasks : CreateStream(t) \/ ResumeStream(t)
           \/ PauseStream

AssignSome == \E t \in Tasks, P \in SUBSET Partitions : Assign(t, P)

Group == (\E t \in Tasks : Revoke(t) \/ Expel(t)) \/ AssignSome

Next ==
  \/ \E t \in Tasks : TaskStep(t)
  \/ Request \/ Group
  \/ Start \/ BeginDraining \/ Exit \/ Crash

Spec == Init /\ [][Next]_vars

\* Tokio runs tasks that can run.  Messages and assignments wait in the client until the
\* task polls again, so that a task that keeps polling gets them.  Requests, revocations,
\* signals and faults are nobody's duty.
Fairness ==
  /\ \A t \in Tasks : WF_vars(TaskStep(t)) /\ SF_vars(\E p \in Partitions : Receive(t, p))
  /\ SF_vars(AssignSome)

FairSpec == Spec /\ Fairness

-----------------------------------------------------------------------------
\* Properties.

TaskTypeOK(x) ==
  /\ x.pc \in {"idle", "new", "loop", "recv", "write", "deadletter", "commit", "fail", "stop"}
  /\ x.managed \in BOOLEAN /\ x.aborted \in BOOLEAN
  /\ x.assigned \subseteq Partitions
  /\ x.position \in [Partitions -> Nat]
  /\ \A p \in Partitions : x.buffers[p] \in Seq(0 .. End(p)) /\ x.position[p] <= End(p)
  /\ x.revoked \in Seq(Partitions) /\ x.work \in Seq(Partitions)
  /\ x.mode \in {"batch", "revoked", "drain"}
  /\ x.batch \in Seq(Nat)

\* Every variable has its type, and no offset leaves its partition.
TypeOK ==
  /\ config \in Configs /\ server \in {"down", "up", "draining"}
  /\ committed \in [Partitions -> Nat] /\ \A p \in Partitions : committed[p] <= End(p)
  /\ members \subseteq Tasks
  /\ DOMAIN task = Tasks /\ \A t \in Tasks : TaskTypeOK(task[t])
  /\ stored \in [Partitions -> [Keys -> Nat]]
  /\ \A p \in Partitions : handled[p] \subseteq 0 .. End(p) - 1
  /\ stream.state \in {"none", "running", "paused", "failed"} /\ stream.handle \in Tasks \cup {NoTask}
  /\ rebalances \in 0 .. MaxRebalances /\ requests \in 0 .. MaxRequests /\ faults \in 0 .. MaxFaults
  /\ stale \subseteq Partitions

\* At least once: whatever fails, is redelivered, revoked, aborted or restarted, an
\* offset is committed only when every message below it was applied or dead-lettered.
NothingSkipped ==
  \A p \in Partitions : \A o \in 0 .. committed[p] - 1 : o \in handled[p]

\* In order: no message is applied or dead-lettered for the first time before all
\* earlier ones of its partition.
FirstDeliveryInOrder ==
  \A p \in Partitions : \A o \in handled[p] : \A e \in 0 .. o : e \in handled[p]

\* A committed message is not hidden by an older one: the record it wrote holds it or a
\* later message.  The code relies on a partition not being handed out while an earlier
\* holder, in another task or this one, still has messages of it to flush.
CommittedNotOverwritten ==
  \A p \in Partitions \ stale : \A o \in 0 .. committed[p] - 1 :
    MessageAt(p, o).kind = "write" => stored[p][MessageAt(p, o).key] > o

Consuming(t) == task[t].pc \notin {"idle", "fail", "stop"} /\ ~task[t].aborted

\* A stream that reports "running" has a task that consumes, is about to report its
\* failure or stops because the server does.
RunningHasTask ==
  stream.state = "running" /\ ~IsDraining =>
    \E t \in Tasks : task[t].managed /\ task[t].pc # "idle" /\ ~task[t].aborted

\* Everything is handled; the last commit says so unless the partition was handed out too
\* early: then a late commit of its former holder may have set the offset back.
CaughtUp ==
  \A p \in Partitions : /\ \A o \in 0 .. End(p) - 1 : o \in handled[p]
                        /\ p \notin stale => committed[p] = End(p)

\* A consumer left alone consumes: again and again the topic has been read to its end or
\* no task consumes.
TopicIsConsumed == []<>(CaughtUp \/ ~\E t \in Tasks : Consuming(t))

\* At-least-once delivery in order (flush_partition): no offset is committed before everything
\* below it was handled (NothingSkipped), messages are first handled in order
\* (FirstDeliveryInOrder), and a redelivery does not hide a committed message for good
\* (CommittedNotOverwritten).
DeliveryInv == TypeOK /\ NothingSkipped /\ FirstDeliveryInOrder /\ CommittedNotOverwritten
=============================================================================
