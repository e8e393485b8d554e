------------------------- MODULE KafkaIngestionProofs -------------------------
(***************************************************************************)
(* Delivery is at least once, in order and without hiding what was         *)
(* committed, for any topic, any number of tasks and partitions, and any   *)
(* sequence of rebalances, requests, failures and restarts.                *)
(***************************************************************************)
EXTENDS KafkaIngestion, FiniteSetTheorems, SequenceTheorems, NaturalsInduction,
        WellFoundedInduction, TLAPS

\* Where a task is, the steps of a flush among them, and what a flush is for.
PCs == {"idle", "new", "loop", "recv", "write", "deadletter", "commit", "fail", "stop"}
Flushing == {"write", "deadletter", "commit"}
Modes == {"batch", "revoked", "drain"}

\* The state of a task.
TaskRecord ==
  [pc : PCs, managed : BOOLEAN, aborted : BOOLEAN, assigned : SUBSET Partitions,
   position : [Partitions -> Nat], revoked : Seq(Partitions),
   buffers : [Partitions -> Seq(Nat)], work : Seq(Partitions), mode : Modes, batch : Seq(Nat)]

-----------------------------------------------------------------------------
(* The inductive invariant.  Shapes first. *)

\* Tasks are task records.
TasksShape == task \in [Tasks -> TaskRecord]

\* The configuration, the process and the group: no commit is beyond the end of its partition.
GroupShape ==
  /\ config \in Config /\ config \in Configs /\ server \in {"down", "up", "draining"}
  /\ committed \in [Partitions -> Nat] /\ \A p \in Partitions : committed[p] <= End(p)
  /\ members \subseteq Tasks
  /\ stale \subseteq Partitions

\* The records, and the offsets that were handled.
LogShape ==
  /\ stored \in [Partitions -> [Keys -> Nat]]
  /\ DOMAIN handled = Partitions /\ \A p \in Partitions : handled[p] \subseteq 0 .. End(p) - 1

\* The managed stream, and the counters within their bounds.
RequestsShape ==
  /\ stream \in [state : {"none", "running", "paused", "failed"}, handle : Tasks \cup {NoTask}]
  /\ rebalances \in 0 .. MaxRebalances /\ requests \in 0 .. MaxRequests /\ faults \in 0 .. MaxFaults

\* Offsets in buffers and positions are offsets of the partition.
OffsetsInTopic ==
  \A t \in Tasks, p \in Partitions :
    /\ task[t].position[p] <= End(p)
    /\ \A i \in 1 .. Len(task[t].buffers[p]) : task[t].buffers[p][i] < End(p)

\* The partition under flush, and how many messages of its buffer are done with.
Current(t) == Head(task[t].work)
Buffer(t) == task[t].buffers[Current(t)]
Clean(t) == CleanPrefix(Current(t), Buffer(t))
Applied(t) ==
  IF task[t].pc = "write" THEN Len(Clean(t)) - Len(task[t].batch)
  ELSE IF task[t].pc = "commit" THEN BatchLength(Current(t), Buffer(t)) ELSE 0

\* A flush has a partition with messages; what is left of a batch is the end of the clean
\* prefix of its buffer, and a dead letter comes first.
FlushShape ==
  \A t \in Tasks : task[t].pc \in Flushing =>
    /\ task[t].work # <<>> /\ Buffer(t) # <<>>
    /\ task[t].pc = "write" =>
         /\ task[t].batch # <<>> /\ Len(task[t].batch) <= Len(Clean(t))
         /\ \A i \in 1 .. Len(task[t].batch) : task[t].batch[i] = Clean(t)[Applied(t) + i]
    /\ task[t].pc = "deadletter" => Clean(t) = <<>>

\* A task that has not subscribed has no partition and no messages.
FreshTasks ==
  \A t \in Tasks : task[t].pc \in {"idle", "new"} =>
    /\ t \notin members /\ task[t].assigned = {}
    /\ \A p \in Partitions : task[t].buffers[p] = <<>>

-----------------------------------------------------------------------------
(* What has been handled. *)

\* Whatever precedes a buffered message was handled, or is buffered before it.
BuffersCovered ==
  \A t \in Tasks, p \in Partitions : \A i \in 1 .. Len(task[t].buffers[p]) :
    \A e \in 0 .. task[t].buffers[p][i] - 1 :
      e \in handled[p] \/ \E j \in 1 .. i - 1 : task[t].buffers[p][j] = e

\* Whatever precedes the position of a consumer was handled, or is buffered.
PositionsCovered ==
  \A t \in Tasks : \A p \in task[t].assigned : \A e \in 0 .. task[t].position[p] - 1 :
    e \in handled[p] \/ \E j \in 1 .. Len(task[t].buffers[p]) : task[t].buffers[p][j] = e

\* The messages of a batch that are done with were handled.
AppliedHandled ==
  \A t \in Tasks : task[t].pc \in Flushing =>
    \A i \in 1 .. Applied(t) : Buffer(t)[i] \in handled[Current(t)]

-----------------------------------------------------------------------------
(* Who holds a partition that was never handed out too early. *)

\* A partition is assigned to one member.
OneConsumer ==
  \A t, u \in members : \A p \in task[t].assigned \cap task[u].assigned : t = u

\* One task has its messages, the member it is assigned to.
OneHolder ==
  \A p \in Partitions \ stale : \A t, u \in Tasks :
    /\ task[t].buffers[p] # <<>> /\ task[u].buffers[p] # <<>> => t = u
    /\ task[t].buffers[p] # <<>> /\ u \in members /\ p \in task[u].assigned => t = u

\* A buffer begins at the committed offset and has no gap.
BuffersFollowCommit ==
  \A t \in Tasks, p \in Partitions \ stale : task[t].pc # "fail" =>
    /\ \A i \in 1 .. Len(task[t].buffers[p]) : task[t].buffers[p][i] = committed[p] + i - 1
    /\ t \in members /\ p \in task[t].assigned =>
         task[t].position[p] = committed[p] + Len(task[t].buffers[p])

\* The records hold the messages of a batch that are done with, or later ones.
AppliedStored ==
  \A t \in Tasks : task[t].pc \in Flushing /\ Current(t) \notin stale =>
    \A i \in 1 .. Applied(t) : MessageAt(Current(t), Buffer(t)[i]).kind = "write" =>
      stored[Current(t)][MessageAt(Current(t), Buffer(t)[i]).key] > Buffer(t)[i]

-----------------------------------------------------------------------------
(* The managed stream and the process. *)

\* A process that is down runs no task and knows no stream.
DownIsEmpty ==
  server = "down" =>
    /\ \A t \in Tasks : task[t].pc = "idle"
    /\ stream.state = "none"

\* A task drains its buffers, or stops, only when the process drains.
DrainsWhenAsked ==
  \A t \in Tasks :
    (task[t].pc \in Flushing /\ task[t].mode = "drain") \/ task[t].pc = "stop" => IsDraining

\* The handle of a running stream is a task of the stream that nobody has aborted.
HandleRuns ==
  stream.state = "running" /\ ~IsDraining =>
    /\ stream.handle \in Tasks
    /\ task[stream.handle].managed = TRUE /\ task[stream.handle].aborted = FALSE
    /\ task[stream.handle].pc # "idle"

\* The parts of the invariant together.
Shapes ==
  /\ TasksShape /\ GroupShape /\ LogShape /\ RequestsShape
  /\ OffsetsInTopic /\ FlushShape /\ FreshTasks

Delivered ==
  /\ BuffersCovered /\ PositionsCovered /\ AppliedHandled
  /\ NothingSkipped /\ FirstDeliveryInOrder

Held ==
  /\ OneConsumer /\ OneHolder /\ BuffersFollowCommit /\ AppliedStored
  /\ CommittedNotOverwritten

IngestionIInv == Shapes /\ Delivered /\ Held /\ DownIsEmpty /\ DrainsWhenAsked /\ HandleRuns

-----------------------------------------------------------------------------
(* Facts about the operators *)

\* A nonempty set of numbers has a least element.
LEMMA Least ==
  ASSUME NEW S, S \subseteq Nat, S # {}
  PROVE  \E n \in S : \A m \in S : n <= m
<1> DEFINE Less == {ss \in Nat \X Nat : ss[1] < ss[2]}
<1>1. IsWellFoundedOn(Less, Nat)
  BY NatLessThanWellFounded DEF OpToRel
<1>2. PICK n \in S : \A m \in S : ~ (<<m, n>> \in Less)
  <2> HIDE DEF Less
  <2> QED BY <1>1, WFMin
<1>3. ASSUME NEW m \in S PROVE n <= m
  <2>1. ~ (m < n)
    BY <1>2
  <2> QED BY <2>1
<1> QED BY <1>3

\* The clean prefix is a prefix; it is empty only before a poison message.
LEMMA CleanFact ==
  ASSUME NEW p, NEW B \in Seq(Nat)
  PROVE  /\ CleanPrefix(p, B) \in Seq(Nat)
         /\ Len(CleanPrefix(p, B)) \in 0 .. Len(B)
         /\ \A i \in 1 .. Len(CleanPrefix(p, B)) : CleanPrefix(p, B)[i] = B[i]
         /\ CleanPrefix(p, B) = <<>> /\ B # <<>> => IsPoison(p, B[1])
<1> DEFINE poisoned == {i \in DOMAIN B : IsPoison(p, B[i])}
           first == CHOOSE i \in poisoned : \A j \in poisoned : i <= j
<1>1. DOMAIN B = 1 .. Len(B) /\ Len(B) \in Nat /\ \A i \in 1 .. Len(B) : B[i] \in Nat
  BY LenProperties
<1>2. CASE poisoned = {}
  <2>1. CleanPrefix(p, B) = B
    BY <1>2 DEF CleanPrefix
  <2> QED BY <1>1, <2>1
<1>3. CASE poisoned # {}
  <2>1. \E i \in poisoned : \A j \in poisoned : i <= j
    <3>1. poisoned \subseteq Nat
      BY <1>1
    <3> HIDE DEF poisoned
    <3> QED BY <1>3, <3>1, Least
  <2>2. first \in poisoned
    BY <2>1
  <2>3. first \in 1 .. Len(B) /\ IsPoison(p, B[first])
    BY <1>1, <2>2
  <2>4. CleanPrefix(p, B) = SubSeq(B, 1, first - 1)
    BY <1>3 DEF CleanPrefix
  <2> HIDE DEF first, poisoned
  <2> DEFINE C == SubSeq(B, 1, first - 1)
  <2>5. /\ C \in Seq(Nat) /\ Len(C) = first - 1
        /\ \A i \in 1 .. first - 1 : C[i] = B[i]
    <3>1. \A i \in 1 .. first - 1 : B[i] \in Nat
      BY <1>1, <2>3
    <3>2. /\ C \in Seq(Nat) /\ Len(C) = IF 1 <= first - 1 THEN (first - 1) - 1 + 1 ELSE 0
          /\ \A i \in 1 .. (first - 1) - 1 + 1 : C[i] = B[1 + i - 1]
      BY <2>3, <3>1, SubSeqProperties
    <3> HIDE DEF C
    <3> QED BY <2>3, <3>2
  <2>6. CleanPrefix(p, B) = C
    BY <2>4
  <2> HIDE DEF C
  <2>7. C = <<>> => first = 1
    <3>1. C = <<>> => Len(C) = 0
      OBVIOUS
    <3> QED BY <2>3, <2>5, <3>1
  <2>8. C \in Seq(Nat) /\ Len(C) \in 0 .. Len(B) /\ \A i \in 1 .. Len(C) : C[i] = B[i]
    BY <1>1, <2>3, <2>5
  <2> QED BY <2>3, <2>6, <2>7, <2>8
<1> QED BY <1>2, <1>3

\* A commit covers at least one message, and none that was not received.
LEMMA BatchFact ==
  ASSUME NEW p, NEW B \in Seq(Nat), B # <<>>
  PROVE  /\ BatchLength(p, B) \in 1 .. Len(B)
         /\ CleanPrefix(p, B) = <<>> => BatchLength(p, B) = 1
         /\ CleanPrefix(p, B) # <<>> => BatchLength(p, B) = Len(CleanPrefix(p, B))
<1>1. Len(B) \in Nat \ {0}
  BY EmptySeq
<1>2. CleanPrefix(p, B) # <<>> => Len(CleanPrefix(p, B)) \in Nat \ {0}
  BY CleanFact, EmptySeq
<1>3. Len(CleanPrefix(p, B)) \in 0 .. Len(B)
  BY CleanFact
<1> QED BY <1>1, <1>2, <1>3 DEF BatchLength

\* The rest of a list begins with a partition that has messages.
LEMMA RestFact ==
  ASSUME NEW buffers, NEW list \in Seq(Partitions), Pending(buffers, list) # {}
  PROVE  /\ Rest(buffers, list) \in Seq(Partitions) /\ Rest(buffers, list) # <<>>
         /\ Head(Rest(buffers, list)) \in Partitions
         /\ buffers[Head(Rest(buffers, list))] # <<>>
<1> DEFINE first == CHOOSE i \in Pending(buffers, list) : \A j \in Pending(buffers, list) : i <= j
           R == SubSeq(list, first, Len(list))
<1>1. DOMAIN list = 1 .. Len(list) /\ Len(list) \in Nat /\ \A i \in 1 .. Len(list) : list[i] \in Partitions
  BY LenProperties
<1>2. Pending(buffers, list) \subseteq Nat
  BY <1>1 DEF Pending
<1>3. first \in Pending(buffers, list)
  BY <1>2, Least
<1>4. first \in 1 .. Len(list) /\ buffers[list[first]] # <<>>
  BY <1>1, <1>3 DEF Pending
<1>5. Rest(buffers, list) = R
  BY DEF Rest
<1> HIDE DEF first
<1>6. R \in Seq(Partitions) /\ Len(R) = Len(list) - first + 1 /\ R[1] = list[first]
  <2>1. \A i \in first .. Len(list) : list[i] \in Partitions
    BY <1>1, <1>4
  <2>2. /\ R \in Seq(Partitions) /\ Len(R) = IF first <= Len(list) THEN Len(list) - first + 1 ELSE 0
        /\ \A i \in 1 .. Len(list) - first + 1 : R[i] = list[first + i - 1]
    BY <1>1, <1>4, <2>1, SubSeqProperties
  <2> HIDE DEF R
  <2>3. 1 \in 1 .. Len(list) - first + 1 /\ first + 1 - 1 = first
    BY <1>1, <1>4
  <2> QED BY <1>1, <1>4, <2>2, <2>3
<1> HIDE DEF R
<1>7. R # <<>> /\ Head(R) = R[1]
  <2>1. R # <<>>
    BY <1>1, <1>4, <1>6
  <2> QED BY <1>6, <2>1
<1> QED BY <1>1, <1>4, <1>5, <1>6, <1>7

\* What a flush does to a task.
LEMMA FlushFact ==
  ASSUME NEW x \in TaskRecord, NEW list \in Seq(Partitions), NEW mode \in Modes,
         NEW y, y = Flush(x, list, mode)
  PROVE  /\ y \in TaskRecord
         /\ y.buffers = x.buffers /\ y.assigned = x.assigned /\ y.position = x.position
         /\ y.revoked = x.revoked /\ y.managed = x.managed /\ y.aborted = x.aborted
         /\ y.pc \in {"loop", "recv", "stop", "fail", "write", "deadletter"}
         /\ y.pc = "stop" => mode = "drain"
         /\ y.pc \in {"write", "deadletter"} =>
              /\ y.mode = mode /\ y.work # <<>> /\ Head(y.work) \in Partitions
              /\ y.buffers[Head(y.work)] # <<>>
         /\ y.pc = "write" =>
              /\ y.batch = CleanPrefix(Head(y.work), y.buffers[Head(y.work)])
              /\ y.batch # <<>>
         /\ y.pc = "deadletter" => CleanPrefix(Head(y.work), y.buffers[Head(y.work)]) = <<>>
<1>1. CASE Pending(x.buffers, list) = {}
  <2>1. y = [x EXCEPT !.work = <<>>, !.mode = "batch", !.pc = AfterFlush[mode]]
    BY <1>1 DEF Flush
  <2>2. AfterFlush[mode] \in {"loop", "recv", "stop"} /\ (AfterFlush[mode] = "stop" => mode = "drain")
    BY DEF AfterFlush, Modes
  <2>3. <<>> \in Seq(Partitions)
    OBVIOUS
  <2> HIDE DEF AfterFlush
  <2> QED BY <2>1, <2>2, <2>3 DEF TaskRecord, Modes, PCs
<1>2. CASE Pending(x.buffers, list) # {}
  <2> DEFINE work == Rest(x.buffers, list)
             p == Head(work)
             C == CleanPrefix(p, x.buffers[p])
             pc == BatchPC(p, x.buffers[p])
             batch == IF pc = "write" THEN C ELSE x.batch
  <2>1. work \in Seq(Partitions) /\ work # <<>> /\ p \in Partitions /\ x.buffers[p] # <<>>
    BY <1>2, RestFact
  <2>2. x.buffers[p] \in Seq(Nat) /\ x.batch \in Seq(Nat)
    BY <2>1 DEF TaskRecord
  <2>3. batch \in Seq(Nat)
    BY <2>2, CleanFact
  <2>4. /\ pc \in {"fail", "deadletter", "write"}
        /\ pc = "write" => C # <<>>
        /\ pc = "deadletter" => C = <<>>
    BY DEF BatchPC
  <2>5. y = [x EXCEPT !.work = work, !.mode = mode, !.pc = pc, !.batch = batch]
    BY <1>2 DEF Flush, BeginBatch
  <2>6. pc = "write" => batch = C
    OBVIOUS
  <2> HIDE DEF pc, batch, work
  <2>7. /\ y \in TaskRecord /\ y.work = work /\ y.mode = mode /\ y.pc = pc /\ y.batch = batch
        /\ y.buffers = x.buffers /\ y.assigned = x.assigned /\ y.position = x.position
        /\ y.revoked = x.revoked /\ y.managed = x.managed /\ y.aborted = x.aborted
    BY <2>1, <2>3, <2>4, <2>5 DEF TaskRecord, PCs
  <2> QED BY <2>1, <2>4, <2>6, <2>7
<1> QED BY <1>1, <1>2

\* A received message is added to its buffer, and the position moves on.
LEMMA ReceivedFact ==
  ASSUME NEW x \in TaskRecord, NEW p \in Partitions
  PROVE  /\ Received(x, p) \in TaskRecord
         /\ Received(x, p).buffers[p] = Append(x.buffers[p], x.position[p])
         /\ \A q \in Partitions \ {p} : /\ Received(x, p).buffers[q] = x.buffers[q]
                                        /\ Received(x, p).position[q] = x.position[q]
         /\ Received(x, p).position[p] = x.position[p] + 1
         /\ Received(x, p).assigned = x.assigned /\ Received(x, p).managed = x.managed
         /\ Received(x, p).aborted = x.aborted
<1>1. x.buffers \in [Partitions -> Seq(Nat)] /\ x.position \in [Partitions -> Nat]
  BY DEF TaskRecord
<1> DEFINE bs == [x.buffers EXCEPT ![p] = Append(@, x.position[p])]
           ps == [x.position EXCEPT ![p] = @ + 1]
<1>2. bs \in [Partitions -> Seq(Nat)] /\ ps \in [Partitions -> Nat]
  <2>1. Append(x.buffers[p], x.position[p]) \in Seq(Nat) /\ x.position[p] + 1 \in Nat
    BY <1>1, AppendProperties
  <2> QED BY <1>1, <2>1
<1>3. /\ bs[p] = Append(x.buffers[p], x.position[p]) /\ ps[p] = x.position[p] + 1
      /\ \A q \in Partitions \ {p} : bs[q] = x.buffers[q] /\ ps[q] = x.position[q]
  BY <1>1
<1>4. Received(x, p) = [x EXCEPT !.buffers = bs, !.position = ps]
  BY DEF Received, TaskRecord
<1> HIDE DEF bs, ps
<1> QED BY <1>2, <1>3, <1>4 DEF TaskRecord

\* A committed batch leaves its buffer.
LEMMA DrainedFact ==
  ASSUME NEW x \in TaskRecord, NEW p \in Partitions, x.buffers[p] # <<>>
  PROVE  /\ Drained(x, p) \in TaskRecord
         /\ Len(Drained(x, p).buffers[p]) = Len(x.buffers[p]) - BatchLength(p, x.buffers[p])
         /\ \A i \in 1 .. Len(Drained(x, p).buffers[p]) :
              Drained(x, p).buffers[p][i] = x.buffers[p][BatchLength(p, x.buffers[p]) + i]
         /\ \A q \in Partitions \ {p} : Drained(x, p).buffers[q] = x.buffers[q]
         /\ Drained(x, p).position = x.position /\ Drained(x, p).assigned = x.assigned
         /\ Drained(x, p).managed = x.managed /\ Drained(x, p).aborted = x.aborted
<1> DEFINE B == x.buffers[p]
           n == BatchLength(p, B)
           C == SubSeq(B, n + 1, Len(B))
           bs == [x.buffers EXCEPT ![p] = C]
<1>1. x.buffers \in [Partitions -> Seq(Nat)] /\ B \in Seq(Nat)
  BY DEF TaskRecord
<1>2. n \in 1 .. Len(B) /\ Len(B) \in Nat
  BY <1>1, BatchFact, LenProperties
<1>3. C \in Seq(Nat) /\ Len(C) = Len(B) - n /\ \A i \in 1 .. Len(C) : C[i] = B[n + i]
  <2>1. \A i \in n + 1 .. Len(B) : B[i] \in Nat
    BY <1>1, <1>2
  <2> HIDE DEF n, B
  <2>2. /\ C \in Seq(Nat) /\ Len(C) = IF n + 1 <= Len(B) THEN Len(B) - (n + 1) + 1 ELSE 0
        /\ \A i \in 1 .. Len(B) - (n + 1) + 1 : C[i] = B[(n + 1) + i - 1]
    BY <1>2, <2>1, SubSeqProperties
  <2> HIDE DEF C
  <2> QED BY <1>2, <2>2
<1>4. bs \in [Partitions -> Seq(Nat)] /\ bs[p] = C /\ \A q \in Partitions \ {p} : bs[q] = x.buffers[q]
  <2> HIDE DEF C
  <2> QED BY <1>1, <1>3
<1>5. Drained(x, p) = [x EXCEPT !.buffers = bs]
  BY DEF Drained, TaskRecord
<1> HIDE DEF bs, C
<1> QED BY <1>3, <1>4, <1>5 DEF TaskRecord

\* A task that begins or has ended.
LEMMA FreshFact ==
  ASSUME NEW pc \in PCs, NEW managed \in BOOLEAN
  PROVE  /\ FreshTask(pc, managed) \in TaskRecord /\ FreshTask(pc, managed).pc = pc
         /\ FreshTask(pc, managed).managed = managed /\ FreshTask(pc, managed).aborted = FALSE
         /\ FreshTask(pc, managed).assigned = {}
         /\ \A p \in Partitions : /\ FreshTask(pc, managed).buffers[p] = <<>>
                                  /\ FreshTask(pc, managed).position[p] = 0
<1>1. NoPositions \in [Partitions -> Nat] /\ \A p \in Partitions : NoPositions[p] = 0
  BY DEF NoPositions
<1> DEFINE bs == [p \in Partitions |-> <<>>]
<1>2. bs \in [Partitions -> Seq(Nat)] /\ \A p \in Partitions : bs[p] = <<>>
  OBVIOUS
<1> DEFINE y == [pc |-> pc, managed |-> managed, aborted |-> FALSE, assigned |-> {},
                 position |-> NoPositions, revoked |-> <<>>,
                 buffers |-> bs, work |-> <<>>, mode |-> "batch", batch |-> <<>>]
<1>3. FreshTask(pc, managed) = y
  BY DEF FreshTask
<1> HIDE DEF bs
<1>4. /\ y \in TaskRecord /\ y.pc = pc /\ y.managed = managed /\ y.aborted = FALSE
      /\ y.assigned = {} /\ y.buffers = bs /\ y.position = NoPositions
  BY <1>1, <1>2 DEF TaskRecord, Modes
<1> HIDE DEF y
<1> QED BY <1>1, <1>2, <1>3, <1>4

\* The tasks after one of them has changed.
LEMMA OneChanges ==
  ASSUME TasksShape, NEW t \in Tasks, NEW x \in TaskRecord, task' = [task EXCEPT ![t] = x]
  PROVE  TasksShape' /\ task'[t] = x /\ \A u \in Tasks \ {t} : task'[u] = task[u]
  BY DEF TasksShape

\* Other fields than the program counter stay.
LEMMA PcFact ==
  ASSUME TasksShape, NEW t \in Tasks, NEW v \in PCs, task' = [task EXCEPT ![t].pc = v]
  PROVE  /\ TasksShape' /\ \A u \in Tasks \ {t} : task'[u] = task[u]
         /\ task'[t].pc = v /\ task'[t].buffers = task[t].buffers
         /\ task'[t].assigned = task[t].assigned /\ task'[t].position = task[t].position
         /\ task'[t].work = task[t].work /\ task'[t].batch = task[t].batch /\ task'[t].mode = task[t].mode
         /\ task'[t].managed = task[t].managed /\ task'[t].aborted = task[t].aborted
<1> DEFINE x == [task[t] EXCEPT !.pc = v]
<1>1. task[t] \in TaskRecord
  BY DEF TasksShape
<1>2. /\ x \in TaskRecord /\ x.pc = v /\ x.buffers = task[t].buffers
      /\ x.assigned = task[t].assigned /\ x.position = task[t].position
      /\ x.work = task[t].work /\ x.batch = task[t].batch /\ x.mode = task[t].mode
      /\ x.managed = task[t].managed /\ x.aborted = task[t].aborted
  BY <1>1 DEF TaskRecord
<1>3. task' = [task EXCEPT ![t] = x]
  BY DEF TasksShape
<1> HIDE DEF x
<1> QED BY <1>2, <1>3, OneChanges

\* A record of the batch is written.
LEMMA WriteFact ==
  ASSUME TasksShape, FlushShape, NEW t \in Tasks, WriteRecord(t)
  PROVE  /\ TasksShape' /\ \A u \in Tasks \ {t} : task'[u] = task[u]
         /\ task'[t].pc = IF Len(task[t].batch) = 1 THEN "commit" ELSE "write"
         /\ task'[t].batch = Tail(task[t].batch)
         /\ task'[t].buffers = task[t].buffers
         /\ task'[t].assigned = task[t].assigned /\ task'[t].position = task[t].position
         /\ task'[t].work = task[t].work /\ task'[t].mode = task[t].mode
         /\ task'[t].managed = task[t].managed /\ task'[t].aborted = task[t].aborted
<1> DEFINE v == IF Len(task[t].batch) = 1 THEN "commit" ELSE "write"
           x == [task[t] EXCEPT !.batch = Tail(@), !.pc = v]
<1>1. task[t] \in TaskRecord /\ v \in PCs /\ task[t].batch # <<>> /\ task[t].batch \in Seq(Nat)
  BY DEF TasksShape, PCs, WriteRecord, FlushShape, Flushing, TaskRecord
<1>2. Tail(task[t].batch) \in Seq(Nat)
  BY <1>1, HeadTailProperties
<1>3. task' = [task EXCEPT ![t] = x]
  BY DEF WriteRecord, TasksShape
<1> HIDE DEF v
<1>4. /\ x \in TaskRecord /\ x.pc = v /\ x.buffers = task[t].buffers
      /\ x.assigned = task[t].assigned /\ x.position = task[t].position
      /\ x.work = task[t].work /\ x.batch = Tail(task[t].batch) /\ x.mode = task[t].mode
      /\ x.managed = task[t].managed /\ x.aborted = task[t].aborted
  BY <1>1, <1>2 DEF TaskRecord
<1> HIDE DEF x
<1> QED BY <1>3, <1>4, OneChanges DEF v

\* A task ends, or begins.
LEMMA EndFact ==
  ASSUME TasksShape, NEW t \in Tasks, task' = [task EXCEPT ![t] = IdleTask]
  PROVE  /\ TasksShape' /\ \A u \in Tasks \ {t} : task'[u] = task[u]
         /\ task'[t].pc = "idle" /\ task'[t].assigned = {}
         /\ \A p \in Partitions : task'[t].buffers[p] = <<>> /\ task'[t].position[p] = 0
<1>1. "idle" \in PCs
  BY DEF PCs
<1>2. FreshTask("idle", TRUE) \in TaskRecord
  BY <1>1, FreshFact
<1>3. TasksShape' /\ task'[t] = FreshTask("idle", TRUE) /\ \A u \in Tasks \ {t} : task'[u] = task[u]
  BY <1>2, OneChanges DEF IdleTask
<1>4. /\ FreshTask("idle", TRUE).pc = "idle" /\ FreshTask("idle", TRUE).assigned = {}
      /\ FreshTask("idle", TRUE).managed = TRUE /\ FreshTask("idle", TRUE).aborted = FALSE
      /\ \A p \in Partitions : /\ FreshTask("idle", TRUE).buffers[p] = <<>>
                               /\ FreshTask("idle", TRUE).position[p] = 0
  BY <1>1, FreshFact
<1> QED BY <1>3, <1>4

\* A task begins.
LEMMA SpawnFact ==
  ASSUME TasksShape, NEW t \in Tasks, NEW managed \in BOOLEAN, Spawn(t, managed)
  PROVE  /\ TasksShape' /\ \A u \in Tasks \ {t} : task'[u] = task[u]
         /\ task'[t].pc = "new" /\ task'[t].assigned = {} /\ task'[t].managed = managed
         /\ task'[t].aborted = FALSE
         /\ \A p \in Partitions : task'[t].buffers[p] = <<>> /\ task'[t].position[p] = 0
<1>1. "new" \in PCs
  BY DEF PCs
<1>2. FreshTask("new", managed) \in TaskRecord
  BY <1>1, FreshFact
<1>3. TasksShape' /\ task'[t] = FreshTask("new", managed) /\ \A u \in Tasks \ {t} : task'[u] = task[u]
  BY <1>2, OneChanges DEF Spawn
<1>4. /\ FreshTask("new", managed).pc = "new" /\ FreshTask("new", managed).assigned = {}
      /\ FreshTask("new", managed).managed = managed /\ FreshTask("new", managed).aborted = FALSE
      /\ \A p \in Partitions : /\ FreshTask("new", managed).buffers[p] = <<>>
                               /\ FreshTask("new", managed).position[p] = 0
  BY <1>1, FreshFact
<1> QED BY <1>3, <1>4

\* Everything ends.
LEMMA HaltFact ==
  ASSUME Halt
  PROVE  /\ TasksShape'
         /\ \A t \in Tasks : /\ task'[t].pc = "idle" /\ task'[t].assigned = {}
                             /\ \A p \in Partitions : task'[t].buffers[p] = <<>> /\ task'[t].position[p] = 0
<1>1. "idle" \in PCs
  BY DEF PCs
<1> QED BY <1>1, FreshFact DEF Halt, TasksShape, IdleTask

\* The list of revoked partitions is replaced.
LEMMA RevokedFact ==
  ASSUME NEW x \in TaskRecord, NEW r \in Seq(Partitions)
  PROVE  /\ [x EXCEPT !.revoked = r] \in TaskRecord /\ x.revoked \in Seq(Partitions)
         /\ [x EXCEPT !.revoked = r].buffers = x.buffers
         /\ [x EXCEPT !.revoked = r].assigned = x.assigned
         /\ [x EXCEPT !.revoked = r].position = x.position
         /\ [x EXCEPT !.revoked = r].managed = x.managed
         /\ [x EXCEPT !.revoked = r].aborted = x.aborted
         /\ [x EXCEPT !.revoked = r].pc = x.pc
  BY DEF TaskRecord

\* The flushes of the loop.
LEMMA InOrderFact == InOrder \in Seq(Partitions)
<1>1. InOrder \in [1 .. NumPartitions -> Partitions] /\ NumPartitions \in Nat
  BY IngestionAssumption DEF InOrder, Partitions
<1> QED BY <1>1

\* The task t after a flush of what it held as x.
Flushed(t, x, mode) ==
  /\ TasksShape' /\ \A u \in Tasks \ {t} : task'[u] = task[u]
  /\ task'[t].buffers = x.buffers /\ task'[t].assigned = x.assigned /\ task'[t].position = x.position
  /\ task'[t].managed = x.managed /\ task'[t].aborted = x.aborted
  /\ task'[t].pc \in {"loop", "recv", "stop", "fail", "write", "deadletter"}
  /\ task'[t].pc = "stop" => mode = "drain"
  /\ task'[t].pc \in {"write", "deadletter"} =>
       /\ task'[t].mode = mode /\ task'[t].work # <<>> /\ Head(task'[t].work) \in Partitions
       /\ task'[t].buffers[Head(task'[t].work)] # <<>>
  /\ task'[t].pc = "write" =>
       /\ task'[t].batch = CleanPrefix(Head(task'[t].work), task'[t].buffers[Head(task'[t].work)])
       /\ task'[t].batch # <<>>
  /\ task'[t].pc = "deadletter" =>
       CleanPrefix(Head(task'[t].work), task'[t].buffers[Head(task'[t].work)]) = <<>>

\* A flush leaves a task flushed.
LEMMA FlushedFact ==
  ASSUME TasksShape, NEW t \in Tasks, NEW x \in TaskRecord, NEW list \in Seq(Partitions),
         NEW mode \in Modes, task' = [task EXCEPT ![t] = Flush(x, list, mode)]
  PROVE  Flushed(t, x, mode)
<1> DEFINE y == Flush(x, list, mode)
<1>1. y = Flush(x, list, mode) /\ task' = [task EXCEPT ![t] = y]
  OBVIOUS
<1> HIDE DEF y
<1>2. /\ y \in TaskRecord
      /\ y.buffers = x.buffers /\ y.assigned = x.assigned /\ y.position = x.position
      /\ y.managed = x.managed /\ y.aborted = x.aborted
      /\ y.pc \in {"loop", "recv", "stop", "fail", "write", "deadletter"}
      /\ y.pc = "stop" => mode = "drain"
      /\ y.pc \in {"write", "deadletter"} =>
           /\ y.mode = mode /\ y.work # <<>> /\ Head(y.work) \in Partitions
           /\ y.buffers[Head(y.work)] # <<>>
      /\ y.pc = "write" =>
           /\ y.batch = CleanPrefix(Head(y.work), y.buffers[Head(y.work)])
           /\ y.batch # <<>>
      /\ y.pc = "deadletter" => CleanPrefix(Head(y.work), y.buffers[Head(y.work)]) = <<>>
  BY <1>1, FlushFact
<1>3. TasksShape' /\ task'[t] = y /\ \A u \in Tasks \ {t} : task'[u] = task[u]
  BY <1>1, <1>2, OneChanges
<1> QED BY <1>2, <1>3 DEF Flushed

\* The timeout flushes.
LEMMA LingerFact ==
  ASSUME TasksShape, NEW t \in Tasks, Linger(t) PROVE Flushed(t, task[t], "batch")
<1>1. task[t] \in TaskRecord /\ "batch" \in Modes
  BY DEF TasksShape, Modes
<1> QED BY <1>1, InOrderFact, FlushedFact DEF Linger

\* So does the top of the loop, to drain only when the process drains.
LEMMA LoopFact ==
  ASSUME TasksShape, NEW t \in Tasks, LoopTop(t)
  PROVE  \E mode \in Modes : Flushed(t, task[t], mode) /\ (mode = "drain" => IsDraining)
<1>1. task[t] \in TaskRecord /\ "drain" \in Modes /\ "revoked" \in Modes
  BY DEF TasksShape, Modes
<1>2. CASE IsDraining
  <2>1. Flushed(t, task[t], "drain")
    BY <1>1, <1>2, InOrderFact, FlushedFact DEF LoopTop
  <2> QED BY <1>1, <1>2, <2>1
<1>3. CASE ~IsDraining
  <2> DEFINE x == [task[t] EXCEPT !.revoked = <<>>]
  <2>0. <<>> \in Seq(Partitions)
    OBVIOUS
  <2>1. /\ x \in TaskRecord /\ task[t].revoked \in Seq(Partitions)
        /\ x.buffers = task[t].buffers /\ x.assigned = task[t].assigned /\ x.position = task[t].position
        /\ x.managed = task[t].managed /\ x.aborted = task[t].aborted
    BY <1>1, <2>0, RevokedFact
  <2>2. task' = [task EXCEPT ![t] = Flush(x, task[t].revoked, "revoked")]
    BY <1>3 DEF LoopTop, TasksShape
  <2> HIDE DEF x
  <2>3. Flushed(t, x, "revoked")
    BY <1>1, <2>1, <2>2, FlushedFact
  <2>4. Flushed(t, task[t], "revoked")
    BY <2>1, <2>3 DEF Flushed
  <2> QED BY <1>1, <2>4
<1> QED BY <1>2, <1>3

\* A receive flushes what includes the new message.
LEMMA ReceiveFact ==
  ASSUME TasksShape, NEW t \in Tasks, NEW p \in Partitions, Receive(t, p)
  PROVE  Flushed(t, Received(task[t], p), "batch")
<1> DEFINE x == Received(task[t], p)
<1>1. task[t] \in TaskRecord /\ "batch" \in Modes /\ "loop" \in PCs
  BY DEF TasksShape, Modes, PCs
<1>2. x \in TaskRecord
  BY <1>1, ReceivedFact
<1>3. CASE Len(x.buffers[p]) >= BatchMax
  <2>1. <<p>> \in Seq(Partitions)
    OBVIOUS
  <2>2. task' = [task EXCEPT ![t] = Flush(x, <<p>>, "batch")]
    BY <1>3 DEF Receive
  <2> HIDE DEF x
  <2>3. Flushed(t, x, "batch")
    BY <1>1, <1>2, <2>1, <2>2, FlushedFact
  <2> QED BY <2>3 DEF x
<1>4. CASE ~(Len(x.buffers[p]) >= BatchMax)
  <2> DEFINE y == [x EXCEPT !.pc = "loop"]
  <2>1. task' = [task EXCEPT ![t] = y]
    BY <1>4 DEF Receive
  <2> HIDE DEF x
  <2>2. /\ y \in TaskRecord /\ y.pc = "loop" /\ y.buffers = x.buffers /\ y.assigned = x.assigned
        /\ y.position = x.position /\ y.managed = x.managed /\ y.aborted = x.aborted
    BY <1>1, <1>2 DEF TaskRecord
  <2> HIDE DEF y
  <2>3. TasksShape' /\ task'[t] = y /\ \A u \in Tasks \ {t} : task'[u] = task[u]
    BY <2>1, <2>2, OneChanges
  <2>4. Flushed(t, x, "batch")
    BY <2>2, <2>3 DEF Flushed
  <2> QED BY <2>4 DEF x
<1> QED BY <1>3, <1>4

\* The partition under flush is one, and its buffer holds offsets.
LEMMA CurrentFact ==
  ASSUME TasksShape, FlushShape, NEW t \in Tasks, task[t].pc \in Flushing
  PROVE  Current(t) \in Partitions /\ Buffer(t) \in Seq(Nat) /\ Buffer(t) # <<>> /\ Len(Buffer(t)) \in Nat
<1>1. task[t].work \in Seq(Partitions) /\ task[t].work # <<>> /\ task[t].buffers \in [Partitions -> Seq(Nat)]
  BY DEF TasksShape, TaskRecord, FlushShape
<1>2. Current(t) \in Partitions
  BY <1>1, HeadTailProperties DEF Current
<1>3. Buffer(t) # <<>>
  BY DEF FlushShape
<1> QED BY <1>1, <1>2, <1>3 DEF Buffer

\* A commit goes on with the flush.
LEMMA CommitAckFact ==
  ASSUME TasksShape, FlushShape, NEW t \in Tasks, CommitAck(t)
  PROVE  Flushed(t, Drained(task[t], Current(t)), task[t].mode)
<1> DEFINE x == Drained(task[t], Current(t))
<1>1. task[t] \in TaskRecord /\ task[t].mode \in Modes /\ task[t].work \in Seq(Partitions)
  BY DEF TasksShape, TaskRecord
<1>2. task[t].pc \in Flushing
  BY DEF CommitAck, Flushing
<1>3. Current(t) \in Partitions /\ task[t].buffers[Current(t)] # <<>>
  BY <1>2, CurrentFact DEF Buffer
<1>4. x \in TaskRecord
  BY <1>1, <1>3, DrainedFact
<1>5. task' = [task EXCEPT ![t] = Flush(x, task[t].work, task[t].mode)]
  BY DEF CommitAck, Current, TasksShape
<1> HIDE DEF x
<1>6. Flushed(t, x, task[t].mode)
  BY <1>1, <1>4, <1>5, FlushedFact
<1> QED BY <1>6 DEF x

\* A listing is a sequence of partitions.
LEMMA ListingFact ==
  ASSUME NEW S \in SUBSET Partitions, NEW list \in Listings(S) PROVE list \in Seq(Partitions)
<1>1. IsFiniteSet(Partitions)
  BY IngestionAssumption, FS_Interval DEF Partitions
<1>2. Cardinality(S) \in Nat
  BY <1>1, FS_Subset, FS_CardinalityType
<1>3. list \in [1 .. Cardinality(S) -> Partitions]
  BY DEF Listings
<1> QED BY <1>2, <1>3

\* A revocation takes the partitions, not the messages.
LEMMA RevokeFact ==
  ASSUME TasksShape, NEW t \in Tasks, Revoke(t)
  PROVE  /\ TasksShape' /\ \A u \in Tasks \ {t} : task'[u] = task[u]
         /\ task'[t].pc = "recv" /\ task'[t].assigned = {} /\ task'[t].buffers = task[t].buffers
         /\ \A p \in Partitions : task'[t].position[p] = 0
         /\ task'[t].managed = task[t].managed /\ task'[t].aborted = task[t].aborted
<1>1. task[t] \in TaskRecord /\ task[t].pc = "recv" /\ task[t].revoked \in Seq(Partitions)
      /\ task[t].assigned \in SUBSET Partitions
  BY DEF TasksShape, Revoke, Polls, TaskRecord
<1>2. PICK list \in Listings(task[t].assigned) :
        task' = [task EXCEPT ![t].revoked = @ \o list, ![t].assigned = {}, ![t].position = NoPositions]
  BY DEF Revoke
<1> DEFINE r == task[t].revoked \o list
           x == [task[t] EXCEPT !.revoked = r, !.assigned = {}, !.position = NoPositions]
<1>3. r \in Seq(Partitions)
  BY <1>1, ListingFact, ConcatProperties
<1>4. NoPositions \in [Partitions -> Nat] /\ \A p \in Partitions : NoPositions[p] = 0
  BY DEF NoPositions
<1>5. task' = [task EXCEPT ![t] = x]
  BY <1>2 DEF TasksShape
<1> HIDE DEF r
<1>6. /\ x \in TaskRecord /\ x.pc = "recv" /\ x.assigned = {} /\ x.buffers = task[t].buffers
      /\ x.position = NoPositions /\ x.managed = task[t].managed /\ x.aborted = task[t].aborted
  BY <1>1, <1>3, <1>4 DEF TaskRecord
<1> HIDE DEF x
<1> QED BY <1>4, <1>5, <1>6, OneChanges

\* An assignment begins at the committed offsets.
LEMMA AssignFact ==
  ASSUME TasksShape, GroupShape, NEW t \in Tasks, NEW P \in SUBSET Partitions, Assign(t, P)
  PROVE  /\ TasksShape' /\ \A u \in Tasks \ {t} : task'[u] = task[u]
         /\ task'[t].pc = "recv" /\ task'[t].assigned = P /\ task'[t].buffers = task[t].buffers
         /\ \A p \in P : task'[t].position[p] = committed[p]
         /\ \A p \in Partitions \ P : task'[t].position[p] = 0
         /\ task'[t].managed = task[t].managed /\ task'[t].aborted = task[t].aborted
<1> DEFINE ps == [p \in Partitions |-> IF p \in P THEN committed[p] ELSE 0]
           x == [task[t] EXCEPT !.assigned = P, !.position = ps]
<1>1. task[t] \in TaskRecord /\ task[t].pc = "recv"
  BY DEF TasksShape, Assign, Polls
<1>2. /\ ps \in [Partitions -> Nat] /\ \A p \in P : ps[p] = committed[p]
      /\ \A p \in Partitions \ P : ps[p] = 0
  BY DEF GroupShape
<1>3. task' = [task EXCEPT ![t] = x]
  BY DEF Assign, TasksShape
<1> HIDE DEF ps
<1>4. /\ x \in TaskRecord /\ x.pc = "recv" /\ x.assigned = P /\ x.buffers = task[t].buffers
      /\ x.position = ps /\ x.managed = task[t].managed /\ x.aborted = task[t].aborted
  BY <1>1, <1>2 DEF TaskRecord
<1> HIDE DEF x
<1> QED BY <1>2, <1>3, <1>4, OneChanges

\* A pause marks at most the task of the stream.
LEMMA PauseFact ==
  ASSUME TasksShape, RequestsShape, PauseStream
  PROVE  /\ TasksShape'
         /\ \A u \in Tasks :
              /\ task'[u].pc = task[u].pc /\ task'[u].buffers = task[u].buffers
              /\ task'[u].assigned = task[u].assigned /\ task'[u].position = task[u].position
              /\ task'[u].work = task[u].work /\ task'[u].batch = task[u].batch
              /\ task'[u].mode = task[u].mode /\ task'[u].managed = task[u].managed
<1>1. CASE task' = task
  BY <1>1 DEF TasksShape
<1>2. CASE task' # task
  <2> DEFINE t == stream.handle
             x == [task[t] EXCEPT !.aborted = TRUE]
  <2>1. t \in Tasks /\ task' = [task EXCEPT ![t].aborted = TRUE]
    BY <1>2 DEF PauseStream, RequestsShape
  <2>2. task[t] \in TaskRecord
    BY <2>1 DEF TasksShape
  <2>3. task' = [task EXCEPT ![t] = x]
    BY <2>1 DEF TasksShape
  <2>4. /\ x \in TaskRecord /\ x.pc = task[t].pc /\ x.buffers = task[t].buffers
        /\ x.assigned = task[t].assigned /\ x.position = task[t].position
        /\ x.work = task[t].work /\ x.batch = task[t].batch
        /\ x.mode = task[t].mode /\ x.managed = task[t].managed
    BY <2>2 DEF TaskRecord
  <2> HIDE DEF x, t
  <2>5. TasksShape' /\ task'[t] = x /\ \A u \in Tasks \ {t} : task'[u] = task[u]
    BY <2>1, <2>3, <2>4, OneChanges
  <2> QED BY <2>4, <2>5
<1> QED BY <1>1, <1>2

\* Messages of the topic have a record id.
LEMMA MessageFact ==
  ASSUME GroupShape, NEW p \in Partitions
  PROVE  End(p) \in Nat /\ \A o \in 0 .. End(p) - 1 : MessageAt(p, o).key \in Keys
<1>1. config.topic \in [Partitions -> Seq(Message)]
  BY DEF GroupShape, Config
<1>2. config.topic[p] \in Seq(Message)
  BY <1>1
<1>3. Len(config.topic[p]) \in Nat /\ \A i \in 1 .. Len(config.topic[p]) : config.topic[p][i] \in Message
  BY <1>2, LenProperties, ElementOfSeq
<1>4. ASSUME NEW o \in 0 .. End(p) - 1 PROVE MessageAt(p, o).key \in Keys
  <2>1. o + 1 \in 1 .. Len(config.topic[p])
    BY <1>3 DEF End
  <2>2. config.topic[p][o + 1] \in Message
    BY <1>3, <2>1
  <2> QED BY <2>2 DEF MessageAt, Message
<1> QED BY <1>3, <1>4 DEF End

\* The next message of a batch is the first of its buffer that is not applied yet.
LEMMA NextFact ==
  ASSUME Shapes, NEW t \in Tasks, task[t].pc = "write"
  PROVE  /\ Current(t) \in Partitions /\ Buffer(t) \in Seq(Nat) /\ Len(Buffer(t)) \in Nat
         /\ Len(task[t].batch) \in Nat \ {0} /\ Len(Clean(t)) \in 1 .. Len(Buffer(t))
         /\ Applied(t) \in 0 .. Len(Clean(t)) - 1
         /\ Applied(t) = Len(Clean(t)) - Len(task[t].batch)
         /\ Head(task[t].batch) = Buffer(t)[Applied(t) + 1]
         /\ Buffer(t)[Applied(t) + 1] \in 0 .. End(Current(t)) - 1
<1>1. task[t].pc \in Flushing
  BY DEF Flushing
<1>2. Current(t) \in Partitions /\ Buffer(t) \in Seq(Nat) /\ Buffer(t) # <<>> /\ Len(Buffer(t)) \in Nat
  BY <1>1, CurrentFact DEF Shapes
<1>3. task[t].batch \in Seq(Nat) /\ task[t].batch # <<>>
  BY <1>1 DEF Shapes, TasksShape, TaskRecord, FlushShape
<1>4. Len(task[t].batch) \in Nat \ {0} /\ Head(task[t].batch) = task[t].batch[1]
  BY <1>3, EmptySeq
<1>5. /\ Len(Clean(t)) \in 0 .. Len(Buffer(t))
      /\ \A i \in 1 .. Len(Clean(t)) : Clean(t)[i] = Buffer(t)[i]
  BY <1>2, CleanFact DEF Clean
<1>6. /\ Len(task[t].batch) <= Len(Clean(t))
      /\ \A i \in 1 .. Len(task[t].batch) : task[t].batch[i] = Clean(t)[Applied(t) + i]
  BY <1>1 DEF Shapes, FlushShape
<1>7. Applied(t) = Len(Clean(t)) - Len(task[t].batch)
  BY DEF Applied
<1>8. Len(Clean(t)) \in 1 .. Len(Buffer(t)) /\ Applied(t) \in 0 .. Len(Clean(t)) - 1
  BY <1>2, <1>4, <1>5, <1>6, <1>7
<1>9. Head(task[t].batch) = Buffer(t)[Applied(t) + 1]
  <2>1. 1 \in 1 .. Len(task[t].batch) /\ Applied(t) + 1 \in 1 .. Len(Clean(t))
    BY <1>4, <1>8
  <2> QED BY <1>4, <1>5, <1>6, <2>1
<1>10. Applied(t) + 1 \in 1 .. Len(Buffer(t))
  BY <1>2, <1>8
<1>11. Buffer(t)[Applied(t) + 1] < End(Current(t)) /\ Buffer(t)[Applied(t) + 1] \in Nat
  BY <1>2, <1>10 DEF Shapes, OffsetsInTopic, Buffer
<1>12. End(Current(t)) \in Nat
  BY <1>2, MessageFact DEF Shapes
<1>13. Buffer(t)[Applied(t) + 1] \in 0 .. End(Current(t)) - 1
  BY <1>11, <1>12
<1> QED BY <1>2, <1>4, <1>7, <1>8, <1>9, <1>13

\* An applied message is stored and handled.
LEMMA ApplyFact ==
  ASSUME Shapes, NEW t \in Tasks, task[t].pc = "write", Apply(t),
         NEW o, o = Buffer(t)[Applied(t) + 1]
  PROVE  /\ handled' = [handled EXCEPT ![Current(t)] = @ \cup {o}]
         /\ stored' = [stored EXCEPT ![Current(t)][MessageAt(Current(t), o).key] = o + 1]
<1>1. Head(task[t].batch) = o
  BY NextFact
<1> QED BY <1>1 DEF Apply, Current

\* The message that is dead-lettered is a poison message.
LEMMA DeadLetterFact ==
  ASSUME Shapes, NEW t \in Tasks, task[t].pc = "deadletter"
  PROVE  /\ Current(t) \in Partitions /\ Buffer(t) \in Seq(Nat) /\ Buffer(t) # <<>>
         /\ Len(Buffer(t)) \in Nat \ {0}
         /\ Applied(t) = 0 /\ BatchLength(Current(t), Buffer(t)) = 1
         /\ Buffer(t)[1] \in 0 .. End(Current(t)) - 1
         /\ MessageAt(Current(t), Buffer(t)[1]).kind = "poison"
<1>1. task[t].pc \in Flushing
  BY DEF Flushing
<1>2. Current(t) \in Partitions /\ Buffer(t) \in Seq(Nat) /\ Buffer(t) # <<>> /\ Len(Buffer(t)) \in Nat
  BY <1>1, CurrentFact DEF Shapes
<1>3. Clean(t) = <<>>
  BY <1>1 DEF Shapes, FlushShape
<1>4. BatchLength(Current(t), Buffer(t)) = 1 /\ Len(Buffer(t)) # 0
  BY <1>2, <1>3, BatchFact, EmptySeq DEF Clean
<1>5. IsPoison(Current(t), Buffer(t)[1])
  BY <1>2, <1>3, CleanFact DEF Clean
<1>6. Buffer(t)[1] \in Nat /\ Buffer(t)[1] < End(Current(t)) /\ End(Current(t)) \in Nat
  BY <1>2, <1>4, MessageFact DEF Shapes, OffsetsInTopic, Buffer
<1> QED BY <1>2, <1>4, <1>5, <1>6 DEF IsPoison, Applied

\* What a commit covers.
LEMMA CommitFact ==
  ASSUME Shapes, NEW t \in Tasks, task[t].pc = "commit"
  PROVE  /\ Current(t) \in Partitions /\ Buffer(t) \in Seq(Nat) /\ Buffer(t) # <<>>
         /\ Len(Buffer(t)) \in Nat
         /\ Applied(t) \in 1 .. Len(Buffer(t)) /\ Applied(t) = BatchLength(Current(t), Buffer(t))
         /\ Buffer(t)[Applied(t)] \in 0 .. End(Current(t)) - 1
         /\ NextOffset(Current(t), Buffer(t)) = Buffer(t)[Applied(t)] + 1
<1>1. task[t].pc \in Flushing
  BY DEF Flushing
<1>2. Current(t) \in Partitions /\ Buffer(t) \in Seq(Nat) /\ Buffer(t) # <<>> /\ Len(Buffer(t)) \in Nat
  BY <1>1, CurrentFact DEF Shapes
<1>3. Applied(t) = BatchLength(Current(t), Buffer(t)) /\ Applied(t) \in 1 .. Len(Buffer(t))
  BY <1>2, BatchFact DEF Applied
<1>4. Buffer(t)[Applied(t)] \in Nat /\ Buffer(t)[Applied(t)] < End(Current(t)) /\ End(Current(t)) \in Nat
  BY <1>2, <1>3, MessageFact DEF Shapes, OffsetsInTopic, Buffer
<1> QED BY <1>2, <1>3, <1>4 DEF NextOffset

\* A commit sets the offset behind the last message of the batch.
LEMMA AcknowledgeFact ==
  ASSUME Shapes, NEW t \in Tasks, task[t].pc = "commit", Acknowledge(t)
  PROVE  committed' = [committed EXCEPT ![Current(t)] = Buffer(t)[Applied(t)] + 1]
  BY CommitFact DEF Acknowledge, Current, Buffer

\* The topic does not change, nor does what is derived from it.
LEMMA TopicStays ==
  ASSUME config' = config
  PROVE  /\ \A p : End(p)' = End(p)
         /\ \A p, o : MessageAt(p, o)' = MessageAt(p, o)
         /\ \A p, B : CleanPrefix(p, B)' = CleanPrefix(p, B)
         /\ \A p, B : BatchLength(p, B)' = BatchLength(p, B)
<1>1. \A p : End(p)' = End(p)
  BY DEF End
<1>2. \A p, o : MessageAt(p, o)' = MessageAt(p, o)
  BY DEF MessageAt
<1>3. ASSUME NEW p, NEW B PROVE CleanPrefix(p, B)' = CleanPrefix(p, B)
  <2> DEFINE before == {i \in DOMAIN B : IsPoison(p, B[i])}
             after == {i \in DOMAIN B : IsPoison(p, B[i])'}
             Cut(S) == IF S = {} THEN B ELSE SubSeq(B, 1, (CHOOSE i \in S : \A j \in S : i <= j) - 1)
  <2>1. before = after
    BY <1>2 DEF IsPoison
  <2>2. CleanPrefix(p, B) = Cut(before)
    BY DEF CleanPrefix
  <2>3. CleanPrefix(p, B)' = Cut(after)
    BY DEF CleanPrefix
  <2> HIDE DEF before, after, Cut
  <2> QED BY <2>1, <2>2, <2>3
<1>4. \A p, B : BatchLength(p, B)' = BatchLength(p, B)
  BY <1>3 DEF BatchLength
<1> QED BY <1>1, <1>2, <1>3, <1>4

\* The records and the history after a write and after a dead letter.
LEMMA LogAfterApply ==
  ASSUME Shapes, config' = config, NEW t \in Tasks, task[t].pc = "write", Apply(t) PROVE LogShape'
<1> DEFINE p == Current(t)
           o == Buffer(t)[Applied(t) + 1]
           k == MessageAt(p, o).key
<1>1. p \in Partitions /\ o \in 0 .. End(p) - 1 /\ k \in Keys /\ End(p) \in Nat
  BY NextFact, MessageFact DEF Shapes
<1>2. handled' = [handled EXCEPT ![p] = @ \cup {o}] /\ stored' = [stored EXCEPT ![p][k] = o + 1]
  BY ApplyFact
<1>3. \A q : End(q)' = End(q)
  BY TopicStays
<1> HIDE DEF p, o, k
<1>4. stored' \in [Partitions -> [Keys -> Nat]]
  BY <1>1, <1>2 DEF Shapes, LogShape
<1> QED BY <1>1, <1>2, <1>3, <1>4 DEF Shapes, LogShape

\* A dead letter is handled.
LEMMA LogAfterDeadLetter ==
  ASSUME Shapes, config' = config, NEW t \in Tasks, task[t].pc = "deadletter", DeadLetter(t),
         stored' = stored
  PROVE  LogShape'
<1> DEFINE p == Current(t)
           o == Buffer(t)[1]
<1>1. p \in Partitions /\ o \in 0 .. End(p) - 1
  BY DeadLetterFact
<1>2. handled' = [handled EXCEPT ![p] = @ \cup {o}]
  BY DEF DeadLetter, Current, Buffer
<1>3. \A q : End(q)' = End(q)
  BY TopicStays
<1> HIDE DEF p, o
<1> QED BY <1>1, <1>2, <1>3 DEF Shapes, LogShape

-----------------------------------------------------------------------------
(* Steps *)

\* A step is one operation, or changes nothing.
LEMMA StepKinds == ASSUME [Next]_vars PROVE
    \/ \E t \in Tasks : Subscribe(t)
    \/ \E t \in Tasks : LoopTop(t)
    \/ \E t \in Tasks : Linger(t)
    \/ \E t \in Tasks : ClientError(t)
    \/ \E t \in Tasks : WriteRecord(t)
    \/ \E t \in Tasks : WriteFails(t)
    \/ \E t \in Tasks : PublishDlq(t)
    \/ \E t \in Tasks : PublishDlqFails(t)
    \/ \E t \in Tasks : CommitAck(t)
    \/ \E t \in Tasks : CommitFails(t)
    \/ \E t \in Tasks : ManagedTaskFails(t)
    \/ \E t \in Tasks : ManagedTaskStops(t)
    \/ \E t \in Tasks : ConfiguredTaskEnds(t)
    \/ \E t \in Tasks : AbortTakesEffect(t)
    \/ \E t \in Tasks : CreateStream(t)
    \/ \E t \in Tasks : ResumeStream(t)
    \/ \E t \in Tasks : Revoke(t)
    \/ \E t \in Tasks : Expel(t)
    \/ \E t \in Tasks, p \in Partitions : Receive(t, p)
    \/ \E t \in Tasks, P \in SUBSET Partitions : Assign(t, P)
    \/ PauseStream
    \/ Start
    \/ BeginDraining
    \/ Exit
    \/ Crash
    \/ UNCHANGED vars
  BY DEF Next, TaskStep, Request, Group, AssignSome

\* The program counters that are assigned.
LEMMA PCValues == "loop" \in PCs /\ "fail" \in PCs /\ "commit" \in PCs
  BY DEF PCs

\* What the history of a step says: no task loses what was handled.
TameAt(u, p) ==
  /\ task'[u].buffers[p] = task[u].buffers[p] \/ task'[u].buffers[p] = <<>>
  /\ task'[u].position[p] = task[u].position[p] \/ task'[u].position[p] = 0
  /\ p \in task'[u].assigned =>
       /\ p \in task[u].assigned /\ task'[u].buffers[p] = task[u].buffers[p]
       /\ task'[u].position[p] = task[u].position[p]
       /\ u \in members' => u \in members
  /\ task[u].pc = "fail" /\ task'[u].pc # "fail" =>
       task'[u].buffers[p] = <<>> /\ p \notin task'[u].assigned

Tame == \A u \in Tasks, q \in Partitions : TameAt(u, q)

\* A step neither receives, commits nor assigns.
TameStep ==
  \/ Tame
  \/ \E t \in Tasks : CommitAck(t)
  \/ \E t \in Tasks, p \in Partitions : Receive(t, p)
  \/ \E t \in Tasks, P \in SUBSET Partitions : Assign(t, P)

\* What was handled stays handled, what was handed out too early stays marked, and the
\* configuration stays.
LEMMA HistoryFact ==
  ASSUME IngestionIInv, [Next]_vars
  PROVE config' = config /\ stale \subseteq stale'
        /\ \A q \in Partitions : handled[q] \subseteq handled'[q]
<1> USE DEF IngestionIInv, Shapes, LogShape, groupVars, vars
<1>1. ASSUME NEW t \in Tasks, Subscribe(t)
      PROVE  config' = config /\ stale \subseteq stale'
        /\ \A q \in Partitions : handled[q] \subseteq handled'[q]
  BY <1>1 DEF Subscribe
<1>2. ASSUME NEW t \in Tasks, LoopTop(t)
      PROVE  config' = config /\ stale \subseteq stale'
        /\ \A q \in Partitions : handled[q] \subseteq handled'[q]
  BY <1>2 DEF LoopTop
<1>3. ASSUME NEW t \in Tasks, Linger(t)
      PROVE  config' = config /\ stale \subseteq stale'
        /\ \A q \in Partitions : handled[q] \subseteq handled'[q]
  BY <1>3 DEF Linger, Polls
<1>4. ASSUME NEW t \in Tasks, ClientError(t)
      PROVE  config' = config /\ stale \subseteq stale'
        /\ \A q \in Partitions : handled[q] \subseteq handled'[q]
  BY <1>4 DEF ClientError, Fail, Polls
<1>5. ASSUME NEW t \in Tasks, WriteRecord(t)
      PROVE  config' = config /\ stale \subseteq stale'
        /\ \A q \in Partitions : handled[q] \subseteq handled'[q]
  BY <1>5 DEF WriteRecord, Apply
<1>6. ASSUME NEW t \in Tasks, WriteFails(t)
      PROVE  config' = config /\ stale \subseteq stale'
        /\ \A q \in Partitions : handled[q] \subseteq handled'[q]
  BY <1>6 DEF WriteFails, Fail, Apply
<1>7. ASSUME NEW t \in Tasks, PublishDlq(t)
      PROVE  config' = config /\ stale \subseteq stale'
        /\ \A q \in Partitions : handled[q] \subseteq handled'[q]
  BY <1>7 DEF PublishDlq, DeadLetter
<1>8. ASSUME NEW t \in Tasks, PublishDlqFails(t)
      PROVE  config' = config /\ stale \subseteq stale'
        /\ \A q \in Partitions : handled[q] \subseteq handled'[q]
  BY <1>8 DEF PublishDlqFails, Fail, DeadLetter
<1>9. ASSUME NEW t \in Tasks, CommitAck(t)
      PROVE  config' = config /\ stale \subseteq stale'
        /\ \A q \in Partitions : handled[q] \subseteq handled'[q]
  BY <1>9 DEF CommitAck
<1>10. ASSUME NEW t \in Tasks, CommitFails(t)
      PROVE  config' = config /\ stale \subseteq stale'
        /\ \A q \in Partitions : handled[q] \subseteq handled'[q]
  BY <1>10 DEF CommitFails, Fail
<1>11. ASSUME NEW t \in Tasks, ManagedTaskFails(t)
      PROVE  config' = config /\ stale \subseteq stale'
        /\ \A q \in Partitions : handled[q] \subseteq handled'[q]
  BY <1>11 DEF ManagedTaskFails, TaskEnds
<1>12. ASSUME NEW t \in Tasks, ManagedTaskStops(t)
      PROVE  config' = config /\ stale \subseteq stale'
        /\ \A q \in Partitions : handled[q] \subseteq handled'[q]
  BY <1>12 DEF ManagedTaskStops, TaskEnds
<1>13. ASSUME NEW t \in Tasks, ConfiguredTaskEnds(t)
      PROVE  config' = config /\ stale \subseteq stale'
        /\ \A q \in Partitions : handled[q] \subseteq handled'[q]
  BY <1>13 DEF ConfiguredTaskEnds, Halt
<1>14. ASSUME NEW t \in Tasks, AbortTakesEffect(t)
      PROVE  config' = config /\ stale \subseteq stale'
        /\ \A q \in Partitions : handled[q] \subseteq handled'[q]
  BY <1>14 DEF AbortTakesEffect, TaskEnds, Apply, DeadLetter
<1>15. ASSUME NEW t \in Tasks, CreateStream(t)
      PROVE  config' = config /\ stale \subseteq stale'
        /\ \A q \in Partitions : handled[q] \subseteq handled'[q]
  BY <1>15 DEF CreateStream, StreamRequest
<1>16. ASSUME NEW t \in Tasks, ResumeStream(t)
      PROVE  config' = config /\ stale \subseteq stale'
        /\ \A q \in Partitions : handled[q] \subseteq handled'[q]
  BY <1>16 DEF ResumeStream, StreamRequest
<1>17. ASSUME NEW t \in Tasks, Revoke(t)
      PROVE  config' = config /\ stale \subseteq stale'
        /\ \A q \in Partitions : handled[q] \subseteq handled'[q]
  BY <1>17 DEF Revoke, Polls
<1>18. ASSUME NEW t \in Tasks, Expel(t)
      PROVE  config' = config /\ stale \subseteq stale'
        /\ \A q \in Partitions : handled[q] \subseteq handled'[q]
  BY <1>18 DEF Expel
<1>19. ASSUME NEW t \in Tasks, NEW p \in Partitions, Receive(t, p)
      PROVE  config' = config /\ stale \subseteq stale'
        /\ \A q \in Partitions : handled[q] \subseteq handled'[q]
  BY <1>19 DEF Receive, Polls
<1>20. ASSUME NEW t \in Tasks, NEW P \in SUBSET Partitions, Assign(t, P)
      PROVE  config' = config /\ stale \subseteq stale'
        /\ \A q \in Partitions : handled[q] \subseteq handled'[q]
  BY <1>20 DEF Assign, Polls
<1>21. ASSUME PauseStream
      PROVE  config' = config /\ stale \subseteq stale'
        /\ \A q \in Partitions : handled[q] \subseteq handled'[q]
  BY <1>21 DEF PauseStream, StreamRequest
<1>22. ASSUME Start
      PROVE  config' = config /\ stale \subseteq stale'
        /\ \A q \in Partitions : handled[q] \subseteq handled'[q]
  BY <1>22 DEF Start, Spawn
<1>23. ASSUME BeginDraining
      PROVE  config' = config /\ stale \subseteq stale'
        /\ \A q \in Partitions : handled[q] \subseteq handled'[q]
  BY <1>23 DEF BeginDraining
<1>24. ASSUME Exit
      PROVE  config' = config /\ stale \subseteq stale'
        /\ \A q \in Partitions : handled[q] \subseteq handled'[q]
  BY <1>24 DEF Exit, Halt
<1>25. ASSUME Crash
      PROVE  config' = config /\ stale \subseteq stale'
        /\ \A q \in Partitions : handled[q] \subseteq handled'[q]
  BY <1>25 DEF Crash, Halt
<1>26. ASSUME UNCHANGED vars
      PROVE  config' = config /\ stale \subseteq stale'
        /\ \A q \in Partitions : handled[q] \subseteq handled'[q]
  BY <1>26 DEF vars
<1> QED BY StepKinds, <1>1, <1>2, <1>3, <1>4, <1>5, <1>6, <1>7, <1>8, <1>9, <1>10, <1>11, <1>12,
      <1>13, <1>14, <1>15, <1>16, <1>17, <1>18, <1>19, <1>20, <1>21, <1>22, <1>23, <1>24, <1>25,
      <1>26

\* Tasks keep their shape.
LEMMA TasksStep ==
  ASSUME IngestionIInv, [Next]_vars PROVE TasksShape'
<1> USE DEF IngestionIInv, Shapes, groupVars
<1>1. ASSUME NEW t \in Tasks, Subscribe(t) PROVE TasksShape'
  BY <1>1, PcFact, PCValues DEF Subscribe
<1>2. ASSUME NEW t \in Tasks, LoopTop(t) PROVE TasksShape'
  BY <1>2, LoopFact DEF LoopTop, Flushed
<1>3. ASSUME NEW t \in Tasks, Linger(t) PROVE TasksShape'
  BY <1>3, LingerFact DEF Linger, Polls, Flushed
<1>4. ASSUME NEW t \in Tasks, ClientError(t) PROVE TasksShape'
  BY <1>4, PcFact, PCValues DEF ClientError, Fail, Polls, Fail
<1>5. ASSUME NEW t \in Tasks, WriteRecord(t) PROVE TasksShape'
  BY <1>5, WriteFact DEF WriteRecord
<1>6. ASSUME NEW t \in Tasks, WriteFails(t) PROVE TasksShape'
  BY <1>6, PcFact, PCValues DEF WriteFails, Fail, Fail
<1>7. ASSUME NEW t \in Tasks, PublishDlq(t) PROVE TasksShape'
  BY <1>7, PcFact, PCValues DEF PublishDlq
<1>8. ASSUME NEW t \in Tasks, PublishDlqFails(t) PROVE TasksShape'
  BY <1>8, PcFact, PCValues DEF PublishDlqFails, Fail, Fail
<1>9. ASSUME NEW t \in Tasks, CommitAck(t) PROVE TasksShape'
  BY <1>9, CommitAckFact DEF CommitAck, Flushed
<1>10. ASSUME NEW t \in Tasks, CommitFails(t) PROVE TasksShape'
  BY <1>10, PcFact, PCValues DEF CommitFails, Fail, Fail
<1>11. ASSUME NEW t \in Tasks, ManagedTaskFails(t) PROVE TasksShape'
  BY <1>11, EndFact DEF ManagedTaskFails, TaskEnds, TaskEnds
<1>12. ASSUME NEW t \in Tasks, ManagedTaskStops(t) PROVE TasksShape'
  BY <1>12, EndFact DEF ManagedTaskStops, TaskEnds, TaskEnds
<1>13. ASSUME NEW t \in Tasks, ConfiguredTaskEnds(t) PROVE TasksShape'
  BY <1>13, HaltFact DEF ConfiguredTaskEnds, Halt
<1>14. ASSUME NEW t \in Tasks, AbortTakesEffect(t) PROVE TasksShape'
  BY <1>14, EndFact DEF AbortTakesEffect, TaskEnds, TaskEnds
<1>15. ASSUME NEW t \in Tasks, CreateStream(t) PROVE TasksShape'
  BY <1>15, SpawnFact DEF CreateStream, StreamRequest
<1>16. ASSUME NEW t \in Tasks, ResumeStream(t) PROVE TasksShape'
  BY <1>16, SpawnFact DEF ResumeStream, StreamRequest
<1>17. ASSUME NEW t \in Tasks, Revoke(t) PROVE TasksShape'
  BY <1>17, RevokeFact DEF Revoke, Polls
<1>18. ASSUME NEW t \in Tasks, Expel(t) PROVE TasksShape'
  BY <1>18 DEF Expel, TasksShape
<1>19. ASSUME NEW t \in Tasks, NEW p \in Partitions, Receive(t, p) PROVE TasksShape'
  BY <1>19, ReceiveFact DEF Receive, Polls, Flushed
<1>20. ASSUME NEW t \in Tasks, NEW P \in SUBSET Partitions, Assign(t, P) PROVE TasksShape'
  BY <1>20, AssignFact DEF Assign, Polls
<1>21. ASSUME PauseStream PROVE TasksShape'
  BY <1>21, PauseFact DEF PauseStream, StreamRequest, StreamRequest
<1>22. ASSUME Start PROVE TasksShape'
  <2>1. CASE UNCHANGED task
    BY <1>22, <2>1 DEF Start, TasksShape
  <2>2. CASE ~UNCHANGED task
    <3>1. PICK t \in Tasks : Spawn(t, FALSE)
      BY <1>22, <2>2 DEF Start
    <3> QED BY <1>22, <3>1, SpawnFact DEF Start, TasksShape
  <2> QED BY <2>1, <2>2
<1>23. ASSUME BeginDraining PROVE TasksShape'
  BY <1>23 DEF BeginDraining, TasksShape
<1>24. ASSUME Exit PROVE TasksShape'
  BY <1>24, HaltFact DEF Exit, Halt
<1>25. ASSUME Crash PROVE TasksShape'
  BY <1>25, HaltFact DEF Crash, Halt
<1>26. ASSUME UNCHANGED vars PROVE TasksShape'
  BY <1>26 DEF vars, TasksShape
<1> QED BY StepKinds, <1>1, <1>2, <1>3, <1>4, <1>5, <1>6, <1>7, <1>8, <1>9, <1>10, <1>11, <1>12,
      <1>13, <1>14, <1>15, <1>16, <1>17, <1>18, <1>19, <1>20, <1>21, <1>22, <1>23, <1>24, <1>25,
      <1>26

\* Only a receive, a commit and an assignment change what a task holds.
LEMMA TameFact ==
  ASSUME IngestionIInv, [Next]_vars PROVE TameStep
<1> USE DEF IngestionIInv, Shapes, groupVars
<1>1. ASSUME NEW t \in Tasks, Subscribe(t) PROVE TameStep
  <2>1. ASSUME NEW u \in Tasks, NEW q \in Partitions PROVE TameAt(u, q)
    <3>1. CASE u # t
      BY <1>1, <3>1, PcFact, PCValues DEF Subscribe, FreshTasks, TameAt
    <3>2. CASE u = t
      BY <1>1, <3>2, PcFact, PCValues DEF Subscribe, FreshTasks, TameAt
    <3> QED BY <3>1, <3>2
  <2> QED BY <2>1 DEF TameStep, Tame
<1>2. ASSUME NEW t \in Tasks, LoopTop(t) PROVE TameStep
  <2>1. ASSUME NEW u \in Tasks, NEW q \in Partitions PROVE TameAt(u, q)
    <3>1. CASE u # t
      BY <1>2, <3>1, LoopFact DEF LoopTop, Flushed, FreshTasks, TameAt
    <3>2. CASE u = t
      BY <1>2, <3>2, LoopFact DEF LoopTop, Flushed, FreshTasks, TameAt
    <3> QED BY <3>1, <3>2
  <2> QED BY <2>1 DEF TameStep, Tame
<1>3. ASSUME NEW t \in Tasks, Linger(t) PROVE TameStep
  <2>1. ASSUME NEW u \in Tasks, NEW q \in Partitions PROVE TameAt(u, q)
    <3>1. CASE u # t
      BY <1>3, <3>1, LingerFact DEF Linger, Polls, Flushed, FreshTasks, TameAt
    <3>2. CASE u = t
      BY <1>3, <3>2, LingerFact DEF Linger, Polls, Flushed, FreshTasks, TameAt
    <3> QED BY <3>1, <3>2
  <2> QED BY <2>1 DEF TameStep, Tame
<1>4. ASSUME NEW t \in Tasks, ClientError(t) PROVE TameStep
  <2>1. ASSUME NEW u \in Tasks, NEW q \in Partitions PROVE TameAt(u, q)
    <3>1. CASE u # t
      BY <1>4, <3>1, PcFact, PCValues DEF ClientError, Fail, Polls, Fail, FreshTasks, TameAt
    <3>2. CASE u = t
      BY <1>4, <3>2, PcFact, PCValues DEF ClientError, Fail, Polls, Fail, FreshTasks, TameAt
    <3> QED BY <3>1, <3>2
  <2> QED BY <2>1 DEF TameStep, Tame
<1>5. ASSUME NEW t \in Tasks, WriteRecord(t) PROVE TameStep
  <2>1. ASSUME NEW u \in Tasks, NEW q \in Partitions PROVE TameAt(u, q)
    <3>1. CASE u # t
      BY <1>5, <3>1, WriteFact DEF WriteRecord, FreshTasks, TameAt
    <3>2. CASE u = t
      BY <1>5, <3>2, WriteFact DEF WriteRecord, FreshTasks, TameAt
    <3> QED BY <3>1, <3>2
  <2> QED BY <2>1 DEF TameStep, Tame
<1>6. ASSUME NEW t \in Tasks, WriteFails(t) PROVE TameStep
  <2>1. ASSUME NEW u \in Tasks, NEW q \in Partitions PROVE TameAt(u, q)
    <3>1. CASE u # t
      BY <1>6, <3>1, PcFact, PCValues DEF WriteFails, Fail, FreshTasks, TameAt
    <3>2. CASE u = t
      BY <1>6, <3>2, PcFact, PCValues DEF WriteFails, Fail, FreshTasks, TameAt
    <3> QED BY <3>1, <3>2
  <2> QED BY <2>1 DEF TameStep, Tame
<1>7. ASSUME NEW t \in Tasks, PublishDlq(t) PROVE TameStep
  <2>1. ASSUME NEW u \in Tasks, NEW q \in Partitions PROVE TameAt(u, q)
    <3>1. CASE u # t
      BY <1>7, <3>1, PcFact, PCValues DEF PublishDlq, FreshTasks, TameAt
    <3>2. CASE u = t
      BY <1>7, <3>2, PcFact, PCValues DEF PublishDlq, FreshTasks, TameAt
    <3> QED BY <3>1, <3>2
  <2> QED BY <2>1 DEF TameStep, Tame
<1>8. ASSUME NEW t \in Tasks, PublishDlqFails(t) PROVE TameStep
  <2>1. ASSUME NEW u \in Tasks, NEW q \in Partitions PROVE TameAt(u, q)
    <3>1. CASE u # t
      BY <1>8, <3>1, PcFact, PCValues DEF PublishDlqFails, Fail, FreshTasks, TameAt
    <3>2. CASE u = t
      BY <1>8, <3>2, PcFact, PCValues DEF PublishDlqFails, Fail, FreshTasks, TameAt
    <3> QED BY <3>1, <3>2
  <2> QED BY <2>1 DEF TameStep, Tame
<1>9. ASSUME NEW t \in Tasks, CommitAck(t) PROVE TameStep
  BY <1>9 DEF TameStep
<1>10. ASSUME NEW t \in Tasks, CommitFails(t) PROVE TameStep
  <2>1. ASSUME NEW u \in Tasks, NEW q \in Partitions PROVE TameAt(u, q)
    <3>1. CASE u # t
      BY <1>10, <3>1, PcFact, PCValues DEF CommitFails, Fail, FreshTasks, TameAt
    <3>2. CASE u = t
      BY <1>10, <3>2, PcFact, PCValues DEF CommitFails, Fail, FreshTasks, TameAt
    <3> QED BY <3>1, <3>2
  <2> QED BY <2>1 DEF TameStep, Tame
<1>11. ASSUME NEW t \in Tasks, ManagedTaskFails(t) PROVE TameStep
  <2>1. ASSUME NEW u \in Tasks, NEW q \in Partitions PROVE TameAt(u, q)
    <3>1. CASE u # t
      BY <1>11, <3>1, EndFact DEF ManagedTaskFails, TaskEnds, FreshTasks, TameAt
    <3>2. CASE u = t
      BY <1>11, <3>2, EndFact DEF ManagedTaskFails, TaskEnds, FreshTasks, TameAt
    <3> QED BY <3>1, <3>2
  <2> QED BY <2>1 DEF TameStep, Tame
<1>12. ASSUME NEW t \in Tasks, ManagedTaskStops(t) PROVE TameStep
  <2>1. ASSUME NEW u \in Tasks, NEW q \in Partitions PROVE TameAt(u, q)
    <3>1. CASE u # t
      BY <1>12, <3>1, EndFact DEF ManagedTaskStops, TaskEnds, FreshTasks, TameAt
    <3>2. CASE u = t
      BY <1>12, <3>2, EndFact DEF ManagedTaskStops, TaskEnds, FreshTasks, TameAt
    <3> QED BY <3>1, <3>2
  <2> QED BY <2>1 DEF TameStep, Tame
<1>13. ASSUME NEW t \in Tasks, ConfiguredTaskEnds(t) PROVE TameStep
  <2>1. ASSUME NEW u \in Tasks, NEW q \in Partitions PROVE TameAt(u, q)
    BY <1>13, HaltFact DEF ConfiguredTaskEnds, Halt, FreshTasks, TameAt
  <2> QED BY <2>1 DEF TameStep, Tame
<1>14. ASSUME NEW t \in Tasks, AbortTakesEffect(t) PROVE TameStep
  <2>1. ASSUME NEW u \in Tasks, NEW q \in Partitions PROVE TameAt(u, q)
    <3>1. CASE u # t
      BY <1>14, <3>1, EndFact DEF AbortTakesEffect, TaskEnds, FreshTasks, TameAt
    <3>2. CASE u = t
      BY <1>14, <3>2, EndFact DEF AbortTakesEffect, TaskEnds, FreshTasks, TameAt
    <3> QED BY <3>1, <3>2
  <2> QED BY <2>1 DEF TameStep, Tame
<1>15. ASSUME NEW t \in Tasks, CreateStream(t) PROVE TameStep
  <2>1. ASSUME NEW u \in Tasks, NEW q \in Partitions PROVE TameAt(u, q)
    <3>1. CASE u # t
      BY <1>15, <3>1, SpawnFact DEF CreateStream, StreamRequest, FreshTasks, TameAt
    <3>2. CASE u = t
      BY <1>15, <3>2, SpawnFact DEF CreateStream, StreamRequest, FreshTasks, TameAt
    <3> QED BY <3>1, <3>2
  <2> QED BY <2>1 DEF TameStep, Tame
<1>16. ASSUME NEW t \in Tasks, ResumeStream(t) PROVE TameStep
  <2>1. ASSUME NEW u \in Tasks, NEW q \in Partitions PROVE TameAt(u, q)
    <3>1. CASE u # t
      BY <1>16, <3>1, SpawnFact DEF ResumeStream, StreamRequest, FreshTasks, TameAt
    <3>2. CASE u = t
      BY <1>16, <3>2, SpawnFact DEF ResumeStream, StreamRequest, FreshTasks, TameAt
    <3> QED BY <3>1, <3>2
  <2> QED BY <2>1 DEF TameStep, Tame
<1>17. ASSUME NEW t \in Tasks, Revoke(t) PROVE TameStep
  <2>1. ASSUME NEW u \in Tasks, NEW q \in Partitions PROVE TameAt(u, q)
    <3>1. CASE u # t
      BY <1>17, <3>1, RevokeFact DEF Revoke, Polls, FreshTasks, TameAt
    <3>2. CASE u = t
      BY <1>17, <3>2, RevokeFact DEF Revoke, Polls, FreshTasks, TameAt
    <3> QED BY <3>1, <3>2
  <2> QED BY <2>1 DEF TameStep, Tame
<1>18. ASSUME NEW t \in Tasks, Expel(t) PROVE TameStep
  <2>1. ASSUME NEW u \in Tasks, NEW q \in Partitions PROVE TameAt(u, q)
    BY <1>18 DEF Expel, FreshTasks, TameAt
  <2> QED BY <2>1 DEF TameStep, Tame
<1>19. ASSUME NEW t \in Tasks, NEW p \in Partitions, Receive(t, p) PROVE TameStep
  BY <1>19 DEF TameStep
<1>20. ASSUME NEW t \in Tasks, NEW P \in SUBSET Partitions, Assign(t, P) PROVE TameStep
  BY <1>20 DEF TameStep
<1>21. ASSUME PauseStream PROVE TameStep
  <2>1. ASSUME NEW u \in Tasks, NEW q \in Partitions PROVE TameAt(u, q)
    BY <1>21, PauseFact DEF PauseStream, StreamRequest, FreshTasks, TameAt
  <2> QED BY <2>1 DEF TameStep, Tame
<1>22. ASSUME Start PROVE TameStep
  <2>1. ASSUME NEW u \in Tasks, NEW q \in Partitions PROVE TameAt(u, q)
    <3>1. CASE UNCHANGED task
      BY <1>22, <3>1 DEF Start, TameAt
    <3>2. CASE ~UNCHANGED task
      <4>1. PICK t \in Tasks : Spawn(t, FALSE)
        BY <1>22, <3>2 DEF Start
      <4> QED BY <1>22, <4>1, SpawnFact DEF Start, TameAt, DownIsEmpty
    <3> QED BY <3>1, <3>2
  <2> QED BY <2>1 DEF TameStep, Tame
<1>23. ASSUME BeginDraining PROVE TameStep
  <2>1. ASSUME NEW u \in Tasks, NEW q \in Partitions PROVE TameAt(u, q)
    BY <1>23 DEF BeginDraining, FreshTasks, TameAt
  <2> QED BY <2>1 DEF TameStep, Tame
<1>24. ASSUME Exit PROVE TameStep
  <2>1. ASSUME NEW u \in Tasks, NEW q \in Partitions PROVE TameAt(u, q)
    BY <1>24, HaltFact DEF Exit, Halt, FreshTasks, TameAt
  <2> QED BY <2>1 DEF TameStep, Tame
<1>25. ASSUME Crash PROVE TameStep
  <2>1. ASSUME NEW u \in Tasks, NEW q \in Partitions PROVE TameAt(u, q)
    BY <1>25, HaltFact DEF Crash, Halt, FreshTasks, TameAt
  <2> QED BY <2>1 DEF TameStep, Tame
<1>26. ASSUME UNCHANGED vars PROVE TameStep
  <2>1. ASSUME NEW u \in Tasks, NEW q \in Partitions PROVE TameAt(u, q)
    BY <1>26 DEF vars, TameAt
  <2> QED BY <2>1 DEF TameStep, Tame
<1> QED BY StepKinds, <1>1, <1>2, <1>3, <1>4, <1>5, <1>6, <1>7, <1>8, <1>9, <1>10, <1>11, <1>12,
      <1>13, <1>14, <1>15, <1>16, <1>17, <1>18, <1>19, <1>20, <1>21, <1>22, <1>23, <1>24, <1>25,
      <1>26

\* The flush of a task after a step: the same, or one that begins.
SameFlush(u) ==
  /\ task'[u].pc = task[u].pc /\ task'[u].work = task[u].work
  /\ task'[u].batch = task[u].batch /\ task'[u].buffers = task[u].buffers

FreshFlush(u) ==
  /\ task'[u].pc \in {"write", "deadletter"} /\ task'[u].work # <<>> /\ Buffer(u)' # <<>>
  /\ task'[u].pc = "write" => task'[u].batch = Clean(u)' /\ task'[u].batch # <<>>
  /\ task'[u].pc = "deadletter" => Clean(u)' = <<>>

FlushAt(u) == task'[u].pc \notin Flushing \/ SameFlush(u) \/ FreshFlush(u)

\* A step neither writes a record nor publishes a dead letter and goes on.
FlushStep ==
  \/ \A u \in Tasks : FlushAt(u)
  \/ \E t \in Tasks : WriteRecord(t) \/ PublishDlq(t)

\* A flush that begins.
LEMMA FlushedBegins ==
  ASSUME config' = config, NEW t \in Tasks, NEW x, NEW mode, Flushed(t, x, mode)
  PROVE  FlushAt(t)
<1>1. CASE task'[t].pc \in {"write", "deadletter"}
  <2>1. /\ Current(t)' = Head(task'[t].work) /\ Buffer(t)' = task'[t].buffers[Head(task'[t].work)]
    BY DEF Current, Buffer
  <2>2. Clean(t)' = CleanPrefix(Head(task'[t].work), task'[t].buffers[Head(task'[t].work)])
    BY <2>1, TopicStays DEF Clean
  <2> QED BY <1>1, <2>1, <2>2 DEF Flushed, FlushAt, FreshFlush
<1>2. CASE task'[t].pc \notin {"write", "deadletter"}
  BY <1>2 DEF Flushed, FlushAt, Flushing
<1> QED BY <1>1, <1>2

\* Only writes and dead letters move a batch on.
LEMMA FlushFacts ==
  ASSUME IngestionIInv, [Next]_vars PROVE FlushStep
<1> USE DEF IngestionIInv, Shapes, groupVars
<1>1. ASSUME NEW t \in Tasks, Subscribe(t) PROVE FlushStep
  <2>1. ASSUME NEW u \in Tasks PROVE FlushAt(u)
    <3>1. CASE u # t
      BY <1>1, <3>1, PcFact, PCValues DEF Subscribe, FlushAt, SameFlush
    <3>2. CASE u = t
      BY <1>1, <3>2, PcFact, PCValues DEF Subscribe, FlushAt, Flushing, FreshFlush
    <3> QED BY <3>1, <3>2
  <2> QED BY <2>1 DEF FlushStep
<1>2. ASSUME NEW t \in Tasks, LoopTop(t) PROVE FlushStep
  <2>1. ASSUME NEW u \in Tasks PROVE FlushAt(u)
    <3>1. CASE u # t
      BY <1>2, <3>1, LoopFact DEF LoopTop, Flushed, FlushAt, SameFlush
    <3>2. CASE u = t
      BY <1>2, <3>2, LoopFact, HistoryFact, FlushedBegins DEF LoopTop
    <3> QED BY <3>1, <3>2
  <2> QED BY <2>1 DEF FlushStep
<1>3. ASSUME NEW t \in Tasks, Linger(t) PROVE FlushStep
  <2>1. ASSUME NEW u \in Tasks PROVE FlushAt(u)
    <3>1. CASE u # t
      BY <1>3, <3>1, LingerFact DEF Linger, Polls, Flushed, FlushAt, SameFlush
    <3>2. CASE u = t
      BY <1>3, <3>2, LingerFact, HistoryFact, FlushedBegins DEF Polls
    <3> QED BY <3>1, <3>2
  <2> QED BY <2>1 DEF FlushStep
<1>4. ASSUME NEW t \in Tasks, ClientError(t) PROVE FlushStep
  <2>1. ASSUME NEW u \in Tasks PROVE FlushAt(u)
    <3>1. CASE u # t
      BY <1>4, <3>1, PcFact, PCValues DEF ClientError, Fail, Polls, Fail, FlushAt, SameFlush
    <3>2. CASE u = t
      BY <1>4, <3>2, PcFact, PCValues DEF ClientError, Fail, Polls, Fail, FlushAt, Flushing,
            FreshFlush
    <3> QED BY <3>1, <3>2
  <2> QED BY <2>1 DEF FlushStep
<1>5. ASSUME NEW t \in Tasks, WriteRecord(t) PROVE FlushStep
  BY <1>5 DEF FlushStep
<1>6. ASSUME NEW t \in Tasks, WriteFails(t) PROVE FlushStep
  <2>1. ASSUME NEW u \in Tasks PROVE FlushAt(u)
    <3>1. CASE u # t
      BY <1>6, <3>1, PcFact, PCValues DEF WriteFails, Fail, FlushAt, SameFlush
    <3>2. CASE u = t
      <4>1. task'[t].pc = "fail"
        BY <1>6, PcFact, PCValues DEF Fail, WriteFails
      <4> QED BY <3>2, <4>1 DEF FlushAt, Flushing
    <3> QED BY <3>1, <3>2
  <2> QED BY <2>1 DEF FlushStep
<1>7. ASSUME NEW t \in Tasks, PublishDlq(t) PROVE FlushStep
  BY <1>7 DEF FlushStep
<1>8. ASSUME NEW t \in Tasks, PublishDlqFails(t) PROVE FlushStep
  <2>1. ASSUME NEW u \in Tasks PROVE FlushAt(u)
    <3>1. CASE u # t
      BY <1>8, <3>1, PcFact, PCValues DEF PublishDlqFails, Fail, FlushAt, SameFlush
    <3>2. CASE u = t
      <4>1. task'[t].pc = "fail"
        BY <1>8, PcFact, PCValues DEF Fail, PublishDlqFails
      <4> QED BY <3>2, <4>1 DEF FlushAt, Flushing
    <3> QED BY <3>1, <3>2
  <2> QED BY <2>1 DEF FlushStep
<1>9. ASSUME NEW t \in Tasks, CommitAck(t) PROVE FlushStep
  <2>1. ASSUME NEW u \in Tasks PROVE FlushAt(u)
    <3>1. CASE u # t
      BY <1>9, <3>1, CommitAckFact DEF CommitAck, Flushed, FlushAt, SameFlush
    <3>2. CASE u = t
      BY <1>9, <3>2, CommitAckFact, HistoryFact, FlushedBegins DEF CommitAck
    <3> QED BY <3>1, <3>2
  <2> QED BY <2>1 DEF FlushStep
<1>10. ASSUME NEW t \in Tasks, CommitFails(t) PROVE FlushStep
  <2>1. ASSUME NEW u \in Tasks PROVE FlushAt(u)
    <3>1. CASE u # t
      BY <1>10, <3>1, PcFact, PCValues DEF CommitFails, Fail, FlushAt, SameFlush
    <3>2. CASE u = t
      BY <1>10, <3>2, PcFact, PCValues DEF CommitFails, Fail, FlushAt, Flushing, FreshFlush
    <3> QED BY <3>1, <3>2
  <2> QED BY <2>1 DEF FlushStep
<1>11. ASSUME NEW t \in Tasks, ManagedTaskFails(t) PROVE FlushStep
  <2>1. ASSUME NEW u \in Tasks PROVE FlushAt(u)
    <3>1. CASE u # t
      BY <1>11, <3>1, EndFact DEF ManagedTaskFails, TaskEnds, FlushAt, SameFlush
    <3>2. CASE u = t
      BY <1>11, <3>2, EndFact DEF ManagedTaskFails, TaskEnds, FlushAt, Flushing, FreshFlush
    <3> QED BY <3>1, <3>2
  <2> QED BY <2>1 DEF FlushStep
<1>12. ASSUME NEW t \in Tasks, ManagedTaskStops(t) PROVE FlushStep
  <2>1. ASSUME NEW u \in Tasks PROVE FlushAt(u)
    <3>1. CASE u # t
      BY <1>12, <3>1, EndFact DEF ManagedTaskStops, TaskEnds, FlushAt, SameFlush
    <3>2. CASE u = t
      BY <1>12, <3>2, EndFact DEF ManagedTaskStops, TaskEnds, FlushAt, Flushing, FreshFlush
    <3> QED BY <3>1, <3>2
  <2> QED BY <2>1 DEF FlushStep
<1>13. ASSUME NEW t \in Tasks, ConfiguredTaskEnds(t) PROVE FlushStep
  <2>1. ASSUME NEW u \in Tasks PROVE FlushAt(u)
    BY <1>13, HaltFact DEF ConfiguredTaskEnds, Halt, FlushAt, SameFlush, Flushing
  <2> QED BY <2>1 DEF FlushStep
<1>14. ASSUME NEW t \in Tasks, AbortTakesEffect(t) PROVE FlushStep
  <2>1. ASSUME NEW u \in Tasks PROVE FlushAt(u)
    <3>1. CASE u # t
      BY <1>14, <3>1, EndFact DEF AbortTakesEffect, TaskEnds, FlushAt, SameFlush
    <3>2. CASE u = t
      BY <1>14, <3>2, EndFact DEF AbortTakesEffect, TaskEnds, FlushAt, Flushing, FreshFlush
    <3> QED BY <3>1, <3>2
  <2> QED BY <2>1 DEF FlushStep
<1>15. ASSUME NEW t \in Tasks, CreateStream(t) PROVE FlushStep
  <2>1. ASSUME NEW u \in Tasks PROVE FlushAt(u)
    <3>1. CASE u # t
      BY <1>15, <3>1, SpawnFact DEF CreateStream, StreamRequest, FlushAt, SameFlush
    <3>2. CASE u = t
      BY <1>15, <3>2, SpawnFact DEF CreateStream, StreamRequest, FlushAt, Flushing, FreshFlush
    <3> QED BY <3>1, <3>2
  <2> QED BY <2>1 DEF FlushStep
<1>16. ASSUME NEW t \in Tasks, ResumeStream(t) PROVE FlushStep
  <2>1. ASSUME NEW u \in Tasks PROVE FlushAt(u)
    <3>1. CASE u # t
      BY <1>16, <3>1, SpawnFact DEF ResumeStream, StreamRequest, FlushAt, SameFlush
    <3>2. CASE u = t
      BY <1>16, <3>2, SpawnFact DEF ResumeStream, StreamRequest, FlushAt, Flushing, FreshFlush
    <3> QED BY <3>1, <3>2
  <2> QED BY <2>1 DEF FlushStep
<1>17. ASSUME NEW t \in Tasks, Revoke(t) PROVE FlushStep
  <2>1. ASSUME NEW u \in Tasks PROVE FlushAt(u)
    <3>1. CASE u # t
      BY <1>17, <3>1, RevokeFact DEF Revoke, Polls, FlushAt, SameFlush
    <3>2. CASE u = t
      BY <1>17, <3>2, RevokeFact DEF Revoke, Polls, FlushAt, Flushing, FreshFlush
    <3> QED BY <3>1, <3>2
  <2> QED BY <2>1 DEF FlushStep
<1>18. ASSUME NEW t \in Tasks, Expel(t) PROVE FlushStep
  <2>1. ASSUME NEW u \in Tasks PROVE FlushAt(u)
    BY <1>18 DEF Expel, FlushAt, SameFlush, Flushing
  <2> QED BY <2>1 DEF FlushStep
<1>19. ASSUME NEW t \in Tasks, NEW p \in Partitions, Receive(t, p) PROVE FlushStep
  <2>1. ASSUME NEW u \in Tasks PROVE FlushAt(u)
    <3>1. CASE u # t
      BY <1>19, <3>1, ReceiveFact DEF Receive, Polls, Flushed, FlushAt, SameFlush
    <3>2. CASE u = t
      BY <1>19, <3>2, ReceiveFact, HistoryFact, FlushedBegins DEF Polls
    <3> QED BY <3>1, <3>2
  <2> QED BY <2>1 DEF FlushStep
<1>20. ASSUME NEW t \in Tasks, NEW P \in SUBSET Partitions, Assign(t, P) PROVE FlushStep
  <2>1. ASSUME NEW u \in Tasks PROVE FlushAt(u)
    <3>1. CASE u # t
      BY <1>20, <3>1, AssignFact DEF Assign, Polls, FlushAt, SameFlush
    <3>2. CASE u = t
      BY <1>20, <3>2, AssignFact DEF Assign, Polls, FlushAt, Flushing, FreshFlush
    <3> QED BY <3>1, <3>2
  <2> QED BY <2>1 DEF FlushStep
<1>21. ASSUME PauseStream PROVE FlushStep
  <2>1. ASSUME NEW u \in Tasks PROVE FlushAt(u)
    BY <1>21, PauseFact DEF PauseStream, StreamRequest, FlushAt, SameFlush, Flushing
  <2> QED BY <2>1 DEF FlushStep
<1>22. ASSUME Start PROVE FlushStep
  <2>1. ASSUME NEW u \in Tasks PROVE FlushAt(u)
    <3>1. CASE UNCHANGED task
      BY <1>22, <3>1 DEF Start, FlushAt, SameFlush
    <3>2. CASE ~UNCHANGED task
      <4>1. PICK t \in Tasks : Spawn(t, FALSE)
        BY <1>22, <3>2 DEF Start
      <4> QED BY <1>22, <4>1, SpawnFact DEF Start, FlushAt, SameFlush, Flushing
    <3> QED BY <3>1, <3>2
  <2> QED BY <2>1 DEF FlushStep
<1>23. ASSUME BeginDraining PROVE FlushStep
  <2>1. ASSUME NEW u \in Tasks PROVE FlushAt(u)
    BY <1>23 DEF BeginDraining, FlushAt, SameFlush, Flushing
  <2> QED BY <2>1 DEF FlushStep
<1>24. ASSUME Exit PROVE FlushStep
  <2>1. ASSUME NEW u \in Tasks PROVE FlushAt(u)
    BY <1>24, HaltFact DEF Exit, Halt, FlushAt, SameFlush, Flushing
  <2> QED BY <2>1 DEF FlushStep
<1>25. ASSUME Crash PROVE FlushStep
  <2>1. ASSUME NEW u \in Tasks PROVE FlushAt(u)
    BY <1>25, HaltFact DEF Crash, Halt, FlushAt, SameFlush, Flushing
  <2> QED BY <2>1 DEF FlushStep
<1>26. ASSUME UNCHANGED vars PROVE FlushStep
  <2>1. ASSUME NEW u \in Tasks PROVE FlushAt(u)
    BY <1>26 DEF vars, FlushAt, SameFlush
  <2> QED BY <2>1 DEF FlushStep
<1> QED BY StepKinds, <1>1, <1>2, <1>3, <1>4, <1>5, <1>6, <1>7, <1>8, <1>9, <1>10, <1>11, <1>12,
      <1>13, <1>14, <1>15, <1>16, <1>17, <1>18, <1>19, <1>20, <1>21, <1>22, <1>23, <1>24, <1>25,
      <1>26

\* Commits stay within the topic.
LEMMA GroupStep ==
  ASSUME IngestionIInv, [Next]_vars PROVE GroupShape'
<1> USE DEF IngestionIInv, Shapes, GroupShape, groupVars
<1>0. config' = config /\ \A q : End(q)' = End(q)
  BY HistoryFact, TopicStays
<1>1. ASSUME NEW t \in Tasks, Subscribe(t) PROVE GroupShape'
  BY <1>1, <1>0 DEF Subscribe
<1>2. ASSUME NEW t \in Tasks, LoopTop(t) PROVE GroupShape'
  BY <1>2, <1>0 DEF LoopTop
<1>3. ASSUME NEW t \in Tasks, Linger(t) PROVE GroupShape'
  BY <1>3, <1>0 DEF Linger, Polls
<1>4. ASSUME NEW t \in Tasks, ClientError(t) PROVE GroupShape'
  BY <1>4, <1>0 DEF ClientError, Fail, Polls
<1>5. ASSUME NEW t \in Tasks, WriteRecord(t) PROVE GroupShape'
  BY <1>5, <1>0 DEF WriteRecord
<1>6. ASSUME NEW t \in Tasks, WriteFails(t) PROVE GroupShape'
  BY <1>6, <1>0 DEF WriteFails, Fail
<1>7. ASSUME NEW t \in Tasks, PublishDlq(t) PROVE GroupShape'
  BY <1>7, <1>0 DEF PublishDlq
<1>8. ASSUME NEW t \in Tasks, PublishDlqFails(t) PROVE GroupShape'
  BY <1>8, <1>0 DEF PublishDlqFails, Fail
<1>9. ASSUME NEW t \in Tasks, CommitAck(t) PROVE GroupShape'
  <2>1. /\ Current(t) \in Partitions /\ Buffer(t)[Applied(t)] + 1 \in Nat
        /\ Buffer(t)[Applied(t)] + 1 <= End(Current(t))
    BY <1>9, CommitFact, MessageFact DEF CommitAck
  <2>2. committed' = committed \/ committed' = [committed EXCEPT ![Current(t)] = Buffer(t)[Applied(t)] + 1]
    BY <1>9, AcknowledgeFact DEF CommitAck
  <2>3. committed' \in [Partitions -> Nat] /\ \A q \in Partitions : committed'[q] <= End(q)
    BY <2>1, <2>2
  <2>4. members' = members /\ stale' = stale /\ server' = server
    BY <1>9 DEF CommitAck
  <2> QED BY <1>0, <2>3, <2>4
<1>10. ASSUME NEW t \in Tasks, CommitFails(t) PROVE GroupShape'
  <2>1. /\ Current(t) \in Partitions /\ Buffer(t)[Applied(t)] + 1 \in Nat
        /\ Buffer(t)[Applied(t)] + 1 <= End(Current(t))
    BY <1>10, CommitFact, MessageFact DEF CommitFails
  <2>2. committed' = committed \/ committed' = [committed EXCEPT ![Current(t)] = Buffer(t)[Applied(t)] + 1]
    BY <1>10, AcknowledgeFact DEF CommitFails
  <2>3. committed' \in [Partitions -> Nat] /\ \A q \in Partitions : committed'[q] <= End(q)
    BY <2>1, <2>2
  <2>4. members' = members /\ stale' = stale /\ server' = server
    BY <1>10 DEF CommitFails
  <2> QED BY <1>0, <2>3, <2>4
<1>11. ASSUME NEW t \in Tasks, ManagedTaskFails(t) PROVE GroupShape'
  BY <1>11, <1>0 DEF ManagedTaskFails, TaskEnds
<1>12. ASSUME NEW t \in Tasks, ManagedTaskStops(t) PROVE GroupShape'
  BY <1>12, <1>0 DEF ManagedTaskStops, TaskEnds
<1>13. ASSUME NEW t \in Tasks, ConfiguredTaskEnds(t) PROVE GroupShape'
  BY <1>13, <1>0 DEF ConfiguredTaskEnds, Halt
<1>14. ASSUME NEW t \in Tasks, AbortTakesEffect(t) PROVE GroupShape'
  BY <1>14, <1>0 DEF AbortTakesEffect, TaskEnds
<1>15. ASSUME NEW t \in Tasks, CreateStream(t) PROVE GroupShape'
  BY <1>15, <1>0 DEF CreateStream, StreamRequest
<1>16. ASSUME NEW t \in Tasks, ResumeStream(t) PROVE GroupShape'
  BY <1>16, <1>0 DEF ResumeStream, StreamRequest
<1>17. ASSUME NEW t \in Tasks, Revoke(t) PROVE GroupShape'
  BY <1>17, <1>0 DEF Revoke, Polls
<1>18. ASSUME NEW t \in Tasks, Expel(t) PROVE GroupShape'
  BY <1>18, <1>0 DEF Expel
<1>19. ASSUME NEW t \in Tasks, NEW p \in Partitions, Receive(t, p) PROVE GroupShape'
  BY <1>19, <1>0 DEF Receive, Polls
<1>20. ASSUME NEW t \in Tasks, NEW P \in SUBSET Partitions, Assign(t, P) PROVE GroupShape'
  BY <1>20, <1>0 DEF Assign, Polls
<1>21. ASSUME PauseStream PROVE GroupShape'
  BY <1>21, <1>0 DEF PauseStream, StreamRequest
<1>22. ASSUME Start PROVE GroupShape'
  BY <1>22, <1>0 DEF Start, Spawn
<1>23. ASSUME BeginDraining PROVE GroupShape'
  BY <1>23, <1>0 DEF BeginDraining
<1>24. ASSUME Exit PROVE GroupShape'
  BY <1>24, <1>0 DEF Exit, Halt
<1>25. ASSUME Crash PROVE GroupShape'
  BY <1>25, <1>0 DEF Crash, Halt
<1>26. ASSUME UNCHANGED vars PROVE GroupShape'
  BY <1>26, <1>0 DEF vars
<1> QED BY StepKinds, <1>1, <1>2, <1>3, <1>4, <1>5, <1>6, <1>7, <1>8, <1>9, <1>10, <1>11, <1>12,
      <1>13, <1>14, <1>15, <1>16, <1>17, <1>18, <1>19, <1>20, <1>21, <1>22, <1>23, <1>24, <1>25,
      <1>26

\* Handled offsets are offsets of the topic.
LEMMA LogStep ==
  ASSUME IngestionIInv, [Next]_vars PROVE LogShape'
<1> USE DEF IngestionIInv, Shapes, LogShape, groupVars
<1>0. config' = config /\ \A q : End(q)' = End(q)
  BY HistoryFact, TopicStays
<1>1. ASSUME NEW t \in Tasks, Subscribe(t) PROVE LogShape'
  BY <1>1, <1>0 DEF Subscribe
<1>2. ASSUME NEW t \in Tasks, LoopTop(t) PROVE LogShape'
  BY <1>2, <1>0 DEF LoopTop
<1>3. ASSUME NEW t \in Tasks, Linger(t) PROVE LogShape'
  BY <1>3, <1>0 DEF Linger, Polls
<1>4. ASSUME NEW t \in Tasks, ClientError(t) PROVE LogShape'
  BY <1>4, <1>0 DEF ClientError, Fail, Polls
<1>5. ASSUME NEW t \in Tasks, WriteRecord(t) PROVE LogShape'
  <2>1. CASE UNCHANGED <<stored, handled>>
    BY <1>0, <2>1
  <2>2. CASE ~UNCHANGED <<stored, handled>>
    BY <1>5, <1>0, <2>2, LogAfterApply, LogAfterDeadLetter DEF WriteRecord
  <2> QED BY <2>1, <2>2
<1>6. ASSUME NEW t \in Tasks, WriteFails(t) PROVE LogShape'
  <2>1. CASE UNCHANGED <<stored, handled>>
    BY <1>0, <2>1
  <2>2. CASE ~UNCHANGED <<stored, handled>>
    BY <1>6, <1>0, <2>2, LogAfterApply, LogAfterDeadLetter DEF WriteFails
  <2> QED BY <2>1, <2>2
<1>7. ASSUME NEW t \in Tasks, PublishDlq(t) PROVE LogShape'
  <2>1. CASE UNCHANGED <<stored, handled>>
    BY <1>0, <2>1
  <2>2. CASE ~UNCHANGED <<stored, handled>>
    BY <1>7, <1>0, <2>2, LogAfterApply, LogAfterDeadLetter DEF PublishDlq
  <2> QED BY <2>1, <2>2
<1>8. ASSUME NEW t \in Tasks, PublishDlqFails(t) PROVE LogShape'
  <2>1. CASE UNCHANGED <<stored, handled>>
    BY <1>0, <2>1
  <2>2. CASE ~UNCHANGED <<stored, handled>>
    BY <1>8, <1>0, <2>2, LogAfterApply, LogAfterDeadLetter DEF PublishDlqFails
  <2> QED BY <2>1, <2>2
<1>9. ASSUME NEW t \in Tasks, CommitAck(t) PROVE LogShape'
  BY <1>9, <1>0 DEF CommitAck
<1>10. ASSUME NEW t \in Tasks, CommitFails(t) PROVE LogShape'
  BY <1>10, <1>0 DEF CommitFails, Fail
<1>11. ASSUME NEW t \in Tasks, ManagedTaskFails(t) PROVE LogShape'
  BY <1>11, <1>0 DEF ManagedTaskFails, TaskEnds
<1>12. ASSUME NEW t \in Tasks, ManagedTaskStops(t) PROVE LogShape'
  BY <1>12, <1>0 DEF ManagedTaskStops, TaskEnds
<1>13. ASSUME NEW t \in Tasks, ConfiguredTaskEnds(t) PROVE LogShape'
  BY <1>13, <1>0 DEF ConfiguredTaskEnds, Halt
<1>14. ASSUME NEW t \in Tasks, AbortTakesEffect(t) PROVE LogShape'
  <2>1. CASE UNCHANGED <<stored, handled>>
    BY <1>0, <2>1
  <2>2. CASE ~UNCHANGED <<stored, handled>>
    BY <1>14, <1>0, <2>2, LogAfterApply, LogAfterDeadLetter DEF AbortTakesEffect
  <2> QED BY <2>1, <2>2
<1>15. ASSUME NEW t \in Tasks, CreateStream(t) PROVE LogShape'
  BY <1>15, <1>0 DEF CreateStream, StreamRequest
<1>16. ASSUME NEW t \in Tasks, ResumeStream(t) PROVE LogShape'
  BY <1>16, <1>0 DEF ResumeStream, StreamRequest
<1>17. ASSUME NEW t \in Tasks, Revoke(t) PROVE LogShape'
  BY <1>17, <1>0 DEF Revoke, Polls
<1>18. ASSUME NEW t \in Tasks, Expel(t) PROVE LogShape'
  BY <1>18, <1>0 DEF Expel
<1>19. ASSUME NEW t \in Tasks, NEW p \in Partitions, Receive(t, p) PROVE LogShape'
  BY <1>19, <1>0 DEF Receive, Polls
<1>20. ASSUME NEW t \in Tasks, NEW P \in SUBSET Partitions, Assign(t, P) PROVE LogShape'
  BY <1>20, <1>0 DEF Assign, Polls
<1>21. ASSUME PauseStream PROVE LogShape'
  BY <1>21, <1>0 DEF PauseStream, StreamRequest
<1>22. ASSUME Start PROVE LogShape'
  BY <1>22, <1>0 DEF Start, Spawn
<1>23. ASSUME BeginDraining PROVE LogShape'
  BY <1>23, <1>0 DEF BeginDraining
<1>24. ASSUME Exit PROVE LogShape'
  BY <1>24, <1>0 DEF Exit, Halt
<1>25. ASSUME Crash PROVE LogShape'
  BY <1>25, <1>0 DEF Crash, Halt
<1>26. ASSUME UNCHANGED vars PROVE LogShape'
  BY <1>26, <1>0 DEF vars
<1> QED BY StepKinds, <1>1, <1>2, <1>3, <1>4, <1>5, <1>6, <1>7, <1>8, <1>9, <1>10, <1>11, <1>12,
      <1>13, <1>14, <1>15, <1>16, <1>17, <1>18, <1>19, <1>20, <1>21, <1>22, <1>23, <1>24, <1>25,
      <1>26

\* The stream and the counters keep their shape.
LEMMA RequestsStep ==
  ASSUME IngestionIInv, [Next]_vars PROVE RequestsShape'
<1> USE IngestionAssumption DEF IngestionIInv, Shapes, RequestsShape, groupVars
<1>1. ASSUME NEW t \in Tasks, Subscribe(t) PROVE RequestsShape'
  BY <1>1 DEF Subscribe
<1>2. ASSUME NEW t \in Tasks, LoopTop(t) PROVE RequestsShape'
  BY <1>2 DEF LoopTop
<1>3. ASSUME NEW t \in Tasks, Linger(t) PROVE RequestsShape'
  BY <1>3 DEF Linger, Polls
<1>4. ASSUME NEW t \in Tasks, ClientError(t) PROVE RequestsShape'
  BY <1>4 DEF ClientError, Fail, Polls
<1>5. ASSUME NEW t \in Tasks, WriteRecord(t) PROVE RequestsShape'
  BY <1>5 DEF WriteRecord
<1>6. ASSUME NEW t \in Tasks, WriteFails(t) PROVE RequestsShape'
  BY <1>6 DEF WriteFails, Fail
<1>7. ASSUME NEW t \in Tasks, PublishDlq(t) PROVE RequestsShape'
  BY <1>7 DEF PublishDlq
<1>8. ASSUME NEW t \in Tasks, PublishDlqFails(t) PROVE RequestsShape'
  BY <1>8 DEF PublishDlqFails, Fail
<1>9. ASSUME NEW t \in Tasks, CommitAck(t) PROVE RequestsShape'
  BY <1>9 DEF CommitAck
<1>10. ASSUME NEW t \in Tasks, CommitFails(t) PROVE RequestsShape'
  BY <1>10 DEF CommitFails, Fail
<1>11. ASSUME NEW t \in Tasks, ManagedTaskFails(t) PROVE RequestsShape'
  BY <1>11 DEF ManagedTaskFails, TaskEnds
<1>12. ASSUME NEW t \in Tasks, ManagedTaskStops(t) PROVE RequestsShape'
  BY <1>12 DEF ManagedTaskStops, TaskEnds
<1>13. ASSUME NEW t \in Tasks, ConfiguredTaskEnds(t) PROVE RequestsShape'
  BY <1>13 DEF ConfiguredTaskEnds, Halt
<1>14. ASSUME NEW t \in Tasks, AbortTakesEffect(t) PROVE RequestsShape'
  BY <1>14 DEF AbortTakesEffect, TaskEnds
<1>15. ASSUME NEW t \in Tasks, CreateStream(t) PROVE RequestsShape'
  BY <1>15 DEF CreateStream, StreamRequest
<1>16. ASSUME NEW t \in Tasks, ResumeStream(t) PROVE RequestsShape'
  BY <1>16 DEF ResumeStream, StreamRequest
<1>17. ASSUME NEW t \in Tasks, Revoke(t) PROVE RequestsShape'
  BY <1>17 DEF Revoke, Polls
<1>18. ASSUME NEW t \in Tasks, Expel(t) PROVE RequestsShape'
  BY <1>18 DEF Expel
<1>19. ASSUME NEW t \in Tasks, NEW p \in Partitions, Receive(t, p) PROVE RequestsShape'
  BY <1>19 DEF Receive, Polls
<1>20. ASSUME NEW t \in Tasks, NEW P \in SUBSET Partitions, Assign(t, P) PROVE RequestsShape'
  BY <1>20 DEF Assign, Polls
<1>21. ASSUME PauseStream PROVE RequestsShape'
  BY <1>21 DEF PauseStream, StreamRequest
<1>22. ASSUME Start PROVE RequestsShape'
  BY <1>22 DEF Start, Spawn
<1>23. ASSUME BeginDraining PROVE RequestsShape'
  BY <1>23 DEF BeginDraining
<1>24. ASSUME Exit PROVE RequestsShape'
  BY <1>24 DEF Exit, Halt
<1>25. ASSUME Crash PROVE RequestsShape'
  BY <1>25 DEF Crash, Halt
<1>26. ASSUME UNCHANGED vars PROVE RequestsShape'
  BY <1>26 DEF vars
<1> QED BY StepKinds, <1>1, <1>2, <1>3, <1>4, <1>5, <1>6, <1>7, <1>8, <1>9, <1>10, <1>11, <1>12,
      <1>13, <1>14, <1>15, <1>16, <1>17, <1>18, <1>19, <1>20, <1>21, <1>22, <1>23, <1>24, <1>25,
      <1>26

\* The positions and buffers after a receive, a commit and an assignment.
LEMMA ReceiveEffect ==
  ASSUME Shapes, NEW t \in Tasks, NEW p \in Partitions, Receive(t, p)
  PROVE  /\ \A u \in Tasks, q \in Partitions :
              /\ task'[u].assigned = task[u].assigned
              /\ u # t \/ q # p => /\ task'[u].buffers[q] = task[u].buffers[q]
                                   /\ task'[u].position[q] = task[u].position[q]
         /\ t \in members /\ p \in task[t].assigned /\ task[t].position[p] < End(p)
         /\ task[t].position[p] \in Nat /\ Len(task[t].buffers[p]) \in Nat
         /\ task'[t].position[p] = task[t].position[p] + 1
         /\ task'[t].buffers[p] # <<>> /\ Len(task'[t].buffers[p]) = Len(task[t].buffers[p]) + 1
         /\ \A i \in 1 .. Len(task[t].buffers[p]) : task'[t].buffers[p][i] = task[t].buffers[p][i]
         /\ task'[t].buffers[p][Len(task[t].buffers[p]) + 1] = task[t].position[p]
         /\ task[t].pc = "recv"
<1>1. Flushed(t, Received(task[t], p), "batch")
  BY ReceiveFact DEF Shapes
<1>2. task[t] \in TaskRecord /\ task[t].buffers[p] \in Seq(Nat) /\ task[t].position[p] \in Nat
  BY DEF Shapes, TasksShape, TaskRecord
<1>x. PICK x : x = Received(task[t], p)
  OBVIOUS
<1>3. /\ x.buffers[p] = Append(task[t].buffers[p], task[t].position[p])
      /\ \A q \in Partitions \ {p} : x.buffers[q] = task[t].buffers[q] /\ x.position[q] = task[t].position[q]
      /\ x.position[p] = task[t].position[p] + 1
      /\ x.assigned = task[t].assigned
  BY <1>2, <1>x, ReceivedFact
<1>4. /\ task'[t].buffers = x.buffers /\ task'[t].position = x.position /\ task'[t].assigned = x.assigned
      /\ \A u \in Tasks \ {t} : task'[u] = task[u]
  BY <1>1, <1>x DEF Flushed
<1>b. PICK B : B = task[t].buffers[p]
  OBVIOUS
<1>c. PICK o : o = task[t].position[p]
  OBVIOUS
<1>d. PICK C : C = Append(B, o)
  OBVIOUS
<1>5. /\ C # <<>> /\ Len(B) \in Nat /\ Len(C) = Len(B) + 1
      /\ \A i \in 1 .. Len(B) : C[i] = B[i]
      /\ C[Len(B) + 1] = o
  BY <1>2, <1>b, <1>c, <1>d, AppendProperties, LenProperties
<1>6. t \in members /\ p \in task[t].assigned /\ task[t].position[p] < End(p) /\ task[t].pc = "recv"
  BY DEF Receive, Polls
<1>7. task'[t].buffers[p] = C /\ task'[t].position[p] = o + 1
  BY <1>3, <1>4, <1>b, <1>c, <1>d
<1>8. ASSUME NEW u \in Tasks, NEW q \in Partitions
      PROVE  /\ task'[u].assigned = task[u].assigned
             /\ u # t \/ q # p => /\ task'[u].buffers[q] = task[u].buffers[q]
                                  /\ task'[u].position[q] = task[u].position[q]
  BY <1>3, <1>4
<1> QED BY <1>2, <1>5, <1>6, <1>7, <1>8, <1>b, <1>c

\* After a commit, the batch has left the buffer.
LEMMA CommitEffect ==
  ASSUME Shapes, NEW t \in Tasks, CommitAck(t)
  PROVE  /\ \A u \in Tasks, q \in Partitions :
              /\ task'[u].assigned = task[u].assigned /\ task'[u].position[q] = task[u].position[q]
              /\ u # t \/ q # Current(t) => task'[u].buffers[q] = task[u].buffers[q]
         /\ Current(t) \in Partitions /\ t \in members /\ task[t].pc = "commit"
         /\ Len(task[t].buffers[Current(t)]) \in Nat /\ Applied(t) \in 1 .. Len(task[t].buffers[Current(t)])
         /\ task[t].buffers[Current(t)] = Buffer(t) /\ task[t].buffers[Current(t)] # <<>>
         /\ task[t].buffers[Current(t)] \in Seq(Nat) /\ task'[t].buffers[Current(t)] \in Seq(Nat)
         /\ Len(task'[t].buffers[Current(t)]) = Len(task[t].buffers[Current(t)]) - Applied(t)
         /\ \A i \in 1 .. Len(task'[t].buffers[Current(t)]) :
              task'[t].buffers[Current(t)][i] = task[t].buffers[Current(t)][Applied(t) + i]
         /\ committed' = [committed EXCEPT ![Current(t)] = task[t].buffers[Current(t)][Applied(t)] + 1]
<1>p. PICK p : p = Current(t)
  OBVIOUS
<1>n. PICK n : n = Applied(t)
  OBVIOUS
<1>1. task[t].pc = "commit" /\ t \in members /\ Acknowledge(t)
  BY DEF CommitAck
<1>2. /\ p \in Partitions /\ Buffer(t) \in Seq(Nat) /\ Len(Buffer(t)) \in Nat /\ Buffer(t) # <<>>
      /\ n \in 1 .. Len(Buffer(t)) /\ n = BatchLength(p, Buffer(t))
  BY <1>1, <1>p, <1>n, CommitFact
<1>3. Buffer(t) = task[t].buffers[p] /\ task[t] \in TaskRecord
  BY <1>p DEF Buffer, Shapes, TasksShape
<1>4. Flushed(t, Drained(task[t], p), task[t].mode)
  BY <1>p, CommitAckFact DEF Shapes
<1>x. PICK x : x = Drained(task[t], p)
  OBVIOUS
<1>y. task[t].buffers[p] # <<>> /\ n = BatchLength(p, task[t].buffers[p]) /\ p \in Partitions
  BY <1>2, <1>3
<1>5. /\ x \in TaskRecord
      /\ Len(x.buffers[p]) = Len(task[t].buffers[p]) - n
      /\ \A i \in 1 .. Len(x.buffers[p]) : x.buffers[p][i] = task[t].buffers[p][n + i]
      /\ \A q \in Partitions \ {p} : x.buffers[q] = task[t].buffers[q]
      /\ x.position = task[t].position /\ x.assigned = task[t].assigned
  BY <1>3, <1>x, <1>y, DrainedFact
<1>6. /\ task'[t].buffers = x.buffers /\ task'[t].position = x.position /\ task'[t].assigned = x.assigned
      /\ \A u \in Tasks \ {t} : task'[u] = task[u]
  BY <1>4, <1>x DEF Flushed
<1>7. x.buffers[p] \in Seq(Nat)
  BY <1>2, <1>5 DEF TaskRecord
<1>8. committed' = [committed EXCEPT ![p] = Buffer(t)[n] + 1]
  BY <1>1, <1>p, <1>n, AcknowledgeFact
<1>9. ASSUME NEW u \in Tasks, NEW q \in Partitions
      PROVE  /\ task'[u].assigned = task[u].assigned /\ task'[u].position[q] = task[u].position[q]
             /\ u # t \/ q # p => task'[u].buffers[q] = task[u].buffers[q]
  BY <1>5, <1>6
<1>10. task'[t].buffers[p] = x.buffers[p]
  BY <1>6
<1> QED BY <1>1, <1>2, <1>3, <1>5, <1>7, <1>8, <1>9, <1>10, <1>p, <1>n

\* After an assignment, the buffers are the same.
LEMMA AssignEffect ==
  ASSUME Shapes, NEW t \in Tasks, NEW P \in SUBSET Partitions, Assign(t, P)
  PROVE  /\ \A u \in Tasks, q \in Partitions : task'[u].buffers[q] = task[u].buffers[q]
         /\ \A u \in Tasks \ {t} : task'[u] = task[u]
         /\ task'[t].assigned = P /\ t \in members /\ members' = members
         /\ \A q \in P : task'[t].position[q] = committed[q]
         /\ \A q \in Partitions \ P : task'[t].position[q] = 0
         /\ task[t].pc = "recv"
  BY AssignFact DEF Shapes, Assign, Polls, groupVars

\* Buffers and positions stay within the topic.
LEMMA OffsetsStep ==
  ASSUME IngestionIInv, [Next]_vars PROVE OffsetsInTopic'
<1> USE DEF IngestionIInv
<1>0. config' = config /\ stale \subseteq stale' /\ (\A q : End(q)' = End(q))
      /\ \A q \in Partitions : handled[q] \subseteq handled'[q]
  BY HistoryFact, TopicStays
<1>1. ASSUME Tame PROVE OffsetsInTopic'
  <2>1. \A q \in Partitions : End(q) \in Nat
    BY MessageFact DEF Shapes
  <2> QED BY <1>0, <1>1, <2>1 DEF Shapes, OffsetsInTopic, Tame, TameAt
<1>2. ASSUME NEW t \in Tasks, NEW p \in Partitions, Receive(t, p) PROVE OffsetsInTopic'
  <2>1. \A q \in Partitions : End(q) \in Nat
    BY MessageFact DEF Shapes
  <2> SUFFICES ASSUME NEW u \in Tasks, NEW q \in Partitions
               PROVE  /\ task'[u].position[q] <= End(q)
                      /\ \A i \in 1 .. Len(task'[u].buffers[q]) : task'[u].buffers[q][i] < End(q)
    BY <1>0 DEF OffsetsInTopic
  <2>2. CASE u # t \/ q # p
    BY <1>2, <2>2, ReceiveEffect DEF Shapes, OffsetsInTopic
  <2>3. CASE u = t /\ q = p
    <3>1. ASSUME NEW i \in 1 .. Len(task'[t].buffers[p]) PROVE task'[t].buffers[p][i] < End(p)
      <4>1. i \in 1 .. Len(task[t].buffers[p]) \/ i = Len(task[t].buffers[p]) + 1
        BY <1>2, ReceiveEffect DEF Shapes
      <4>2. CASE i \in 1 .. Len(task[t].buffers[p])
        BY <1>2, <4>2, ReceiveEffect DEF Shapes, OffsetsInTopic
      <4>3. CASE i = Len(task[t].buffers[p]) + 1
        BY <1>2, <4>3, ReceiveEffect
      <4> QED BY <4>1, <4>2, <4>3
    <3>2. task'[t].position[p] <= End(p)
      BY <1>2, <2>1, ReceiveEffect
    <3> QED BY <2>3, <3>1, <3>2
  <2> QED BY <2>2, <2>3
<1>3. ASSUME NEW t \in Tasks, CommitAck(t) PROVE OffsetsInTopic'
  <2> SUFFICES ASSUME NEW u \in Tasks, NEW q \in Partitions
               PROVE  /\ task'[u].position[q] <= End(q)
                      /\ \A i \in 1 .. Len(task'[u].buffers[q]) : task'[u].buffers[q][i] < End(q)
    BY <1>0 DEF OffsetsInTopic
  <2>p. PICK p : p = Current(t)
    OBVIOUS
  <2>n. PICK n : n = Applied(t)
    OBVIOUS
  <2>1. /\ task'[u].position[q] = task[u].position[q]
        /\ u # t \/ q # p => task'[u].buffers[q] = task[u].buffers[q]
        /\ Len(task[t].buffers[p]) \in Nat /\ n \in 1 .. Len(task[t].buffers[p])
        /\ Len(task'[t].buffers[p]) = Len(task[t].buffers[p]) - n
        /\ \A i \in 1 .. Len(task'[t].buffers[p]) : task'[t].buffers[p][i] = task[t].buffers[p][n + i]
    BY <1>3, <2>p, <2>n, CommitEffect
  <2>2. CASE u # t \/ q # p
    BY <2>1, <2>2 DEF Shapes, OffsetsInTopic
  <2>3. CASE u = t /\ q = p
    <3>1. ASSUME NEW i \in 1 .. Len(task'[t].buffers[p]) PROVE n + i \in 1 .. Len(task[t].buffers[p])
      BY <2>1
    <3> QED BY <2>1, <2>3, <3>1 DEF Shapes, OffsetsInTopic
  <2> QED BY <2>2, <2>3
<1>4. ASSUME NEW t \in Tasks, NEW P \in SUBSET Partitions, Assign(t, P) PROVE OffsetsInTopic'
  <2>1. \A q \in Partitions : End(q) \in Nat
    BY MessageFact DEF Shapes
  <2> QED BY <1>0, <1>4, <2>1, AssignEffect DEF Shapes, OffsetsInTopic, GroupShape
<1> QED BY <1>1, <1>2, <1>3, <1>4, TameFact DEF TameStep

\* A flush that goes on or begins, and the messages that are done with.
LEMMA SameEffect ==
  ASSUME config' = config, NEW u, SameFlush(u)
  PROVE  /\ Current(u)' = Current(u) /\ Buffer(u)' = Buffer(u) /\ Clean(u)' = Clean(u)
         /\ Applied(u)' = Applied(u)
<1>1. Current(u)' = Current(u)
  BY DEF SameFlush, Current
<1>2. Buffer(u)' = Buffer(u)
  BY <1>1 DEF SameFlush, Buffer
<1>3. Clean(u)' = Clean(u)
  BY <1>1, <1>2, TopicStays DEF Clean
<1>4. BatchLength(Current(u), Buffer(u))' = BatchLength(Current(u), Buffer(u))
  BY <1>1, <1>2, TopicStays
<1> QED BY <1>1, <1>2, <1>3, <1>4 DEF Applied, SameFlush

\* Nothing of a batch that begins is done with.
LEMMA FreshEffect ==
  ASSUME TasksShape', NEW u \in Tasks, FreshFlush(u) PROVE Applied(u)' = 0
<1>1. CASE task'[u].pc = "write"
  <2>1. task'[u].batch \in Seq(Nat) /\ task'[u].batch = Clean(u)'
    BY <1>1 DEF TasksShape, TaskRecord, FreshFlush
  <2>2. Len(task'[u].batch) \in Nat
    BY <2>1
  <2> QED BY <1>1, <2>1, <2>2 DEF Applied
<1>2. CASE task'[u].pc = "deadletter"
  BY <1>2 DEF Applied
<1> QED BY <1>1, <1>2 DEF FreshFlush

\* A write moves the batch on by one message.
LEMMA WriteEffect ==
  ASSUME Shapes, config' = config, NEW t \in Tasks, WriteRecord(t)
  PROVE  /\ \A u \in Tasks \ {t} : SameFlush(u)
         /\ Current(t)' = Current(t) /\ Buffer(t)' = Buffer(t) /\ Clean(t)' = Clean(t)
         /\ Applied(t)' = Applied(t) + 1 /\ task[t].pc = "write" /\ Apply(t)
         /\ task'[t].pc = "commit" \/ (task'[t].pc = "write" /\ Len(task[t].batch) # 1)
<1>1. task[t].pc = "write" /\ Apply(t)
  BY DEF WriteRecord
<1>2. /\ \A u \in Tasks \ {t} : task'[u] = task[u]
      /\ task'[t].pc = IF Len(task[t].batch) = 1 THEN "commit" ELSE "write"
      /\ task'[t].batch = Tail(task[t].batch)
      /\ task'[t].buffers = task[t].buffers /\ task'[t].work = task[t].work
  BY WriteFact DEF Shapes
<1>3. Current(t)' = Current(t) /\ Buffer(t)' = Buffer(t)
  BY <1>2 DEF Current, Buffer
<1>4. /\ Clean(t)' = Clean(t)
      /\ BatchLength(Current(t), Buffer(t))' = BatchLength(Current(t), Buffer(t))
  BY <1>3, TopicStays DEF Clean
<1>5. /\ Len(task[t].batch) \in Nat \ {0} /\ Len(Clean(t)) \in Nat \ {0}
      /\ Applied(t) = Len(Clean(t)) - Len(task[t].batch)
      /\ Buffer(t) \in Seq(Nat) /\ Len(Buffer(t)) \in Nat
  BY <1>1, NextFact
<1>6. task[t].batch \in Seq(Nat) /\ task[t].batch # <<>> /\ Buffer(t) # <<>>
  BY <1>1 DEF Shapes, FlushShape, Flushing, TasksShape, TaskRecord
<1>7. Len(Tail(task[t].batch)) = Len(task[t].batch) - 1
  BY <1>6, HeadTailProperties
<1>8. BatchLength(Current(t), Buffer(t)) = Len(Clean(t))
  <2>1. Clean(t) # <<>>
    BY <1>5
  <2> QED BY <1>5, <1>6, <2>1, BatchFact DEF Clean
<1>9. Applied(t)' = Applied(t) + 1
  <2>1. CASE Len(task[t].batch) = 1
    <3>1. Applied(t)' = BatchLength(Current(t), Buffer(t))'
      BY <1>2, <2>1 DEF Applied
    <3> QED BY <1>4, <1>5, <1>8, <2>1, <3>1
  <2>2. CASE Len(task[t].batch) # 1
    <3>1. Applied(t)' = Len(Clean(t)') - Len(task'[t].batch)
      BY <1>2, <2>2 DEF Applied
    <3>2. Len(Clean(t)') = Len(Clean(t)) /\ Len(task'[t].batch) = Len(task[t].batch) - 1
      BY <1>2, <1>4, <1>7
    <3> QED BY <1>5, <3>1, <3>2
  <2> QED BY <2>1, <2>2
<1>10. \A u \in Tasks \ {t} : SameFlush(u)
  BY <1>2 DEF SameFlush
<1>11. task'[t].pc = "commit" \/ (task'[t].pc = "write" /\ Len(task[t].batch) # 1)
  BY <1>2
<1> QED BY <1>1, <1>3, <1>4, <1>9, <1>10, <1>11

\* So does a dead letter.
LEMMA PublishEffect ==
  ASSUME Shapes, config' = config, NEW t \in Tasks, PublishDlq(t)
  PROVE  /\ \A u \in Tasks \ {t} : SameFlush(u)
         /\ Current(t)' = Current(t) /\ Buffer(t)' = Buffer(t)
         /\ Applied(t)' = 1 /\ task[t].pc = "deadletter" /\ task'[t].pc = "commit"
         /\ handled' = [handled EXCEPT ![Current(t)] = @ \cup {Buffer(t)[1]}] /\ stored' = stored
         /\ task'[t].work = task[t].work
<1>1. task[t].pc = "deadletter" /\ DeadLetter(t) /\ stored' = stored
  BY DEF PublishDlq
<1>2. /\ \A u \in Tasks \ {t} : task'[u] = task[u]
      /\ task'[t].pc = "commit" /\ task'[t].buffers = task[t].buffers /\ task'[t].work = task[t].work
  BY PcFact, PCValues DEF Shapes, PublishDlq
<1>3. Current(t)' = Current(t) /\ Buffer(t)' = Buffer(t)
  BY <1>2 DEF Current, Buffer
<1>4. BatchLength(Current(t), Buffer(t))' = 1
  BY <1>1, <1>3, TopicStays, DeadLetterFact
<1>5. Applied(t)' = 1
  BY <1>2, <1>4 DEF Applied
<1>6. \A u \in Tasks \ {t} : SameFlush(u)
  BY <1>2 DEF SameFlush
<1>7. handled' = [handled EXCEPT ![Current(t)] = @ \cup {Buffer(t)[1]}]
  BY <1>1 DEF DeadLetter, Current, Buffer
<1> QED BY <1>1, <1>2, <1>3, <1>5, <1>6, <1>7

\* A flush that was well formed stays so.
FlushOK(u) ==
  task[u].pc \in Flushing =>
    /\ task[u].work # <<>> /\ Buffer(u) # <<>>
    /\ task[u].pc = "write" =>
         /\ task[u].batch # <<>> /\ Len(task[u].batch) <= Len(Clean(u))
         /\ \A i \in 1 .. Len(task[u].batch) : task[u].batch[i] = Clean(u)[Applied(u) + i]
    /\ task[u].pc = "deadletter" => Clean(u) = <<>>

\* Flushes stay well formed.
LEMMA FlushShapeStep ==
  ASSUME IngestionIInv, [Next]_vars PROVE FlushShape'
<1> USE DEF IngestionIInv
<1>0. config' = config /\ stale \subseteq stale'
        /\ \A q \in Partitions : handled[q] \subseteq handled'[q]
  BY HistoryFact
<1>t. TasksShape'
  BY TasksStep
<1> SUFFICES ASSUME NEW u \in Tasks PROVE FlushOK(u)'
  BY DEF FlushShape, FlushOK
<1>1. FlushOK(u)
  BY DEF FlushOK, Shapes, FlushShape
<1>2. ASSUME SameFlush(u) PROVE FlushOK(u)'
  BY <1>0, <1>1, <1>2, SameEffect DEF FlushOK, SameFlush
<1>3. ASSUME FreshFlush(u) PROVE FlushOK(u)'
  <2>1. Applied(u)' = 0
    BY <1>t, <1>3, FreshEffect
  <2>2. CASE task'[u].pc = "write"
    <3>1. task'[u].batch = Clean(u)' /\ task'[u].batch # <<>> /\ task'[u].batch \in Seq(Nat)
      BY <1>t, <1>3, <2>2 DEF FreshFlush, TasksShape, TaskRecord
    <3>2. Len(task'[u].batch) \in Nat
      BY <3>1
    <3> QED BY <1>3, <2>1, <2>2, <3>1, <3>2 DEF FlushOK, FreshFlush
  <2>3. CASE task'[u].pc # "write"
    BY <1>3, <2>3 DEF FlushOK, FreshFlush
  <2> QED BY <2>2, <2>3
<1>4. ASSUME task'[u].pc \notin Flushing PROVE FlushOK(u)'
  BY <1>4 DEF FlushOK
<1>5. ASSUME NEW t \in Tasks, WriteRecord(t) PROVE FlushOK(u)'
  <2>1. CASE u # t
    BY <1>0, <1>2, <1>5, <2>1, WriteEffect
  <2>2. CASE u = t
    <3>1. /\ Current(t)' = Current(t) /\ Buffer(t)' = Buffer(t) /\ Clean(t)' = Clean(t)
          /\ Applied(t)' = Applied(t) + 1 /\ task[t].pc = "write"
          /\ task'[t].pc = "commit" \/ (task'[t].pc = "write" /\ Len(task[t].batch) # 1)
      BY <1>0, <1>5, WriteEffect
    <3>2. /\ task'[t].batch = Tail(task[t].batch) /\ task'[t].work = task[t].work
      BY <1>5, WriteFact DEF Shapes
    <3>3. /\ task[t].batch \in Seq(Nat) /\ task[t].batch # <<>> /\ task[t].work # <<>> /\ Buffer(t) # <<>>
          /\ Len(task[t].batch) <= Len(Clean(t))
          /\ \A i \in 1 .. Len(task[t].batch) : task[t].batch[i] = Clean(t)[Applied(t) + i]
      BY <1>1, <2>2, <3>1 DEF FlushOK, Flushing, Shapes, TasksShape, TaskRecord
    <3>4. /\ Tail(task[t].batch) \in Seq(Nat) /\ Len(Tail(task[t].batch)) = Len(task[t].batch) - 1
          /\ \A i \in 1 .. Len(Tail(task[t].batch)) : Tail(task[t].batch)[i] = task[t].batch[i + 1]
      BY <3>3, HeadTailProperties
    <3>5. /\ Len(task[t].batch) \in Nat \ {0} /\ Len(Clean(t)) \in Nat /\ Applied(t) \in Nat
      BY <3>1, NextFact
    <3>6. ASSUME task'[t].pc = "write"
          PROVE  /\ task'[t].batch # <<>> /\ Len(task'[t].batch) <= Len(Clean(t)')
                 /\ \A i \in 1 .. Len(task'[t].batch) : task'[t].batch[i] = (Clean(t)')[Applied(t)' + i]
      <4>1. Len(task[t].batch) # 1
        BY <3>1, <3>6
      <4>2. task'[t].batch # <<>> /\ Len(task'[t].batch) <= Len(Clean(t)')
        <5>1. Len(task'[t].batch) = Len(task[t].batch) - 1 /\ Len(Clean(t)') = Len(Clean(t))
          BY <3>1, <3>2, <3>4
        <5>2. Len(task'[t].batch) # 0
          BY <3>5, <4>1, <5>1
        <5>3. task'[t].batch # <<>>
          BY <5>2
        <5>4. Len(task'[t].batch) <= Len(Clean(t)')
          BY <3>3, <3>5, <5>1
        <5> QED BY <5>3, <5>4
      <4>3. ASSUME NEW i \in 1 .. Len(task'[t].batch) PROVE task'[t].batch[i] = (Clean(t)')[Applied(t)' + i]
        <5>1. i + 1 \in 1 .. Len(task[t].batch) /\ Applied(t) + (i + 1) = (Applied(t) + 1) + i
          BY <3>2, <3>4, <3>5
        <5> QED BY <3>1, <3>2, <3>3, <3>4, <5>1
      <4> QED BY <4>2, <4>3
    <3> QED BY <2>2, <3>1, <3>2, <3>3, <3>6 DEF FlushOK
  <2> QED BY <2>1, <2>2
<1>6. ASSUME NEW t \in Tasks, PublishDlq(t) PROVE FlushOK(u)'
  <2>1. CASE u # t
    BY <1>0, <1>2, <1>6, <2>1, PublishEffect
  <2>2. CASE u = t
    BY <1>0, <1>1, <1>6, <2>2, PublishEffect DEF FlushOK, Flushing
  <2> QED BY <2>1, <2>2
<1> QED BY <1>2, <1>3, <1>4, <1>5, <1>6, FlushFacts DEF FlushStep, FlushAt

\* A task that does not consume holds nothing.
FreshOK(u) ==
  task[u].pc \in {"idle", "new"} =>
    /\ u \notin members /\ task[u].assigned = {}
    /\ \A q \in Partitions : task[u].buffers[q] = <<>>

\* A task that does not change still holds nothing.
LEMMA FreshKept ==
  ASSUME NEW u, FreshOK(u), task'[u] = task[u], u \in members' => u \in members PROVE FreshOK(u)'
  BY DEF FreshOK

\* A task that does not consume has nothing to flush.
LEMMA FreshStep ==
  ASSUME IngestionIInv, [Next]_vars PROVE FreshTasks'
<1> USE DEF IngestionIInv, Shapes, groupVars
<1>x. \A u \in Tasks : FreshOK(u)
  BY DEF FreshTasks, FreshOK
<1>1. ASSUME NEW t \in Tasks, Subscribe(t) PROVE FreshTasks'
  <2>1. ASSUME NEW u \in Tasks PROVE FreshOK(u)'
    <3>1. CASE u # t
      <4>1. task'[u] = task[u]
        BY <1>1, <3>1, PcFact, PCValues DEF Subscribe
      <4>2. u \in members' => u \in members
        BY <1>1, <3>1 DEF Subscribe
      <4> QED BY <1>x, <4>1, <4>2, FreshKept
    <3>2. CASE u = t
      BY <1>1, <1>x, <3>2, PcFact, PCValues DEF Subscribe, FreshOK
    <3> QED BY <3>1, <3>2
  <2> QED BY <2>1 DEF FreshTasks, FreshOK
<1>2. ASSUME NEW t \in Tasks, LoopTop(t) PROVE FreshTasks'
  <2>1. ASSUME NEW u \in Tasks PROVE FreshOK(u)'
    <3>1. CASE u # t
      <4>1. task'[u] = task[u]
        BY <1>2, <3>1, LoopFact DEF LoopTop, Flushed
      <4>2. u \in members' => u \in members
        BY <1>2, <3>1 DEF LoopTop
      <4> QED BY <1>x, <4>1, <4>2, FreshKept
    <3>2. CASE u = t
      BY <1>2, <1>x, <3>2, LoopFact DEF LoopTop, Flushed, FreshOK
    <3> QED BY <3>1, <3>2
  <2> QED BY <2>1 DEF FreshTasks, FreshOK
<1>3. ASSUME NEW t \in Tasks, Linger(t) PROVE FreshTasks'
  <2>1. ASSUME NEW u \in Tasks PROVE FreshOK(u)'
    <3>1. CASE u # t
      <4>1. task'[u] = task[u]
        BY <1>3, <3>1, LingerFact DEF Linger, Polls, Flushed
      <4>2. u \in members' => u \in members
        BY <1>3, <3>1 DEF Linger, Polls
      <4> QED BY <1>x, <4>1, <4>2, FreshKept
    <3>2. CASE u = t
      BY <1>3, <1>x, <3>2, LingerFact DEF Linger, Polls, Flushed, FreshOK
    <3> QED BY <3>1, <3>2
  <2> QED BY <2>1 DEF FreshTasks, FreshOK
<1>4. ASSUME NEW t \in Tasks, ClientError(t) PROVE FreshTasks'
  <2>1. ASSUME NEW u \in Tasks PROVE FreshOK(u)'
    <3>1. CASE u # t
      <4>1. task'[u] = task[u]
        BY <1>4, <3>1, PcFact, PCValues DEF ClientError, Fail, Polls, Fail
      <4>2. u \in members' => u \in members
        BY <1>4, <3>1 DEF ClientError, Fail, Polls
      <4> QED BY <1>x, <4>1, <4>2, FreshKept
    <3>2. CASE u = t
      BY <1>4, <1>x, <3>2, PcFact, PCValues DEF ClientError, Fail, Polls, Fail, FreshOK
    <3> QED BY <3>1, <3>2
  <2> QED BY <2>1 DEF FreshTasks, FreshOK
<1>5. ASSUME NEW t \in Tasks, WriteRecord(t) PROVE FreshTasks'
  <2>1. ASSUME NEW u \in Tasks PROVE FreshOK(u)'
    <3>1. CASE u # t
      <4>1. task'[u] = task[u]
        BY <1>5, <3>1, WriteFact DEF WriteRecord
      <4>2. u \in members' => u \in members
        BY <1>5, <3>1 DEF WriteRecord
      <4> QED BY <1>x, <4>1, <4>2, FreshKept
    <3>2. CASE u = t
      BY <1>5, <3>2, WriteFact DEF FreshOK
    <3> QED BY <3>1, <3>2
  <2> QED BY <2>1 DEF FreshTasks, FreshOK
<1>6. ASSUME NEW t \in Tasks, WriteFails(t) PROVE FreshTasks'
  <2>1. ASSUME NEW u \in Tasks PROVE FreshOK(u)'
    <3>1. CASE u # t
      <4>1. task'[u] = task[u]
        BY <1>6, <3>1, PcFact, PCValues DEF WriteFails, Fail
      <4>2. u \in members' => u \in members
        BY <1>6, <3>1 DEF WriteFails, Fail
      <4> QED BY <1>x, <4>1, <4>2, FreshKept
    <3>2. CASE u = t
      BY <1>6, <1>x, <3>2, PcFact, PCValues DEF WriteFails, Fail, FreshOK
    <3> QED BY <3>1, <3>2
  <2> QED BY <2>1 DEF FreshTasks, FreshOK
<1>7. ASSUME NEW t \in Tasks, PublishDlq(t) PROVE FreshTasks'
  <2>1. ASSUME NEW u \in Tasks PROVE FreshOK(u)'
    <3>1. CASE u # t
      <4>1. task'[u] = task[u]
        BY <1>7, <3>1, PcFact, PCValues DEF PublishDlq
      <4>2. u \in members' => u \in members
        BY <1>7, <3>1 DEF PublishDlq
      <4> QED BY <1>x, <4>1, <4>2, FreshKept
    <3>2. CASE u = t
      BY <1>7, <1>x, <3>2, PcFact, PCValues DEF PublishDlq, FreshOK
    <3> QED BY <3>1, <3>2
  <2> QED BY <2>1 DEF FreshTasks, FreshOK
<1>8. ASSUME NEW t \in Tasks, PublishDlqFails(t) PROVE FreshTasks'
  <2>1. ASSUME NEW u \in Tasks PROVE FreshOK(u)'
    <3>1. CASE u # t
      <4>1. task'[u] = task[u]
        BY <1>8, <3>1, PcFact, PCValues DEF PublishDlqFails, Fail
      <4>2. u \in members' => u \in members
        BY <1>8, <3>1 DEF PublishDlqFails, Fail
      <4> QED BY <1>x, <4>1, <4>2, FreshKept
    <3>2. CASE u = t
      BY <1>8, <1>x, <3>2, PcFact, PCValues DEF PublishDlqFails, Fail, FreshOK
    <3> QED BY <3>1, <3>2
  <2> QED BY <2>1 DEF FreshTasks, FreshOK
<1>9. ASSUME NEW t \in Tasks, CommitAck(t) PROVE FreshTasks'
  <2>1. ASSUME NEW u \in Tasks PROVE FreshOK(u)'
    <3>1. CASE u # t
      <4>1. task'[u] = task[u]
        BY <1>9, <3>1, CommitAckFact DEF CommitAck, Flushed
      <4>2. u \in members' => u \in members
        BY <1>9, <3>1 DEF CommitAck
      <4> QED BY <1>x, <4>1, <4>2, FreshKept
    <3>2. CASE u = t
      BY <1>9, <1>x, <3>2, CommitAckFact DEF CommitAck, Flushed, FreshOK
    <3> QED BY <3>1, <3>2
  <2> QED BY <2>1 DEF FreshTasks, FreshOK
<1>10. ASSUME NEW t \in Tasks, CommitFails(t) PROVE FreshTasks'
  <2>1. ASSUME NEW u \in Tasks PROVE FreshOK(u)'
    <3>1. CASE u # t
      <4>1. task'[u] = task[u]
        BY <1>10, <3>1, PcFact, PCValues DEF CommitFails, Fail
      <4>2. u \in members' => u \in members
        BY <1>10, <3>1 DEF CommitFails, Fail
      <4> QED BY <1>x, <4>1, <4>2, FreshKept
    <3>2. CASE u = t
      BY <1>10, <1>x, <3>2, PcFact, PCValues DEF CommitFails, Fail, FreshOK
    <3> QED BY <3>1, <3>2
  <2> QED BY <2>1 DEF FreshTasks, FreshOK
<1>11. ASSUME NEW t \in Tasks, ManagedTaskFails(t) PROVE FreshTasks'
  <2>1. ASSUME NEW u \in Tasks PROVE FreshOK(u)'
    <3>1. CASE u # t
      <4>1. task'[u] = task[u]
        BY <1>11, <3>1, EndFact DEF ManagedTaskFails, TaskEnds
      <4>2. u \in members' => u \in members
        BY <1>11, <3>1 DEF ManagedTaskFails, TaskEnds
      <4> QED BY <1>x, <4>1, <4>2, FreshKept
    <3>2. CASE u = t
      BY <1>11, <1>x, <3>2, EndFact DEF ManagedTaskFails, TaskEnds, FreshOK
    <3> QED BY <3>1, <3>2
  <2> QED BY <2>1 DEF FreshTasks, FreshOK
<1>12. ASSUME NEW t \in Tasks, ManagedTaskStops(t) PROVE FreshTasks'
  <2>1. ASSUME NEW u \in Tasks PROVE FreshOK(u)'
    <3>1. CASE u # t
      <4>1. task'[u] = task[u]
        BY <1>12, <3>1, EndFact DEF ManagedTaskStops, TaskEnds
      <4>2. u \in members' => u \in members
        BY <1>12, <3>1 DEF ManagedTaskStops, TaskEnds
      <4> QED BY <1>x, <4>1, <4>2, FreshKept
    <3>2. CASE u = t
      BY <1>12, <1>x, <3>2, EndFact DEF ManagedTaskStops, TaskEnds, FreshOK
    <3> QED BY <3>1, <3>2
  <2> QED BY <2>1 DEF FreshTasks, FreshOK
<1>13. ASSUME NEW t \in Tasks, ConfiguredTaskEnds(t) PROVE FreshTasks'
  <2>1. ASSUME NEW u \in Tasks PROVE FreshOK(u)'
    BY <1>13, <1>x, HaltFact DEF ConfiguredTaskEnds, Halt, FreshOK
  <2> QED BY <2>1 DEF FreshTasks, FreshOK
<1>14. ASSUME NEW t \in Tasks, AbortTakesEffect(t) PROVE FreshTasks'
  <2>1. ASSUME NEW u \in Tasks PROVE FreshOK(u)'
    <3>1. CASE u # t
      <4>1. task'[u] = task[u]
        BY <1>14, <3>1, EndFact DEF AbortTakesEffect, TaskEnds
      <4>2. u \in members' => u \in members
        BY <1>14, <3>1 DEF AbortTakesEffect, TaskEnds
      <4> QED BY <1>x, <4>1, <4>2, FreshKept
    <3>2. CASE u = t
      BY <1>14, <1>x, <3>2, EndFact DEF AbortTakesEffect, TaskEnds, FreshOK
    <3> QED BY <3>1, <3>2
  <2> QED BY <2>1 DEF FreshTasks, FreshOK
<1>15. ASSUME NEW t \in Tasks, CreateStream(t) PROVE FreshTasks'
  <2>1. ASSUME NEW u \in Tasks PROVE FreshOK(u)'
    <3>1. CASE u # t
      <4>1. task'[u] = task[u]
        BY <1>15, <3>1, SpawnFact DEF CreateStream, StreamRequest
      <4>2. u \in members' => u \in members
        BY <1>15, <3>1 DEF CreateStream, StreamRequest
      <4> QED BY <1>x, <4>1, <4>2, FreshKept
    <3>2. CASE u = t
      BY <1>15, <1>x, <3>2, SpawnFact DEF CreateStream, StreamRequest, FreshOK
    <3> QED BY <3>1, <3>2
  <2> QED BY <2>1 DEF FreshTasks, FreshOK
<1>16. ASSUME NEW t \in Tasks, ResumeStream(t) PROVE FreshTasks'
  <2>1. ASSUME NEW u \in Tasks PROVE FreshOK(u)'
    <3>1. CASE u # t
      <4>1. task'[u] = task[u]
        BY <1>16, <3>1, SpawnFact DEF ResumeStream, StreamRequest
      <4>2. u \in members' => u \in members
        BY <1>16, <3>1 DEF ResumeStream, StreamRequest
      <4> QED BY <1>x, <4>1, <4>2, FreshKept
    <3>2. CASE u = t
      BY <1>16, <1>x, <3>2, SpawnFact DEF ResumeStream, StreamRequest, FreshOK
    <3> QED BY <3>1, <3>2
  <2> QED BY <2>1 DEF FreshTasks, FreshOK
<1>17. ASSUME NEW t \in Tasks, Revoke(t) PROVE FreshTasks'
  <2>1. ASSUME NEW u \in Tasks PROVE FreshOK(u)'
    <3>1. CASE u # t
      <4>1. task'[u] = task[u]
        BY <1>17, <3>1, RevokeFact DEF Revoke, Polls
      <4>2. u \in members' => u \in members
        BY <1>17, <3>1 DEF Revoke, Polls
      <4> QED BY <1>x, <4>1, <4>2, FreshKept
    <3>2. CASE u = t
      BY <1>17, <1>x, <3>2, RevokeFact DEF Revoke, Polls, FreshOK
    <3> QED BY <3>1, <3>2
  <2> QED BY <2>1 DEF FreshTasks, FreshOK
<1>18. ASSUME NEW t \in Tasks, Expel(t) PROVE FreshTasks'
  <2>1. ASSUME NEW u \in Tasks PROVE FreshOK(u)'
    BY <1>18, <1>x DEF Expel, FreshOK
  <2> QED BY <2>1 DEF FreshTasks, FreshOK
<1>19. ASSUME NEW t \in Tasks, NEW p \in Partitions, Receive(t, p) PROVE FreshTasks'
  <2>1. ASSUME NEW u \in Tasks PROVE FreshOK(u)'
    <3>1. CASE u # t
      <4>1. task'[u] = task[u]
        BY <1>19, <3>1, ReceiveFact DEF Flushed
      <4>2. u \in members' => u \in members
        BY <1>19, <3>1 DEF Receive, Polls
      <4> QED BY <1>x, <4>1, <4>2, FreshKept
    <3>2. CASE u = t
      BY <1>19, <1>x, <3>2, ReceiveFact DEF Receive, Polls, Flushed, FreshOK
    <3> QED BY <3>1, <3>2
  <2> QED BY <2>1 DEF FreshTasks, FreshOK
<1>20. ASSUME NEW t \in Tasks, NEW P \in SUBSET Partitions, Assign(t, P) PROVE FreshTasks'
  <2>1. ASSUME NEW u \in Tasks PROVE FreshOK(u)'
    <3>1. CASE u # t
      <4>1. task'[u] = task[u]
        BY <1>20, <3>1, AssignFact DEF Assign, Polls
      <4>2. u \in members' => u \in members
        BY <1>20, <3>1 DEF Assign, Polls
      <4> QED BY <1>x, <4>1, <4>2, FreshKept
    <3>2. CASE u = t
      BY <1>20, <1>x, <3>2, AssignFact DEF Assign, Polls, FreshOK
    <3> QED BY <3>1, <3>2
  <2> QED BY <2>1 DEF FreshTasks, FreshOK
<1>21. ASSUME PauseStream PROVE FreshTasks'
  <2>1. ASSUME NEW u \in Tasks PROVE FreshOK(u)'
    BY <1>21, <1>x, PauseFact DEF PauseStream, StreamRequest, FreshOK
  <2> QED BY <2>1 DEF FreshTasks, FreshOK
<1>22. ASSUME Start PROVE FreshTasks'
  <2>1. ASSUME NEW u \in Tasks PROVE FreshOK(u)'
    <3>1. CASE UNCHANGED task
      BY <1>22, <1>x, <3>1 DEF Start, FreshOK
    <3>2. CASE ~UNCHANGED task
      <4>1. PICK t \in Tasks : Spawn(t, FALSE)
        BY <1>22, <3>2 DEF Start
      <4>2. task[t].pc = "idle"
        BY <1>22 DEF DownIsEmpty, Start
      <4>3. CASE u # t
        <5>1. task'[u] = task[u] /\ members' = members
          BY <1>22, <4>1, <4>3, SpawnFact DEF Start
        <5> QED BY <1>x, <5>1, FreshKept
      <4>4. CASE u = t
        BY <1>22, <1>x, <4>1, <4>2, <4>4, SpawnFact DEF Start, FreshOK
      <4> QED BY <4>3, <4>4
    <3> QED BY <3>1, <3>2
  <2> QED BY <2>1 DEF FreshTasks, FreshOK
<1>23. ASSUME BeginDraining PROVE FreshTasks'
  <2>1. ASSUME NEW u \in Tasks PROVE FreshOK(u)'
    BY <1>23, <1>x DEF BeginDraining, FreshOK
  <2> QED BY <2>1 DEF FreshTasks, FreshOK
<1>24. ASSUME Exit PROVE FreshTasks'
  <2>1. ASSUME NEW u \in Tasks PROVE FreshOK(u)'
    BY <1>24, <1>x, HaltFact DEF Exit, Halt, FreshOK
  <2> QED BY <2>1 DEF FreshTasks, FreshOK
<1>25. ASSUME Crash PROVE FreshTasks'
  <2>1. ASSUME NEW u \in Tasks PROVE FreshOK(u)'
    BY <1>25, <1>x, HaltFact DEF Crash, Halt, FreshOK
  <2> QED BY <2>1 DEF FreshTasks, FreshOK
<1>26. ASSUME UNCHANGED vars PROVE FreshTasks'
  <2>1. ASSUME NEW u \in Tasks PROVE FreshOK(u)'
    BY <1>26, <1>x DEF vars, FreshOK
  <2> QED BY <2>1 DEF FreshTasks, FreshOK
<1> QED BY StepKinds, <1>1, <1>2, <1>3, <1>4, <1>5, <1>6, <1>7, <1>8, <1>9, <1>10, <1>11, <1>12,
      <1>13, <1>14, <1>15, <1>16, <1>17, <1>18, <1>19, <1>20, <1>21, <1>22, <1>23, <1>24, <1>25,
      <1>26

-----------------------------------------------------------------------------
(* What has been handled. *)

\* An offset is handled, or among the first n messages of a buffer.
CoveredAt(B, n, h, e) == e \in h \/ \E j \in 1 .. n : B[j] = e

\* The parts of the invariant for one task and partition.
LEMMA CoveredFacts ==
  ASSUME BuffersCovered, PositionsCovered, NEW u \in Tasks, NEW q \in Partitions
  PROVE  /\ \A i \in 1 .. Len(task[u].buffers[q]) : \A e \in 0 .. task[u].buffers[q][i] - 1 :
              CoveredAt(task[u].buffers[q], i - 1, handled[q], e)
         /\ q \in task[u].assigned => \A e \in 0 .. task[u].position[q] - 1 :
              CoveredAt(task[u].buffers[q], Len(task[u].buffers[q]), handled[q], e)
  BY DEF BuffersCovered, PositionsCovered, CoveredAt

\* A buffer that lost the messages that were handled.
LEMMA CoveredAfterCommit ==
  ASSUME NEW B, NEW C, NEW n \in Nat, NEW m \in Nat, NEW h, NEW h2, NEW e,
         \A i \in 1 .. m : C[i] = B[n + i],
         \A i \in 1 .. n : B[i] \in h, h \subseteq h2, CoveredAt(B, n + m, h, e)
  PROVE  CoveredAt(C, m, h2, e)
<1>1. CASE e \in h
  BY <1>1 DEF CoveredAt
<1>2. CASE e \notin h
  <2>1. PICK j \in 1 .. n + m : B[j] = e
    BY <1>2 DEF CoveredAt
  <2>2. j > n
    BY <1>2, <2>1
  <2>3. j - n \in 1 .. m /\ n + (j - n) = j
    BY <2>2
  <2> QED BY <2>1, <2>3 DEF CoveredAt
<1> QED BY <1>1, <1>2

\* No buffer has a gap that was not handled.
LEMMA BuffersCoveredStep ==
  ASSUME IngestionIInv, [Next]_vars PROVE BuffersCovered'
<1> USE DEF IngestionIInv
<1>0. config' = config /\ stale \subseteq stale' /\ (\A q : End(q)' = End(q))
      /\ \A q \in Partitions : handled[q] \subseteq handled'[q]
  BY HistoryFact, TopicStays
<1>1. ASSUME Tame PROVE BuffersCovered'
  <2> SUFFICES ASSUME NEW u \in Tasks, NEW q \in Partitions, NEW i \in 1 .. Len(task'[u].buffers[q]),
                      NEW e \in 0 .. task'[u].buffers[q][i] - 1
               PROVE  CoveredAt(task'[u].buffers[q], i - 1, handled'[q], e)
    BY DEF BuffersCovered, CoveredAt
  <2>s. ASSUME task'[u].buffers[q] = task[u].buffers[q]
        PROVE  CoveredAt(task'[u].buffers[q], i - 1, handled'[q], e)
    BY <1>0, <2>s, CoveredFacts DEF CoveredAt, Delivered
  <2>1. CASE task'[u].buffers[q] = <<>>
    BY <2>1
  <2> QED BY <1>1, <2>1, <2>s DEF Tame, TameAt
<1>2. ASSUME NEW t \in Tasks, NEW p \in Partitions, Receive(t, p) PROVE BuffersCovered'
  <2> SUFFICES ASSUME NEW u \in Tasks, NEW q \in Partitions, NEW i \in 1 .. Len(task'[u].buffers[q]),
                      NEW e \in 0 .. task'[u].buffers[q][i] - 1
               PROVE  CoveredAt(task'[u].buffers[q], i - 1, handled'[q], e)
    BY DEF BuffersCovered, CoveredAt
  <2>s. ASSUME task'[u].buffers[q] = task[u].buffers[q]
        PROVE  CoveredAt(task'[u].buffers[q], i - 1, handled'[q], e)
    BY <1>0, <2>s, CoveredFacts DEF CoveredAt, Delivered
  <2>1. CASE u # t \/ q # p
    BY <1>2, <2>1, <2>s, ReceiveEffect
  <2>2. CASE u = t /\ q = p
    <3>b. PICK B : B = task[t].buffers[p]
      OBVIOUS
    <3>c. PICK C : C = task'[t].buffers[p]
      OBVIOUS
    <3>1. /\ Len(B) \in Nat /\ Len(C) = Len(B) + 1 /\ C[Len(B) + 1] = task[t].position[p]
          /\ \A k \in 1 .. Len(B) : C[k] = B[k]
          /\ p \in task[t].assigned
      BY <1>2, <3>b, <3>c, ReceiveEffect
    <3>2. CASE i \in 1 .. Len(B)
      <4>1. CoveredAt(B, i - 1, handled[p], e)
        BY <2>2, <3>1, <3>2, <3>b, <3>c, CoveredFacts DEF Delivered
      <4>2. CoveredAt(C, i - 1, handled'[p], e)
        BY <1>0, <3>1, <3>2, <4>1 DEF CoveredAt
      <4> QED BY <2>2, <3>c, <4>2
    <3>3. CASE i = Len(B) + 1
      <4>1. CoveredAt(B, Len(B), handled[p], e)
        BY <2>2, <3>1, <3>3, <3>b, <3>c, CoveredFacts DEF Delivered
      <4>2. i - 1 = Len(B)
        BY <3>1, <3>3
      <4>3. CoveredAt(C, i - 1, handled'[p], e)
        BY <1>0, <3>1, <4>1, <4>2 DEF CoveredAt
      <4> QED BY <2>2, <3>c, <4>3
    <3>4. i \in 1 .. Len(B) \/ i = Len(B) + 1
      BY <2>2, <3>1, <3>c
    <3> QED BY <3>2, <3>3, <3>4
  <2> QED BY <2>1, <2>2
<1>3. ASSUME NEW t \in Tasks, CommitAck(t) PROVE BuffersCovered'
  <2> SUFFICES ASSUME NEW u \in Tasks, NEW q \in Partitions, NEW i \in 1 .. Len(task'[u].buffers[q]),
                      NEW e \in 0 .. task'[u].buffers[q][i] - 1
               PROVE  CoveredAt(task'[u].buffers[q], i - 1, handled'[q], e)
    BY DEF BuffersCovered, CoveredAt
  <2>s. ASSUME task'[u].buffers[q] = task[u].buffers[q]
        PROVE  CoveredAt(task'[u].buffers[q], i - 1, handled'[q], e)
    BY <1>0, <2>s, CoveredFacts DEF CoveredAt, Delivered
  <2>1. CASE u # t \/ q # Current(t)
    BY <1>3, <2>1, <2>s, CommitEffect
  <2>2. CASE u = t /\ q = Current(t)
    <3>b. PICK B : B = task[t].buffers[q]
      OBVIOUS
    <3>c. PICK C : C = task'[t].buffers[q]
      OBVIOUS
    <3>n. PICK n : n = Applied(t)
      OBVIOUS
    <3>1. /\ Len(B) \in Nat /\ n \in 1 .. Len(B) /\ Len(C) = Len(B) - n
          /\ \A k \in 1 .. Len(C) : C[k] = B[n + k]
      BY <1>3, <2>2, <3>b, <3>c, <3>n, CommitEffect
    <3>2. \A k \in 1 .. n : B[k] \in handled[q]
      BY <1>3, <2>2, <3>b, <3>n, CommitEffect DEF Delivered, AppliedHandled, Flushing
    <3>3. i \in 1 .. Len(C) /\ e \in 0 .. C[i] - 1
      BY <2>2, <3>c
    <3>4. n + i \in 1 .. Len(B) /\ C[i] = B[n + i] /\ (n + i) - 1 = n + (i - 1) /\ i - 1 \in Nat /\ n \in Nat
      BY <3>1, <3>3
    <3>5. CoveredAt(B, n + (i - 1), handled[q], e)
      BY <2>2, <3>3, <3>4, <3>b, CoveredFacts DEF Delivered
    <3>6. \A k \in 1 .. i - 1 : C[k] = B[n + k]
      BY <3>1, <3>3
    <3>7. CoveredAt(C, i - 1, handled'[q], e)
      BY <1>0, <3>2, <3>4, <3>5, <3>6, CoveredAfterCommit
    <3> QED BY <2>2, <3>7, <3>c
  <2> QED BY <2>1, <2>2
<1>4. ASSUME NEW t \in Tasks, NEW P \in SUBSET Partitions, Assign(t, P) PROVE BuffersCovered'
  <2> SUFFICES ASSUME NEW u \in Tasks, NEW q \in Partitions, NEW i \in 1 .. Len(task'[u].buffers[q]),
                      NEW e \in 0 .. task'[u].buffers[q][i] - 1
               PROVE  CoveredAt(task'[u].buffers[q], i - 1, handled'[q], e)
    BY DEF BuffersCovered, CoveredAt
  <2>s. ASSUME task'[u].buffers[q] = task[u].buffers[q]
        PROVE  CoveredAt(task'[u].buffers[q], i - 1, handled'[q], e)
    BY <1>0, <2>s, CoveredFacts DEF CoveredAt, Delivered
  <2> QED BY <1>4, <2>s, AssignEffect
<1> QED BY <1>1, <1>2, <1>3, <1>4, TameFact DEF TameStep

\* No consumer has passed a message that is neither handled nor buffered.
LEMMA PositionsCoveredStep ==
  ASSUME IngestionIInv, [Next]_vars PROVE PositionsCovered'
<1> USE DEF IngestionIInv
<1>0. config' = config /\ stale \subseteq stale' /\ (\A q : End(q)' = End(q))
      /\ \A q \in Partitions : handled[q] \subseteq handled'[q]
  BY HistoryFact, TopicStays
<1>1. ASSUME Tame PROVE PositionsCovered'
  <2> SUFFICES ASSUME NEW u \in Tasks, NEW q \in Partitions, q \in task'[u].assigned,
                      NEW e \in 0 .. task'[u].position[q] - 1
               PROVE  CoveredAt(task'[u].buffers[q], Len(task'[u].buffers[q]), handled'[q], e)
    <3>1. TasksShape'
      BY TasksStep
    <3>2. \A u \in Tasks : task'[u].assigned \subseteq Partitions
      BY <3>1 DEF TasksShape, TaskRecord
    <3> QED BY <3>2 DEF PositionsCovered, CoveredAt
  <2>s. ASSUME task'[u].buffers[q] = task[u].buffers[q], task'[u].position[q] = task[u].position[q],
               q \in task[u].assigned
        PROVE  CoveredAt(task'[u].buffers[q], Len(task'[u].buffers[q]), handled'[q], e)
    BY <1>0, <2>s, CoveredFacts DEF CoveredAt, Delivered
  <2> QED BY <1>1, <2>s DEF Tame, TameAt
<1>2. ASSUME NEW t \in Tasks, NEW p \in Partitions, Receive(t, p) PROVE PositionsCovered'
  <2> SUFFICES ASSUME NEW u \in Tasks, NEW q \in Partitions, q \in task'[u].assigned,
                      NEW e \in 0 .. task'[u].position[q] - 1
               PROVE  CoveredAt(task'[u].buffers[q], Len(task'[u].buffers[q]), handled'[q], e)
    <3>1. TasksShape'
      BY TasksStep
    <3>2. \A u \in Tasks : task'[u].assigned \subseteq Partitions
      BY <3>1 DEF TasksShape, TaskRecord
    <3> QED BY <3>2 DEF PositionsCovered, CoveredAt
  <2>s. ASSUME task'[u].buffers[q] = task[u].buffers[q], task'[u].position[q] = task[u].position[q],
               q \in task[u].assigned
        PROVE  CoveredAt(task'[u].buffers[q], Len(task'[u].buffers[q]), handled'[q], e)
    BY <1>0, <2>s, CoveredFacts DEF CoveredAt, Delivered
  <2>1. CASE u # t \/ q # p
    BY <1>2, <2>1, <2>s, ReceiveEffect
  <2>2. CASE u = t /\ q = p
    <3>b. PICK B : B = task[t].buffers[p]
      OBVIOUS
    <3>c. PICK C : C = task'[t].buffers[p]
      OBVIOUS
    <3>1. /\ Len(B) \in Nat /\ Len(C) = Len(B) + 1 /\ C[Len(B) + 1] = task[t].position[p]
          /\ \A k \in 1 .. Len(B) : C[k] = B[k]
          /\ p \in task[t].assigned /\ task'[t].position[p] = task[t].position[p] + 1
          /\ task[t].position[p] \in Nat
      BY <1>2, <3>b, <3>c, ReceiveEffect
    <3>2. CASE e = task[t].position[p]
      <4>1. CoveredAt(C, Len(C), handled'[p], e)
        BY <3>1, <3>2 DEF CoveredAt
      <4> QED BY <2>2, <3>c, <4>1
    <3>3. CASE e \in 0 .. task[t].position[p] - 1
      <4>1. CoveredAt(B, Len(B), handled[p], e)
        BY <3>1, <3>3, <3>b, CoveredFacts DEF Delivered
      <4>2. CoveredAt(C, Len(C), handled'[p], e)
        BY <1>0, <3>1, <4>1 DEF CoveredAt
      <4> QED BY <2>2, <3>c, <4>2
    <3>4. e = task[t].position[p] \/ e \in 0 .. task[t].position[p] - 1
      BY <2>2, <3>1
    <3> QED BY <3>2, <3>3, <3>4
  <2> QED BY <2>1, <2>2
<1>3. ASSUME NEW t \in Tasks, CommitAck(t) PROVE PositionsCovered'
  <2> SUFFICES ASSUME NEW u \in Tasks, NEW q \in Partitions, q \in task'[u].assigned,
                      NEW e \in 0 .. task'[u].position[q] - 1
               PROVE  CoveredAt(task'[u].buffers[q], Len(task'[u].buffers[q]), handled'[q], e)
    <3>1. TasksShape'
      BY TasksStep
    <3>2. \A u \in Tasks : task'[u].assigned \subseteq Partitions
      BY <3>1 DEF TasksShape, TaskRecord
    <3> QED BY <3>2 DEF PositionsCovered, CoveredAt
  <2>s. ASSUME task'[u].buffers[q] = task[u].buffers[q], task'[u].position[q] = task[u].position[q],
               q \in task[u].assigned
        PROVE  CoveredAt(task'[u].buffers[q], Len(task'[u].buffers[q]), handled'[q], e)
    BY <1>0, <2>s, CoveredFacts DEF CoveredAt, Delivered
  <2>1. CASE u # t \/ q # Current(t)
    BY <1>3, <2>1, <2>s, CommitEffect
  <2>2. CASE u = t /\ q = Current(t)
    <3>b. PICK B : B = task[t].buffers[q]
      OBVIOUS
    <3>c. PICK C : C = task'[t].buffers[q]
      OBVIOUS
    <3>n. PICK n : n = Applied(t)
      OBVIOUS
    <3>1. /\ Len(B) \in Nat /\ n \in 1 .. Len(B) /\ Len(C) = Len(B) - n
          /\ \A k \in 1 .. Len(C) : C[k] = B[n + k]
          /\ task'[t].position[q] = task[t].position[q] /\ task'[t].assigned = task[t].assigned
      BY <1>3, <2>2, <3>b, <3>c, <3>n, CommitEffect
    <3>2. \A k \in 1 .. n : B[k] \in handled[q]
      BY <1>3, <2>2, <3>b, <3>n, CommitEffect DEF Delivered, AppliedHandled, Flushing
    <3>4. Len(C) \in Nat /\ n \in Nat /\ n + Len(C) = Len(B)
      BY <3>1
    <3>5. CoveredAt(B, Len(B), handled[q], e)
      BY <2>2, <3>1, <3>b, CoveredFacts DEF Delivered
    <3>7. CoveredAt(B, n + Len(C), handled[q], e)
      BY <3>4, <3>5
    <3>6. CoveredAt(C, Len(C), handled'[q], e)
      BY <1>0, <3>1, <3>2, <3>4, <3>7, CoveredAfterCommit
    <3> QED BY <2>2, <3>6, <3>c
  <2> QED BY <2>1, <2>2
<1>4. ASSUME NEW t \in Tasks, NEW P \in SUBSET Partitions, Assign(t, P) PROVE PositionsCovered'
  <2> SUFFICES ASSUME NEW u \in Tasks, NEW q \in Partitions, q \in task'[u].assigned,
                      NEW e \in 0 .. task'[u].position[q] - 1
               PROVE  CoveredAt(task'[u].buffers[q], Len(task'[u].buffers[q]), handled'[q], e)
    <3>1. TasksShape'
      BY TasksStep
    <3>2. \A u \in Tasks : task'[u].assigned \subseteq Partitions
      BY <3>1 DEF TasksShape, TaskRecord
    <3> QED BY <3>2 DEF PositionsCovered, CoveredAt
  <2>s. ASSUME task'[u].buffers[q] = task[u].buffers[q], task'[u].position[q] = task[u].position[q],
               q \in task[u].assigned
        PROVE  CoveredAt(task'[u].buffers[q], Len(task'[u].buffers[q]), handled'[q], e)
    BY <1>0, <2>s, CoveredFacts DEF CoveredAt, Delivered
  <2>1. CASE u # t
    BY <1>4, <2>1, <2>s, AssignEffect
  <2>2. CASE u = t
    <3>1. e \in 0 .. committed[q] - 1
      BY <1>4, <2>2, AssignEffect
    <3> QED BY <1>0, <3>1 DEF Delivered, NothingSkipped, CoveredAt
  <2> QED BY <2>1, <2>2
<1> QED BY <1>1, <1>2, <1>3, <1>4, TameFact DEF TameStep

\* The messages of a task's batch that are done with were handled.
DoneHandled(u) ==
  task[u].pc \in Flushing => \A i \in 1 .. Applied(u) : Buffer(u)[i] \in handled[Current(u)]

\* What is done with was handled.
LEMMA AppliedHandledStep ==
  ASSUME IngestionIInv, [Next]_vars PROVE AppliedHandled'
<1> USE DEF IngestionIInv
<1>0. config' = config /\ stale \subseteq stale'
        /\ \A q \in Partitions : handled[q] \subseteq handled'[q]
  BY HistoryFact
<1>t. TasksShape'
  BY TasksStep
<1> SUFFICES ASSUME NEW u \in Tasks PROVE DoneHandled(u)'
  BY DEF AppliedHandled, DoneHandled
<1>1. DoneHandled(u)
  BY DEF DoneHandled, Delivered, AppliedHandled
<1>2. ASSUME SameFlush(u) PROVE DoneHandled(u)'
  <2> SUFFICES ASSUME task'[u].pc \in Flushing
               PROVE  \A i \in 1 .. Applied(u)' : (Buffer(u)')[i] \in handled'[Current(u)']
    BY DEF DoneHandled
  <2>1. task[u].pc \in Flushing
    BY <1>2 DEF SameFlush
  <2>2. Current(u) \in Partitions
    BY <2>1, CurrentFact DEF Shapes
  <2> QED BY <1>0, <1>1, <1>2, <2>1, <2>2, SameEffect DEF DoneHandled
<1>3. ASSUME FreshFlush(u) PROVE DoneHandled(u)'
  BY <1>t, <1>3, FreshEffect DEF DoneHandled
<1>4. ASSUME task'[u].pc \notin Flushing PROVE DoneHandled(u)'
  BY <1>4 DEF DoneHandled
<1>5. ASSUME NEW t \in Tasks, WriteRecord(t) PROVE DoneHandled(u)'
  <2>1. CASE u # t
    BY <1>0, <1>2, <1>5, <2>1, WriteEffect
  <2>2. CASE u = t
    <3>o. PICK o : o = Buffer(t)[Applied(t) + 1]
      OBVIOUS
    <3>1. /\ Current(t)' = Current(t) /\ Buffer(t)' = Buffer(t) /\ Applied(t)' = Applied(t) + 1
          /\ task[t].pc = "write" /\ Apply(t)
      BY <1>0, <1>5, WriteEffect
    <3>2. Applied(t) \in Nat /\ Current(t) \in Partitions
      BY <3>1, NextFact
    <3>3. handled' = [handled EXCEPT ![Current(t)] = @ \cup {o}]
      BY <3>1, <3>o, ApplyFact
    <3>4. o \in handled'[Current(t)]
      BY <3>2, <3>3 DEF Shapes, LogShape
    <3>5. \A i \in 1 .. Applied(t) : Buffer(t)[i] \in handled'[Current(t)]
      BY <1>0, <1>1, <2>2, <3>1, <3>2 DEF DoneHandled, Flushing
    <3>6. ASSUME NEW i \in 1 .. Applied(t) + 1 PROVE Buffer(t)[i] \in handled'[Current(t)]
      <4>1. i \in 1 .. Applied(t) \/ i = Applied(t) + 1
        BY <3>2
      <4> QED BY <3>4, <3>5, <3>o, <4>1
    <3> QED BY <2>2, <3>1, <3>6 DEF DoneHandled
  <2> QED BY <2>1, <2>2
<1>6. ASSUME NEW t \in Tasks, PublishDlq(t) PROVE DoneHandled(u)'
  <2>1. CASE u # t
    BY <1>0, <1>2, <1>6, <2>1, PublishEffect
  <2>2. CASE u = t
    <3>1. /\ Current(t)' = Current(t) /\ Buffer(t)' = Buffer(t) /\ Applied(t)' = 1
          /\ task[t].pc = "deadletter"
          /\ handled' = [handled EXCEPT ![Current(t)] = @ \cup {Buffer(t)[1]}]
      BY <1>0, <1>6, PublishEffect
    <3>2. Current(t) \in Partitions
      BY <3>1, DeadLetterFact
    <3>3. Buffer(t)[1] \in handled'[Current(t)]
      BY <3>1, <3>2 DEF Shapes, LogShape
    <3> QED BY <2>2, <3>1, <3>3 DEF DoneHandled
  <2> QED BY <2>1, <2>2
<1> QED BY <1>2, <1>3, <1>4, <1>5, <1>6, FlushFacts DEF FlushStep, FlushAt

\* Everything below the next offset of a commit was handled, and everything below a message
\* that is about to be handled.
LEMMA CommitCovered ==
  ASSUME IngestionIInv, NEW t \in Tasks, task[t].pc = "commit"
  PROVE  \A e \in 0 .. Buffer(t)[Applied(t)] : e \in handled[Current(t)]
<1>1. /\ Current(t) \in Partitions /\ Applied(t) \in 1 .. Len(Buffer(t)) /\ Len(Buffer(t)) \in Nat
      /\ Buffer(t)[Applied(t)] \in Nat
  BY CommitFact DEF IngestionIInv
<1>2. \A i \in 1 .. Applied(t) : Buffer(t)[i] \in handled[Current(t)]
  BY DEF IngestionIInv, Delivered, AppliedHandled, Flushing
<1>3. \A e \in 0 .. Buffer(t)[Applied(t)] - 1 : CoveredAt(Buffer(t), Applied(t) - 1, handled[Current(t)], e)
  BY <1>1, CoveredFacts DEF IngestionIInv, Delivered, Buffer
<1>4. ASSUME NEW e \in 0 .. Buffer(t)[Applied(t)] PROVE e \in handled[Current(t)]
  <2>1. CASE e = Buffer(t)[Applied(t)]
    BY <1>1, <1>2, <2>1
  <2>2. CASE e # Buffer(t)[Applied(t)]
    <3>1. e \in 0 .. Buffer(t)[Applied(t)] - 1
      BY <1>1, <2>2
    <3>2. CoveredAt(Buffer(t), Applied(t) - 1, handled[Current(t)], e)
      BY <1>3, <3>1
    <3> QED BY <1>1, <1>2, <3>2 DEF CoveredAt
  <2> QED BY <2>1, <2>2
<1> QED BY <1>4

\* The messages before the one that is handled next were handled.
LEMMA NextCovered ==
  ASSUME IngestionIInv, NEW t \in Tasks, task[t].pc \in {"write", "deadletter"}
  PROVE  \A e \in 0 .. Buffer(t)[Applied(t) + 1] - 1 : e \in handled[Current(t)]
<1>1. /\ Current(t) \in Partitions /\ Applied(t) \in Nat /\ Applied(t) + 1 \in 1 .. Len(Buffer(t))
      /\ Len(Buffer(t)) \in Nat
  <2>1. CASE task[t].pc = "write"
    BY <2>1, NextFact DEF IngestionIInv
  <2>2. CASE task[t].pc = "deadletter"
    BY <2>2, DeadLetterFact DEF IngestionIInv
  <2> QED BY <2>1, <2>2
<1>2. \A i \in 1 .. Applied(t) : Buffer(t)[i] \in handled[Current(t)]
  BY DEF IngestionIInv, Delivered, AppliedHandled, Flushing
<1>3. ASSUME NEW e \in 0 .. Buffer(t)[Applied(t) + 1] - 1 PROVE e \in handled[Current(t)]
  <2>1. CoveredAt(Buffer(t), Applied(t) + 1 - 1, handled[Current(t)], e)
    BY <1>1, CoveredFacts DEF IngestionIInv, Delivered, Buffer
  <2>2. Applied(t) + 1 - 1 = Applied(t)
    BY <1>1
  <2> QED BY <1>2, <2>1, <2>2 DEF CoveredAt
<1> QED BY <1>3

\* Offsets are committed, and messages handled, by the tasks.
Commits ==
  \E t \in Tasks : task[t].pc = "commit" /\ Acknowledge(t) /\ (CommitAck(t) \/ Fail(t))
Applies == \E t \in Tasks : task[t].pc = "write" /\ Apply(t)
DeadLetters == \E t \in Tasks : task[t].pc = "deadletter" /\ DeadLetter(t) /\ stored' = stored

\* A step commits, applies, dead-letters, or leaves all that alone.
LEMMA LogKinds ==
  ASSUME IngestionIInv, [Next]_vars
  PROVE (committed' = committed \/ Commits)
        /\ ((handled' = handled /\ stored' = stored) \/ Applies \/ DeadLetters)
<1> USE DEF groupVars, vars, Commits, Applies, DeadLetters
<1>1. ASSUME NEW t \in Tasks, Subscribe(t)
      PROVE  (committed' = committed \/ Commits)
        /\ ((handled' = handled /\ stored' = stored) \/ Applies \/ DeadLetters)
  BY <1>1 DEF Subscribe
<1>2. ASSUME NEW t \in Tasks, LoopTop(t)
      PROVE  (committed' = committed \/ Commits)
        /\ ((handled' = handled /\ stored' = stored) \/ Applies \/ DeadLetters)
  BY <1>2 DEF LoopTop
<1>3. ASSUME NEW t \in Tasks, Linger(t)
      PROVE  (committed' = committed \/ Commits)
        /\ ((handled' = handled /\ stored' = stored) \/ Applies \/ DeadLetters)
  BY <1>3 DEF Linger, Polls
<1>4. ASSUME NEW t \in Tasks, ClientError(t)
      PROVE  (committed' = committed \/ Commits)
        /\ ((handled' = handled /\ stored' = stored) \/ Applies \/ DeadLetters)
  BY <1>4 DEF ClientError, Fail, Polls
<1>5. ASSUME NEW t \in Tasks, WriteRecord(t)
      PROVE  (committed' = committed \/ Commits)
        /\ ((handled' = handled /\ stored' = stored) \/ Applies \/ DeadLetters)
  BY <1>5 DEF WriteRecord
<1>6. ASSUME NEW t \in Tasks, WriteFails(t)
      PROVE  (committed' = committed \/ Commits)
        /\ ((handled' = handled /\ stored' = stored) \/ Applies \/ DeadLetters)
  BY <1>6 DEF WriteFails, Fail
<1>7. ASSUME NEW t \in Tasks, PublishDlq(t)
      PROVE  (committed' = committed \/ Commits)
        /\ ((handled' = handled /\ stored' = stored) \/ Applies \/ DeadLetters)
  BY <1>7 DEF PublishDlq
<1>8. ASSUME NEW t \in Tasks, PublishDlqFails(t)
      PROVE  (committed' = committed \/ Commits)
        /\ ((handled' = handled /\ stored' = stored) \/ Applies \/ DeadLetters)
  BY <1>8 DEF PublishDlqFails, Fail
<1>9. ASSUME NEW t \in Tasks, CommitAck(t)
      PROVE  (committed' = committed \/ Commits)
        /\ ((handled' = handled /\ stored' = stored) \/ Applies \/ DeadLetters)
  BY <1>9 DEF CommitAck
<1>10. ASSUME NEW t \in Tasks, CommitFails(t)
      PROVE  (committed' = committed \/ Commits)
        /\ ((handled' = handled /\ stored' = stored) \/ Applies \/ DeadLetters)
  BY <1>10 DEF CommitFails, Fail
<1>11. ASSUME NEW t \in Tasks, ManagedTaskFails(t)
      PROVE  (committed' = committed \/ Commits)
        /\ ((handled' = handled /\ stored' = stored) \/ Applies \/ DeadLetters)
  BY <1>11 DEF ManagedTaskFails, TaskEnds
<1>12. ASSUME NEW t \in Tasks, ManagedTaskStops(t)
      PROVE  (committed' = committed \/ Commits)
        /\ ((handled' = handled /\ stored' = stored) \/ Applies \/ DeadLetters)
  BY <1>12 DEF ManagedTaskStops, TaskEnds
<1>13. ASSUME NEW t \in Tasks, ConfiguredTaskEnds(t)
      PROVE  (committed' = committed \/ Commits)
        /\ ((handled' = handled /\ stored' = stored) \/ Applies \/ DeadLetters)
  BY <1>13 DEF ConfiguredTaskEnds, Halt
<1>14. ASSUME NEW t \in Tasks, AbortTakesEffect(t)
      PROVE  (committed' = committed \/ Commits)
        /\ ((handled' = handled /\ stored' = stored) \/ Applies \/ DeadLetters)
  BY <1>14 DEF AbortTakesEffect, TaskEnds
<1>15. ASSUME NEW t \in Tasks, CreateStream(t)
      PROVE  (committed' = committed \/ Commits)
        /\ ((handled' = handled /\ stored' = stored) \/ Applies \/ DeadLetters)
  BY <1>15 DEF CreateStream, StreamRequest
<1>16. ASSUME NEW t \in Tasks, ResumeStream(t)
      PROVE  (committed' = committed \/ Commits)
        /\ ((handled' = handled /\ stored' = stored) \/ Applies \/ DeadLetters)
  BY <1>16 DEF ResumeStream, StreamRequest
<1>17. ASSUME NEW t \in Tasks, Revoke(t)
      PROVE  (committed' = committed \/ Commits)
        /\ ((handled' = handled /\ stored' = stored) \/ Applies \/ DeadLetters)
  BY <1>17 DEF Revoke, Polls
<1>18. ASSUME NEW t \in Tasks, Expel(t)
      PROVE  (committed' = committed \/ Commits)
        /\ ((handled' = handled /\ stored' = stored) \/ Applies \/ DeadLetters)
  BY <1>18 DEF Expel
<1>19. ASSUME NEW t \in Tasks, NEW p \in Partitions, Receive(t, p)
      PROVE  (committed' = committed \/ Commits)
        /\ ((handled' = handled /\ stored' = stored) \/ Applies \/ DeadLetters)
  BY <1>19 DEF Receive, Polls
<1>20. ASSUME NEW t \in Tasks, NEW P \in SUBSET Partitions, Assign(t, P)
      PROVE  (committed' = committed \/ Commits)
        /\ ((handled' = handled /\ stored' = stored) \/ Applies \/ DeadLetters)
  BY <1>20 DEF Assign, Polls
<1>21. ASSUME PauseStream
      PROVE  (committed' = committed \/ Commits)
        /\ ((handled' = handled /\ stored' = stored) \/ Applies \/ DeadLetters)
  BY <1>21 DEF PauseStream, StreamRequest
<1>22. ASSUME Start
      PROVE  (committed' = committed \/ Commits)
        /\ ((handled' = handled /\ stored' = stored) \/ Applies \/ DeadLetters)
  BY <1>22 DEF Start, Spawn
<1>23. ASSUME BeginDraining
      PROVE  (committed' = committed \/ Commits)
        /\ ((handled' = handled /\ stored' = stored) \/ Applies \/ DeadLetters)
  BY <1>23 DEF BeginDraining
<1>24. ASSUME Exit
      PROVE  (committed' = committed \/ Commits)
        /\ ((handled' = handled /\ stored' = stored) \/ Applies \/ DeadLetters)
  BY <1>24 DEF Exit, Halt
<1>25. ASSUME Crash
      PROVE  (committed' = committed \/ Commits)
        /\ ((handled' = handled /\ stored' = stored) \/ Applies \/ DeadLetters)
  BY <1>25 DEF Crash, Halt
<1>26. ASSUME UNCHANGED vars
      PROVE  (committed' = committed \/ Commits)
        /\ ((handled' = handled /\ stored' = stored) \/ Applies \/ DeadLetters)
  BY <1>26 DEF vars
<1> QED BY StepKinds, <1>1, <1>2, <1>3, <1>4, <1>5, <1>6, <1>7, <1>8, <1>9, <1>10, <1>11, <1>12,
      <1>13, <1>14, <1>15, <1>16, <1>17, <1>18, <1>19, <1>20, <1>21, <1>22, <1>23, <1>24, <1>25,
      <1>26

\* No commit skips a message.
LEMMA NothingSkippedStep ==
  ASSUME IngestionIInv, [Next]_vars PROVE NothingSkipped'
<1>1. \A q \in Partitions : handled[q] \subseteq handled'[q]
  BY HistoryFact
<1>2. CASE committed' = committed
  BY <1>1, <1>2 DEF IngestionIInv, Delivered, NothingSkipped
<1>3. CASE Commits
  <2>1. PICK t \in Tasks : task[t].pc = "commit" /\ Acknowledge(t)
    BY <1>3 DEF Commits
  <2>2. committed' = [committed EXCEPT ![Current(t)] = Buffer(t)[Applied(t)] + 1]
    BY <2>1, AcknowledgeFact DEF IngestionIInv
  <2>3. \A e \in 0 .. Buffer(t)[Applied(t)] : e \in handled[Current(t)]
    BY <2>1, CommitCovered
  <2>4. Current(t) \in Partitions /\ Buffer(t)[Applied(t)] \in Nat
    BY <2>1, CommitFact DEF IngestionIInv
  <2>5. committed \in [Partitions -> Nat]
    BY DEF IngestionIInv, Shapes, GroupShape
  <2> SUFFICES ASSUME NEW q \in Partitions, NEW e \in 0 .. committed'[q] - 1 PROVE e \in handled'[q]
    BY DEF NothingSkipped
  <2>6. CASE q = Current(t)
    <3>1. committed'[q] = Buffer(t)[Applied(t)] + 1
      BY <2>2, <2>5, <2>6
    <3>2. e \in 0 .. Buffer(t)[Applied(t)]
      BY <2>4, <3>1
    <3> QED BY <1>1, <2>3, <2>6, <3>2
  <2>7. CASE q # Current(t)
    <3>1. committed'[q] = committed[q]
      BY <2>2, <2>5, <2>7
    <3> QED BY <1>1, <3>1 DEF IngestionIInv, Delivered, NothingSkipped
  <2> QED BY <2>6, <2>7
<1> QED BY <1>2, <1>3, LogKinds

\* Messages are handled in order.
LEMMA HandledInOrder ==
  ASSUME IngestionIInv, NEW t \in Tasks, task[t].pc \in {"write", "deadletter"},
         NEW o, o = Buffer(t)[Applied(t) + 1], o \in Nat, Current(t) \in Partitions,
         handled' = [handled EXCEPT ![Current(t)] = @ \cup {o}]
  PROVE  FirstDeliveryInOrder'
<1>1. \A e \in 0 .. o - 1 : e \in handled[Current(t)]
  BY NextCovered
<1>2. DOMAIN handled = Partitions
  BY DEF IngestionIInv, Shapes, LogShape
<1> SUFFICES ASSUME NEW q \in Partitions, NEW m \in handled'[q], NEW e \in 0 .. m
      PROVE  e \in handled'[q]
  BY DEF FirstDeliveryInOrder
<1>3. CASE q # Current(t)
  BY <1>2, <1>3 DEF IngestionIInv, Delivered, FirstDeliveryInOrder
<1>4. CASE q = Current(t) /\ m = o
  <2>1. e = o \/ e \in 0 .. o - 1
    BY <1>4
  <2> QED BY <1>1, <1>2, <1>4, <2>1
<1>5. CASE q = Current(t) /\ m # o
  <2>1. m \in handled[q]
    BY <1>2, <1>5
  <2>2. e \in handled[q]
    BY <2>1 DEF IngestionIInv, Delivered, FirstDeliveryInOrder
  <2> QED BY <1>2, <1>5, <2>2
<1> QED BY <1>3, <1>4, <1>5

\* Messages are first handled in order.
LEMMA InOrderStep ==
  ASSUME IngestionIInv, [Next]_vars PROVE FirstDeliveryInOrder'
<1>1. CASE handled' = handled
  BY <1>1 DEF IngestionIInv, Delivered, FirstDeliveryInOrder
<1>2. CASE Applies
  <2>1. PICK t \in Tasks : task[t].pc = "write" /\ Apply(t)
    BY <1>2 DEF Applies
  <2>o. PICK o : o = Buffer(t)[Applied(t) + 1]
    OBVIOUS
  <2>2. Current(t) \in Partitions /\ o \in Nat
    BY <2>1, <2>o, NextFact DEF IngestionIInv
  <2>3. handled' = [handled EXCEPT ![Current(t)] = @ \cup {o}]
    BY <2>1, <2>o, ApplyFact DEF IngestionIInv
  <2> QED BY <2>1, <2>2, <2>3, <2>o, HandledInOrder
<1>3. CASE DeadLetters
  <2>1. PICK t \in Tasks : task[t].pc = "deadletter" /\ DeadLetter(t)
    BY <1>3 DEF DeadLetters
  <2>o. PICK o : o = Buffer(t)[1]
    OBVIOUS
  <2>2. Current(t) \in Partitions /\ o \in Nat /\ Applied(t) + 1 = 1
    BY <2>1, <2>o, DeadLetterFact DEF IngestionIInv
  <2>3. handled' = [handled EXCEPT ![Current(t)] = @ \cup {o}]
    BY <2>1, <2>o DEF DeadLetter, Current, Buffer
  <2>4. o = Buffer(t)[Applied(t) + 1]
    BY <2>2, <2>o
  <2> QED BY <2>1, <2>2, <2>3, <2>4, HandledInOrder
<1> QED BY <1>1, <1>2, <1>3, LogKinds

-----------------------------------------------------------------------------
(* Who holds a partition. *)

\* A partition goes to one member.
LEMMA OneConsumerStep ==
  ASSUME IngestionIInv, [Next]_vars PROVE OneConsumer'
<1> USE DEF IngestionIInv
<1>0. config' = config /\ stale \subseteq stale' /\ (\A q : End(q)' = End(q))
      /\ \A q \in Partitions : handled[q] \subseteq handled'[q]
  BY HistoryFact, TopicStays
<1>1. ASSUME Tame PROVE OneConsumer'
  <2> SUFFICES ASSUME NEW v \in members', NEW u \in members', NEW q \in Partitions,
                      q \in task'[v].assigned, q \in task'[u].assigned
               PROVE  v = u
    <3>1. TasksShape' /\ GroupShape'
      BY TasksStep, GroupStep
    <3>2. \A w \in members' : task'[w].assigned \subseteq Partitions
      BY <3>1 DEF TasksShape, TaskRecord, GroupShape
    <3> QED BY <3>2 DEF OneConsumer
  <2>g. members' \subseteq Tasks /\ members \subseteq Tasks
    <3>1. GroupShape'
      BY GroupStep
    <3> QED BY <3>1 DEF Shapes, GroupShape
  <2>h. ASSUME v \in members, u \in members, q \in task[v].assigned, q \in task[u].assigned
        PROVE  v = u
    BY <2>h DEF Held, OneConsumer
  <2> QED BY <1>1, <2>g, <2>h DEF Tame, TameAt
<1>2. ASSUME NEW t \in Tasks, NEW p \in Partitions, Receive(t, p) PROVE OneConsumer'
  <2> SUFFICES ASSUME NEW v \in members', NEW u \in members', NEW q \in Partitions,
                      q \in task'[v].assigned, q \in task'[u].assigned
               PROVE  v = u
    <3>1. TasksShape' /\ GroupShape'
      BY TasksStep, GroupStep
    <3>2. \A w \in members' : task'[w].assigned \subseteq Partitions
      BY <3>1 DEF TasksShape, TaskRecord, GroupShape
    <3> QED BY <3>2 DEF OneConsumer
  <2>g. members' \subseteq Tasks /\ members \subseteq Tasks
    <3>1. GroupShape'
      BY GroupStep
    <3> QED BY <3>1 DEF Shapes, GroupShape
  <2>h. ASSUME v \in members, u \in members, q \in task[v].assigned, q \in task[u].assigned
        PROVE  v = u
    BY <2>h DEF Held, OneConsumer
  <2>m. members' = members
    BY <1>2 DEF Receive, groupVars
  <2> QED BY <1>2, <2>g, <2>h, <2>m, ReceiveEffect
<1>3. ASSUME NEW t \in Tasks, CommitAck(t) PROVE OneConsumer'
  <2> SUFFICES ASSUME NEW v \in members', NEW u \in members', NEW q \in Partitions,
                      q \in task'[v].assigned, q \in task'[u].assigned
               PROVE  v = u
    <3>1. TasksShape' /\ GroupShape'
      BY TasksStep, GroupStep
    <3>2. \A w \in members' : task'[w].assigned \subseteq Partitions
      BY <3>1 DEF TasksShape, TaskRecord, GroupShape
    <3> QED BY <3>2 DEF OneConsumer
  <2>g. members' \subseteq Tasks /\ members \subseteq Tasks
    <3>1. GroupShape'
      BY GroupStep
    <3> QED BY <3>1 DEF Shapes, GroupShape
  <2>h. ASSUME v \in members, u \in members, q \in task[v].assigned, q \in task[u].assigned
        PROVE  v = u
    BY <2>h DEF Held, OneConsumer
  <2>m. members' = members
    BY <1>3 DEF CommitAck, groupVars
  <2> QED BY <1>3, <2>g, <2>h, <2>m, CommitEffect
<1>4. ASSUME NEW t \in Tasks, NEW P \in SUBSET Partitions, Assign(t, P) PROVE OneConsumer'
  <2> SUFFICES ASSUME NEW v \in members', NEW u \in members', NEW q \in Partitions,
                      q \in task'[v].assigned, q \in task'[u].assigned
               PROVE  v = u
    <3>1. TasksShape' /\ GroupShape'
      BY TasksStep, GroupStep
    <3>2. \A w \in members' : task'[w].assigned \subseteq Partitions
      BY <3>1 DEF TasksShape, TaskRecord, GroupShape
    <3> QED BY <3>2 DEF OneConsumer
  <2>g. members' \subseteq Tasks /\ members \subseteq Tasks
    <3>1. GroupShape'
      BY GroupStep
    <3> QED BY <3>1 DEF Shapes, GroupShape
  <2>h. ASSUME v \in members, u \in members, q \in task[v].assigned, q \in task[u].assigned
        PROVE  v = u
    BY <2>h DEF Held, OneConsumer
  <2>1. /\ \A w \in Tasks \ {t} : task'[w] = task[w]
        /\ task'[t].assigned = P /\ t \in members /\ members' = members
    BY <1>4, AssignEffect
  <2>2. \A p \in P : \A w \in members : p \notin task[w].assigned
    BY <1>4 DEF Assign, Free
  <2> QED BY <2>1, <2>2, <2>g, <2>h
<1> QED BY <1>1, <1>2, <1>3, <1>4, TameFact DEF TameStep

\* One task has the messages of a partition.
LEMMA OneHolderStep ==
  ASSUME IngestionIInv, [Next]_vars PROVE OneHolder'
<1> USE DEF IngestionIInv
<1>0. config' = config /\ stale \subseteq stale' /\ (\A q : End(q)' = End(q))
      /\ \A q \in Partitions : handled[q] \subseteq handled'[q]
  BY HistoryFact, TopicStays
<1>1. ASSUME Tame PROVE OneHolder'
  <2> SUFFICES ASSUME NEW q \in Partitions, q \notin stale', NEW v \in Tasks, NEW u \in Tasks,
                      task'[v].buffers[q] # <<>>,
                      task'[u].buffers[q] # <<>> \/ (u \in members' /\ q \in task'[u].assigned)
               PROVE  v = u
    BY DEF OneHolder
  <2>h. ASSUME NEW w \in Tasks, NEW z \in Tasks, task[w].buffers[q] # <<>>,
               task[z].buffers[q] # <<>> \/ (z \in members /\ q \in task[z].assigned)
        PROVE  w = z
    BY <1>0, <2>h DEF Held, OneHolder
  <2> QED BY <1>1, <2>h DEF Tame, TameAt
<1>2. ASSUME NEW t \in Tasks, NEW p \in Partitions, Receive(t, p) PROVE OneHolder'
  <2> SUFFICES ASSUME NEW q \in Partitions, q \notin stale', NEW v \in Tasks, NEW u \in Tasks,
                      task'[v].buffers[q] # <<>>,
                      task'[u].buffers[q] # <<>> \/ (u \in members' /\ q \in task'[u].assigned)
               PROVE  v = u
    BY DEF OneHolder
  <2>h. ASSUME NEW w \in Tasks, NEW z \in Tasks, task[w].buffers[q] # <<>>,
               task[z].buffers[q] # <<>> \/ (z \in members /\ q \in task[z].assigned)
        PROVE  w = z
    BY <1>0, <2>h DEF Held, OneHolder
  <2>m. members' = members
    BY <1>2 DEF Receive, groupVars
  <2>1. /\ \A w \in Tasks : task'[w].assigned = task[w].assigned
        /\ \A w \in Tasks : w # t \/ q # p => task'[w].buffers[q] = task[w].buffers[q]
        /\ t \in members /\ p \in task[t].assigned
    BY <1>2, ReceiveEffect
  <2>2. CASE q # p
    BY <2>1, <2>2, <2>h, <2>m
  <2>3. CASE q = p
    <3>1. ASSUME NEW w \in Tasks, task[w].buffers[q] # <<>> PROVE w = t
      BY <2>1, <2>3, <2>h, <3>1
    <3>2. ASSUME NEW w \in Tasks, w \in members, q \in task[w].assigned PROVE w = t
      BY <2>1, <2>3, <3>2 DEF Held, OneConsumer
    <3>3. v = t
      BY <2>1, <3>1
    <3>4. u = t
      BY <2>1, <2>m, <3>1, <3>2
    <3> QED BY <3>3, <3>4
  <2> QED BY <2>2, <2>3
<1>3. ASSUME NEW t \in Tasks, CommitAck(t) PROVE OneHolder'
  <2> SUFFICES ASSUME NEW q \in Partitions, q \notin stale', NEW v \in Tasks, NEW u \in Tasks,
                      task'[v].buffers[q] # <<>>,
                      task'[u].buffers[q] # <<>> \/ (u \in members' /\ q \in task'[u].assigned)
               PROVE  v = u
    BY DEF OneHolder
  <2>h. ASSUME NEW w \in Tasks, NEW z \in Tasks, task[w].buffers[q] # <<>>,
               task[z].buffers[q] # <<>> \/ (z \in members /\ q \in task[z].assigned)
        PROVE  w = z
    BY <1>0, <2>h DEF Held, OneHolder
  <2>m. members' = members
    BY <1>3 DEF CommitAck, groupVars
  <2>1. ASSUME NEW w \in Tasks, task'[w].buffers[q] # <<>> PROVE task[w].buffers[q] # <<>>
    BY <1>3, <2>1, CommitEffect
  <2>2. \A w \in Tasks : task'[w].assigned = task[w].assigned
    BY <1>3, CommitEffect
  <2> QED BY <2>1, <2>2, <2>h, <2>m
<1>4. ASSUME NEW t \in Tasks, NEW P \in SUBSET Partitions, Assign(t, P) PROVE OneHolder'
  <2> SUFFICES ASSUME NEW q \in Partitions, q \notin stale', NEW v \in Tasks, NEW u \in Tasks,
                      task'[v].buffers[q] # <<>>,
                      task'[u].buffers[q] # <<>> \/ (u \in members' /\ q \in task'[u].assigned)
               PROVE  v = u
    BY DEF OneHolder
  <2>h. ASSUME NEW w \in Tasks, NEW z \in Tasks, task[w].buffers[q] # <<>>,
               task[z].buffers[q] # <<>> \/ (z \in members /\ q \in task[z].assigned)
        PROVE  w = z
    BY <1>0, <2>h DEF Held, OneHolder
  <2>1. /\ \A w \in Tasks : task'[w].buffers[q] = task[w].buffers[q]
        /\ \A w \in Tasks \ {t} : task'[w] = task[w]
        /\ task'[t].assigned = P /\ members' = members
    BY <1>4, AssignEffect
  <2>2. q \notin P
    BY <1>4, <2>1 DEF Assign, Buffered
  <2> QED BY <2>1, <2>2, <2>h
<1> QED BY <1>1, <1>2, <1>3, <1>4, TameFact DEF TameStep

\* What a task holds of a partition begins at the committed offset.
FollowsCommit(u, q) ==
  task[u].pc # "fail" =>
    /\ \A i \in 1 .. Len(task[u].buffers[q]) : task[u].buffers[q][i] = committed[q] + i - 1
    /\ u \in members /\ q \in task[u].assigned =>
         task[u].position[q] = committed[q] + Len(task[u].buffers[q])

\* A task without messages that is not assigned the partition.
LEMMA EmptyFollows ==
  ASSUME NEW u, NEW q, task'[u].buffers[q] = <<>>, ~(u \in members' /\ q \in task'[u].assigned)
  PROVE  FollowsCommit(u, q)'
  BY DEF FollowsCommit

\* A buffer begins where the committed offset is.
LEMMA BuffersFollowStep ==
  ASSUME IngestionIInv, [Next]_vars PROVE BuffersFollowCommit'
<1> USE DEF IngestionIInv
<1>0. config' = config /\ stale \subseteq stale'
  BY HistoryFact
<1>1. ASSUME NEW t \in Tasks, CommitAck(t) PROVE BuffersFollowCommit'
  <2> SUFFICES ASSUME NEW u \in Tasks, NEW q \in Partitions, q \notin stale' PROVE FollowsCommit(u, q)'
    BY DEF BuffersFollowCommit, FollowsCommit
  <2>f. FollowsCommit(u, q)
    BY <1>0 DEF Held, BuffersFollowCommit, FollowsCommit
  <2>m. members' = members
    BY <1>1 DEF CommitAck, groupVars
  <2>p. PICK p : p = Current(t)
    OBVIOUS
  <2>n. PICK n : n = Applied(t)
    OBVIOUS
  <2>b. PICK B : B = task[t].buffers[p]
    OBVIOUS
  <2>c. PICK C : C = task'[t].buffers[p]
    OBVIOUS
  <2>8. \A w \in Tasks, r \in Partitions :
          /\ task'[w].assigned = task[w].assigned /\ task'[w].position[r] = task[w].position[r]
          /\ w # t \/ r # p => task'[w].buffers[r] = task[w].buffers[r]
    BY <1>1, <2>p, CommitEffect
  <2>9. /\ p \in Partitions /\ t \in members /\ task[t].pc = "commit"
        /\ Len(B) \in Nat /\ n \in 1 .. Len(B) /\ B # <<>>
        /\ Len(C) = Len(B) - n
        /\ \A i \in 1 .. Len(C) : C[i] = B[n + i]
    BY <1>1, <2>p, <2>n, <2>b, <2>c, CommitEffect
  <2>10. committed' = [committed EXCEPT ![p] = B[n] + 1]
    BY <1>1, <2>p, <2>n, <2>b, CommitEffect
  <2>2. committed \in [Partitions -> Nat]
    BY DEF Shapes, GroupShape
  <2>3. \A w \in Tasks \ {t} : task'[w] = task[w]
    BY <1>1, CommitAckFact DEF Flushed, Shapes
  <2>4. CASE q # p
    <3>1. committed'[q] = committed[q]
      BY <2>8, <2>9, <2>10, <2>2, <2>4
    <3>2. CASE u # t
      BY <2>3, <2>f, <2>m, <3>1, <3>2 DEF FollowsCommit
    <3>3. CASE u = t
      <4>1. task[t].pc # "fail"
        BY <2>8, <2>9, <2>10
      <4>2. /\ task'[t].buffers[q] = task[t].buffers[q] /\ task'[t].position[q] = task[t].position[q]
            /\ task'[t].assigned = task[t].assigned
        BY <2>8, <2>9, <2>10, <2>4
      <4> QED BY <2>f, <2>m, <3>1, <3>3, <4>1, <4>2 DEF FollowsCommit
    <3> QED BY <3>2, <3>3
  <2>5. CASE q = p /\ u # t
    <3>1. task[u].buffers[q] = <<>> /\ ~(u \in members /\ q \in task[u].assigned)
      BY <1>0, <2>8, <2>9, <2>10, <2>5, <2>b DEF Held, OneHolder
    <3> QED BY <2>3, <2>5, <2>m, <3>1, EmptyFollows
  <2>6. CASE q = p /\ u = t
    <3>c. PICK c : c = committed[p]
      OBVIOUS
    <3>1. /\ c \in Nat /\ \A i \in 1 .. Len(B) : B[i] = c + i - 1
          /\ p \in task[t].assigned => task[t].position[p] = c + Len(B)
      BY <2>8, <2>9, <2>10, <2>2, <2>6, <2>b, <2>f, <3>c DEF FollowsCommit
    <3>2. committed'[p] = B[n] + 1 /\ B[n] = c + n - 1
      BY <2>8, <2>9, <2>10, <2>2, <3>1
    <3>3. committed'[p] = c + n
      BY <2>8, <2>9, <2>10, <3>1, <3>2
    <3>4. ASSUME NEW i \in 1 .. Len(C) PROVE C[i] = committed'[p] + i - 1
      <4>1. n + i \in 1 .. Len(B)
        BY <2>8, <2>9, <2>10
      <4>2. C[i] = c + (n + i) - 1
        BY <2>8, <2>9, <2>10, <3>1, <4>1
      <4> QED BY <2>8, <2>9, <2>10, <3>1, <3>3, <4>2
    <3>5. ASSUME p \in task'[t].assigned PROVE task'[t].position[p] = committed'[p] + Len(C)
      <4>1. task'[t].position[p] = c + Len(B)
        BY <2>8, <2>9, <2>10, <3>1, <3>5
      <4> QED BY <2>8, <2>9, <2>10, <3>1, <3>3, <4>1
    <3> QED BY <2>6, <2>c, <3>4, <3>5 DEF FollowsCommit
  <2> QED BY <2>4, <2>5, <2>6
<1>2. ASSUME NEW t \in Tasks, NEW p \in Partitions, Receive(t, p) PROVE BuffersFollowCommit'
  <2> SUFFICES ASSUME NEW u \in Tasks, NEW q \in Partitions, q \notin stale' PROVE FollowsCommit(u, q)'
    BY DEF BuffersFollowCommit, FollowsCommit
  <2>f. FollowsCommit(u, q)
    BY <1>0 DEF Held, BuffersFollowCommit, FollowsCommit
  <2>m. members' = members /\ committed' = committed
    BY <1>2 DEF Receive, groupVars
  <2>1. \A w \in Tasks \ {t} : task'[w] = task[w]
    BY <1>2, ReceiveFact DEF Flushed, Shapes
  <2>2. CASE u # t
    BY <2>1, <2>2, <2>f, <2>m DEF FollowsCommit
  <2>3. CASE u = t /\ q # p
    <3>1. /\ task'[t].buffers[q] = task[t].buffers[q] /\ task'[t].position[q] = task[t].position[q]
          /\ task'[t].assigned = task[t].assigned /\ task[t].pc # "fail"
      BY <1>2, <2>3, ReceiveEffect
    <3> QED BY <2>3, <2>f, <2>m, <3>1 DEF FollowsCommit
  <2>4. CASE u = t /\ q = p
    <3>b. PICK B : B = task[t].buffers[p]
      OBVIOUS
    <3>c. PICK C : C = task'[t].buffers[p]
      OBVIOUS
    <3>1. /\ Len(B) \in Nat /\ Len(C) = Len(B) + 1 /\ C[Len(B) + 1] = task[t].position[p]
          /\ \A k \in 1 .. Len(B) : C[k] = B[k]
          /\ p \in task[t].assigned /\ task'[t].position[p] = task[t].position[p] + 1
          /\ t \in members /\ task[t].pc # "fail"
      BY <1>2, <3>b, <3>c, ReceiveEffect
    <3>2. committed[p] \in Nat
      BY DEF Shapes, GroupShape
    <3>3. /\ \A i \in 1 .. Len(B) : B[i] = committed[p] + i - 1
          /\ task[t].position[p] = committed[p] + Len(B)
      BY <2>4, <2>f, <3>1, <3>b DEF FollowsCommit
    <3>4. ASSUME NEW i \in 1 .. Len(C) PROVE C[i] = committed[p] + i - 1
      <4>1. CASE i \in 1 .. Len(B)
        BY <3>1, <3>3, <4>1
      <4>2. CASE i = Len(B) + 1
        BY <3>1, <3>2, <3>3, <4>2
      <4> QED BY <3>1, <4>1, <4>2
    <3>5. task'[t].position[p] = committed[p] + Len(C)
      BY <3>1, <3>2, <3>3
    <3> QED BY <2>4, <2>m, <3>4, <3>5, <3>c DEF FollowsCommit
  <2> QED BY <2>2, <2>3, <2>4
<1>3. ASSUME NEW t \in Tasks, NEW P \in SUBSET Partitions, Assign(t, P) PROVE BuffersFollowCommit'
  <2> SUFFICES ASSUME NEW u \in Tasks, NEW q \in Partitions, q \notin stale' PROVE FollowsCommit(u, q)'
    BY DEF BuffersFollowCommit, FollowsCommit
  <2>f. FollowsCommit(u, q)
    BY <1>0 DEF Held, BuffersFollowCommit, FollowsCommit
  <2>m. members' = members /\ committed' = committed
    BY <1>3 DEF Assign, groupVars
  <2>1. /\ \A w \in Tasks : task'[w].buffers[q] = task[w].buffers[q]
        /\ \A w \in Tasks \ {t} : task'[w] = task[w]
        /\ task'[t].assigned = P /\ task[t].pc = "recv"
        /\ q \in P => task'[t].position[q] = committed[q]
    BY <1>3, AssignEffect
  <2>2. CASE u # t
    BY <2>1, <2>2, <2>f, <2>m DEF FollowsCommit
  <2>3. CASE u = t /\ q \notin P
    BY <2>1, <2>3, <2>f, <2>m DEF FollowsCommit
  <2>4. CASE u = t /\ q \in P
    <3>1. task[t].buffers[q] = <<>>
      BY <1>3, <2>4 DEF Assign, Buffered
    <3>2. committed[q] \in Nat
      BY DEF Shapes, GroupShape
    <3>3. task'[t].buffers[q] = <<>> /\ task'[t].position[q] = committed[q]
      BY <2>1, <2>4, <3>1
    <3>4. Len(task'[t].buffers[q]) = 0
      BY <3>3
    <3> QED BY <2>4, <2>m, <3>2, <3>3, <3>4 DEF FollowsCommit
  <2> QED BY <2>2, <2>3, <2>4
<1>4. ASSUME Tame, committed' = committed PROVE BuffersFollowCommit'
  <2> SUFFICES ASSUME NEW u \in Tasks, NEW q \in Partitions, q \notin stale' PROVE FollowsCommit(u, q)'
    BY DEF BuffersFollowCommit, FollowsCommit
  <2>f. FollowsCommit(u, q)
    BY <1>0 DEF Held, BuffersFollowCommit, FollowsCommit
  <2>1. TameAt(u, q)
    BY <1>4 DEF Tame
  <2>2. CASE q \in task'[u].assigned
    BY <1>4, <2>1, <2>2, <2>f DEF TameAt, FollowsCommit
  <2>3. CASE q \notin task'[u].assigned /\ task'[u].buffers[q] = <<>>
    BY <2>3, EmptyFollows
  <2>4. CASE q \notin task'[u].assigned /\ task'[u].buffers[q] # <<>>
    BY <1>4, <2>1, <2>4, <2>f DEF TameAt, FollowsCommit
  <2> QED BY <2>2, <2>3, <2>4
<1>5. ASSUME Tame, NEW t \in Tasks, task[t].pc = "commit", Acknowledge(t), Fail(t)
      PROVE  BuffersFollowCommit'
  <2> SUFFICES ASSUME NEW u \in Tasks, NEW q \in Partitions, q \notin stale' PROVE FollowsCommit(u, q)'
    BY DEF BuffersFollowCommit, FollowsCommit
  <2>f. FollowsCommit(u, q)
    BY <1>0 DEF Held, BuffersFollowCommit, FollowsCommit
  <2>1. /\ Current(t) \in Partitions /\ Buffer(t) # <<>>
        /\ committed' = [committed EXCEPT ![Current(t)] = Buffer(t)[Applied(t)] + 1]
    BY <1>5, CommitFact, AcknowledgeFact
  <2>2. task'[t].pc = "fail"
    BY <1>5, PcFact, PCValues DEF Fail, Shapes
  <2>3. TameAt(u, q)
    BY <1>5 DEF Tame
  <2>4. CASE u = t
    BY <2>2, <2>4 DEF FollowsCommit
  <2>5. CASE u # t /\ q = Current(t)
    <3>1. task[t].buffers[q] # <<>>
      BY <2>1, <2>5 DEF Buffer
    <3>2. task[u].buffers[q] = <<>> /\ ~(u \in members /\ q \in task[u].assigned)
      BY <1>0, <2>5, <3>1 DEF Held, OneHolder
    <3>3. task'[u].buffers[q] = <<>> /\ ~(u \in members' /\ q \in task'[u].assigned)
      BY <2>3, <3>2 DEF TameAt
    <3> QED BY <3>3, EmptyFollows
  <2>6. CASE u # t /\ q # Current(t)
    <3>1. committed'[q] = committed[q]
      BY <2>1, <2>6 DEF Shapes, GroupShape
    <3>2. CASE q \in task'[u].assigned
      BY <2>3, <2>f, <3>1, <3>2 DEF TameAt, FollowsCommit
    <3>3. CASE q \notin task'[u].assigned /\ task'[u].buffers[q] = <<>>
      BY <3>3, EmptyFollows
    <3>4. CASE q \notin task'[u].assigned /\ task'[u].buffers[q] # <<>>
      BY <2>3, <2>f, <3>1, <3>4 DEF TameAt, FollowsCommit
    <3> QED BY <3>2, <3>3, <3>4
  <2> QED BY <2>4, <2>5, <2>6
<1>6. ASSUME Tame PROVE BuffersFollowCommit'
  BY <1>1, <1>4, <1>5, <1>6, LogKinds DEF Commits
<1> QED BY <1>1, <1>2, <1>3, <1>6, TameFact DEF TameStep

-----------------------------------------------------------------------------
(* What the records hold. *)

\* The messages of a batch up to those done with, and the one a write applies.
LEMMA DoneFact ==
  ASSUME Shapes, NEW t \in Tasks, task[t].pc \in Flushing
  PROVE  /\ Current(t) \in Partitions /\ Applied(t) \in 0 .. Len(Buffer(t)) /\ Len(Buffer(t)) \in Nat
         /\ Buffer(t) # <<>>
         /\ \A i \in 1 .. Len(Buffer(t)) :
              Buffer(t)[i] \in Nat /\ MessageAt(Current(t), Buffer(t)[i]).key \in Keys
<1>1. Current(t) \in Partitions /\ Buffer(t) \in Seq(Nat) /\ Buffer(t) # <<>> /\ Len(Buffer(t)) \in Nat
  BY CurrentFact DEF Shapes
<1>2. Applied(t) \in 0 .. Len(Buffer(t))
  <2>1. CASE task[t].pc = "write"
    BY <1>1, <2>1, NextFact
  <2>2. CASE task[t].pc = "deadletter"
    BY <1>1, <2>2, DeadLetterFact
  <2>3. CASE task[t].pc = "commit"
    BY <1>1, <2>3, CommitFact
  <2> QED BY <2>1, <2>2, <2>3 DEF Flushing
<1>3. ASSUME NEW i \in 1 .. Len(Buffer(t))
      PROVE  Buffer(t)[i] \in Nat /\ MessageAt(Current(t), Buffer(t)[i]).key \in Keys
  <2>1. Buffer(t)[i] \in Nat
    BY <1>1
  <2>2. Buffer(t)[i] < End(Current(t))
    BY <1>1 DEF Shapes, OffsetsInTopic, Buffer
  <2>3. End(Current(t)) \in Nat
    BY <1>1, MessageFact DEF Shapes
  <2>4. Buffer(t)[i] \in 0 .. End(Current(t)) - 1
    BY <2>1, <2>2, <2>3
  <2> QED BY <1>1, <2>1, <2>4, MessageFact DEF Shapes
<1> QED BY <1>1, <1>2, <1>3

\* The flush of a partition that was not handed out too early goes on from the committed offset.
LEMMA FlushFollows ==
  ASSUME IngestionIInv, NEW t \in Tasks, task[t].pc \in Flushing, Current(t) \notin stale
  PROVE  \A i \in 1 .. Len(Buffer(t)) : Buffer(t)[i] = committed[Current(t)] + i - 1
<1>1. Current(t) \in Partitions /\ task[t].pc # "fail"
  BY CurrentFact DEF IngestionIInv, Shapes, Flushing
<1> QED BY <1>1 DEF IngestionIInv, Held, BuffersFollowCommit, Buffer

\* A write that is applied sets one record of one partition to the next message.
LEMMA AppliesFact ==
  ASSUME IngestionIInv, Applies
  PROVE  \E t \in Tasks : \E o \in Nat, k \in Keys :
           /\ task[t].pc = "write" /\ Current(t) \in Partitions
           /\ stored' = [stored EXCEPT ![Current(t)][k] = o + 1]
           /\ Applied(t) \in Nat /\ Applied(t) + 1 \in 1 .. Len(Buffer(t))
           /\ o = Buffer(t)[Applied(t) + 1]
<1>1. PICK t \in Tasks : task[t].pc = "write" /\ Apply(t)
  BY DEF Applies
<1>o. PICK o : o = Buffer(t)[Applied(t) + 1]
  OBVIOUS
<1>2. /\ Current(t) \in Partitions /\ Len(Buffer(t)) \in Nat /\ Applied(t) \in Nat
      /\ Applied(t) + 1 \in 1 .. Len(Buffer(t)) /\ o \in 0 .. End(Current(t)) - 1
  BY <1>1, <1>o, NextFact DEF IngestionIInv
<1>3. o \in Nat /\ MessageAt(Current(t), o).key \in Keys
  BY <1>2, MessageFact DEF IngestionIInv, Shapes
<1>4. stored' = [stored EXCEPT ![Current(t)][MessageAt(Current(t), o).key] = o + 1]
  BY <1>1, <1>o, ApplyFact DEF IngestionIInv
<1> QED BY <1>1, <1>2, <1>3, <1>4, <1>o

\* No write lets a record fall back behind a message that was done with, or committed.
LEMMA StoredKept ==
  ASSUME IngestionIInv, [Next]_vars, NEW q \in Partitions, q \notin stale, NEW k \in Keys,
         NEW o \in Nat, stored[q][k] > o,
         \A t \in Tasks : task[t].pc = "write" /\ Current(t) = q => o < committed[q] + Applied(t)
  PROVE  stored'[q][k] > o
<1>1. stored \in [Partitions -> [Keys -> Nat]] /\ committed[q] \in Nat
  BY DEF IngestionIInv, Shapes, LogShape, GroupShape
<1>2. CASE stored' = stored
  BY <1>2
<1>3. CASE Applies
  <2>1. PICK t \in Tasks : \E x \in Nat, j \in Keys :
           /\ task[t].pc = "write" /\ Current(t) \in Partitions
           /\ stored' = [stored EXCEPT ![Current(t)][j] = x + 1]
           /\ Applied(t) \in Nat /\ Applied(t) + 1 \in 1 .. Len(Buffer(t))
           /\ x = Buffer(t)[Applied(t) + 1]
    BY <1>3, AppliesFact
  <2>2. PICK x \in Nat, j \in Keys :
           /\ task[t].pc = "write" /\ Current(t) \in Partitions
           /\ stored' = [stored EXCEPT ![Current(t)][j] = x + 1]
           /\ Applied(t) \in Nat /\ Applied(t) + 1 \in 1 .. Len(Buffer(t))
           /\ x = Buffer(t)[Applied(t) + 1]
    BY <2>1
  <2>3. CASE Current(t) # q \/ j # k
    BY <1>1, <2>2, <2>3
  <2>4. CASE Current(t) = q /\ j = k
    <3>1. stored'[q][k] = x + 1
      BY <1>1, <2>2, <2>4
    <3>2. x = committed[q] + (Applied(t) + 1) - 1
      BY <2>2, <2>4, FlushFollows DEF Flushing
    <3>3. o < committed[q] + Applied(t)
      BY <2>2, <2>4
    <3> QED BY <1>1, <2>2, <3>1, <3>2, <3>3
  <2> QED BY <2>3, <2>4
<1>4. CASE DeadLetters
  BY <1>4 DEF DeadLetters
<1> QED BY <1>2, <1>3, <1>4, LogKinds

\* The messages of a batch that are done with stay stored.
LEMMA DoneStored ==
  ASSUME IngestionIInv, [Next]_vars, NEW u \in Tasks, task[u].pc \in Flushing, Current(u) \notin stale,
         NEW i \in 1 .. Applied(u), MessageAt(Current(u), Buffer(u)[i]).kind = "write"
  PROVE  stored'[Current(u)][MessageAt(Current(u), Buffer(u)[i]).key] > Buffer(u)[i]
<1>q. PICK q : q = Current(u)
  OBVIOUS
<1>o. PICK o : o = Buffer(u)[i]
  OBVIOUS
<1>k. PICK k : k = MessageAt(q, o).key
  OBVIOUS
<1>1. /\ q \in Partitions /\ Applied(u) \in 0 .. Len(Buffer(u)) /\ Len(Buffer(u)) \in Nat
      /\ i \in 1 .. Len(Buffer(u)) /\ o \in Nat /\ k \in Keys /\ Buffer(u) # <<>>
  BY <1>q, <1>o, <1>k, DoneFact DEF IngestionIInv
<1>2. stored[q][k] > o
  BY <1>q, <1>o, <1>k DEF IngestionIInv, Held, AppliedStored
<1>3. ASSUME NEW t \in Tasks, task[t].pc = "write", Current(t) = q
      PROVE  o < committed[q] + Applied(t)
  <2>1. task[t].buffers[q] # <<>> /\ task[u].buffers[q] # <<>>
    BY <1>1, <1>3, <1>q, DoneFact DEF IngestionIInv, Flushing, Buffer
  <2>2. t = u
    BY <1>1, <1>q, <2>1 DEF IngestionIInv, Held, OneHolder
  <2>3. o = committed[q] + i - 1
    BY <1>1, <1>o, <1>q, FlushFollows
  <2>4. committed[q] \in Nat
    BY <1>1 DEF IngestionIInv, Shapes, GroupShape
  <2>5. i <= Applied(t) /\ Applied(t) \in Nat /\ i \in Nat
    BY <1>1, <2>2
  <2> QED BY <2>3, <2>4, <2>5
<1>4. stored'[q][k] > o
  BY <1>1, <1>2, <1>3, <1>q, StoredKept
<1> QED BY <1>4, <1>q, <1>o, <1>k

\* The part of AppliedStored for one task.
StoredOK(u) ==
  task[u].pc \in Flushing /\ Current(u) \notin stale =>
    \A i \in 1 .. Applied(u) : MessageAt(Current(u), Buffer(u)[i]).kind = "write" =>
      stored[Current(u)][MessageAt(Current(u), Buffer(u)[i]).key] > Buffer(u)[i]

\* What is done with is stored.
LEMMA AppliedStoredStep ==
  ASSUME IngestionIInv, [Next]_vars PROVE AppliedStored'
<1> USE DEF IngestionIInv
<1>0. config' = config /\ stale \subseteq stale'
        /\ \A q \in Partitions : handled[q] \subseteq handled'[q]
  BY HistoryFact
<1>t. TasksShape'
  BY TasksStep
<1> SUFFICES ASSUME NEW u \in Tasks PROVE StoredOK(u)'
  BY DEF AppliedStored, StoredOK
<1>m. \A q, o : MessageAt(q, o)' = MessageAt(q, o)
  BY <1>0, TopicStays
<1>2. ASSUME SameFlush(u) PROVE StoredOK(u)'
  <2>1. /\ Current(u)' = Current(u) /\ Buffer(u)' = Buffer(u) /\ Applied(u)' = Applied(u)
        /\ task'[u].pc = task[u].pc
    BY <1>0, <1>2, SameEffect DEF SameFlush
  <2> SUFFICES ASSUME task[u].pc \in Flushing, Current(u) \notin stale, NEW i \in 1 .. Applied(u),
                      MessageAt(Current(u), Buffer(u)[i]).kind = "write"
               PROVE  stored'[Current(u)][MessageAt(Current(u), Buffer(u)[i]).key] > Buffer(u)[i]
    BY <1>0, <1>m, <2>1 DEF StoredOK
  <2> QED BY DoneStored
<1>3. ASSUME FreshFlush(u) PROVE StoredOK(u)'
  BY <1>t, <1>3, FreshEffect DEF StoredOK
<1>4. ASSUME task'[u].pc \notin Flushing PROVE StoredOK(u)'
  BY <1>4 DEF StoredOK
<1>5. ASSUME NEW t \in Tasks, WriteRecord(t) PROVE StoredOK(u)'
  <2>1. CASE u # t
    BY <1>0, <1>2, <1>5, <2>1, WriteEffect
  <2>2. CASE u = t
    <3>1. /\ Current(u)' = Current(u) /\ Buffer(u)' = Buffer(u) /\ Applied(u)' = Applied(u) + 1
          /\ task[u].pc = "write" /\ Apply(u)
      BY <1>0, <1>5, <2>2, WriteEffect
    <3>2. Applied(u) \in Nat /\ Current(u) \in Partitions /\ task[u].pc \in Flushing
      BY <3>1, NextFact DEF Flushing
    <3> SUFFICES ASSUME Current(u) \notin stale, NEW i \in 1 .. Applied(u) + 1,
                        MessageAt(Current(u), Buffer(u)[i]).kind = "write"
                 PROVE  stored'[Current(u)][MessageAt(Current(u), Buffer(u)[i]).key] > Buffer(u)[i]
      BY <1>0, <1>m, <3>1 DEF StoredOK
    <3>3. CASE i \in 1 .. Applied(u)
      BY <3>2, <3>3, DoneStored
    <3>4. CASE i = Applied(u) + 1
      <4>o. PICK o : o = Buffer(u)[i]
        OBVIOUS
      <4>1. stored' = [stored EXCEPT ![Current(u)][MessageAt(Current(u), o).key] = o + 1]
        BY <3>1, <3>4, <4>o, ApplyFact
      <4>2. o \in Nat /\ MessageAt(Current(u), o).key \in Keys
        <5>1. i \in 1 .. Len(Buffer(u))
          BY <3>1, <3>4, NextFact
        <5> QED BY <3>2, <4>o, <5>1, DoneFact
      <4>3. stored'[Current(u)][MessageAt(Current(u), o).key] = o + 1
        BY <3>2, <4>1, <4>2 DEF Shapes, LogShape
      <4> QED BY <4>2, <4>3, <4>o
    <3> QED BY <3>2, <3>3, <3>4
  <2> QED BY <2>1, <2>2
<1>6. ASSUME NEW t \in Tasks, PublishDlq(t) PROVE StoredOK(u)'
  <2>1. CASE u # t
    BY <1>0, <1>2, <1>6, <2>1, PublishEffect
  <2>2. CASE u = t
    <3>1. /\ Current(u)' = Current(u) /\ Buffer(u)' = Buffer(u) /\ Applied(u)' = 1
          /\ task[u].pc = "deadletter"
      BY <1>0, <1>6, <2>2, PublishEffect
    <3>2. MessageAt(Current(u), Buffer(u)[1]).kind = "poison"
      BY <3>1, DeadLetterFact
    <3> QED BY <1>m, <3>1, <3>2 DEF StoredOK
  <2> QED BY <2>1, <2>2
<1> QED BY <1>2, <1>3, <1>4, <1>5, <1>6, FlushFacts DEF FlushStep, FlushAt

\* No committed message is hidden by an older one.
LEMMA NotOverwrittenStep ==
  ASSUME IngestionIInv, [Next]_vars PROVE CommittedNotOverwritten'
<1> USE DEF IngestionIInv
<1>0. config' = config /\ stale \subseteq stale'
  BY HistoryFact
<1>m. \A q, o : MessageAt(q, o)' = MessageAt(q, o)
  BY <1>0, TopicStays
<1> SUFFICES ASSUME NEW q \in Partitions, q \notin stale', NEW o \in 0 .. committed'[q] - 1,
                    MessageAt(q, o).kind = "write"
             PROVE  stored'[q][MessageAt(q, o).key] > o
  BY <1>m DEF CommittedNotOverwritten
<1>1. q \notin stale /\ committed \in [Partitions -> Nat] /\ committed[q] <= End(q) /\ End(q) \in Nat
  BY <1>0, MessageFact DEF Shapes, GroupShape
<1>2. CASE o \in 0 .. committed[q] - 1
  <2>1. o \in 0 .. End(q) - 1 /\ o \in Nat /\ committed[q] \in Nat
    BY <1>1, <1>2
  <2>2. MessageAt(q, o).key \in Keys
    BY <2>1, MessageFact DEF Shapes
  <2>3. stored[q][MessageAt(q, o).key] > o
    BY <1>1, <1>2 DEF Held, CommittedNotOverwritten
  <2>4. ASSUME NEW t \in Tasks, task[t].pc = "write" PROVE o < committed[q] + Applied(t)
    <3>1. Applied(t) \in Nat
      BY <2>4, NextFact
    <3> QED BY <1>2, <2>1, <3>1
  <2> QED BY <1>1, <2>1, <2>2, <2>3, <2>4, StoredKept
<1>3. CASE o \notin 0 .. committed[q] - 1
  <2>1. committed' # committed
    BY <1>3
  <2>2. PICK t \in Tasks : task[t].pc = "commit" /\ Acknowledge(t)
    BY <2>1, LogKinds DEF Commits
  <2>3. /\ Current(t) \in Partitions /\ Len(Buffer(t)) \in Nat /\ Applied(t) \in 1 .. Len(Buffer(t))
        /\ committed' = [committed EXCEPT ![Current(t)] = Buffer(t)[Applied(t)] + 1]
        /\ Buffer(t)[Applied(t)] \in Nat
    BY <2>2, CommitFact, AcknowledgeFact
  <2>4. q = Current(t)
    BY <1>1, <1>3, <2>3
  <2>c. PICK c : c = committed[q]
    OBVIOUS
  <2>5. \A i \in 1 .. Len(Buffer(t)) : Buffer(t)[i] = c + i - 1
    BY <1>1, <2>2, <2>4, <2>c, FlushFollows DEF Flushing
  <2>6. c \in Nat /\ committed'[q] = Buffer(t)[Applied(t)] + 1
    BY <1>1, <2>3, <2>4, <2>c
  <2>7. committed'[q] = c + Applied(t)
    BY <2>3, <2>5, <2>6
  <2>8. o \in Nat /\ o >= c /\ o < c + Applied(t)
    BY <1>3, <2>3, <2>6, <2>7, <2>c
  <2>i. PICK i : i = o - c + 1
    OBVIOUS
  <2>9. i \in 1 .. Applied(t) /\ c + i - 1 = o
    BY <2>3, <2>6, <2>8, <2>i
  <2>10. Buffer(t)[i] = o
    BY <2>3, <2>5, <2>9
  <2> QED BY <1>1, <2>2, <2>4, <2>9, <2>10, DoneStored DEF Flushing
<1> QED BY <1>2, <1>3

-----------------------------------------------------------------------------
(* The managed stream and the process. *)

\* A process that is down runs no task and knows no stream.
LEMMA DownStep ==
  ASSUME IngestionIInv, [Next]_vars PROVE DownIsEmpty'
<1> USE DEF IngestionIInv, groupVars
<1>1. ASSUME NEW t \in Tasks, Subscribe(t) PROVE DownIsEmpty'
  BY <1>1 DEF Subscribe, DownIsEmpty
<1>2. ASSUME NEW t \in Tasks, LoopTop(t) PROVE DownIsEmpty'
  BY <1>2 DEF LoopTop, DownIsEmpty
<1>3. ASSUME NEW t \in Tasks, Linger(t) PROVE DownIsEmpty'
  BY <1>3 DEF Linger, Polls, DownIsEmpty
<1>4. ASSUME NEW t \in Tasks, ClientError(t) PROVE DownIsEmpty'
  BY <1>4 DEF ClientError, Fail, Polls, DownIsEmpty
<1>5. ASSUME NEW t \in Tasks, WriteRecord(t) PROVE DownIsEmpty'
  BY <1>5 DEF WriteRecord, DownIsEmpty
<1>6. ASSUME NEW t \in Tasks, WriteFails(t) PROVE DownIsEmpty'
  BY <1>6 DEF WriteFails, Fail, DownIsEmpty
<1>7. ASSUME NEW t \in Tasks, PublishDlq(t) PROVE DownIsEmpty'
  BY <1>7 DEF PublishDlq, DownIsEmpty
<1>8. ASSUME NEW t \in Tasks, PublishDlqFails(t) PROVE DownIsEmpty'
  BY <1>8 DEF PublishDlqFails, Fail, DownIsEmpty
<1>9. ASSUME NEW t \in Tasks, CommitAck(t) PROVE DownIsEmpty'
  BY <1>9 DEF CommitAck, DownIsEmpty
<1>10. ASSUME NEW t \in Tasks, CommitFails(t) PROVE DownIsEmpty'
  BY <1>10 DEF CommitFails, Fail, DownIsEmpty
<1>11. ASSUME NEW t \in Tasks, ManagedTaskFails(t) PROVE DownIsEmpty'
  BY <1>11 DEF ManagedTaskFails, TaskEnds, DownIsEmpty
<1>12. ASSUME NEW t \in Tasks, ManagedTaskStops(t) PROVE DownIsEmpty'
  BY <1>12 DEF ManagedTaskStops, TaskEnds, DownIsEmpty
<1>13. ASSUME NEW t \in Tasks, ConfiguredTaskEnds(t) PROVE DownIsEmpty'
  BY <1>13, HaltFact DEF ConfiguredTaskEnds, Halt, DownIsEmpty
<1>14. ASSUME NEW t \in Tasks, AbortTakesEffect(t) PROVE DownIsEmpty'
  BY <1>14 DEF AbortTakesEffect, TaskEnds, DownIsEmpty
<1>15. ASSUME NEW t \in Tasks, CreateStream(t) PROVE DownIsEmpty'
  BY <1>15 DEF CreateStream, StreamRequest, DownIsEmpty
<1>16. ASSUME NEW t \in Tasks, ResumeStream(t) PROVE DownIsEmpty'
  BY <1>16 DEF ResumeStream, StreamRequest, DownIsEmpty
<1>17. ASSUME NEW t \in Tasks, Revoke(t) PROVE DownIsEmpty'
  BY <1>17 DEF Revoke, Polls, DownIsEmpty
<1>18. ASSUME NEW t \in Tasks, Expel(t) PROVE DownIsEmpty'
  BY <1>18 DEF Expel, DownIsEmpty
<1>19. ASSUME NEW t \in Tasks, NEW p \in Partitions, Receive(t, p) PROVE DownIsEmpty'
  BY <1>19 DEF Receive, Polls, DownIsEmpty
<1>20. ASSUME NEW t \in Tasks, NEW P \in SUBSET Partitions, Assign(t, P) PROVE DownIsEmpty'
  BY <1>20 DEF Assign, Polls, DownIsEmpty
<1>21. ASSUME PauseStream PROVE DownIsEmpty'
  BY <1>21 DEF PauseStream, StreamRequest, DownIsEmpty
<1>22. ASSUME Start PROVE DownIsEmpty'
  BY <1>22 DEF Start, Spawn, DownIsEmpty
<1>23. ASSUME BeginDraining PROVE DownIsEmpty'
  BY <1>23 DEF BeginDraining, DownIsEmpty
<1>24. ASSUME Exit PROVE DownIsEmpty'
  BY <1>24, HaltFact DEF Exit, Halt, DownIsEmpty
<1>25. ASSUME Crash PROVE DownIsEmpty'
  BY <1>25, HaltFact DEF Crash, Halt, DownIsEmpty
<1>26. ASSUME UNCHANGED vars PROVE DownIsEmpty'
  BY <1>26 DEF vars, DownIsEmpty
<1> QED BY StepKinds, <1>1, <1>2, <1>3, <1>4, <1>5, <1>6, <1>7, <1>8, <1>9, <1>10, <1>11, <1>12,
      <1>13, <1>14, <1>15, <1>16, <1>17, <1>18, <1>19, <1>20, <1>21, <1>22, <1>23, <1>24, <1>25,
      <1>26

\* A task drains, or stops, when the process drains.
DrainsOK(u) ==
  (task[u].pc \in Flushing /\ task[u].mode = "drain") \/ task[u].pc = "stop" => IsDraining

\* No task stops unless the process drains.
LEMMA DrainsStep ==
  ASSUME IngestionIInv, [Next]_vars PROVE DrainsWhenAsked'
<1> USE DEF IngestionIInv, Shapes, groupVars
<1>x. \A u \in Tasks : DrainsOK(u)
  BY DEF DrainsWhenAsked, DrainsOK
<1>1. ASSUME NEW t \in Tasks, Subscribe(t) PROVE DrainsWhenAsked'
  <2>1. ASSUME NEW u \in Tasks PROVE DrainsOK(u)'
    <3>1. CASE u # t
      <4>1. task'[u] = task[u]
        BY <1>1, <3>1, PcFact, PCValues DEF Subscribe
      <4>2. server' = server
        BY <1>1 DEF Subscribe
      <4> QED BY <1>x, <4>1, <4>2 DEF DrainsOK, IsDraining
    <3>2. CASE u = t
      BY <1>1, <1>x, <3>2, PcFact, PCValues DEF Subscribe, Flushing, IsDraining, DrainsOK
    <3> QED BY <3>1, <3>2
  <2> QED BY <2>1 DEF DrainsWhenAsked, DrainsOK
<1>2. ASSUME NEW t \in Tasks, LoopTop(t) PROVE DrainsWhenAsked'
  <2>1. ASSUME NEW u \in Tasks PROVE DrainsOK(u)'
    <3>1. CASE u # t
      <4>1. task'[u] = task[u]
        BY <1>2, <3>1, LoopFact DEF LoopTop, Flushed
      <4>2. server' = server
        BY <1>2 DEF LoopTop
      <4> QED BY <1>x, <4>1, <4>2 DEF DrainsOK, IsDraining
    <3>2. CASE u = t
      <4>1. server' = server
        BY <1>2 DEF LoopTop
      <4> QED BY <1>2, <3>2, <4>1, LoopFact DEF Flushed, Flushing, IsDraining, DrainsOK
    <3> QED BY <3>1, <3>2
  <2> QED BY <2>1 DEF DrainsWhenAsked, DrainsOK
<1>3. ASSUME NEW t \in Tasks, Linger(t) PROVE DrainsWhenAsked'
  <2>1. ASSUME NEW u \in Tasks PROVE DrainsOK(u)'
    <3>1. CASE u # t
      <4>1. task'[u] = task[u]
        BY <1>3, <3>1, LingerFact DEF Linger, Polls, Flushed
      <4>2. server' = server
        BY <1>3 DEF Linger, Polls
      <4> QED BY <1>x, <4>1, <4>2 DEF DrainsOK, IsDraining
    <3>2. CASE u = t
      <4>1. server' = server
        BY <1>3 DEF Linger, Polls
      <4> QED BY <1>3, <3>2, <4>1, LingerFact DEF Flushed, Flushing, IsDraining, DrainsOK
    <3> QED BY <3>1, <3>2
  <2> QED BY <2>1 DEF DrainsWhenAsked, DrainsOK
<1>4. ASSUME NEW t \in Tasks, ClientError(t) PROVE DrainsWhenAsked'
  <2>1. ASSUME NEW u \in Tasks PROVE DrainsOK(u)'
    <3>1. CASE u # t
      <4>1. task'[u] = task[u]
        BY <1>4, <3>1, PcFact, PCValues DEF ClientError, Fail, Polls, Fail
      <4>2. server' = server
        BY <1>4 DEF ClientError, Fail, Polls
      <4> QED BY <1>x, <4>1, <4>2 DEF DrainsOK, IsDraining
    <3>2. CASE u = t
      BY <1>4, <1>x, <3>2, PcFact, PCValues DEF ClientError, Fail, Polls, Fail, Flushing,
            IsDraining, DrainsOK
    <3> QED BY <3>1, <3>2
  <2> QED BY <2>1 DEF DrainsWhenAsked, DrainsOK
<1>5. ASSUME NEW t \in Tasks, WriteRecord(t) PROVE DrainsWhenAsked'
  <2>1. ASSUME NEW u \in Tasks PROVE DrainsOK(u)'
    <3>1. CASE u # t
      <4>1. task'[u] = task[u]
        BY <1>5, <3>1, WriteFact DEF WriteRecord
      <4>2. server' = server
        BY <1>5 DEF WriteRecord
      <4> QED BY <1>x, <4>1, <4>2 DEF DrainsOK, IsDraining
    <3>2. CASE u = t
      <4>1. /\ task'[t].pc \in {"write", "commit"} /\ task'[t].mode = task[t].mode
            /\ server' = server /\ task[t].pc = "write"
        <5>1. task'[t].pc \in {"write", "commit"} /\ task'[t].mode = task[t].mode
          BY <1>5, WriteFact
        <5>2. server' = server /\ task[t].pc = "write"
          BY <1>5 DEF WriteRecord
        <5> QED BY <5>1, <5>2
      <4> QED BY <1>x, <3>2, <4>1 DEF Flushing, IsDraining, DrainsOK
    <3> QED BY <3>1, <3>2
  <2> QED BY <2>1 DEF DrainsWhenAsked, DrainsOK
<1>6. ASSUME NEW t \in Tasks, WriteFails(t) PROVE DrainsWhenAsked'
  <2>1. ASSUME NEW u \in Tasks PROVE DrainsOK(u)'
    <3>1. CASE u # t
      <4>1. task'[u] = task[u]
        BY <1>6, <3>1, PcFact, PCValues DEF WriteFails, Fail
      <4>2. server' = server
        BY <1>6 DEF WriteFails, Fail
      <4> QED BY <1>x, <4>1, <4>2 DEF DrainsOK, IsDraining
    <3>2. CASE u = t
      BY <1>6, <1>x, <3>2, PcFact, PCValues DEF WriteFails, Fail, Flushing, IsDraining, DrainsOK
    <3> QED BY <3>1, <3>2
  <2> QED BY <2>1 DEF DrainsWhenAsked, DrainsOK
<1>7. ASSUME NEW t \in Tasks, PublishDlq(t) PROVE DrainsWhenAsked'
  <2>1. ASSUME NEW u \in Tasks PROVE DrainsOK(u)'
    <3>1. CASE u # t
      <4>1. task'[u] = task[u]
        BY <1>7, <3>1, PcFact, PCValues DEF PublishDlq
      <4>2. server' = server
        BY <1>7 DEF PublishDlq
      <4> QED BY <1>x, <4>1, <4>2 DEF DrainsOK, IsDraining
    <3>2. CASE u = t
      BY <1>7, <1>x, <3>2, PcFact, PCValues DEF PublishDlq, Flushing, IsDraining, DrainsOK
    <3> QED BY <3>1, <3>2
  <2> QED BY <2>1 DEF DrainsWhenAsked, DrainsOK
<1>8. ASSUME NEW t \in Tasks, PublishDlqFails(t) PROVE DrainsWhenAsked'
  <2>1. ASSUME NEW u \in Tasks PROVE DrainsOK(u)'
    <3>1. CASE u # t
      <4>1. task'[u] = task[u]
        BY <1>8, <3>1, PcFact, PCValues DEF PublishDlqFails, Fail
      <4>2. server' = server
        BY <1>8 DEF PublishDlqFails, Fail
      <4> QED BY <1>x, <4>1, <4>2 DEF DrainsOK, IsDraining
    <3>2. CASE u = t
      BY <1>8, <1>x, <3>2, PcFact, PCValues DEF PublishDlqFails, Fail, Flushing, IsDraining,
            DrainsOK
    <3> QED BY <3>1, <3>2
  <2> QED BY <2>1 DEF DrainsWhenAsked, DrainsOK
<1>9. ASSUME NEW t \in Tasks, CommitAck(t) PROVE DrainsWhenAsked'
  <2>1. ASSUME NEW u \in Tasks PROVE DrainsOK(u)'
    <3>1. CASE u # t
      <4>1. task'[u] = task[u]
        BY <1>9, <3>1, CommitAckFact DEF CommitAck, Flushed
      <4>2. server' = server
        BY <1>9 DEF CommitAck
      <4> QED BY <1>x, <4>1, <4>2 DEF DrainsOK, IsDraining
    <3>2. CASE u = t
      <4>1. server' = server
        BY <1>9 DEF CommitAck
      <4>2. task[t].mode = "drain" => IsDraining
        BY <1>9, <1>x DEF CommitAck, DrainsOK, Flushing
      <4> QED BY <1>9, <3>2, <4>1, <4>2, CommitAckFact DEF Flushed, Flushing, IsDraining, DrainsOK
    <3> QED BY <3>1, <3>2
  <2> QED BY <2>1 DEF DrainsWhenAsked, DrainsOK
<1>10. ASSUME NEW t \in Tasks, CommitFails(t) PROVE DrainsWhenAsked'
  <2>1. ASSUME NEW u \in Tasks PROVE DrainsOK(u)'
    <3>1. CASE u # t
      <4>1. task'[u] = task[u]
        BY <1>10, <3>1, PcFact, PCValues DEF CommitFails, Fail
      <4>2. server' = server
        BY <1>10 DEF CommitFails, Fail
      <4> QED BY <1>x, <4>1, <4>2 DEF DrainsOK, IsDraining
    <3>2. CASE u = t
      BY <1>10, <1>x, <3>2, PcFact, PCValues DEF CommitFails, Fail, Flushing, IsDraining, DrainsOK
    <3> QED BY <3>1, <3>2
  <2> QED BY <2>1 DEF DrainsWhenAsked, DrainsOK
<1>11. ASSUME NEW t \in Tasks, ManagedTaskFails(t) PROVE DrainsWhenAsked'
  <2>1. ASSUME NEW u \in Tasks PROVE DrainsOK(u)'
    <3>1. CASE u # t
      <4>1. task'[u] = task[u]
        BY <1>11, <3>1, EndFact DEF ManagedTaskFails, TaskEnds
      <4>2. server' = server
        BY <1>11 DEF ManagedTaskFails, TaskEnds
      <4> QED BY <1>x, <4>1, <4>2 DEF DrainsOK, IsDraining
    <3>2. CASE u = t
      BY <1>11, <1>x, <3>2, EndFact DEF ManagedTaskFails, TaskEnds, Flushing, IsDraining, DrainsOK
    <3> QED BY <3>1, <3>2
  <2> QED BY <2>1 DEF DrainsWhenAsked, DrainsOK
<1>12. ASSUME NEW t \in Tasks, ManagedTaskStops(t) PROVE DrainsWhenAsked'
  <2>1. ASSUME NEW u \in Tasks PROVE DrainsOK(u)'
    <3>1. CASE u # t
      <4>1. task'[u] = task[u]
        BY <1>12, <3>1, EndFact DEF ManagedTaskStops, TaskEnds
      <4>2. server' = server
        BY <1>12 DEF ManagedTaskStops, TaskEnds
      <4> QED BY <1>x, <4>1, <4>2 DEF DrainsOK, IsDraining
    <3>2. CASE u = t
      BY <1>12, <1>x, <3>2, EndFact DEF ManagedTaskStops, TaskEnds, Flushing, IsDraining, DrainsOK
    <3> QED BY <3>1, <3>2
  <2> QED BY <2>1 DEF DrainsWhenAsked, DrainsOK
<1>13. ASSUME NEW t \in Tasks, ConfiguredTaskEnds(t) PROVE DrainsWhenAsked'
  <2>1. ASSUME NEW u \in Tasks PROVE DrainsOK(u)'
    BY <1>13, <1>x, HaltFact DEF ConfiguredTaskEnds, Halt, Flushing, IsDraining, DrainsOK
  <2> QED BY <2>1 DEF DrainsWhenAsked, DrainsOK
<1>14. ASSUME NEW t \in Tasks, AbortTakesEffect(t) PROVE DrainsWhenAsked'
  <2>1. ASSUME NEW u \in Tasks PROVE DrainsOK(u)'
    <3>1. CASE u # t
      <4>1. task'[u] = task[u]
        BY <1>14, <3>1, EndFact DEF AbortTakesEffect, TaskEnds
      <4>2. server' = server
        BY <1>14 DEF AbortTakesEffect, TaskEnds
      <4> QED BY <1>x, <4>1, <4>2 DEF DrainsOK, IsDraining
    <3>2. CASE u = t
      BY <1>14, <1>x, <3>2, EndFact DEF AbortTakesEffect, TaskEnds, Flushing, IsDraining, DrainsOK
    <3> QED BY <3>1, <3>2
  <2> QED BY <2>1 DEF DrainsWhenAsked, DrainsOK
<1>15. ASSUME NEW t \in Tasks, CreateStream(t) PROVE DrainsWhenAsked'
  <2>1. ASSUME NEW u \in Tasks PROVE DrainsOK(u)'
    <3>1. CASE u # t
      <4>1. task'[u] = task[u]
        BY <1>15, <3>1, SpawnFact DEF CreateStream, StreamRequest
      <4>2. server' = server
        BY <1>15 DEF CreateStream, StreamRequest
      <4> QED BY <1>x, <4>1, <4>2 DEF DrainsOK, IsDraining
    <3>2. CASE u = t
      BY <1>15, <1>x, <3>2, SpawnFact DEF CreateStream, StreamRequest, Flushing, IsDraining,
            DrainsOK
    <3> QED BY <3>1, <3>2
  <2> QED BY <2>1 DEF DrainsWhenAsked, DrainsOK
<1>16. ASSUME NEW t \in Tasks, ResumeStream(t) PROVE DrainsWhenAsked'
  <2>1. ASSUME NEW u \in Tasks PROVE DrainsOK(u)'
    <3>1. CASE u # t
      <4>1. task'[u] = task[u]
        BY <1>16, <3>1, SpawnFact DEF ResumeStream, StreamRequest
      <4>2. server' = server
        BY <1>16 DEF ResumeStream, StreamRequest
      <4> QED BY <1>x, <4>1, <4>2 DEF DrainsOK, IsDraining
    <3>2. CASE u = t
      BY <1>16, <1>x, <3>2, SpawnFact DEF ResumeStream, StreamRequest, Flushing, IsDraining,
            DrainsOK
    <3> QED BY <3>1, <3>2
  <2> QED BY <2>1 DEF DrainsWhenAsked, DrainsOK
<1>17. ASSUME NEW t \in Tasks, Revoke(t) PROVE DrainsWhenAsked'
  <2>1. ASSUME NEW u \in Tasks PROVE DrainsOK(u)'
    <3>1. CASE u # t
      <4>1. task'[u] = task[u]
        BY <1>17, <3>1, RevokeFact DEF Revoke, Polls
      <4>2. server' = server
        BY <1>17 DEF Revoke, Polls
      <4> QED BY <1>x, <4>1, <4>2 DEF DrainsOK, IsDraining
    <3>2. CASE u = t
      BY <1>17, <1>x, <3>2, RevokeFact DEF Revoke, Polls, Flushing, IsDraining, DrainsOK
    <3> QED BY <3>1, <3>2
  <2> QED BY <2>1 DEF DrainsWhenAsked, DrainsOK
<1>18. ASSUME NEW t \in Tasks, Expel(t) PROVE DrainsWhenAsked'
  <2>1. ASSUME NEW u \in Tasks PROVE DrainsOK(u)'
    BY <1>18, <1>x DEF Expel, Flushing, IsDraining, DrainsOK
  <2> QED BY <2>1 DEF DrainsWhenAsked, DrainsOK
<1>19. ASSUME NEW t \in Tasks, NEW p \in Partitions, Receive(t, p) PROVE DrainsWhenAsked'
  <2>1. ASSUME NEW u \in Tasks PROVE DrainsOK(u)'
    <3>1. CASE u # t
      <4>1. task'[u] = task[u]
        BY <1>19, <3>1, ReceiveFact DEF Receive, Polls, Flushed
      <4>2. server' = server
        BY <1>19 DEF Receive, Polls
      <4> QED BY <1>x, <4>1, <4>2 DEF DrainsOK, IsDraining
    <3>2. CASE u = t
      <4>1. server' = server
        BY <1>19 DEF Receive, Polls
      <4> QED BY <1>19, <3>2, <4>1, ReceiveFact DEF Flushed, Flushing, IsDraining, DrainsOK
    <3> QED BY <3>1, <3>2
  <2> QED BY <2>1 DEF DrainsWhenAsked, DrainsOK
<1>20. ASSUME NEW t \in Tasks, NEW P \in SUBSET Partitions, Assign(t, P) PROVE DrainsWhenAsked'
  <2>1. ASSUME NEW u \in Tasks PROVE DrainsOK(u)'
    <3>1. CASE u # t
      <4>1. task'[u] = task[u]
        BY <1>20, <3>1, AssignFact DEF Assign, Polls
      <4>2. server' = server
        BY <1>20 DEF Assign, Polls
      <4> QED BY <1>x, <4>1, <4>2 DEF DrainsOK, IsDraining
    <3>2. CASE u = t
      BY <1>20, <1>x, <3>2, AssignFact DEF Assign, Polls, Flushing, IsDraining, DrainsOK
    <3> QED BY <3>1, <3>2
  <2> QED BY <2>1 DEF DrainsWhenAsked, DrainsOK
<1>21. ASSUME PauseStream PROVE DrainsWhenAsked'
  <2>1. ASSUME NEW u \in Tasks PROVE DrainsOK(u)'
    BY <1>21, <1>x, PauseFact DEF PauseStream, StreamRequest, Flushing, IsDraining, DrainsOK
  <2> QED BY <2>1 DEF DrainsWhenAsked, DrainsOK
<1>22. ASSUME Start PROVE DrainsWhenAsked'
  <2>1. ASSUME NEW u \in Tasks PROVE DrainsOK(u)'
    <3>1. CASE UNCHANGED task
      BY <1>22, <3>1 DEF Start, DrainsOK, DownIsEmpty, Flushing
    <3>2. CASE ~UNCHANGED task
      <4>1. PICK t \in Tasks : Spawn(t, FALSE)
        BY <1>22, <3>2 DEF Start
      <4>2. task'[u].pc \in {"idle", "new"}
        BY <1>22, <4>1, SpawnFact DEF Start, DownIsEmpty
      <4> QED BY <4>2 DEF DrainsOK, Flushing
    <3> QED BY <3>1, <3>2
  <2> QED BY <2>1 DEF DrainsWhenAsked, DrainsOK
<1>23. ASSUME BeginDraining PROVE DrainsWhenAsked'
  <2>1. ASSUME NEW u \in Tasks PROVE DrainsOK(u)'
    BY <1>23, <1>x DEF BeginDraining, Flushing, IsDraining, DrainsOK
  <2> QED BY <2>1 DEF DrainsWhenAsked, DrainsOK
<1>24. ASSUME Exit PROVE DrainsWhenAsked'
  <2>1. ASSUME NEW u \in Tasks PROVE DrainsOK(u)'
    BY <1>24, <1>x, HaltFact DEF Exit, Halt, Flushing, IsDraining, DrainsOK
  <2> QED BY <2>1 DEF DrainsWhenAsked, DrainsOK
<1>25. ASSUME Crash PROVE DrainsWhenAsked'
  <2>1. ASSUME NEW u \in Tasks PROVE DrainsOK(u)'
    BY <1>25, <1>x, HaltFact DEF Crash, Halt, Flushing, IsDraining, DrainsOK
  <2> QED BY <2>1 DEF DrainsWhenAsked, DrainsOK
<1>26. ASSUME UNCHANGED vars PROVE DrainsWhenAsked'
  <2>1. ASSUME NEW u \in Tasks PROVE DrainsOK(u)'
    BY <1>26, <1>x DEF vars, DrainsOK, IsDraining
  <2> QED BY <2>1 DEF DrainsWhenAsked, DrainsOK
<1> QED BY StepKinds, <1>1, <1>2, <1>3, <1>4, <1>5, <1>6, <1>7, <1>8, <1>9, <1>10, <1>11, <1>12,
      <1>13, <1>14, <1>15, <1>16, <1>17, <1>18, <1>19, <1>20, <1>21, <1>22, <1>23, <1>24, <1>25,
      <1>26

\* A task runs, as the stream's, and nobody has asked it to end.
Runs(u) == task[u].managed = TRUE /\ task[u].aborted = FALSE /\ task[u].pc # "idle"

\* The stream stays as it is, and so does its task.
LEMMA StillRuns ==
  ASSUME HandleRuns, stream' = stream, server' = server, \A u \in Tasks : Runs(u) => Runs(u)'
  PROVE  HandleRuns'
  BY DEF HandleRuns, Runs, IsDraining

\* The handle of a running stream is a task that runs.
LEMMA HandleStep ==
  ASSUME IngestionIInv, [Next]_vars PROVE HandleRuns'
<1> USE DEF IngestionIInv, Shapes, groupVars
<1>1. ASSUME NEW t \in Tasks, Subscribe(t) PROVE HandleRuns'
  <2>1. stream' = stream /\ server' = server
    BY <1>1 DEF Subscribe
  <2>2. ASSUME NEW u \in Tasks, Runs(u) PROVE Runs(u)'
    <3>1. CASE u # t
      <4>1. task'[u] = task[u]
        BY <1>1, <3>1, PcFact, PCValues DEF Subscribe
      <4> QED BY <2>2, <4>1 DEF Runs
    <3>2. CASE u = t
      BY <1>1, <2>2, <3>2, PcFact, PCValues DEF Subscribe, Runs
    <3> QED BY <3>1, <3>2
  <2> QED BY <2>1, <2>2, StillRuns
<1>2. ASSUME NEW t \in Tasks, LoopTop(t) PROVE HandleRuns'
  <2>1. stream' = stream /\ server' = server
    BY <1>2 DEF LoopTop
  <2>2. ASSUME NEW u \in Tasks, Runs(u) PROVE Runs(u)'
    <3>1. CASE u # t
      <4>1. task'[u] = task[u]
        BY <1>2, <3>1, LoopFact DEF LoopTop, Flushed
      <4> QED BY <2>2, <4>1 DEF Runs
    <3>2. CASE u = t
      BY <1>2, <2>2, <3>2, LoopFact DEF Flushed, Runs
    <3> QED BY <3>1, <3>2
  <2> QED BY <2>1, <2>2, StillRuns
<1>3. ASSUME NEW t \in Tasks, Linger(t) PROVE HandleRuns'
  <2>1. stream' = stream /\ server' = server
    BY <1>3 DEF Linger, Polls
  <2>2. ASSUME NEW u \in Tasks, Runs(u) PROVE Runs(u)'
    <3>1. CASE u # t
      <4>1. task'[u] = task[u]
        BY <1>3, <3>1, LingerFact DEF Linger, Polls, Flushed
      <4> QED BY <2>2, <4>1 DEF Runs
    <3>2. CASE u = t
      BY <1>3, <2>2, <3>2, LingerFact DEF Flushed, Runs
    <3> QED BY <3>1, <3>2
  <2> QED BY <2>1, <2>2, StillRuns
<1>4. ASSUME NEW t \in Tasks, ClientError(t) PROVE HandleRuns'
  <2>1. stream' = stream /\ server' = server
    BY <1>4 DEF ClientError, Fail, Polls
  <2>2. ASSUME NEW u \in Tasks, Runs(u) PROVE Runs(u)'
    <3>1. CASE u # t
      <4>1. task'[u] = task[u]
        BY <1>4, <3>1, PcFact, PCValues DEF ClientError, Fail, Polls, Fail
      <4> QED BY <2>2, <4>1 DEF Runs
    <3>2. CASE u = t
      BY <1>4, <2>2, <3>2, PcFact, PCValues DEF ClientError, Fail, Polls, Fail, Runs
    <3> QED BY <3>1, <3>2
  <2> QED BY <2>1, <2>2, StillRuns
<1>5. ASSUME NEW t \in Tasks, WriteRecord(t) PROVE HandleRuns'
  <2>1. stream' = stream /\ server' = server
    BY <1>5 DEF WriteRecord
  <2>2. ASSUME NEW u \in Tasks, Runs(u) PROVE Runs(u)'
    <3>1. CASE u # t
      <4>1. task'[u] = task[u]
        BY <1>5, <3>1, WriteFact DEF WriteRecord
      <4> QED BY <2>2, <4>1 DEF Runs
    <3>2. CASE u = t
      BY <1>5, <2>2, <3>2, WriteFact DEF Runs
    <3> QED BY <3>1, <3>2
  <2> QED BY <2>1, <2>2, StillRuns
<1>6. ASSUME NEW t \in Tasks, WriteFails(t) PROVE HandleRuns'
  <2>1. stream' = stream /\ server' = server
    BY <1>6 DEF WriteFails, Fail
  <2>2. ASSUME NEW u \in Tasks, Runs(u) PROVE Runs(u)'
    <3>1. CASE u # t
      <4>1. task'[u] = task[u]
        BY <1>6, <3>1, PcFact, PCValues DEF WriteFails, Fail
      <4> QED BY <2>2, <4>1 DEF Runs
    <3>2. CASE u = t
      BY <1>6, <2>2, <3>2, PcFact, PCValues DEF WriteFails, Fail, Runs
    <3> QED BY <3>1, <3>2
  <2> QED BY <2>1, <2>2, StillRuns
<1>7. ASSUME NEW t \in Tasks, PublishDlq(t) PROVE HandleRuns'
  <2>1. stream' = stream /\ server' = server
    BY <1>7 DEF PublishDlq
  <2>2. ASSUME NEW u \in Tasks, Runs(u) PROVE Runs(u)'
    <3>1. CASE u # t
      <4>1. task'[u] = task[u]
        BY <1>7, <3>1, PcFact, PCValues DEF PublishDlq
      <4> QED BY <2>2, <4>1 DEF Runs
    <3>2. CASE u = t
      BY <1>7, <2>2, <3>2, PcFact, PCValues DEF PublishDlq, Runs
    <3> QED BY <3>1, <3>2
  <2> QED BY <2>1, <2>2, StillRuns
<1>8. ASSUME NEW t \in Tasks, PublishDlqFails(t) PROVE HandleRuns'
  <2>1. stream' = stream /\ server' = server
    BY <1>8 DEF PublishDlqFails, Fail
  <2>2. ASSUME NEW u \in Tasks, Runs(u) PROVE Runs(u)'
    <3>1. CASE u # t
      <4>1. task'[u] = task[u]
        BY <1>8, <3>1, PcFact, PCValues DEF PublishDlqFails, Fail
      <4> QED BY <2>2, <4>1 DEF Runs
    <3>2. CASE u = t
      BY <1>8, <2>2, <3>2, PcFact, PCValues DEF PublishDlqFails, Fail, Runs
    <3> QED BY <3>1, <3>2
  <2> QED BY <2>1, <2>2, StillRuns
<1>9. ASSUME NEW t \in Tasks, CommitAck(t) PROVE HandleRuns'
  <2>1. stream' = stream /\ server' = server
    BY <1>9 DEF CommitAck
  <2>2. ASSUME NEW u \in Tasks, Runs(u) PROVE Runs(u)'
    <3>1. CASE u # t
      <4>1. task'[u] = task[u]
        BY <1>9, <3>1, CommitAckFact DEF CommitAck, Flushed
      <4> QED BY <2>2, <4>1 DEF Runs
    <3>2. CASE u = t
      <4>1. /\ task[t] \in TaskRecord /\ Current(t) \in Partitions /\ task[t].buffers[Current(t)] # <<>>
        BY <1>9, CurrentFact DEF CommitAck, Flushing, Buffer, TasksShape
      <4> QED BY <1>9, <2>2, <3>2, <4>1, CommitAckFact, DrainedFact DEF Flushed, Runs
    <3> QED BY <3>1, <3>2
  <2> QED BY <2>1, <2>2, StillRuns
<1>10. ASSUME NEW t \in Tasks, CommitFails(t) PROVE HandleRuns'
  <2>1. stream' = stream /\ server' = server
    BY <1>10 DEF CommitFails, Fail
  <2>2. ASSUME NEW u \in Tasks, Runs(u) PROVE Runs(u)'
    <3>1. CASE u # t
      <4>1. task'[u] = task[u]
        BY <1>10, <3>1, PcFact, PCValues DEF CommitFails, Fail
      <4> QED BY <2>2, <4>1 DEF Runs
    <3>2. CASE u = t
      BY <1>10, <2>2, <3>2, PcFact, PCValues DEF CommitFails, Fail, Runs
    <3> QED BY <3>1, <3>2
  <2> QED BY <2>1, <2>2, StillRuns
<1>11. ASSUME NEW t \in Tasks, ManagedTaskFails(t) PROVE HandleRuns'
  BY <1>11 DEF ManagedTaskFails, HandleRuns, RequestsShape
<1>12. ASSUME NEW t \in Tasks, ManagedTaskStops(t) PROVE HandleRuns'
  BY <1>12 DEF ManagedTaskStops, TaskEnds, DrainsWhenAsked, HandleRuns, IsDraining
<1>13. ASSUME NEW t \in Tasks, ConfiguredTaskEnds(t) PROVE HandleRuns'
  BY <1>13 DEF ConfiguredTaskEnds, Halt, HandleRuns
<1>14. ASSUME NEW t \in Tasks, AbortTakesEffect(t) PROVE HandleRuns'
  <2>1. stream' = stream /\ server' = server
    BY <1>14 DEF AbortTakesEffect, TaskEnds
  <2>2. ASSUME NEW u \in Tasks, Runs(u) PROVE Runs(u)'
    <3>1. u # t
      BY <1>14, <2>2 DEF AbortTakesEffect, Runs
    <3> QED BY <1>14, <2>2, <3>1, EndFact DEF AbortTakesEffect, TaskEnds, Runs
  <2> QED BY <2>1, <2>2, StillRuns
<1>15. ASSUME NEW t \in Tasks, CreateStream(t) PROVE HandleRuns'
  BY <1>15, SpawnFact DEF CreateStream, HandleRuns
<1>16. ASSUME NEW t \in Tasks, ResumeStream(t) PROVE HandleRuns'
  BY <1>16, SpawnFact DEF ResumeStream, HandleRuns
<1>17. ASSUME NEW t \in Tasks, Revoke(t) PROVE HandleRuns'
  <2>1. stream' = stream /\ server' = server
    BY <1>17 DEF Revoke, Polls
  <2>2. ASSUME NEW u \in Tasks, Runs(u) PROVE Runs(u)'
    <3>1. CASE u # t
      <4>1. task'[u] = task[u]
        BY <1>17, <3>1, RevokeFact DEF Revoke, Polls
      <4> QED BY <2>2, <4>1 DEF Runs
    <3>2. CASE u = t
      BY <1>17, <2>2, <3>2, RevokeFact DEF Revoke, Polls, Runs
    <3> QED BY <3>1, <3>2
  <2> QED BY <2>1, <2>2, StillRuns
<1>18. ASSUME NEW t \in Tasks, Expel(t) PROVE HandleRuns'
  BY <1>18 DEF Expel, HandleRuns, IsDraining
<1>19. ASSUME NEW t \in Tasks, NEW p \in Partitions, Receive(t, p) PROVE HandleRuns'
  <2>1. stream' = stream /\ server' = server
    BY <1>19 DEF Receive, Polls
  <2>2. ASSUME NEW u \in Tasks, Runs(u) PROVE Runs(u)'
    <3>1. CASE u # t
      <4>1. task'[u] = task[u]
        BY <1>19, <3>1, ReceiveFact DEF Receive, Polls, Flushed
      <4> QED BY <2>2, <4>1 DEF Runs
    <3>2. CASE u = t
      <4>1. task[t] \in TaskRecord
        BY DEF TasksShape
      <4> QED BY <1>19, <2>2, <3>2, <4>1, ReceiveFact, ReceivedFact DEF Flushed, Runs
    <3> QED BY <3>1, <3>2
  <2> QED BY <2>1, <2>2, StillRuns
<1>20. ASSUME NEW t \in Tasks, NEW P \in SUBSET Partitions, Assign(t, P) PROVE HandleRuns'
  <2>1. stream' = stream /\ server' = server
    BY <1>20 DEF Assign, Polls
  <2>2. ASSUME NEW u \in Tasks, Runs(u) PROVE Runs(u)'
    <3>1. CASE u # t
      <4>1. task'[u] = task[u]
        BY <1>20, <3>1, AssignFact DEF Assign, Polls
      <4> QED BY <2>2, <4>1 DEF Runs
    <3>2. CASE u = t
      BY <1>20, <2>2, <3>2, AssignFact DEF Assign, Polls, Runs
    <3> QED BY <3>1, <3>2
  <2> QED BY <2>1, <2>2, StillRuns
<1>21. ASSUME PauseStream PROVE HandleRuns'
  BY <1>21 DEF PauseStream, HandleRuns
<1>22. ASSUME Start PROVE HandleRuns'
  BY <1>22 DEF Start, DownIsEmpty, HandleRuns
<1>23. ASSUME BeginDraining PROVE HandleRuns'
  BY <1>23 DEF BeginDraining, HandleRuns, IsDraining
<1>24. ASSUME Exit PROVE HandleRuns'
  BY <1>24 DEF Exit, Halt, HandleRuns
<1>25. ASSUME Crash PROVE HandleRuns'
  BY <1>25 DEF Crash, Halt, HandleRuns
<1>26. ASSUME UNCHANGED vars PROVE HandleRuns'
  BY <1>26 DEF vars, HandleRuns, IsDraining
<1> QED BY StepKinds, <1>1, <1>2, <1>3, <1>4, <1>5, <1>6, <1>7, <1>8, <1>9, <1>10, <1>11, <1>12,
      <1>13, <1>14, <1>15, <1>16, <1>17, <1>18, <1>19, <1>20, <1>21, <1>22, <1>23, <1>24, <1>25,
      <1>26

-----------------------------------------------------------------------------
(* The theorems. *)

\* The invariant holds at first.
LEMMA IngestionInit == ASSUME Init PROVE IngestionIInv
<1>1. "idle" \in PCs
  BY DEF PCs
<1>2. \A t \in Tasks : task[t] = FreshTask("idle", TRUE)
  BY DEF Init, IdleTask
<1>3. /\ FreshTask("idle", TRUE) \in TaskRecord /\ FreshTask("idle", TRUE).pc = "idle"
      /\ FreshTask("idle", TRUE).assigned = {}
      /\ \A p \in Partitions : /\ FreshTask("idle", TRUE).buffers[p] = <<>>
                               /\ FreshTask("idle", TRUE).position[p] = 0
  BY <1>1, FreshFact
<1>4. TasksShape
  BY <1>3 DEF Init, IdleTask, TasksShape
<1>5. /\ \A t \in Tasks : task[t].pc = "idle" /\ task[t].assigned = {}
      /\ \A t \in Tasks, p \in Partitions : task[t].buffers[p] = <<>> /\ task[t].position[p] = 0
  BY <1>2, <1>3
<1>6. \A p \in Partitions : End(p) \in Nat
  <2>1. config.topic \in [Partitions -> Seq(Message)]
    BY IngestionAssumption DEF Init, Config
  <2> QED BY <2>1 DEF End
<1>7. GroupShape
  BY <1>6, IngestionAssumption DEF Init, GroupShape
<1>8. LogShape
  BY <1>6 DEF Init, LogShape
<1>9. RequestsShape
  BY IngestionAssumption DEF Init, RequestsShape
<1>10. OffsetsInTopic
  BY <1>5, <1>6 DEF OffsetsInTopic
<1>11. FlushShape /\ FreshTasks
  BY <1>5 DEF Init, FlushShape, Flushing, FreshTasks
<1>12. BuffersCovered /\ PositionsCovered /\ AppliedHandled
  BY <1>5 DEF BuffersCovered, PositionsCovered, AppliedHandled, Flushing
<1>13. NothingSkipped /\ FirstDeliveryInOrder
  BY DEF Init, NothingSkipped, FirstDeliveryInOrder
<1>14. OneConsumer /\ OneHolder
  BY <1>5 DEF Init, OneConsumer, OneHolder
<1>15. BuffersFollowCommit
  BY <1>5 DEF Init, BuffersFollowCommit
<1>16. AppliedStored /\ CommittedNotOverwritten
  BY <1>5 DEF Init, AppliedStored, Flushing, CommittedNotOverwritten
<1>17. DownIsEmpty /\ DrainsWhenAsked /\ HandleRuns
  BY <1>5 DEF Init, DownIsEmpty, DrainsWhenAsked, Flushing, HandleRuns
<1> QED
  BY <1>4, <1>7, <1>8, <1>9, <1>10, <1>11, <1>12, <1>13, <1>14, <1>15, <1>16, <1>17
  DEF IngestionIInv, Shapes, Delivered, Held

\* Every step keeps it.
LEMMA IngestionInductive == ASSUME IngestionIInv, [Next]_vars PROVE IngestionIInv'
<1>1. Shapes'
  BY TasksStep, GroupStep, LogStep, RequestsStep, OffsetsStep, FlushShapeStep, FreshStep DEF
        Shapes
<1>2. Delivered'
  BY BuffersCoveredStep, PositionsCoveredStep, AppliedHandledStep, NothingSkippedStep, InOrderStep
  DEF Delivered
<1>3. Held'
  BY OneConsumerStep, OneHolderStep, BuffersFollowStep, AppliedStoredStep, NotOverwrittenStep
  DEF Held
<1> QED BY <1>1, <1>2, <1>3, DownStep, DrainsStep, HandleStep DEF IngestionIInv

\* The invariant of the runs follows.
LEMMA DeliveryFollows == ASSUME IngestionIInv PROVE DeliveryInv
<1> USE DEF IngestionIInv, Shapes
<1>1. ASSUME NEW t \in Tasks PROVE TaskTypeOK(task[t])
  <2>1. task[t] \in TaskRecord
    BY DEF TasksShape
  <2>2. ASSUME NEW p \in Partitions
        PROVE  task[t].buffers[p] \in Seq(0 .. End(p)) /\ task[t].position[p] <= End(p)
    <3>b. PICK B : B = task[t].buffers[p]
      OBVIOUS
    <3>1. B \in Seq(Nat) /\ Len(B) \in Nat /\ \A i \in 1 .. Len(B) : B[i] < End(p)
      BY <2>1, <3>b DEF TaskRecord, OffsetsInTopic
    <3>2. End(p) \in Nat
      BY MessageFact
    <3>3. \A i \in 1 .. Len(B) : B[i] \in 0 .. End(p)
      BY <3>1, <3>2
    <3>4. B \in Seq(0 .. End(p))
      <4>1. B \in [1 .. Len(B) -> 0 .. End(p)]
        BY <3>1, <3>3
      <4>n. PICK n \in Nat : n = Len(B)
        BY <3>1
      <4>2. B \in [1 .. n -> 0 .. End(p)]
        BY <4>1, <4>n
      <4> QED BY <4>2, SeqDef
    <3>5. task[t].position[p] <= End(p)
      BY DEF OffsetsInTopic
    <3> QED BY <3>4, <3>5, <3>b
  <2> QED BY <2>1, <2>2 DEF TaskTypeOK, TaskRecord, PCs, Modes
<1>2. TypeOK
  <2>1. DOMAIN task = Tasks
    BY DEF TasksShape
  <2> QED BY <1>1, <2>1 DEF TypeOK, GroupShape, LogShape, RequestsShape
<1> QED BY <1>2 DEF DeliveryInv, Delivered, Held

\* At-least-once delivery in order (flush_partition): for any topic, any number of partitions
\* and tasks, and any sequence of rebalances, stream requests, failures, aborts and restarts, no
\* offset is committed before every message below it was applied or dead-lettered, messages are
\* first handled in order, and while no partition is handed out too early, no redelivery hides
\* a committed message.
THEOREM DeliverySafe == Spec => []DeliveryInv
<1>1. Init => IngestionIInv
  BY IngestionInit
<1>2. IngestionIInv /\ [Next]_vars => IngestionIInv'
  BY IngestionInductive
<1>3. IngestionIInv => DeliveryInv
  BY DeliveryFollows
<1> QED BY <1>1, <1>2, <1>3, PTL DEF Spec

\* A managed stream that reports "running" has a task (spawn_stream, pause, resume): whatever
\* becomes of the tasks of earlier resumes, their ends do not leave it without one.
THEOREM RunningStreams == Spec => []RunningHasTask
<1>1. Init => IngestionIInv
  BY IngestionInit
<1>2. IngestionIInv /\ [Next]_vars => IngestionIInv'
  BY IngestionInductive
<1>3. IngestionIInv => RunningHasTask
  BY DEF IngestionIInv, HandleRuns, RunningHasTask
<1> QED BY <1>1, <1>2, <1>3, PTL DEF Spec

===============================================================================
