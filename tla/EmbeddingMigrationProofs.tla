----------------------- MODULE EmbeddingMigrationProofs -----------------------
(***************************************************************************)
(* A migration never gives a record the vector of another text, and a      *)
(* switch of the active profile leaves none of the records behind that it  *)
(* was made for: for any number of records, profiles and overlapping       *)
(* calls, and any sequence of user writes, failures, crashes and restarts. *)
(***************************************************************************)
EXTENDS EmbeddingMigration, FiniteSetTheorems, NaturalsInduction, WellFoundedInduction, TLAPS

-----------------------------------------------------------------------------
(* Shapes *)

Vectors == [by : Profiles, of : Texts]
LiveRecords == [seq : Nat, profile : Profiles, text : Texts, vector : Vectors]
StagedRecords == [seq : Nat, vector : Vectors]
\* Some of the record ids, each with a member of S.
Maps(S) == UNION {[ids -> S] : ids \in SUBSET Records}

Migrations == [status : Statuses, source : Profiles, target : Profiles, frontier : Nat]
Snapshots == [source : Profiles, target : Profiles, recs : Maps(StagedRecords)]
Builds == [pc : {"read", "embed", "ready", "leave"}, m : Migrations \cup {NoMigration},
           staged : SUBSET Records, recs : Maps(LiveRecords),
           source : Profiles, target : Profiles]
Writes == [provider : Profiles, profile : Profiles \cup {None}]

\* Where a handler is, by what it carries.
Starting == {"start_persist", "start_spawn"}
Activating == {"activating", "prepare", "publish"}
Switching == {"published", "finalize"}
Recovering == {"recover", "recover_finalize", "recover_activated", "recover_ready",
               "recover_failed"}
PCs == {"idle", "start_read", "status", "catch_up", "catch_up_snapshot", "catch_up_state",
        "check", "commit", "persist_activated"}
          \cup Starting \cup Activating \cup Switching \cup Recovering
Kinds == {None, "start", "status", "catch_up", "activate", "activate_again", "boot"}
Handlers == [pc : PCs, kind : Kinds, m : Migrations \cup {NoMigration},
             recs : Maps(LiveRecords) \cup Maps(StagedRecords)]

-----------------------------------------------------------------------------
(* The inductive invariant: what each piece of state owes to the live records. *)

\* Records that were read from the collection: a record still at that sequence has that text.
Copied(recs) ==
    \A r \in DOMAIN recs :
        /\ recs[r].seq < nextSeq
        /\ r \in DOMAIN live /\ live[r].seq = recs[r].seq => live[r].text = recs[r].text

\* Vectors that were staged: a record still at that sequence has the text they embed.
Staged(recs, profile) ==
    \A r \in DOMAIN recs :
        /\ recs[r].seq < nextSeq /\ recs[r].vector.by = profile
        /\ r \in DOMAIN live /\ live[r].seq = recs[r].seq => live[r].text = recs[r].vector.of

\* Records to be published have the vector of their own text.
Whole(recs) == \A r \in DOMAIN recs : recs[r].vector.of = recs[r].text

\* A migration's frontier is in the past, and one that was ever ready has a snapshot.
Sound(m) ==
    /\ m \in Migrations /\ m.frontier < nextSeq
    /\ m.status \in {"ready", "activating"} => snapshot # NoFile

\* The collection.
CollectionOK ==
    /\ active \in Profiles /\ configTemp \in BOOLEAN
    /\ nextSeq \in Nat \ {0}
    /\ live \in Maps(LiveRecords) /\ Whole(live)
    /\ \A r \in DOMAIN live : live[r].seq \in 1 .. nextSeq - 1
    /\ \A q, r \in DOMAIN live : live[q].seq = live[r].seq => q = r
    /\ writer = NoWrite \/ writer \in Writes

\* The files of the migration.
StateOK == state # NoMigration => Sound(state)
SnapshotOK ==
    snapshot # NoFile => snapshot \in Snapshots /\ Staged(snapshot.recs, snapshot.target)

\* The task that builds the snapshot.
BuilderOK ==
    builder # NoBuild =>
       /\ builder \in Builds /\ running
       /\ Copied(builder.recs)
       /\ state # NoMigration
       /\ builder.pc # "read" => Sound(builder.m)
       /\ builder.pc = "ready" => snapshot # NoFile

\* A handler: h is where it is, with its local variables.
HandlerOK(h) ==
    /\ h \in Handlers
    /\ h.pc \notin {"idle", "status"} => Sound(h.m)
    /\ h.pc \notin {"idle", "start_read", "start_persist"} => state # NoMigration
    /\ h.pc \in Starting => h.recs \in Maps(LiveRecords) /\ Copied(h.recs)
    /\ h.pc = "catch_up_snapshot" => h.recs \in Maps(StagedRecords) /\ Staged(h.recs, h.m.target)
    /\ h.pc \in Activating =>
         /\ snapshot # NoFile
         /\ h.recs \in Maps(LiveRecords) /\ Whole(h.recs)
         \* The records that are not to be published are newer than the frontier.
         /\ \A r \in DOMAIN live \ DOMAIN h.recs : live[r].seq > h.m.frontier
    /\ h.pc \in Switching => \A r \in DOMAIN live : live[r].seq > h.m.frontier
    /\ h.pc \in Recovering => snapshot # NoFile
    /\ h.pc = "recover_finalize" =>
         /\ h.recs \in Maps(StagedRecords)
         /\ \A r \in DOMAIN live \cap DOMAIN h.recs :
               live[r].seq <= h.m.frontier => live[r].profile = h.m.target

\* Start-up recovery runs alone.
ProcessOK ==
    /\ process \in {"up", "booting", "down"}
    /\ process # "up" => \A o \in Ops : op[o].pc = "idle"
    /\ process = "booting" <=> op[Boot].pc # "idle"
    /\ op[Boot].pc \in Recovering \cup {"idle"}
    /\ op[Boot].pc # "idle" => op[Boot].kind = "boot"

HandlersOK == op \in [Actors -> Handlers] /\ \A a \in Actors : HandlerOK(op[a])

\* The parts together.
MigrationIInv == CollectionOK /\ StateOK /\ SnapshotOK /\ BuilderOK /\ HandlersOK /\ ProcessOK

-----------------------------------------------------------------------------
(* Lemmas about the operators *)

\* The finite maps of the model.
LEMMA MapsFacts ==
    ASSUME NEW S, NEW recs \in Maps(S)
    PROVE  /\ DOMAIN recs \subseteq Records
           /\ \A r \in DOMAIN recs : recs[r] \in S
  BY DEF Maps

\* A function on some of the ids is such a map.
LEMMA MapsIntro ==
    ASSUME NEW S, NEW ids \in SUBSET Records, NEW recs \in [ids -> S]
    PROVE  recs \in Maps(S)
  BY DEF Maps

\* An idle handler carries the empty map.
LEMMA EmptyMap == ASSUME NEW S PROVE <<>> \in Maps(S)
<1>1. <<>> \in [{} -> S]
  OBVIOUS
<1> QED
  BY <1>1, MapsIntro

\* A nonempty set of numbers has a least element.
LEMMA LeastNumber ==
    ASSUME NEW T \in SUBSET Nat, T # {}
    PROVE  \E k \in T : \A j \in T : k <= j
<1> DEFINE Below == {ss \in Nat \X Nat : ss[1] < ss[2]}
<1>1. IsWellFoundedOn(Below, Nat)
  BY NatLessThanWellFounded DEF OpToRel
<1>2. PICK k \in T : \A j \in T : <<j, k>> \notin Below
  <2> HIDE DEF Below
  <2> QED
    BY <1>1, WFMin
<1>3. \A j \in T : ~(j < k)
  BY <1>2
<1> QED
  BY <1>3

\* A set of numbers below a bound has a greatest one (Frontier).
LEMMA MaxBelow ==
    ASSUME NEW S \in SUBSET Nat, S # {}, NEW b \in Nat, \A n \in S : n < b
    PROVE  Max(S) \in S
<1> DEFINE T == {k \in Nat : \A n \in S : n <= k}
<1>1. b \in T
  OBVIOUS
<1>2. PICK k \in T : \A j \in T : k <= j
  BY <1>1, LeastNumber
<1>3. \A j \in T : ~(j < k)
  BY <1>2
<1>4. k \in S
  <2> SUFFICES ASSUME k \notin S PROVE FALSE
    OBVIOUS
  <2>1. k # 0 /\ k - 1 \in Nat
    <3>1. PICK n \in S : n <= k /\ n # k
      OBVIOUS
    <3> QED
      BY <3>1
  <2>2. \A n \in S : n <= k - 1
    OBVIOUS
  <2> QED
    BY <2>1, <2>2, <1>3
<1>5. \E x \in S : \A y \in S : x >= y
  BY <1>4
<1> QED
  BY <1>5 DEF Max

\* last_frontier_sequence is a sequence number that was given out, or 0.
LEMMA FrontierBelow ==
    ASSUME CollectionOK
    PROVE  Frontier(live) \in Nat /\ Frontier(live) < nextSeq
<1> DEFINE S == {live[r].seq : r \in DOMAIN live} \cup {0}
<1>1. S \in SUBSET Nat /\ 0 \in S /\ \A n \in S : n < nextSeq
  BY DEF CollectionOK
<1>2. Max(S) \in S
  BY <1>1, MaxBelow DEF CollectionOK
<1> QED
  BY <1>1, <1>2 DEF Frontier

\* The records of the collection, and the staged ones.
LEMMA LiveMaps ==
    ASSUME NEW recs \in Maps(LiveRecords)
    PROVE  /\ DOMAIN recs \subseteq Records
           /\ \A r \in DOMAIN recs : recs[r] \in LiveRecords /\ recs[r].seq \in Nat
<1>1. DOMAIN recs \subseteq Records /\ \A r \in DOMAIN recs : recs[r] \in LiveRecords
  BY MapsFacts
<1> QED
  BY <1>1 DEF LiveRecords

\* The same of the staged ones.
LEMMA StagedMaps ==
    ASSUME NEW recs \in Maps(StagedRecords)
    PROVE  /\ DOMAIN recs \subseteq Records
           /\ \A r \in DOMAIN recs : recs[r] \in StagedRecords /\ recs[r].seq \in Nat
<1>1. DOMAIN recs \subseteq Records /\ \A r \in DOMAIN recs : recs[r] \in StagedRecords
  BY MapsFacts
<1> QED
  BY <1>1 DEF StagedRecords
-----------------------------------------------------------------------------
(* What every step preserves *)

\* A step adds records with new sequence numbers, and takes none of the files away.
Grows ==
    /\ nextSeq' \in Nat /\ nextSeq <= nextSeq'
    /\ \A r \in DOMAIN live' :
          \/ r \in DOMAIN live /\ live'[r] = live[r]
          \/ live'[r].seq \in Nat /\ live'[r].seq >= nextSeq
    /\ snapshot # NoFile => snapshot' # NoFile
    /\ state # NoMigration => state' # NoMigration

\* A step that leaves the records alone.
LEMMA QuietGrows ==
    ASSUME CollectionOK, UNCHANGED data,
           snapshot # NoFile => snapshot' # NoFile, state # NoMigration => state' # NoMigration
    PROVE  Grows
  BY DEF Grows, CollectionOK, data

\* It keeps the collection as it should be.
LEMMA QuietCollection ==
    ASSUME CollectionOK, UNCHANGED <<data, writer>>, active' \in Profiles, configTemp' \in BOOLEAN
    PROVE  CollectionOK'
  BY DEF CollectionOK, Whole, data

\* A migration that is kept, by the state file or the builder, stays sound.
LEMMA StateKept ==
    ASSUME CollectionOK, StateOK, Grows, UNCHANGED state
    PROVE  StateOK'
  BY DEF CollectionOK, StateOK, Grows, Sound, Migrations

\* So does the snapshot: a record that changes gets a new sequence number.
LEMMA SnapshotKept ==
    ASSUME CollectionOK, SnapshotOK, Grows, UNCHANGED snapshot
    PROVE  SnapshotOK'
<1> SUFFICES ASSUME snapshot # NoFile
             PROVE  snapshot \in Snapshots /\ Staged(snapshot.recs, snapshot.target)'
  BY DEF SnapshotOK
<1>1. snapshot.recs \in Maps(StagedRecords)
  BY DEF SnapshotOK, Snapshots
<1>2. \A r \in DOMAIN snapshot.recs : snapshot.recs[r].seq \in Nat
  BY <1>1, StagedMaps
<1> QED
  BY <1>2 DEF CollectionOK, SnapshotOK, Grows, Staged

\* So do the records that the builder read.
LEMMA BuilderKept ==
    ASSUME CollectionOK, BuilderOK, Grows, UNCHANGED <<builder, running>>
    PROVE  BuilderOK'
<1> SUFFICES ASSUME builder # NoBuild PROVE BuilderOK'
  BY DEF BuilderOK
<1>1. \A r \in DOMAIN builder.recs : builder.recs[r].seq \in Nat
  BY LiveMaps DEF BuilderOK, Builds
<1>2. Copied(builder.recs)'
  BY <1>1 DEF CollectionOK, BuilderOK, Grows, Copied
<1>3. builder.pc # "read" => Sound(builder.m)'
  BY DEF CollectionOK, BuilderOK, Grows, Sound, Migrations
<1> QED
  BY <1>2, <1>3 DEF BuilderOK, Grows

\* The handlers that a step does not move.
LEMMA HandlerKept ==
    ASSUME CollectionOK, HandlersOK, Grows, NEW a \in Actors, op'[a] = op[a]
    PROVE  HandlerOK(op[a])'
<1> DEFINE h == op[a]
<1>1. HandlerOK(h) /\ h \in Handlers
  BY DEF HandlersOK, HandlerOK
<1>2. /\ h.m \in Migrations => h.m.frontier \in Nat
      /\ \A r \in DOMAIN h.recs : h.recs[r].seq \in Nat
  <2>1. h.recs \in Maps(LiveRecords) \/ h.recs \in Maps(StagedRecords)
    BY <1>1 DEF Handlers
  <2> QED
    BY <2>1, LiveMaps, StagedMaps DEF Migrations
<1>3. \A r \in DOMAIN live : live[r].seq \in Nat
  BY DEF CollectionOK
<1>4. nextSeq \in Nat /\ nextSeq' \in Nat
  BY DEF CollectionOK, Grows
<1>5. Sound(h.m) => Sound(h.m)'
  BY <1>2, <1>4 DEF Grows, Sound
<1>6. Copied(h.recs) => Copied(h.recs)'
  BY <1>2, <1>4 DEF Grows, Copied
<1>7. Staged(h.recs, h.m.target) => Staged(h.recs, h.m.target)'
  BY <1>2, <1>4 DEF Grows, Staged
<1>8. Whole(h.recs) => Whole(h.recs)'
  BY DEF Whole
<1>9. Sound(h.m) =>
        /\ (\A r \in DOMAIN live \ DOMAIN h.recs : live[r].seq > h.m.frontier)
             => \A r \in DOMAIN live' \ DOMAIN h.recs : live'[r].seq > h.m.frontier
        /\ (\A r \in DOMAIN live : live[r].seq > h.m.frontier)
             => \A r \in DOMAIN live' : live'[r].seq > h.m.frontier
        /\ (\A r \in DOMAIN live \cap DOMAIN h.recs :
               live[r].seq <= h.m.frontier => live[r].profile = h.m.target)
             => \A r \in DOMAIN live' \cap DOMAIN h.recs :
                  live'[r].seq <= h.m.frontier => live'[r].profile = h.m.target
  <2> SUFFICES ASSUME Sound(h.m)
               PROVE  \A r \in DOMAIN live' :
                        \/ r \in DOMAIN live /\ live'[r] = live[r]
                        \/ ~(live'[r].seq <= h.m.frontier) /\ live'[r].seq > h.m.frontier
    BY <1>3
  <2>1. h.m.frontier \in Nat /\ h.m.frontier < nextSeq
    BY <1>2 DEF Sound
  <2> QED
    BY <1>4, <2>1 DEF Grows
<1>10. h' = h
  OBVIOUS
<1> HIDE DEF h
<1>11. HandlerOK(h)'
  BY <1>1, <1>5, <1>6, <1>7, <1>8, <1>9, <1>10 DEF HandlerOK, Grows, Starting, Activating, Switching, Recovering
<1> QED
  BY <1>11 DEF h

\* A step that moves no handler.
LEMMA HandlersKept ==
    ASSUME CollectionOK, HandlersOK, Grows, UNCHANGED op
    PROVE  HandlersOK'
<1>1. \A a \in Actors : HandlerOK(op[a])'
  BY HandlerKept
<1> QED
  BY <1>1 DEF HandlersOK

\* A handler that moves: to a place, with its local variables.
Moved(o, pc, kind, m, recs) ==
    /\ op' \in [Actors -> Handlers]
    /\ op'[o].pc = pc /\ op'[o].kind = kind /\ op'[o].m = m /\ op'[o].recs = recs
    /\ \A a \in Actors \ {o} : op'[a] = op[a]

\* A handler that goes on keeps its local variables.
LEMMA GotoMoves ==
    ASSUME HandlersOK, NEW o \in Actors, NEW pc \in PCs, Goto(o, pc)
    PROVE  Moved(o, pc, op[o].kind, op[o].m, op[o].recs)
<1>1. op \in [Actors -> Handlers] /\ op[o] \in Handlers
  BY DEF HandlersOK
<1>2. [op[o] EXCEPT !.pc = pc] \in Handlers
  BY <1>1 DEF Handlers
<1> QED
  BY <1>1, <1>2 DEF Goto, Moved, Handlers

\* A handler may go on with the migration that it read.
LEMMA GotoWithMoves ==
    ASSUME HandlersOK, NEW o \in Actors, NEW pc \in PCs, NEW m \in Migrations, GotoWith(o, pc, m)
    PROVE  Moved(o, pc, op[o].kind, m, op[o].recs)
<1>1. op \in [Actors -> Handlers] /\ op[o] \in Handlers
  BY DEF HandlersOK
<1>2. [op[o] EXCEPT !.pc = pc, !.m = m] \in Handlers
  BY <1>1 DEF Handlers
<1> QED
  BY <1>1, <1>2 DEF GotoWith, Moved, Handlers

\* An idle handler has its shape.
LEMMA IdleHandler == Idle \in Handlers
  BY EmptyMap DEF Idle, Handlers, PCs, Kinds, None

\* A handler that returns is idle.
LEMMA ReturnMoves ==
    ASSUME HandlersOK, NEW o \in Actors, Return(o)
    PROVE  Moved(o, "idle", None, NoMigration, <<>>)
  BY IdleHandler DEF HandlersOK, Return, Moved, Idle

\* One handler moves to a place that it may be in, and the others stay.
LEMMA HandlersMoved ==
    ASSUME CollectionOK, HandlersOK, Grows, NEW o \in Actors, HandlerOK(op[o])',
           op' \in [Actors -> Handlers], \A a \in Actors \ {o} : op'[a] = op[a]
    PROVE  HandlersOK'
<1>1. ASSUME NEW a \in Actors PROVE HandlerOK(op[a])'
  BY HandlerKept
<1> QED
  BY <1>1 DEF HandlersOK

\* A handler may always return.
LEMMA HandlerReturns ==
    ASSUME CollectionOK, HandlersOK, Grows, NEW o \in Actors, Return(o)
    PROVE  HandlersOK'
<1>1. Moved(o, "idle", None, NoMigration, <<>>)
  BY ReturnMoves
<1>2. HandlerOK(op[o])'
  BY <1>1 DEF Moved, HandlerOK, Starting, Activating, Switching, Recovering
<1> QED
  BY <1>1, <1>2, HandlersMoved DEF Moved

\* A migration that was written is not the absent one.
LEMMA NotAbsent == \A m \in Migrations : m # NoMigration
  BY DEF Migrations, NoMigration, Migration, Statuses

\* Outside recovery it is a call that moves, in a process that is up.
LEMMA CallMoves ==
    ASSUME ProcessOK, NEW o \in Actors, op[o].pc \notin Recovering \cup {"idle"}
    PROVE  o \in Ops /\ process = "up"
  BY DEF ProcessOK, Actors

\* It does not disturb start-up recovery.
LEMMA ProcessKept ==
    ASSUME ProcessOK, NEW o \in Ops, process = "up", process' = process,
           \A a \in Actors \ {o} : op'[a] = op[a]
    PROVE  ProcessOK'
<1>1. o # Boot /\ Boot \in Actors
  BY MigrationConstants DEF Actors
<1> QED
  BY <1>1 DEF ProcessOK

-----------------------------------------------------------------------------
(* The operators of the model on its records *)

\* Staging keeps the sequences, and embeds the texts with the target.
LEMMA StageFacts ==
    ASSUME NEW recs \in Maps(LiveRecords), NEW p \in Profiles
    PROVE  /\ Stage(recs, p) \in Maps(StagedRecords)
           /\ DOMAIN Stage(recs, p) = DOMAIN recs
           /\ \A r \in DOMAIN recs : /\ Stage(recs, p)[r].seq = recs[r].seq
                                     /\ Stage(recs, p)[r].vector.by = p
                                     /\ Stage(recs, p)[r].vector.of = recs[r].text
<1>1. /\ DOMAIN recs \subseteq Records
      /\ \A r \in DOMAIN recs :
           [seq |-> recs[r].seq, vector |-> Vector(p, recs[r].text)] \in StagedRecords
  BY LiveMaps DEF LiveRecords, StagedRecords, Vectors, Vector
<1>2. Stage(recs, p) \in [DOMAIN recs -> StagedRecords]
  BY <1>1 DEF Stage
<1>3. Stage(recs, p) \in Maps(StagedRecords)
  BY <1>1, <1>2, MapsIntro
<1> QED
  BY <1>3 DEF Stage, Vector

\* Catching up keeps a staged vector only if the sequence is that of the record now.
LEMMA RestageFacts ==
    ASSUME NEW prev \in Maps(StagedRecords), NEW recs \in Maps(LiveRecords), NEW p \in Profiles
    PROVE  /\ Restage(prev, recs, p) \in Maps(StagedRecords)
           /\ DOMAIN Restage(prev, recs, p) = DOMAIN recs
           /\ \A r \in DOMAIN recs :
                \/ /\ r \in DOMAIN prev /\ prev[r].seq = recs[r].seq
                   /\ Restage(prev, recs, p)[r] = prev[r]
                \/ /\ Restage(prev, recs, p)[r].seq = recs[r].seq
                   /\ Restage(prev, recs, p)[r].vector.by = p
                   /\ Restage(prev, recs, p)[r].vector.of = recs[r].text
<1> DEFINE new == Stage(recs, p)
<1>1. /\ new \in Maps(StagedRecords) /\ DOMAIN new = DOMAIN recs
      /\ \A r \in DOMAIN recs : /\ new[r].seq = recs[r].seq
                                /\ new[r].vector.by = p /\ new[r].vector.of = recs[r].text
  BY StageFacts
<1>2. Restage(prev, recs, p) =
        [r \in DOMAIN recs |-> IF Unchanged(r, prev, recs) THEN prev[r] ELSE new[r]]
  BY DEF Restage
<1> HIDE DEF new
<1>3. Restage(prev, recs, p) \in [DOMAIN recs -> StagedRecords]
  BY <1>1, <1>2, StagedMaps DEF Unchanged
<1>4. Restage(prev, recs, p) \in Maps(StagedRecords)
  BY <1>3, LiveMaps, MapsIntro
<1> QED
  BY <1>1, <1>2, <1>4 DEF Unchanged

\* Pending records pair the records' metadata with vectors of their own texts.
LEMMA PendingFacts ==
    ASSUME NEW staged \in Maps(StagedRecords), NEW recs \in Maps(LiveRecords), NEW p \in Profiles,
           DOMAIN staged = DOMAIN recs,
           \A r \in DOMAIN staged : staged[r].vector.of = recs[r].text
    PROVE  /\ Pending(staged, recs, p) \in Maps(LiveRecords)
           /\ DOMAIN Pending(staged, recs, p) = DOMAIN recs
           /\ Whole(Pending(staged, recs, p))
<1>1. DOMAIN recs \subseteq Records
  BY LiveMaps
<1>2. ASSUME NEW r \in DOMAIN staged
      PROVE  /\ [recs[r] EXCEPT !.profile = p, !.vector = staged[r].vector] \in LiveRecords
             /\ [recs[r] EXCEPT !.profile = p, !.vector = staged[r].vector].text = recs[r].text
             /\ [recs[r] EXCEPT !.profile = p, !.vector = staged[r].vector].vector = staged[r].vector
  <2>1. recs[r] \in LiveRecords /\ staged[r] \in StagedRecords
    BY LiveMaps, StagedMaps
  <2> QED
    BY <2>1 DEF LiveRecords, StagedRecords
<1>3. Pending(staged, recs, p) \in [DOMAIN recs -> LiveRecords]
  BY <1>2 DEF Pending
<1>4. Pending(staged, recs, p) \in Maps(LiveRecords)
  BY <1>1, <1>3, MapsIntro
<1> QED
  BY <1>2, <1>3, <1>4 DEF Pending, Whole

\* validate_snapshot_identity succeeds only if there is a snapshot.
LEMMA IdentityHasSnapshot ==
    ASSUME NEW m \in Migrations, SameIdentity(m, snapshot)
    PROVE  snapshot # NoFile
  BY MigrationConstants DEF SameIdentity, Migrations, NoFile, None

\* Where the caller of status goes.
LEMMA AfterStatusMoves ==
    ASSUME HandlersOK, NEW o \in Actors, NEW m \in Migrations, AfterStatus(o, m)
    PROVE  \/ Moved(o, "catch_up", op[o].kind, m, op[o].recs)
           \/ Moved(o, "check", op[o].kind, m, op[o].recs)
           \/ Return(o)
<1>1. {"catch_up", "check"} \subseteq PCs
  BY DEF PCs
<1>2. GotoWith(o, "catch_up", m) => Moved(o, "catch_up", op[o].kind, m, op[o].recs)
  BY <1>1, GotoWithMoves
<1>3. GotoWith(o, "check", m) => Moved(o, "check", op[o].kind, m, op[o].recs)
  BY <1>1, GotoWithMoves
<1> QED
  BY <1>2, <1>3 DEF AfterStatus

\* The caller goes on with a sound migration, or returns.
LEMMA AfterStatusKept ==
    ASSUME CollectionOK, HandlersOK, Grows, NEW o \in Actors, NEW m \in Migrations,
           AfterStatus(o, m), state' # NoMigration, m.frontier < nextSeq',
           m.status \in {"ready", "activating"} => snapshot' # NoFile
    PROVE  HandlersOK' /\ \A a \in Actors \ {o} : op'[a] = op[a]
<1>1. CASE Return(o)
  BY <1>1, HandlerReturns, ReturnMoves DEF Moved
<1>2. ASSUME NEW pc \in {"catch_up", "check"}, Moved(o, pc, op[o].kind, m, op[o].recs)
      PROVE  HandlersOK' /\ \A a \in Actors \ {o} : op'[a] = op[a]
  <2>1. Sound(op[o].m)'
    BY <1>2 DEF Moved, Sound
  <2>2. HandlerOK(op[o])'
    BY <1>2, <2>1 DEF Moved, HandlerOK, Starting, Activating, Switching, Recovering
  <2> QED
    BY <1>2, <2>2, HandlersMoved DEF Moved
<1> QED
  BY <1>1, <1>2, AfterStatusMoves

-----------------------------------------------------------------------------
(* The steps *)

\* start, up to its checks.
LEMMA StartCheckStep ==
    ASSUME MigrationIInv, NEW o \in Ops, NEW p \in Profiles, StartCheck(o, p)
    PROVE  MigrationIInv'
<1> USE DEF MigrationIInv
<1>grows. Grows
  BY QuietGrows DEF StartCheck, files, data, tasks
<1>coll. CollectionOK'
  BY QuietCollection DEF StartCheck, files, data, tasks, CollectionOK
<1>state. StateOK'
  BY <1>grows, StateKept DEF StartCheck, files, data, tasks
<1>snap. SnapshotOK'
  BY <1>grows, SnapshotKept DEF StartCheck, files, data, tasks
<1>build. BuilderOK'
  BY <1>grows, BuilderKept DEF StartCheck, files, data, tasks
<1>moved. Moved(o, "start_read", "start", Migration("running", active, p, 0), <<>>)
  <2> DEFINE h == [Idle EXCEPT !.pc = "start_read", !.kind = "start",
                   !.m = Migration("running", active, p, 0)]
  <2>1. h \in Handlers
    BY IdleHandler DEF Idle, Handlers, PCs, Kinds, Migrations, Migration, Statuses, CollectionOK
  <2>2. op' = [op EXCEPT ![o] = h] /\ op \in [Actors -> Handlers] /\ o \in Actors
    BY DEF StartCheck, HandlersOK, Actors
  <2> QED
    BY <2>1, <2>2 DEF Moved, Idle
<1>here. HandlerOK(op[o])'
  <2>1. Sound(op[o].m)'
    BY <1>moved, <1>coll DEF Moved, Sound, Migration, Migrations, Statuses, CollectionOK,
       StartCheck, files
  <2>2. o \in Actors
    BY DEF Actors
  <2> QED
    BY <1>moved, <2>1, <2>2 DEF Moved, HandlerOK, Starting, Activating, Switching, Recovering
<1>hand. HandlersOK'
  BY <1>grows, <1>moved, <1>here, HandlersMoved DEF Moved, Actors
<1>proc. ProcessOK'
  BY <1>moved, ProcessKept DEF StartCheck, Moved
<1> QED
  BY <1>grows, <1>coll, <1>state, <1>snap, <1>build, <1>hand, <1>proc

\* start reads the records.
LEMMA StartReadStep ==
    ASSUME MigrationIInv, NEW o \in Actors, StartRead(o)
    PROVE  MigrationIInv'
<1> USE DEF MigrationIInv
<1>before. HandlerOK(op[o]) /\ op[o] \in Handlers /\ op \in [Actors -> Handlers]
  BY DEF HandlersOK
<1>call. o \in Ops /\ process = "up"
  BY CallMoves DEF StartRead, At, Recovering
<1>m. Sound(op[o].m) /\ op[o].m \in Migrations
  BY <1>before DEF HandlerOK, Sound, StartRead, At
<1>grows. Grows
  BY QuietGrows DEF StartRead, files, data, tasks
<1>coll. CollectionOK'
  BY QuietCollection DEF StartRead, files, data, tasks, CollectionOK
<1>state. StateOK'
  BY <1>grows, StateKept DEF StartRead, files, data, tasks
<1>snap. SnapshotOK'
  BY <1>grows, SnapshotKept DEF StartRead, files, data, tasks
<1>build. BuilderOK'
  BY <1>grows, BuilderKept DEF StartRead, files, data, tasks
<1>moved. Moved(o, "start_persist", op[o].kind, [op[o].m EXCEPT !.frontier = Frontier(live)], live)
  <2> DEFINE h == [op[o] EXCEPT !.pc = "start_persist", !.recs = live,
                   !.m.frontier = Frontier(live)]
  <2>1. h \in Handlers
    BY <1>before, <1>m, FrontierBelow DEF Handlers, PCs, Starting, Migrations, CollectionOK
  <2>2. op' = [op EXCEPT ![o] = h]
    BY DEF StartRead
  <2> QED
    BY <1>before, <2>1, <2>2 DEF Moved, Handlers
<1>here. HandlerOK(op[o])'
  <2>1. Sound(op[o].m)'
    BY <1>moved, <1>m, FrontierBelow DEF Moved, Sound, Migrations, StartRead, files, data
  <2>2. op'[o].recs \in Maps(LiveRecords) /\ Copied(op[o].recs)'
    BY <1>moved DEF Moved, Copied, CollectionOK, StartRead, data
  <2> QED
    BY <1>moved, <2>1, <2>2 DEF Moved, HandlerOK, Starting, Activating, Switching, Recovering
<1>hand. HandlersOK'
  BY <1>grows, <1>moved, <1>here, HandlersMoved DEF Moved
<1>proc. ProcessOK'
  BY <1>call, <1>moved, ProcessKept DEF StartRead, Moved
<1> QED
  BY <1>grows, <1>coll, <1>state, <1>snap, <1>build, <1>hand, <1>proc

\* start writes the state file.
LEMMA StartPersistStep ==
    ASSUME MigrationIInv, NEW o \in Actors, StartPersist(o)
    PROVE  MigrationIInv'
<1> USE DEF MigrationIInv
<1>before. HandlerOK(op[o]) /\ op[o] \in Handlers /\ op \in [Actors -> Handlers]
  BY DEF HandlersOK
<1>call. o \in Ops /\ process = "up"
  BY CallMoves DEF StartPersist, At, Recovering
<1>m. Sound(op[o].m) /\ op[o].m \in Migrations
  BY <1>before DEF HandlerOK, Sound, StartPersist, At
<1>grows. Grows
  <2>1. state' # NoMigration
    BY <1>m, NotAbsent DEF StartPersist
  <2> QED
    BY <2>1, QuietGrows DEF StartPersist, files, data, tasks
<1>coll. CollectionOK'
  BY QuietCollection DEF StartPersist, files, data, tasks, CollectionOK
<1>state. StateOK'
  BY <1>m DEF StateOK, Sound, StartPersist, data
<1>snap. SnapshotOK'
  BY <1>grows, SnapshotKept DEF StartPersist, files, data, tasks
<1>build. BuilderOK'
  BY <1>grows, BuilderKept DEF StartPersist, files, data, tasks
<1>moved. Moved(o, "start_spawn", op[o].kind, op[o].m, op[o].recs)
  BY GotoMoves DEF StartPersist, PCs, Starting, Activating, Switching, Recovering
<1>here. HandlerOK(op[o])'
  <2>1. Sound(op[o].m)'
    BY <1>moved, <1>m DEF Moved, Sound, StartPersist, data
  <2>2. op[o].recs \in Maps(LiveRecords) /\ Copied(op[o].recs)
    BY <1>before DEF HandlerOK, Starting, StartPersist, At
  <2>3. op'[o].recs \in Maps(LiveRecords) /\ Copied(op[o].recs)'
    BY <1>moved, <2>2 DEF Moved, Copied, StartPersist, data
  <2>4. state' # NoMigration
    BY <1>m, NotAbsent DEF StartPersist
  <2> QED
    BY <1>moved, <2>1, <2>3, <2>4 DEF Moved, HandlerOK, Starting, Activating, Switching, Recovering
<1>hand. HandlersOK'
  BY <1>grows, <1>moved, <1>here, HandlersMoved DEF Moved
<1>proc. ProcessOK'
  BY <1>call, <1>moved, ProcessKept DEF StartPersist, Moved
<1> QED
  BY <1>grows, <1>coll, <1>state, <1>snap, <1>build, <1>hand, <1>proc

\* start spawns the build, or finds one running.
LEMMA StartSpawnStep ==
    ASSUME MigrationIInv, NEW o \in Actors, StartSpawn(o)
    PROVE  MigrationIInv'
<1> USE DEF MigrationIInv
<1>before. HandlerOK(op[o]) /\ op[o] \in Handlers /\ op \in [Actors -> Handlers]
  BY DEF HandlersOK
<1>call. o \in Ops /\ process = "up"
  BY CallMoves DEF StartSpawn, At, Recovering
<1>m. Sound(op[o].m) /\ op[o].m \in Migrations
  BY <1>before DEF HandlerOK, Sound, StartSpawn, At
<1>same. \A a \in Actors \ {o} : op'[a] = op[a]
  BY ReturnMoves DEF StartSpawn, Moved
<1>grows. Grows
  BY QuietGrows DEF StartSpawn, files, data, tasks
<1>coll. CollectionOK'
  BY QuietCollection DEF StartSpawn, files, data, tasks, CollectionOK
<1>state. StateOK'
  BY <1>grows, StateKept DEF StartSpawn, files, data, tasks
<1>snap. SnapshotOK'
  BY <1>grows, SnapshotKept DEF StartSpawn, files, data, tasks
<1>build. BuilderOK'
  <2>1. CASE running
    BY <2>1, <1>grows, BuilderKept DEF StartSpawn
  <2>2. CASE ~running
    <3>1. op[o].recs \in Maps(LiveRecords) /\ Copied(op[o].recs) /\ state # NoMigration
      BY <1>before DEF HandlerOK, Starting, StartSpawn, At
    <3>2. /\ builder' = [pc |-> "read", m |-> NoMigration, staged |-> {}, recs |-> op[o].recs,
                         source |-> op[o].m.source, target |-> op[o].m.target]
          /\ running' = TRUE
      BY <2>2 DEF StartSpawn
    <3>3. builder' \in Builds
      BY <1>m, <3>1, <3>2 DEF Builds, Migrations
    <3>4. Copied(builder.recs)'
      BY <3>1, <3>2 DEF Copied, StartSpawn, data
    <3> QED
      BY <3>1, <3>2, <3>3, <3>4 DEF BuilderOK, StartSpawn, files
  <2> QED
    BY <2>1, <2>2
<1>hand. HandlersOK'
  BY <1>grows, HandlerReturns DEF StartSpawn
<1>proc. ProcessOK'
  BY <1>call, <1>same, ProcessKept DEF StartSpawn
<1> QED
  BY <1>grows, <1>coll, <1>state, <1>snap, <1>build, <1>hand, <1>proc

\* build_snapshot reads the state file.
LEMMA BuildReadStep ==
    ASSUME MigrationIInv, BuildRead
    PROVE  MigrationIInv'
<1> USE DEF MigrationIInv
<1>b. /\ builder \in Builds /\ running /\ Copied(builder.recs) /\ state # NoMigration
      /\ builder.pc # "read" => Sound(builder.m)
  BY DEF BuilderOK, NoBuild, None, BuildRead
<1>grows. Grows
  BY QuietGrows DEF BuildRead, files, data, tasks
<1>coll. CollectionOK'
  BY QuietCollection DEF BuildRead, files, data, tasks, CollectionOK
<1>state. StateOK'
  BY <1>grows, StateKept DEF BuildRead, files, data, tasks
<1>snap. SnapshotOK'
  BY <1>grows, SnapshotKept DEF BuildRead, files, data, tasks
<1>build. BuilderOK'
  <2>1. Sound(state)
    BY <1>b DEF StateOK
  <2>2. builder' \in Builds /\ builder'.pc = "embed" /\ builder'.m = state
        /\ builder'.recs = builder.recs
    BY <1>b, <2>1 DEF BuildRead, Builds, Sound
  <2>3. Copied(builder.recs)' /\ Sound(builder.m)'
    BY <1>b, <2>1, <2>2 DEF Copied, Sound, BuildRead, data, files
  <2> QED
    BY <1>b, <2>2, <2>3 DEF BuilderOK, BuildRead, files
<1>hand. HandlersOK'
  BY <1>grows, HandlersKept DEF BuildRead
<1>proc. ProcessOK'
  BY DEF BuildRead, ProcessOK
<1> QED
  BY <1>grows, <1>coll, <1>state, <1>snap, <1>build, <1>hand, <1>proc

\* build_snapshot embeds a record and writes its state.
LEMMA BuildEmbedStep ==
    ASSUME MigrationIInv, NEW r \in Records, BuildEmbed(r)
    PROVE  MigrationIInv'
<1> USE DEF MigrationIInv
<1>b. /\ builder \in Builds /\ running /\ Copied(builder.recs) /\ state # NoMigration
      /\ builder.pc # "read" => Sound(builder.m)
  BY DEF BuilderOK, NoBuild, None, BuildEmbed
<1>m. Sound(builder.m) /\ builder.m \in Migrations
  BY <1>b DEF BuildEmbed, Sound
<1>grows. Grows
  <2>1. state' # NoMigration
    BY <1>m, NotAbsent DEF BuildEmbed
  <2> QED
    BY <2>1, QuietGrows DEF BuildEmbed, files, data, tasks
<1>coll. CollectionOK'
  BY QuietCollection DEF BuildEmbed, files, data, tasks, CollectionOK
<1>state. StateOK'
  BY <1>m DEF StateOK, Sound, BuildEmbed, data
<1>snap. SnapshotOK'
  BY <1>grows, SnapshotKept DEF BuildEmbed, files, data, tasks
<1>build. BuilderOK'
  <2>1. builder' \in Builds /\ builder'.pc = "embed" /\ builder'.m = builder.m
        /\ builder'.recs = builder.recs
    BY <1>b DEF BuildEmbed, Builds
  <2>2. Copied(builder.recs)' /\ Sound(builder.m)'
    BY <1>b, <1>m, <2>1 DEF Copied, Sound, BuildEmbed, data
  <2> QED
    BY <1>b, <1>grows, <2>1, <2>2 DEF BuilderOK, BuildEmbed, Grows
<1>hand. HandlersOK'
  BY <1>grows, HandlersKept DEF BuildEmbed
<1>proc. ProcessOK'
  BY DEF BuildEmbed, ProcessOK
<1> QED
  BY <1>grows, <1>coll, <1>state, <1>snap, <1>build, <1>hand, <1>proc

\* build_snapshot writes the snapshot.
LEMMA BuildSnapshotStep ==
    ASSUME MigrationIInv, BuildSnapshot
    PROVE  MigrationIInv'
<1> USE DEF MigrationIInv
<1>b. /\ builder \in Builds /\ running /\ Copied(builder.recs) /\ state # NoMigration
      /\ builder.pc # "read" => Sound(builder.m)
  BY DEF BuilderOK, NoBuild, None, BuildSnapshot
<1>s. /\ Stage(builder.recs, builder.target) \in Maps(StagedRecords)
      /\ DOMAIN Stage(builder.recs, builder.target) = DOMAIN builder.recs
      /\ \A r \in DOMAIN builder.recs :
           /\ Stage(builder.recs, builder.target)[r].seq = builder.recs[r].seq
           /\ Stage(builder.recs, builder.target)[r].vector.by = builder.target
           /\ Stage(builder.recs, builder.target)[r].vector.of = builder.recs[r].text
  BY <1>b, StageFacts DEF Builds
<1>new. /\ snapshot' \in Snapshots /\ snapshot'.target = builder.target
        /\ snapshot'.recs = Stage(builder.recs, builder.target)
  BY <1>b, <1>s DEF BuildSnapshot, Snapshots, Builds
<1>exists. snapshot' # NoFile
  BY <1>new, MigrationConstants DEF Snapshots, NoFile, None
<1>grows. Grows
  BY <1>exists, QuietGrows DEF BuildSnapshot, files, data
<1>coll. CollectionOK'
  BY QuietCollection DEF BuildSnapshot, files, data, tasks, CollectionOK
<1>state. StateOK'
  BY <1>grows, StateKept DEF BuildSnapshot
<1>snap. SnapshotOK'
  <2>1. UNCHANGED <<live, nextSeq>>
    BY DEF BuildSnapshot, data
  <2> DEFINE S == Stage(builder.recs, builder.target)
  <2>2. /\ DOMAIN S = DOMAIN builder.recs
        /\ \A r \in DOMAIN S : /\ S[r].seq = builder.recs[r].seq
                               /\ S[r].vector.by = builder.target
                               /\ S[r].vector.of = builder.recs[r].text
    BY <1>s
  <2>3. snapshot'.recs = S
    BY <1>new
  <2> HIDE DEF S
  <2>4. Staged(snapshot.recs, snapshot.target)'
    BY <1>b, <1>new, <2>1, <2>2, <2>3 DEF Staged, Copied
  <2> QED
    BY <1>new, <2>4 DEF SnapshotOK
<1>build. BuilderOK'
  <2>1. builder' \in Builds /\ builder'.pc = "ready" /\ builder'.m = builder.m
        /\ builder'.recs = builder.recs
    BY <1>b DEF BuildSnapshot, Builds
  <2>2. Copied(builder.recs)' /\ Sound(builder.m)'
    BY <1>b, <1>exists, <2>1 DEF Copied, Sound, BuildSnapshot, data
  <2> QED
    BY <1>b, <1>exists, <2>1, <2>2 DEF BuilderOK, BuildSnapshot
<1>hand. HandlersOK'
  BY <1>grows, HandlersKept DEF BuildSnapshot
<1>proc. ProcessOK'
  BY DEF BuildSnapshot, ProcessOK
<1> QED
  BY <1>grows, <1>coll, <1>state, <1>snap, <1>build, <1>hand, <1>proc

\* build_snapshot reports that it is ready.
LEMMA BuildReadyStep ==
    ASSUME MigrationIInv, BuildReady
    PROVE  MigrationIInv'
<1> USE DEF MigrationIInv
<1>b. /\ builder \in Builds /\ running /\ Copied(builder.recs) /\ state # NoMigration
      /\ builder.pc # "read" => Sound(builder.m)
  BY DEF BuilderOK, NoBuild, None, BuildReady
<1>m. Sound(builder.m) /\ builder.m \in Migrations
  BY <1>b DEF BuildReady, Sound
<1>w. WithStatus(builder.m, "ready") \in Migrations /\ WithStatus(builder.m, "ready").frontier = builder.m.frontier
      /\ WithStatus(builder.m, "ready").status = "ready"
  BY <1>m DEF WithStatus, Migrations, Statuses
<1>grows. Grows
  <2>1. state' # NoMigration
    BY <1>w, NotAbsent DEF BuildReady
  <2> QED
    BY <2>1, QuietGrows DEF BuildReady, files, data, tasks
<1>coll. CollectionOK'
  BY QuietCollection DEF BuildReady, files, data, tasks, CollectionOK
<1>state. StateOK'
  <2>1. snapshot # NoFile
    BY DEF BuildReady, BuilderOK, NoBuild, None
  <2> QED
    BY <1>m, <1>w, <2>1 DEF StateOK, Sound, BuildReady, data
<1>snap. SnapshotOK'
  BY <1>grows, SnapshotKept DEF BuildReady, files, data, tasks
<1>build. BuilderOK'
  <2>1. builder' \in Builds /\ builder'.pc = "leave" /\ builder'.m = builder.m
        /\ builder'.recs = builder.recs
    BY <1>b DEF BuildReady, Builds
  <2>2. Copied(builder.recs)' /\ Sound(builder.m)'
    BY <1>b, <1>m, <2>1 DEF Copied, Sound, BuildReady, data
  <2> QED
    BY <1>b, <1>grows, <2>1, <2>2 DEF BuilderOK, BuildReady, Grows
<1>hand. HandlersOK'
  BY <1>grows, HandlersKept DEF BuildReady
<1>proc. ProcessOK'
  BY DEF BuildReady, ProcessOK
<1> QED
  BY <1>grows, <1>coll, <1>state, <1>snap, <1>build, <1>hand, <1>proc

\* build_snapshot fails.
LEMMA BuildFailsStep ==
    ASSUME MigrationIInv, BuildFails
    PROVE  MigrationIInv'
<1> USE DEF MigrationIInv
<1>b. /\ builder \in Builds /\ running /\ Copied(builder.recs) /\ state # NoMigration
      /\ builder.pc # "read" => Sound(builder.m)
  BY DEF BuilderOK, NoBuild, None, BuildFails
<1>m. Sound(builder.m) /\ builder.m \in Migrations
  BY <1>b DEF BuildFails, Sound
<1>n. Sound(state) /\ state \in Migrations
  BY <1>b DEF StateOK, Sound
<1>w. WithStatus(state, "failed") \in Migrations /\ WithStatus(state, "failed").frontier = state.frontier
      /\ WithStatus(state, "failed").status = "failed"
  BY <1>n DEF WithStatus, Migrations, Statuses
<1>grows. Grows
  <2>1. state' # NoMigration
    BY <1>w, NotAbsent DEF BuildFails
  <2> QED
    BY <2>1, QuietGrows DEF BuildFails, files, data, tasks
<1>coll. CollectionOK'
  BY QuietCollection DEF BuildFails, files, data, tasks, CollectionOK
<1>state. StateOK'
  BY <1>n, <1>w DEF StateOK, Sound, BuildFails, data
<1>snap. SnapshotOK'
  BY <1>grows, SnapshotKept DEF BuildFails, files, data, tasks
<1>build. BuilderOK'
  <2>1. builder' \in Builds /\ builder'.pc = "leave" /\ builder'.m = builder.m
        /\ builder'.recs = builder.recs
    BY <1>b DEF BuildFails, Builds
  <2>2. Copied(builder.recs)' /\ Sound(builder.m)'
    BY <1>b, <1>m, <2>1 DEF Copied, Sound, BuildFails, data
  <2> QED
    BY <1>b, <1>grows, <2>1, <2>2 DEF BuilderOK, BuildFails, Grows
<1>hand. HandlersOK'
  BY <1>grows, HandlersKept DEF BuildFails
<1>proc. ProcessOK'
  BY DEF BuildFails, ProcessOK
<1> QED
  BY <1>grows, <1>coll, <1>state, <1>snap, <1>build, <1>hand, <1>proc

\* The build leaves the activity set.
LEMMA BuildLeaveStep ==
    ASSUME MigrationIInv, BuildLeave
    PROVE  MigrationIInv'
<1> USE DEF MigrationIInv
<1>grows. Grows
  BY QuietGrows DEF BuildLeave, files, data, tasks
<1>coll. CollectionOK'
  BY QuietCollection DEF BuildLeave, files, data, tasks, CollectionOK
<1>state. StateOK'
  BY <1>grows, StateKept DEF BuildLeave, files, data, tasks
<1>snap. SnapshotOK'
  BY <1>grows, SnapshotKept DEF BuildLeave, files, data, tasks
<1>build. BuilderOK'
  BY DEF BuilderOK, BuildLeave
<1>hand. HandlersOK'
  BY <1>grows, HandlersKept DEF BuildLeave
<1>proc. ProcessOK'
  BY DEF BuildLeave, ProcessOK
<1> QED
  BY <1>grows, <1>coll, <1>state, <1>snap, <1>build, <1>hand, <1>proc

\* A call of status, catch_up or activate begins.
LEMMA CallStep ==
    ASSUME MigrationIInv, NEW o \in Ops, NEW k \in {"status", "catch_up", "activate"}, Call(o, k)
    PROVE  MigrationIInv'
<1> USE DEF MigrationIInv
<1>grows. Grows
  BY QuietGrows DEF Call, files, data, tasks
<1>coll. CollectionOK'
  BY QuietCollection DEF Call, files, data, tasks, CollectionOK
<1>state. StateOK'
  BY <1>grows, StateKept DEF Call, files, data, tasks
<1>snap. SnapshotOK'
  BY <1>grows, SnapshotKept DEF Call, files, data, tasks
<1>build. BuilderOK'
  BY <1>grows, BuilderKept DEF Call, files, data, tasks
<1>moved. Moved(o, "status", k, NoMigration, <<>>)
  <2> DEFINE h == [Idle EXCEPT !.pc = "status", !.kind = k]
  <2>1. h \in Handlers
    BY IdleHandler DEF Idle, Handlers, PCs, Kinds
  <2>2. op' = [op EXCEPT ![o] = h] /\ op \in [Actors -> Handlers] /\ o \in Actors
    BY DEF Call, HandlersOK, Actors
  <2> QED
    BY <2>1, <2>2 DEF Moved, Idle
<1>here. HandlerOK(op[o])'
  <2>1. o \in Actors /\ state' # NoMigration
    BY DEF Actors, Call, files
  <2> QED
    BY <1>moved, <2>1 DEF Moved, HandlerOK, Starting, Activating, Switching, Recovering
<1>hand. HandlersOK'
  BY <1>grows, <1>moved, <1>here, HandlersMoved DEF Moved, Actors
<1>proc. ProcessOK'
  BY <1>moved, ProcessKept DEF Call, Moved
<1> QED
  BY <1>grows, <1>coll, <1>state, <1>snap, <1>build, <1>hand, <1>proc

\* status, up to the recovery of an interrupted cutover.
LEMMA StatusStep ==
    ASSUME MigrationIInv, NEW o \in Actors, Status(o)
    PROVE  MigrationIInv'
<1> USE DEF MigrationIInv
<1>before. HandlerOK(op[o]) /\ op[o] \in Handlers /\ op \in [Actors -> Handlers]
  BY DEF HandlersOK
<1>call. o \in Ops /\ process = "up"
  BY CallMoves DEF Status, At, Recovering
<1>n. Sound(state) /\ state \in Migrations
  BY <1>before DEF HandlerOK, StateOK, Sound, Status, At
<1>w. WithStatus(state, "failed") \in Migrations /\ WithStatus(state, "failed").frontier = state.frontier
      /\ WithStatus(state, "failed").status = "failed"
  BY <1>n DEF WithStatus, Migrations, Statuses
<1>s. state' \in Migrations /\ state'.frontier = state.frontier
      /\ (state'.status = state.status \/ state'.status = "failed")
  BY <1>n, <1>w DEF Status
<1>grows. Grows
  <2>1. state' # NoMigration
    BY <1>s, NotAbsent
  <2> QED
    BY <2>1, QuietGrows DEF Status, files, data
<1>coll. CollectionOK'
  BY QuietCollection DEF Status, files, data, tasks, CollectionOK
<1>state. StateOK'
  BY <1>n, <1>s DEF StateOK, Sound, Status, data
<1>snap. SnapshotOK'
  BY <1>grows, SnapshotKept DEF Status, files, data, tasks
<1>build. BuilderOK'
  BY <1>grows, BuilderKept DEF Status, files, data, tasks
<1>both. HandlersOK' /\ \A a \in Actors \ {o} : op'[a] = op[a]
  <2>1. state' # NoMigration /\ UNCHANGED <<nextSeq, snapshot>>
    BY <1>s, NotAbsent DEF Status, data
  <2>2. CASE state.status = "activating" /\ GotoWith(o, "recover", state)
    <3>1. Moved(o, "recover", op[o].kind, state, op[o].recs)
      BY <1>n, <2>2, GotoWithMoves DEF PCs, Recovering
    <3>2. Sound(op[o].m)' /\ snapshot' # NoFile
      BY <1>n, <2>1, <2>2, <3>1 DEF Moved, Sound
    <3>3. HandlerOK(op[o])'
      BY <2>1, <3>1, <3>2 DEF Moved, HandlerOK, Starting, Activating, Switching, Recovering
    <3> QED
      BY <1>grows, <3>1, <3>3, HandlersMoved DEF Moved
  <2>3. CASE AfterStatus(o, state')
    <3>1. state'.frontier < nextSeq'
          /\ (state'.status \in {"ready", "activating"} => snapshot' # NoFile)
      BY <1>n, <1>s, <2>1 DEF Sound
    <3> QED
      BY <1>grows, <1>s, <2>1, <2>3, <3>1, AfterStatusKept
  <2>4. CASE AfterStatus(o, state)
    <3>1. state.frontier < nextSeq'
          /\ (state.status \in {"ready", "activating"} => snapshot' # NoFile)
      BY <1>n, <2>1 DEF Sound
    <3> QED
      BY <1>grows, <1>n, <2>1, <2>4, <3>1, AfterStatusKept
  <2> QED
    BY <2>2, <2>3, <2>4 DEF Status
<1>hand. HandlersOK'
  BY <1>both
<1>proc. ProcessOK'
  BY <1>call, <1>both, ProcessKept DEF Status
<1> QED
  BY <1>grows, <1>coll, <1>state, <1>snap, <1>build, <1>hand, <1>proc

\* catch_up refreshes the staged vectors.
LEMMA CatchUpStep ==
    ASSUME MigrationIInv, NEW o \in Actors, CatchUp(o)
    PROVE  MigrationIInv'
<1> USE DEF MigrationIInv
<1>before. HandlerOK(op[o]) /\ op[o] \in Handlers /\ op \in [Actors -> Handlers]
  BY DEF HandlersOK
<1>call. o \in Ops /\ process = "up"
  BY CallMoves DEF CatchUp, At, Recovering
<1>m. Sound(op[o].m) /\ op[o].m \in Migrations
  BY <1>before DEF HandlerOK, Sound, CatchUp, At
<1>grows. Grows
  BY QuietGrows DEF CatchUp, files, data, tasks
<1>coll. CollectionOK'
  BY QuietCollection DEF CatchUp, files, data, tasks, CollectionOK
<1>state. StateOK'
  BY <1>grows, StateKept DEF CatchUp, files, data, tasks
<1>snap. SnapshotOK'
  BY <1>grows, SnapshotKept DEF CatchUp, files, data, tasks
<1>build. BuilderOK'
  BY <1>grows, BuilderKept DEF CatchUp, files, data, tasks
<1>both. HandlersOK' /\ \A a \in Actors \ {o} : op'[a] = op[a]
  <2>1. CASE ~SameIdentity(op[o].m, snapshot)
    BY <1>grows, <2>1, HandlerReturns, ReturnMoves DEF CatchUp, Moved
  <2>2. CASE SameIdentity(op[o].m, snapshot)
    <3> DEFINE R == Restage(snapshot.recs, live, op[o].m.target)
    <3>1. /\ snapshot.recs \in Maps(StagedRecords) /\ snapshot.target = op[o].m.target
          /\ Staged(snapshot.recs, snapshot.target) /\ op[o].m.target \in Profiles
      BY <1>m, <2>2, IdentityHasSnapshot DEF SnapshotOK, Snapshots, SameIdentity, Migrations
    <3>2. /\ R \in Maps(StagedRecords) /\ DOMAIN R = DOMAIN live
          /\ \A r \in DOMAIN live :
               \/ /\ r \in DOMAIN snapshot.recs /\ snapshot.recs[r].seq = live[r].seq
                  /\ R[r] = snapshot.recs[r]
               \/ /\ R[r].seq = live[r].seq
                  /\ R[r].vector.by = op[o].m.target /\ R[r].vector.of = live[r].text
      BY <3>1, RestageFacts DEF CollectionOK
    <3>3. op' = [op EXCEPT ![o].pc = "catch_up_snapshot", ![o].recs = R,
                           ![o].m.frontier = Frontier(live)]
      BY <2>2 DEF CatchUp
    <3> HIDE DEF R
    <3>4. Moved(o, "catch_up_snapshot", op[o].kind,
                [op[o].m EXCEPT !.frontier = Frontier(live)], R)
      <4> DEFINE h == [op[o] EXCEPT !.pc = "catch_up_snapshot", !.recs = R,
                       !.m.frontier = Frontier(live)]
      <4>1. h \in Handlers
        BY <1>before, <1>m, <3>2, FrontierBelow DEF Handlers, PCs, Migrations
      <4>2. op' = [op EXCEPT ![o] = h]
        BY <3>3
      <4> QED
        BY <1>before, <4>1, <4>2 DEF Moved, Handlers
    <3>5. UNCHANGED <<live, nextSeq, snapshot, state>>
      BY DEF CatchUp, data, files
    <3>6. Sound(op[o].m)' /\ op'[o].m.target = op[o].m.target
      BY <1>m, <3>4, <3>5, FrontierBelow DEF Moved, Sound, Migrations
    <3>7. Staged(R, op[o].m.target)
      <4>1. ASSUME NEW r \in DOMAIN R
            PROVE  /\ R[r].seq < nextSeq /\ R[r].vector.by = op[o].m.target
                   /\ live[r].seq = R[r].seq => live[r].text = R[r].vector.of
        BY <3>1, <3>2, <4>1 DEF Staged, CollectionOK
      <4> QED
        BY <4>1 DEF Staged
    <3>8. op'[o].recs \in Maps(StagedRecords) /\ Staged(op[o].recs, op[o].m.target)'
      BY <3>2, <3>4, <3>5, <3>6, <3>7 DEF Moved, Staged
    <3>9. state' # NoMigration
      BY <1>before, <3>5 DEF HandlerOK, CatchUp, At
    <3>10. HandlerOK(op[o])'
      BY <3>4, <3>6, <3>8, <3>9 DEF Moved, HandlerOK, Starting, Activating, Switching, Recovering
    <3> QED
      BY <1>grows, <3>4, <3>10, HandlersMoved DEF Moved
  <2> QED
    BY <2>1, <2>2
<1>hand. HandlersOK'
  BY <1>both
<1>proc. ProcessOK'
  BY <1>call, <1>both, ProcessKept DEF CatchUp
<1> QED
  BY <1>grows, <1>coll, <1>state, <1>snap, <1>build, <1>hand, <1>proc

\* catch_up writes the snapshot.
LEMMA CatchUpSnapshotStep ==
    ASSUME MigrationIInv, NEW o \in Actors, CatchUpSnapshot(o)
    PROVE  MigrationIInv'
<1> USE DEF MigrationIInv
<1>before. HandlerOK(op[o]) /\ op[o] \in Handlers /\ op \in [Actors -> Handlers]
  BY DEF HandlersOK
<1>call. o \in Ops /\ process = "up"
  BY CallMoves DEF CatchUpSnapshot, At, Recovering
<1>m. Sound(op[o].m) /\ op[o].m \in Migrations
  BY <1>before DEF HandlerOK, Sound, CatchUpSnapshot, At
<1>r. op[o].recs \in Maps(StagedRecords) /\ Staged(op[o].recs, op[o].m.target)
  BY <1>before DEF HandlerOK, CatchUpSnapshot, At
<1>new. /\ snapshot' \in Snapshots /\ snapshot'.target = op[o].m.target
        /\ snapshot'.recs = op[o].recs
  BY <1>m, <1>r DEF CatchUpSnapshot, Snapshots, Migrations
<1>exists. snapshot' # NoFile
  BY <1>new, MigrationConstants DEF Snapshots, NoFile, None
<1>grows. Grows
  BY <1>exists, QuietGrows DEF CatchUpSnapshot, files, data
<1>coll. CollectionOK'
  BY QuietCollection DEF CatchUpSnapshot, files, data, tasks, CollectionOK
<1>state. StateOK'
  BY <1>grows, StateKept DEF CatchUpSnapshot
<1>snap. SnapshotOK'
  <2>1. Staged(snapshot.recs, snapshot.target)'
    BY <1>r, <1>new DEF Staged, CatchUpSnapshot, data
  <2> QED
    BY <1>new, <2>1 DEF SnapshotOK
<1>build. BuilderOK'
  BY <1>grows, BuilderKept DEF CatchUpSnapshot, files, data, tasks
<1>moved. Moved(o, "catch_up_state", op[o].kind, op[o].m, op[o].recs)
  BY GotoMoves DEF CatchUpSnapshot, PCs, Starting, Activating, Switching, Recovering
<1>here. HandlerOK(op[o])'
  <2>1. Sound(op[o].m)'
    BY <1>moved, <1>m, <1>exists DEF Moved, Sound, CatchUpSnapshot, data
  <2>2. state' # NoMigration
    BY <1>before DEF HandlerOK, CatchUpSnapshot, At
  <2> QED
    BY <1>moved, <2>1, <2>2 DEF Moved, HandlerOK, Starting, Activating, Switching, Recovering
<1>hand. HandlersOK'
  BY <1>grows, <1>moved, <1>here, HandlersMoved DEF Moved
<1>proc. ProcessOK'
  BY <1>call, <1>moved, ProcessKept DEF CatchUpSnapshot, Moved
<1> QED
  BY <1>grows, <1>coll, <1>state, <1>snap, <1>build, <1>hand, <1>proc

\* catch_up writes the state file.
LEMMA CatchUpStateStep ==
    ASSUME MigrationIInv, NEW o \in Actors, CatchUpState(o)
    PROVE  MigrationIInv'
<1> USE DEF MigrationIInv
<1>before. HandlerOK(op[o]) /\ op[o] \in Handlers /\ op \in [Actors -> Handlers]
  BY DEF HandlersOK
<1>call. o \in Ops /\ process = "up"
  BY CallMoves DEF CatchUpState, At, Recovering
<1>m. Sound(op[o].m) /\ op[o].m \in Migrations
  BY <1>before DEF HandlerOK, Sound, CatchUpState, At
<1>exists. state' # NoMigration
  BY <1>m, NotAbsent DEF CatchUpState
<1>grows. Grows
  BY <1>exists, QuietGrows DEF CatchUpState, files, data
<1>coll. CollectionOK'
  BY QuietCollection DEF CatchUpState, files, data, tasks, CollectionOK
<1>state. StateOK'
  BY <1>m DEF StateOK, Sound, CatchUpState, data
<1>snap. SnapshotOK'
  BY <1>grows, SnapshotKept DEF CatchUpState, files, data, tasks
<1>build. BuilderOK'
  BY <1>grows, BuilderKept DEF CatchUpState, files, data, tasks
<1>both. HandlersOK' /\ \A a \in Actors \ {o} : op'[a] = op[a]
  <2>1. CASE op[o].kind # "activate"
    BY <1>grows, <2>1, HandlerReturns, ReturnMoves DEF CatchUpState, Moved
  <2>2. CASE op[o].kind = "activate"
    <3>1. Moved(o, "status", "activate_again", op[o].m, op[o].recs)
      <4> DEFINE h == [op[o] EXCEPT !.pc = "status", !.kind = "activate_again"]
      <4>1. h \in Handlers
        BY <1>before DEF Handlers, PCs, Kinds
      <4>2. op' = [op EXCEPT ![o] = h]
        BY <2>2 DEF CatchUpState
      <4> QED
        BY <1>before, <4>1, <4>2 DEF Moved, Handlers
    <3>2. HandlerOK(op[o])'
      BY <1>exists, <3>1 DEF Moved, HandlerOK, Starting, Activating, Switching, Recovering
    <3> QED
      BY <1>grows, <3>1, <3>2, HandlersMoved DEF Moved
  <2> QED
    BY <2>1, <2>2
<1>hand. HandlersOK'
  BY <1>both
<1>proc. ProcessOK'
  BY <1>call, <1>both, ProcessKept DEF CatchUpState
<1> QED
  BY <1>grows, <1>coll, <1>state, <1>snap, <1>build, <1>hand, <1>proc

\* activate compares the snapshot with the records.
LEMMA ActivateCheckStep ==
    ASSUME MigrationIInv, NEW o \in Actors, ActivateCheck(o)
    PROVE  MigrationIInv'
<1> USE DEF MigrationIInv
<1>before. HandlerOK(op[o]) /\ op[o] \in Handlers /\ op \in [Actors -> Handlers]
  BY DEF HandlersOK
<1>call. o \in Ops /\ process = "up"
  BY CallMoves DEF ActivateCheck, At, Recovering
<1>m. Sound(op[o].m) /\ op[o].m \in Migrations
  BY <1>before DEF HandlerOK, Sound, ActivateCheck, At
<1>grows. Grows
  BY QuietGrows DEF ActivateCheck, files, data, tasks
<1>coll. CollectionOK'
  BY QuietCollection DEF ActivateCheck, files, data, tasks, CollectionOK
<1>state. StateOK'
  BY <1>grows, StateKept DEF ActivateCheck, files, data, tasks
<1>snap. SnapshotOK'
  BY <1>grows, SnapshotKept DEF ActivateCheck, files, data, tasks
<1>build. BuilderOK'
  BY <1>grows, BuilderKept DEF ActivateCheck, files, data, tasks
<1>both. HandlersOK' /\ \A a \in Actors \ {o} : op'[a] = op[a]
  <2>1. CASE ~(SameIdentity(op[o].m, snapshot) /\ StillCurrent(snapshot.recs, live))
    BY <1>grows, <2>1, HandlerReturns, ReturnMoves DEF ActivateCheck, Moved
  <2>2. CASE SameIdentity(op[o].m, snapshot) /\ StillCurrent(snapshot.recs, live)
    <3> DEFINE P == Pending(snapshot.recs, live, op[o].m.target)
    <3>1. /\ snapshot # NoFile
          /\ snapshot.recs \in Maps(StagedRecords) /\ op[o].m.target \in Profiles
          /\ Staged(snapshot.recs, snapshot.target) /\ live \in Maps(LiveRecords)
      BY <1>m, <2>2, IdentityHasSnapshot DEF SnapshotOK, Snapshots, Migrations, CollectionOK
    <3>2. /\ DOMAIN snapshot.recs = DOMAIN live
          /\ \A r \in DOMAIN snapshot.recs : snapshot.recs[r].vector.of = live[r].text
      BY <2>2, <3>1 DEF StillCurrent, Current, Staged
    <3>3. P \in Maps(LiveRecords) /\ DOMAIN P = DOMAIN live /\ Whole(P)
      BY <3>1, <3>2, PendingFacts
    <3>4. op' = [op EXCEPT ![o].pc = "activating", ![o].recs = P]
      BY <2>2 DEF ActivateCheck
    <3> HIDE DEF P
    <3>5. Moved(o, "activating", op[o].kind, op[o].m, P)
      <4> DEFINE h == [op[o] EXCEPT !.pc = "activating", !.recs = P]
      <4>1. h \in Handlers
        BY <1>before, <3>3 DEF Handlers, PCs, Activating
      <4>2. op' = [op EXCEPT ![o] = h]
        BY <3>4
      <4> QED
        BY <1>before, <4>1, <4>2 DEF Moved, Handlers
    <3>6. UNCHANGED <<live, nextSeq, snapshot, state>>
      BY DEF ActivateCheck, data, files
    <3>7. Sound(op[o].m)'
      BY <1>m, <3>5, <3>6 DEF Moved, Sound
    <3>8. op'[o].recs \in Maps(LiveRecords) /\ Whole(op[o].recs)'
          /\ DOMAIN op'[o].recs = DOMAIN live'
      BY <3>3, <3>5, <3>6 DEF Moved, Whole
    <3>9. state' # NoMigration
      BY <1>before, <3>6 DEF HandlerOK, ActivateCheck, At
    <3>10. HandlerOK(op[o])'
      BY <3>1, <3>5, <3>6, <3>7, <3>8, <3>9
         DEF Moved, HandlerOK, Starting, Activating, Switching, Recovering
    <3> QED
      BY <1>grows, <3>5, <3>10, HandlersMoved DEF Moved
  <2> QED
    BY <2>1, <2>2
<1>hand. HandlersOK'
  BY <1>both
<1>proc. ProcessOK'
  BY <1>call, <1>both, ProcessKept DEF ActivateCheck
<1> QED
  BY <1>grows, <1>coll, <1>state, <1>snap, <1>build, <1>hand, <1>proc

\* activate marks the migration as activating.
LEMMA ActivatePersistStep ==
    ASSUME MigrationIInv, NEW o \in Actors, ActivatePersist(o)
    PROVE  MigrationIInv'
<1> USE DEF MigrationIInv
<1>before. HandlerOK(op[o]) /\ op[o] \in Handlers /\ op \in [Actors -> Handlers]
  BY DEF HandlersOK
<1>call. o \in Ops /\ process = "up"
  BY CallMoves DEF ActivatePersist, At, Recovering
<1>m. Sound(op[o].m) /\ op[o].m \in Migrations
  BY <1>before DEF HandlerOK, Sound, ActivatePersist, At
<1>r. /\ snapshot # NoFile /\ op[o].recs \in Maps(LiveRecords) /\ Whole(op[o].recs)
      /\ \A r \in DOMAIN live \ DOMAIN op[o].recs : live[r].seq > op[o].m.frontier
  BY <1>before DEF HandlerOK, Activating, ActivatePersist, At
<1>w. WithStatus(op[o].m, "activating") \in Migrations /\ WithStatus(op[o].m, "activating").frontier = op[o].m.frontier
      /\ WithStatus(op[o].m, "activating").status = "activating"
  BY <1>m DEF WithStatus, Migrations, Statuses
<1>exists. state' # NoMigration
  BY <1>w, NotAbsent DEF ActivatePersist
<1>grows. Grows
  BY <1>exists, QuietGrows DEF ActivatePersist, files, data
<1>coll. CollectionOK'
  BY QuietCollection DEF ActivatePersist, files, data, tasks, CollectionOK
<1>state. StateOK'
  BY <1>m, <1>w, <1>r DEF StateOK, Sound, ActivatePersist, data
<1>snap. SnapshotOK'
  BY <1>grows, SnapshotKept DEF ActivatePersist, files, data, tasks
<1>build. BuilderOK'
  BY <1>grows, BuilderKept DEF ActivatePersist, files, data, tasks
<1>moved. Moved(o, "prepare", op[o].kind, WithStatus(op[o].m, "activating"), op[o].recs)
  BY <1>w, GotoWithMoves DEF ActivatePersist, PCs, Activating
<1>here. HandlerOK(op[o])'
  <2>1. UNCHANGED <<live, nextSeq, snapshot>>
    BY DEF ActivatePersist, data
  <2>2. Sound(op[o].m)' /\ op'[o].m.frontier = op[o].m.frontier
    BY <1>moved, <1>m, <1>w, <1>r, <2>1 DEF Moved, Sound
  <2>3. Whole(op[o].recs)' /\ op'[o].recs = op[o].recs
    BY <1>moved, <1>r DEF Moved, Whole
  <2>4. \A r \in DOMAIN live' \ DOMAIN op'[o].recs : live'[r].seq > op'[o].m.frontier
    BY <1>r, <2>1, <2>2, <2>3
  <2> QED
    BY <1>moved, <1>r, <1>exists, <2>1, <2>2, <2>3, <2>4 DEF Moved, HandlerOK, Starting, Activating, Switching, Recovering
<1>hand. HandlersOK'
  BY <1>grows, <1>moved, <1>here, HandlersMoved DEF Moved
<1>proc. ProcessOK'
  BY <1>call, <1>moved, ProcessKept DEF ActivatePersist, Moved
<1> QED
  BY <1>grows, <1>coll, <1>state, <1>snap, <1>build, <1>hand, <1>proc

\* activate writes the journal before it publishes.
LEMMA JournalPreparedStep ==
    ASSUME MigrationIInv, NEW o \in Actors, JournalPrepared(o)
    PROVE  MigrationIInv'
<1> USE DEF MigrationIInv
<1>before. HandlerOK(op[o]) /\ op[o] \in Handlers /\ op \in [Actors -> Handlers]
  BY DEF HandlersOK
<1>call. o \in Ops /\ process = "up"
  BY CallMoves DEF JournalPrepared, Journal, At, Recovering
<1>m. Sound(op[o].m) /\ op[o].m \in Migrations
  BY <1>before DEF HandlerOK, Sound, JournalPrepared, Journal, At
<1>r. /\ snapshot # NoFile /\ op[o].recs \in Maps(LiveRecords) /\ Whole(op[o].recs)
      /\ \A r \in DOMAIN live \ DOMAIN op[o].recs : live[r].seq > op[o].m.frontier
  BY <1>before DEF HandlerOK, Activating, JournalPrepared, Journal, At
<1>grows. Grows
  BY QuietGrows DEF JournalPrepared, Journal, files, data, tasks
<1>coll. CollectionOK'
  BY QuietCollection DEF JournalPrepared, Journal, files, data, tasks, CollectionOK
<1>state. StateOK'
  BY <1>grows, StateKept DEF JournalPrepared, Journal, files, data, tasks
<1>snap. SnapshotOK'
  BY <1>grows, SnapshotKept DEF JournalPrepared, Journal, files, data, tasks
<1>build. BuilderOK'
  BY <1>grows, BuilderKept DEF JournalPrepared, Journal, files, data, tasks
<1>moved. Moved(o, "publish", op[o].kind, op[o].m, op[o].recs)
  BY GotoMoves DEF JournalPrepared, Journal, PCs, Starting, Activating, Switching, Recovering
<1>here. HandlerOK(op[o])'
  <2>1. UNCHANGED <<live, nextSeq, snapshot, state>>
    BY DEF JournalPrepared, Journal, data
  <2>2. Sound(op[o].m)' /\ op'[o].m = op[o].m /\ op'[o].recs = op[o].recs
    BY <1>moved, <1>m, <2>1 DEF Moved, Sound
  <2>3. state' # NoMigration
    BY <1>before, <2>1 DEF HandlerOK, JournalPrepared, Journal, At
  <2>4. Whole(op[o].recs)'
    BY <1>r, <2>2 DEF Whole
  <2> QED
    BY <1>moved, <1>r, <2>1, <2>2, <2>3, <2>4 DEF Moved, HandlerOK, Starting, Activating, Switching, Recovering
<1>hand. HandlersOK'
  BY <1>grows, <1>moved, <1>here, HandlersMoved DEF Moved
<1>proc. ProcessOK'
  BY <1>call, <1>moved, ProcessKept DEF JournalPrepared, Journal, Moved
<1> QED
  BY <1>grows, <1>coll, <1>state, <1>snap, <1>build, <1>hand, <1>proc

\* activate records that the vectors are published.
LEMMA JournalPublishedStep ==
    ASSUME MigrationIInv, NEW o \in Actors, JournalPublished(o)
    PROVE  MigrationIInv'
<1> USE DEF MigrationIInv
<1>before. HandlerOK(op[o]) /\ op[o] \in Handlers /\ op \in [Actors -> Handlers]
  BY DEF HandlersOK
<1>call. o \in Ops /\ process = "up"
  BY CallMoves DEF JournalPublished, Journal, At, Recovering
<1>m. Sound(op[o].m) /\ op[o].m \in Migrations
  BY <1>before DEF HandlerOK, Sound, JournalPublished, Journal, At
<1>grows. Grows
  BY QuietGrows DEF JournalPublished, Journal, files, data, tasks
<1>coll. CollectionOK'
  BY QuietCollection DEF JournalPublished, Journal, files, data, tasks, CollectionOK
<1>state. StateOK'
  BY <1>grows, StateKept DEF JournalPublished, Journal, files, data, tasks
<1>snap. SnapshotOK'
  BY <1>grows, SnapshotKept DEF JournalPublished, Journal, files, data, tasks
<1>build. BuilderOK'
  BY <1>grows, BuilderKept DEF JournalPublished, Journal, files, data, tasks
<1>moved. Moved(o, "finalize", op[o].kind, op[o].m, op[o].recs)
  BY GotoMoves DEF JournalPublished, Journal, PCs, Starting, Activating, Switching, Recovering
<1>here. HandlerOK(op[o])'
  <2>1. UNCHANGED <<live, nextSeq, snapshot, state>>
    BY DEF JournalPublished, Journal, data
  <2>2. Sound(op[o].m)' /\ op'[o].m = op[o].m /\ op'[o].recs = op[o].recs
    BY <1>moved, <1>m, <2>1 DEF Moved, Sound
  <2>3. state' # NoMigration
    BY <1>before, <2>1 DEF HandlerOK, JournalPublished, Journal, At
  <2>4. \A r \in DOMAIN live : live[r].seq > op[o].m.frontier
    BY <1>before DEF HandlerOK, Switching, JournalPublished, Journal, At
  <2> QED
    BY <1>moved, <2>1, <2>2, <2>3, <2>4 DEF Moved, HandlerOK, Starting, Activating, Switching, Recovering
<1>hand. HandlersOK'
  BY <1>grows, <1>moved, <1>here, HandlersMoved DEF Moved
<1>proc. ProcessOK'
  BY <1>call, <1>moved, ProcessKept DEF JournalPublished, Journal, Moved
<1> QED
  BY <1>grows, <1>coll, <1>state, <1>snap, <1>build, <1>hand, <1>proc

\* activate records that the profile is switched.
LEMMA JournalCommittedStep ==
    ASSUME MigrationIInv, NEW o \in Actors, JournalCommitted(o)
    PROVE  MigrationIInv'
<1> USE DEF MigrationIInv
<1>before. HandlerOK(op[o]) /\ op[o] \in Handlers /\ op \in [Actors -> Handlers]
  BY DEF HandlersOK
<1>call. o \in Ops /\ process = "up"
  BY CallMoves DEF JournalCommitted, Journal, At, Recovering
<1>m. Sound(op[o].m) /\ op[o].m \in Migrations
  BY <1>before DEF HandlerOK, Sound, JournalCommitted, Journal, At
<1>grows. Grows
  BY QuietGrows DEF JournalCommitted, Journal, files, data, tasks
<1>coll. CollectionOK'
  BY QuietCollection DEF JournalCommitted, Journal, files, data, tasks, CollectionOK
<1>state. StateOK'
  BY <1>grows, StateKept DEF JournalCommitted, Journal, files, data, tasks
<1>snap. SnapshotOK'
  BY <1>grows, SnapshotKept DEF JournalCommitted, Journal, files, data, tasks
<1>build. BuilderOK'
  BY <1>grows, BuilderKept DEF JournalCommitted, Journal, files, data, tasks
<1>moved. Moved(o, "persist_activated", op[o].kind, op[o].m, op[o].recs)
  BY GotoMoves DEF JournalCommitted, Journal, PCs, Starting, Activating, Switching, Recovering
<1>here. HandlerOK(op[o])'
  <2>1. UNCHANGED <<live, nextSeq, snapshot, state>>
    BY DEF JournalCommitted, Journal, data
  <2>2. Sound(op[o].m)' /\ op'[o].m = op[o].m /\ op'[o].recs = op[o].recs
    BY <1>moved, <1>m, <2>1 DEF Moved, Sound
  <2>3. state' # NoMigration
    BY <1>before, <2>1 DEF HandlerOK, JournalCommitted, Journal, At
  <2> QED
    BY <1>moved, <2>2, <2>3 DEF Moved, HandlerOK, Starting, Activating, Switching, Recovering
<1>hand. HandlersOK'
  BY <1>grows, <1>moved, <1>here, HandlersMoved DEF Moved
<1>proc. ProcessOK'
  BY <1>call, <1>moved, ProcessKept DEF JournalCommitted, Journal, Moved
<1> QED
  BY <1>grows, <1>coll, <1>state, <1>snap, <1>build, <1>hand, <1>proc

\* A batch is published: with the sequence numbers n.
PublishAs(o, n) ==
    /\ live' = [r \in DOMAIN live \cup DOMAIN n |->
          IF r \in DOMAIN n THEN [op[o].recs[r] EXCEPT !.seq = n[r]] ELSE live[r]]
    /\ nextSeq' = nextSeq + Cardinality(DOMAIN n)
    /\ Goto(o, "published")
PublishBatch(o) == \E n \in Sequences(DOMAIN op[o].recs) : PublishAs(o, n)

\* What that does to the records.
PublishedWell(o, n) ==
    /\ nextSeq' = nextSeq + Cardinality(DOMAIN op[o].recs)
    /\ DOMAIN live' = DOMAIN live \cup DOMAIN op[o].recs
    /\ \A r \in DOMAIN live' \ DOMAIN op[o].recs : r \in DOMAIN live /\ live'[r] = live[r]
    /\ \A r \in DOMAIN op[o].recs :
          /\ live'[r] \in LiveRecords /\ live'[r].seq = n[r]
          /\ live'[r].text = op[o].recs[r].text /\ live'[r].vector = op[o].recs[r].vector
          /\ n[r] \in Nat /\ nextSeq <= n[r] /\ n[r] < nextSeq'
    /\ \A q, r \in DOMAIN op[o].recs : n[q] = n[r] => q = r

\* Each record of the batch gets a new sequence number of its own.
LEMMA PublishFacts ==
    ASSUME NEW o \in Actors, NEW n \in Sequences(DOMAIN op[o].recs), PublishAs(o, n),
           Cardinality(DOMAIN op[o].recs) \in Nat, nextSeq \in Nat \ {0},
           op[o].recs \in Maps(LiveRecords)
    PROVE  PublishedWell(o, n)
<1> DEFINE ids == DOMAIN op[o].recs
<1>1. /\ n \in [ids -> nextSeq .. (nextSeq + Cardinality(ids) - 1)]
      /\ \A q, r \in ids : n[q] = n[r] => q = r
  BY DEF Sequences
<1>2. DOMAIN n = ids /\ nextSeq' = nextSeq + Cardinality(ids)
  BY <1>1 DEF PublishAs
<1>3. ASSUME NEW r \in ids
      PROVE  n[r] \in Nat /\ nextSeq <= n[r] /\ n[r] < nextSeq'
  <2> DEFINE c == Cardinality(ids)
  <2>1. n[r] \in nextSeq .. (nextSeq + c - 1) /\ c \in Nat /\ nextSeq' = nextSeq + c
    BY <1>1, <1>2
  <2> HIDE DEF c
  <2> QED
    BY <2>1
<1>4. ASSUME NEW r \in ids
      PROVE  /\ live'[r] \in LiveRecords /\ live'[r].seq = n[r]
             /\ live'[r].text = op[o].recs[r].text /\ live'[r].vector = op[o].recs[r].vector
  <2>1. op[o].recs[r] \in LiveRecords
    BY LiveMaps
  <2>2. live'[r] = [op[o].recs[r] EXCEPT !.seq = n[r]]
    BY <1>2 DEF PublishAs
  <2> QED
    BY <1>3, <2>1, <2>2 DEF LiveRecords
<1>5. /\ DOMAIN live' = DOMAIN live \cup ids
      /\ \A r \in DOMAIN live' \ ids : r \in DOMAIN live /\ live'[r] = live[r]
  BY <1>2 DEF PublishAs
<1> QED
  BY <1>1, <1>2, <1>3, <1>4, <1>5 DEF PublishedWell

\* publish_embedding_migration_vectors.
LEMMA PublishStep ==
    ASSUME MigrationIInv, NEW o \in Actors, Publish(o)
    PROVE  MigrationIInv'
<1> USE DEF MigrationIInv
<1>before. HandlerOK(op[o]) /\ op[o] \in Handlers /\ op \in [Actors -> Handlers]
  BY DEF HandlersOK
<1>call. o \in Ops /\ process = "up"
  BY CallMoves DEF Publish, At, Recovering
<1>m. Sound(op[o].m) /\ op[o].m \in Migrations
  BY <1>before DEF HandlerOK, Sound, Publish, At
<1>r. /\ snapshot # NoFile /\ op[o].recs \in Maps(LiveRecords) /\ Whole(op[o].recs)
      /\ \A r \in DOMAIN live \ DOMAIN op[o].recs : live[r].seq > op[o].m.frontier
  BY <1>before DEF HandlerOK, Activating, Publish, At
<1>cases. \/ Return(o) /\ UNCHANGED data
          \/ PublishBatch(o)
  BY DEF Publish, PublishBatch, PublishAs
<1>card. Cardinality(DOMAIN op[o].recs) \in Nat
  BY <1>r, LiveMaps, MigrationConstants, FS_Subset, FS_CardinalityType
<1>next. nextSeq \in Nat \ {0}
  BY DEF CollectionOK
<1>grows. Grows
  <2>1. UNCHANGED <<snapshot, state>>
    BY DEF Publish, files
  <2>2. CASE Return(o) /\ UNCHANGED data
    BY <2>1, <2>2, QuietGrows
  <2>3. CASE PublishBatch(o)
    <3>1. PICK n \in Sequences(DOMAIN op[o].recs) : PublishAs(o, n)
      BY <2>3 DEF PublishBatch
    <3>2. PublishedWell(o, n)
      BY <1>card, <1>next, <1>r, <3>1, PublishFacts
    <3> QED
      BY <1>card, <1>next, <2>1, <3>2 DEF Grows, PublishedWell
  <2> QED
    BY <1>cases, <2>2, <2>3
<1>coll. CollectionOK'
  <2>1. UNCHANGED <<active, configTemp, writer>>
    BY DEF Publish, files, tasks
  <2>2. CASE Return(o) /\ UNCHANGED data
    BY <2>1, <2>2, QuietCollection DEF CollectionOK
  <2>3. CASE PublishBatch(o)
    <3>1. PICK n \in Sequences(DOMAIN op[o].recs) : PublishAs(o, n)
      BY <2>3 DEF PublishBatch
    <3>2. PublishedWell(o, n)
      BY <1>card, <1>next, <1>r, <3>1, PublishFacts
    <3>3. DOMAIN live' \subseteq Records /\ \A r \in DOMAIN live' : live'[r] \in LiveRecords
      BY <1>r, <3>2, LiveMaps DEF PublishedWell, CollectionOK
    <3>4. live' \in Maps(LiveRecords)
      <4>1. live' \in [DOMAIN live' -> LiveRecords]
        BY <3>1, <3>3 DEF PublishAs
      <4> QED
        BY <3>3, <4>1, MapsIntro
    <3>5. Whole(live)'
      BY <1>r, <3>2 DEF PublishedWell, CollectionOK, Whole
    <3>6. \A r \in DOMAIN live' : live'[r].seq \in 1 .. nextSeq' - 1
      BY <1>card, <1>next, <3>2 DEF PublishedWell, CollectionOK
    <3>7. \A q, r \in DOMAIN live' : live'[q].seq = live'[r].seq => q = r
      BY <1>card, <1>next, <3>2 DEF PublishedWell, CollectionOK
    <3>8. nextSeq' \in Nat \ {0}
      BY <1>card, <1>next, <3>2 DEF PublishedWell
    <3> QED
      BY <2>1, <3>4, <3>5, <3>6, <3>7, <3>8 DEF CollectionOK
  <2> QED
    BY <1>cases, <2>2, <2>3
<1>state. StateOK'
  BY <1>grows, StateKept DEF Publish, files, data, tasks
<1>snap. SnapshotOK'
  BY <1>grows, SnapshotKept DEF Publish, files, data, tasks
<1>build. BuilderOK'
  BY <1>grows, BuilderKept DEF Publish, files, data, tasks
<1>both. HandlersOK' /\ \A a \in Actors \ {o} : op'[a] = op[a]
  <2>1. CASE Return(o) /\ UNCHANGED data
    BY <1>grows, <2>1, HandlerReturns, ReturnMoves DEF Moved
  <2>2. CASE PublishBatch(o)
    <3>1. PICK n \in Sequences(DOMAIN op[o].recs) : PublishAs(o, n)
      BY <2>2 DEF PublishBatch
    <3>2. PublishedWell(o, n)
      BY <1>card, <1>next, <1>r, <3>1, PublishFacts
    <3>3. Moved(o, "published", op[o].kind, op[o].m, op[o].recs)
      BY <3>1, GotoMoves DEF PublishAs, PCs, Switching
    <3>4. UNCHANGED <<snapshot, state>>
      BY DEF Publish, files
    <3>5. op[o].m.frontier \in Nat /\ op[o].m.frontier < nextSeq
      BY <1>m DEF Sound, Migrations
    <3>6. Sound(op[o].m)'
      BY <1>card, <1>next, <1>m, <3>2, <3>3, <3>4, <3>5 DEF Moved, Sound, PublishedWell
    <3>7. \A r \in DOMAIN live' : live'[r].seq > op[o].m.frontier
      BY <1>next, <1>r, <3>2, <3>5 DEF PublishedWell
    <3>8. state' # NoMigration
      BY <1>before, <3>4 DEF HandlerOK, Publish, At
    <3>9. HandlerOK(op[o])'
      BY <3>3, <3>6, <3>7, <3>8 DEF Moved, HandlerOK, Starting, Activating, Switching, Recovering
    <3> QED
      BY <1>grows, <3>3, <3>9, HandlersMoved DEF Moved
  <2> QED
    BY <1>cases, <2>1, <2>2
<1>hand. HandlersOK'
  BY <1>both
<1>proc. ProcessOK'
  BY <1>call, <1>both, ProcessKept DEF Publish
<1> QED
  BY <1>grows, <1>coll, <1>state, <1>snap, <1>build, <1>hand, <1>proc

\* activate reports success.
LEMMA ActivatePersistDoneStep ==
    ASSUME MigrationIInv, NEW o \in Actors, ActivatePersistDone(o)
    PROVE  MigrationIInv'
<1> USE DEF MigrationIInv
<1>before. HandlerOK(op[o]) /\ op[o] \in Handlers /\ op \in [Actors -> Handlers]
  BY DEF HandlersOK
<1>call. o \in Ops /\ process = "up"
  BY CallMoves DEF ActivatePersistDone, At, Recovering
<1>m. Sound(op[o].m) /\ op[o].m \in Migrations
  BY <1>before DEF HandlerOK, Sound, ActivatePersistDone, At
<1>w. WithStatus(op[o].m, "activated") \in Migrations /\ WithStatus(op[o].m, "activated").frontier = op[o].m.frontier
      /\ WithStatus(op[o].m, "activated").status = "activated"
  BY <1>m DEF WithStatus, Migrations, Statuses
<1>same. \A a \in Actors \ {o} : op'[a] = op[a]
  BY ReturnMoves DEF ActivatePersistDone, Moved
<1>exists. state' # NoMigration
  BY <1>w, NotAbsent DEF ActivatePersistDone
<1>grows. Grows
  BY <1>exists, QuietGrows DEF ActivatePersistDone, files, data
<1>coll. CollectionOK'
  BY QuietCollection DEF ActivatePersistDone, files, data, tasks, CollectionOK
<1>state. StateOK'
  BY <1>m, <1>w DEF StateOK, Sound, ActivatePersistDone, data
<1>snap. SnapshotOK'
  BY <1>grows, SnapshotKept DEF ActivatePersistDone, files, data, tasks
<1>build. BuilderOK'
  BY <1>grows, BuilderKept DEF ActivatePersistDone, files, data, tasks
<1>hand. HandlersOK'
  BY <1>grows, HandlerReturns DEF ActivatePersistDone
<1>proc. ProcessOK'
  BY <1>call, <1>same, ProcessKept DEF ActivatePersistDone
<1> QED
  BY <1>grows, <1>coll, <1>state, <1>snap, <1>build, <1>hand, <1>proc

\* A handler that moves in a call, or in start-up recovery, which ends or goes on.
LEMMA ProcessMoves ==
    ASSUME ProcessOK, NEW o \in Actors, op[o].pc # "idle",
           \A a \in Actors \ {o} : op'[a] = op[a],
           o # Boot => process' = process,
           o = Boot =>
             \/ /\ process' = process
                /\ op'[o].pc \in Recovering /\ op'[o].kind = op[o].kind
             \/ process' \in {"up", "down"} /\ op'[o].pc = "idle"
    PROVE  ProcessOK'
<1>1. Boot \in Actors /\ Ops \subseteq Actors /\ "idle" \notin Recovering
  BY DEF Actors, Recovering
<1>2. CASE o = Boot
  <2>1. process = "booting" /\ \A a \in Ops : op[a].pc = "idle" /\ op[Boot].kind = "boot"
    BY <1>2 DEF ProcessOK
  <2>2. \A a \in Ops : op'[a].pc = "idle"
    BY <1>1, <1>2, <2>1, MigrationConstants
  <2>3. CASE process' = process /\ op'[o].pc \in Recovering /\ op'[o].kind = op[o].kind
    BY <1>1, <1>2, <2>1, <2>2, <2>3 DEF ProcessOK
  <2>4. CASE process' \in {"up", "down"} /\ op'[o].pc = "idle"
    BY <1>1, <1>2, <2>1, <2>2, <2>4 DEF ProcessOK
  <2> QED
    BY <1>2, <2>3, <2>4
<1>3. CASE o # Boot
  <2>1. o \in Ops /\ process = "up" /\ process' = process
    BY <1>3 DEF ProcessOK, Actors
  <2> QED
    BY <2>1, ProcessKept
<1> QED
  BY <1>2, <1>3

\* finalize_embedding_profile_cutover.
LEMMA FinalizeStep ==
    ASSUME MigrationIInv, NEW o \in Actors, Finalize(o)
    PROVE  MigrationIInv'
<1> USE DEF MigrationIInv
<1>before. HandlerOK(op[o]) /\ op[o] \in Handlers /\ op \in [Actors -> Handlers]
  BY DEF HandlersOK
<1>m. Sound(op[o].m) /\ op[o].m \in Migrations /\ op[o].pc # "idle" /\ state # NoMigration
  BY <1>before DEF HandlerOK, Sound, Finalize, Finalizing, At
<1>cases. \/ Return(o)
          \/ Goto(o, IF At(o, "finalize") THEN "commit" ELSE "recover_activated") /\ process' = process
  <2>1. ASSUME Goto(o, IF At(o, "finalize") THEN "commit" ELSE "recover_activated")
        PROVE  op'[o].pc # "idle"
    <3>1. CASE At(o, "finalize")
      BY <2>1, <3>1, <1>before, GotoMoves DEF Moved, PCs
    <3>2. CASE ~At(o, "finalize")
      BY <2>1, <3>2, <1>before, GotoMoves DEF Moved, PCs, Recovering
    <3> QED
      BY <3>1, <3>2
  <2> QED
    BY <2>1 DEF Finalize
<1>grows. Grows
  BY QuietGrows DEF Finalize, files, data, tasks
<1>coll. CollectionOK'
  <2>1. active' \in Profiles
    BY <1>m DEF Finalize, Migrations, CollectionOK
  <2> QED
    BY <2>1, QuietCollection DEF Finalize, tasks, CollectionOK
<1>state. StateOK'
  BY <1>grows, StateKept DEF Finalize, files, data, tasks
<1>snap. SnapshotOK'
  BY <1>grows, SnapshotKept DEF Finalize, files, data, tasks
<1>build. BuilderOK'
  BY <1>grows, BuilderKept DEF Finalize, files, data, tasks
<1>both. /\ HandlersOK' /\ \A a \in Actors \ {o} : op'[a] = op[a]
         /\ \/ Return(o)
            \/ /\ op'[o].pc \in {"commit", "recover_activated"} /\ op'[o].kind = op[o].kind
               /\ process' = process /\ (op'[o].pc = "commit" => At(o, "finalize"))
  <2>1. CASE Return(o)
    BY <1>grows, <2>1, HandlerReturns, ReturnMoves DEF Moved
  <2>2. ASSUME NEW pc \in {"commit", "recover_activated"}, Goto(o, pc), process' = process,
               pc = "commit" <=> At(o, "finalize")
        PROVE  /\ HandlersOK' /\ \A a \in Actors \ {o} : op'[a] = op[a]
               /\ op'[o].pc \in {"commit", "recover_activated"} /\ op'[o].kind = op[o].kind
               /\ op'[o].pc = "commit" => At(o, "finalize")
    <3>1. Moved(o, pc, op[o].kind, op[o].m, op[o].recs)
      BY <2>2, GotoMoves DEF PCs, Recovering
    <3>2. UNCHANGED <<nextSeq, snapshot, state>>
      BY DEF Finalize, data
    <3>3. Sound(op[o].m)'
      BY <1>m, <3>1, <3>2 DEF Moved, Sound
    <3>4. pc = "recover_activated" => snapshot' # NoFile
      BY <1>before, <2>2, <3>2 DEF HandlerOK, Recovering, Finalize, Finalizing, At
    <3>5. HandlerOK(op[o])'
      BY <1>m, <3>1, <3>2, <3>3, <3>4
         DEF Moved, HandlerOK, Starting, Activating, Switching, Recovering
    <3> QED
      BY <1>grows, <2>2, <3>1, <3>5, HandlersMoved DEF Moved
  <2>3. CASE At(o, "finalize")
    BY <1>cases, <2>1, <2>2, <2>3
  <2>4. CASE ~At(o, "finalize")
    BY <1>cases, <2>1, <2>2, <2>4
  <2> QED
    BY <2>3, <2>4
<1>hand. HandlersOK'
  BY <1>both
<1>proc. ProcessOK'
  <2>1. o # Boot => process' = process
    BY DEF Finalize
  <2>2. CASE Return(o)
    <3>1. op'[o].pc = "idle"
      BY <2>2, ReturnMoves DEF Moved
    <3>2. o = Boot => process' = "down"
      BY <3>1 DEF Finalize
    <3> QED
      BY <1>m, <1>both, <2>1, <3>1, <3>2, ProcessMoves
  <2>3. CASE op'[o].pc \in {"commit", "recover_activated"} /\ op'[o].kind = op[o].kind
              /\ process' = process /\ (op'[o].pc = "commit" => At(o, "finalize"))
    <3>1. o = Boot => op'[o].pc \in Recovering
      BY <2>3 DEF ProcessOK, Recovering, At
    <3> QED
      BY <1>m, <1>both, <2>1, <2>3, <3>1, ProcessMoves
  <2> QED
    BY <1>both, <2>2, <2>3
<1> QED
  BY <1>grows, <1>coll, <1>state, <1>snap, <1>build, <1>hand, <1>proc

\* recover_cutover decides.
LEMMA RecoverStep ==
    ASSUME MigrationIInv, NEW o \in Actors, Recover(o)
    PROVE  MigrationIInv'
<1> USE DEF MigrationIInv
<1>before. HandlerOK(op[o]) /\ op[o] \in Handlers /\ op \in [Actors -> Handlers]
  BY DEF HandlersOK
<1>m. /\ Sound(op[o].m) /\ op[o].m \in Migrations /\ op[o].pc # "idle"
      /\ state # NoMigration /\ snapshot # NoFile
  BY <1>before DEF HandlerOK, Sound, Recovering, Recover, At
<1>f. snapshot.recs \in Maps(StagedRecords)
  BY <1>m DEF SnapshotOK, Snapshots
<1>same. UNCHANGED <<live, nextSeq, snapshot, state>>
  BY DEF Recover, files, data
<1>cases. \/ Return(o) /\ process' = IF o = Boot THEN "down" ELSE process
          \/ /\ \E pc \in {"recover_activated", "recover_ready", "recover_failed"} : Goto(o, pc)
             /\ process' = process
          \/ /\ AllPublished(op[o].m) /\ process' = process
             /\ op' = [op EXCEPT ![o].pc = "recover_finalize", ![o].recs = snapshot.recs]
  BY DEF Recover
<1>grows. Grows
  BY QuietGrows DEF Recover, files, data, tasks
<1>coll. CollectionOK'
  BY QuietCollection DEF Recover, files, data, tasks, CollectionOK
<1>state. StateOK'
  BY <1>grows, StateKept DEF Recover, files, data, tasks
<1>snap. SnapshotOK'
  BY <1>grows, SnapshotKept DEF Recover, files, data, tasks
<1>build. BuilderOK'
  BY <1>grows, BuilderKept DEF Recover, files, data, tasks
<1>both. /\ HandlersOK' /\ \A a \in Actors \ {o} : op'[a] = op[a]
         /\ \/ Return(o) /\ process' = IF o = Boot THEN "down" ELSE process
            \/ op'[o].pc \in Recovering /\ op'[o].kind = op[o].kind /\ process' = process
  <2>1. CASE Return(o) /\ process' = IF o = Boot THEN "down" ELSE process
    BY <1>grows, <2>1, HandlerReturns, ReturnMoves DEF Moved
  <2>2. ASSUME NEW pc \in {"recover_activated", "recover_ready", "recover_failed"}, Goto(o, pc)
        PROVE  /\ HandlersOK' /\ \A a \in Actors \ {o} : op'[a] = op[a]
               /\ op'[o].pc \in Recovering /\ op'[o].kind = op[o].kind
    <3>1. Moved(o, pc, op[o].kind, op[o].m, op[o].recs) /\ pc \in Recovering
      BY <2>2, GotoMoves DEF PCs, Recovering
    <3>2. Sound(op[o].m)'
      BY <1>m, <1>same, <3>1 DEF Moved, Sound
    <3>3. HandlerOK(op[o])'
      BY <1>m, <1>same, <2>2, <3>1, <3>2
         DEF Moved, HandlerOK, Starting, Activating, Switching, Recovering
    <3> QED
      BY <1>grows, <3>1, <3>3, HandlersMoved DEF Moved
  <2>3. CASE /\ AllPublished(op[o].m) /\ process' = process
             /\ op' = [op EXCEPT ![o].pc = "recover_finalize", ![o].recs = snapshot.recs]
    <3>1. Moved(o, "recover_finalize", op[o].kind, op[o].m, snapshot.recs)
      <4> DEFINE h == [op[o] EXCEPT !.pc = "recover_finalize", !.recs = snapshot.recs]
      <4>1. h \in Handlers
        BY <1>before, <1>f DEF Handlers, PCs, Recovering
      <4>2. op' = [op EXCEPT ![o] = h]
        BY <2>3
      <4> QED
        BY <1>before, <4>1, <4>2 DEF Moved, Handlers
    <3>2. \A r \in DOMAIN snapshot.recs : r \in DOMAIN live /\ live[r].profile = op[o].m.target
      BY <2>3 DEF AllPublished, Published
    <3>3. Sound(op[o].m)'
      BY <1>m, <1>same, <3>1 DEF Moved, Sound
    <3>4. \A r \in DOMAIN live' \cap DOMAIN op'[o].recs : live'[r].profile = op'[o].m.target
      BY <1>same, <3>1, <3>2 DEF Moved
    <3>5. op'[o].recs \in Maps(StagedRecords)
      BY <1>f, <3>1 DEF Moved
    <3>6. HandlerOK(op[o])'
      BY <1>m, <1>same, <3>1, <3>3, <3>4, <3>5
         DEF Moved, HandlerOK, Starting, Activating, Switching, Recovering
    <3>7. HandlersOK'
      BY <1>grows, <3>1, <3>6, HandlersMoved DEF Moved
    <3> QED
      BY <2>3, <3>1, <3>7 DEF Moved, Recovering
  <2> QED
    BY <1>cases, <2>1, <2>2, <2>3
<1>hand. HandlersOK'
  BY <1>both
<1>proc. ProcessOK'
  <2>1. CASE Return(o) /\ process' = IF o = Boot THEN "down" ELSE process
    <3>1. op'[o].pc = "idle"
      BY <2>1, ReturnMoves DEF Moved
    <3> QED
      BY <1>m, <1>both, <2>1, <3>1, ProcessMoves
  <2>2. CASE op'[o].pc \in Recovering /\ op'[o].kind = op[o].kind /\ process' = process
    BY <1>m, <1>both, <2>2, ProcessMoves
  <2> QED
    BY <1>both, <2>1, <2>2
<1> QED
  BY <1>grows, <1>coll, <1>state, <1>snap, <1>build, <1>hand, <1>proc

\* recover_cutover writes its verdict, and its caller goes on.
LEMMA RecoverPersistStep ==
    ASSUME MigrationIInv, NEW o \in Actors, RecoverPersist(o)
    PROVE  MigrationIInv'
<1> USE DEF MigrationIInv
<1>before. HandlerOK(op[o]) /\ op[o] \in Handlers /\ op \in [Actors -> Handlers]
  BY DEF HandlersOK
<1>m. /\ Sound(op[o].m) /\ op[o].m \in Migrations /\ op[o].pc # "idle"
      /\ snapshot # NoFile
  BY <1>before DEF HandlerOK, Sound, Recovering, RecoverPersist, At
<1>w. \A s \in Statuses : /\ WithStatus(op[o].m, s) \in Migrations
                          /\ WithStatus(op[o].m, s).frontier = op[o].m.frontier
  BY <1>m DEF WithStatus, Migrations, Statuses
<1>s. state' \in Migrations /\ state'.frontier = op[o].m.frontier
  BY <1>w DEF RecoverPersist, Statuses
<1>exists. state' # NoMigration
  BY <1>s, NotAbsent
<1>same. UNCHANGED <<live, nextSeq, snapshot>>
  BY DEF RecoverPersist, data
<1>grows. Grows
  BY <1>exists, QuietGrows DEF RecoverPersist, files, data
<1>coll. CollectionOK'
  BY QuietCollection DEF RecoverPersist, files, data, tasks, CollectionOK
<1>state. StateOK'
  BY <1>m, <1>s, <1>same DEF StateOK, Sound
<1>snap. SnapshotOK'
  BY <1>grows, SnapshotKept DEF RecoverPersist, files, data, tasks
<1>build. BuilderOK'
  BY <1>grows, BuilderKept DEF RecoverPersist, files, data, tasks
<1>both. HandlersOK' /\ \A a \in Actors \ {o} : op'[a] = op[a]
  <2>1. CASE Return(o)
    BY <1>grows, <2>1, HandlerReturns, ReturnMoves DEF Moved
  <2>2. CASE AfterStatus(o, state')
    <3>1. state'.frontier < nextSeq' /\ snapshot' # NoFile
      BY <1>m, <1>s, <1>same DEF Sound
    <3> QED
      BY <1>grows, <1>s, <1>exists, <2>2, <3>1, AfterStatusKept
  <2> QED
    BY <2>1, <2>2 DEF RecoverPersist
<1>hand. HandlersOK'
  BY <1>both
<1>proc. ProcessOK'
  <2>1. o # Boot => process' = process
    BY DEF RecoverPersist
  <2>2. o = Boot => process' \in {"up", "down"}
    BY DEF RecoverPersist
  <2>3. o = Boot => Return(o)
    <3>1. o = Boot => op[o].kind = "boot"
      BY <1>m DEF ProcessOK
    <3> QED
      BY <3>1 DEF RecoverPersist, AfterStatus
  <2>4. o = Boot => op'[o].pc = "idle"
    BY <2>3, ReturnMoves DEF Moved
  <2> QED
    BY <1>m, <1>both, <2>1, <2>2, <2>4, ProcessMoves
<1> QED
  BY <1>grows, <1>coll, <1>state, <1>snap, <1>build, <1>hand, <1>proc

\* A process starts and recovers an interrupted cutover.
LEMMA RestartStep ==
    ASSUME MigrationIInv, Restart
    PROVE  MigrationIInv'
<1> USE DEF MigrationIInv
<1>idle. op[Boot].pc = "idle" /\ Boot \in Actors /\ \A o \in Ops : op[o].pc = "idle"
  BY DEF ProcessOK, Restart, Actors
<1>same. UNCHANGED <<live, nextSeq, snapshot, state>>
  BY DEF Restart, files, data
<1>moved. state.status = "activating" =>
            /\ Moved(Boot, "recover", "boot", state, <<>>) /\ process' = "booting"
            /\ Sound(state) /\ state # NoMigration /\ snapshot # NoFile
  <2> SUFFICES ASSUME state.status = "activating"
               PROVE  /\ Moved(Boot, "recover", "boot", state, <<>>) /\ process' = "booting"
                      /\ Sound(state) /\ state # NoMigration /\ snapshot # NoFile
    OBVIOUS
  <2> DEFINE h == [Idle EXCEPT !.pc = "recover", !.kind = "boot", !.m = state]
  <2>1. Sound(state) /\ state # NoMigration /\ state \in Migrations /\ snapshot # NoFile
    BY DEF StateOK, Sound, NoMigration, Migration
  <2>2. h \in Handlers
    BY <2>1, IdleHandler DEF Idle, Handlers, PCs, Recovering, Kinds
  <2>3. op' = [op EXCEPT ![Boot] = h] /\ op \in [Actors -> Handlers] /\ process' = "booting"
    BY DEF Restart, HandlersOK
  <2> QED
    BY <1>idle, <2>1, <2>2, <2>3 DEF Moved, Idle
<1>grows. Grows
  BY QuietGrows DEF Restart, files, data, tasks
<1>coll. CollectionOK'
  BY QuietCollection DEF Restart, files, data, tasks, CollectionOK
<1>state. StateOK'
  BY <1>grows, StateKept DEF Restart, files, data, tasks
<1>snap. SnapshotOK'
  BY <1>grows, SnapshotKept DEF Restart, files, data, tasks
<1>build. BuilderOK'
  BY <1>grows, BuilderKept DEF Restart, files, data, tasks
<1>hand. HandlersOK'
  <2>1. CASE state.status # "activating"
    BY <1>grows, <2>1, HandlersKept DEF Restart
  <2>2. CASE state.status = "activating"
    <3>1. Sound(op[Boot].m)'
      BY <1>moved, <1>same, <2>2 DEF Moved, Sound
    <3>2. HandlerOK(op[Boot])'
      BY <1>idle, <1>moved, <1>same, <2>2, <3>1
         DEF Moved, HandlerOK, Starting, Activating, Switching, Recovering
    <3> QED
      BY <1>grows, <1>idle, <1>moved, <2>2, <3>2, HandlersMoved DEF Moved
  <2> QED
    BY <2>1, <2>2
<1>proc. ProcessOK'
  <2>1. CASE state.status # "activating"
    BY <1>idle, <2>1 DEF Restart, ProcessOK
  <2>2. CASE state.status = "activating"
    <3>1. \A o \in Ops : op'[o].pc = "idle"
      BY <1>idle, <1>moved, <2>2, MigrationConstants DEF Moved, Actors
    <3> QED
      BY <1>moved, <2>2, <3>1 DEF Moved, ProcessOK, Recovering
  <2> QED
    BY <2>1, <2>2
<1> QED
  BY <1>grows, <1>coll, <1>state, <1>snap, <1>build, <1>hand, <1>proc

\* A call stops where it is.
LEMMA AbandonStep ==
    ASSUME MigrationIInv, NEW o \in Actors, Abandon(o)
    PROVE  MigrationIInv'
<1> USE DEF MigrationIInv
<1>same. \A a \in Actors \ {o} : op'[a] = op[a]
  BY ReturnMoves DEF Abandon, Moved
<1>call. o \in Ops /\ process = "up"
  BY DEF Abandon, At, ProcessOK
<1>temp. configTemp' \in BOOLEAN
  BY DEF Abandon, Torn, Finalizing, At, CollectionOK
<1>grows. Grows
  BY QuietGrows DEF Abandon, files, data, tasks
<1>coll. CollectionOK'
  BY <1>temp, QuietCollection DEF Abandon, tasks, CollectionOK
<1>state. StateOK'
  BY <1>grows, StateKept DEF Abandon, files, data, tasks
<1>snap. SnapshotOK'
  BY <1>grows, SnapshotKept DEF Abandon, files, data, tasks
<1>build. BuilderOK'
  BY <1>grows, BuilderKept DEF Abandon, files, data, tasks
<1>hand. HandlersOK'
  BY <1>grows, HandlerReturns DEF Abandon
<1>proc. ProcessOK'
  BY <1>call, <1>same, ProcessKept DEF Abandon
<1> QED
  BY <1>grows, <1>coll, <1>state, <1>snap, <1>build, <1>hand, <1>proc

\* The process crashes.
LEMMA CrashStep ==
    ASSUME MigrationIInv, Crash
    PROVE  MigrationIInv'
<1> USE DEF MigrationIInv
<1>temp. configTemp' \in BOOLEAN
  BY DEF Crash, Torn, Finalizing, At, CollectionOK
<1>grows. Grows
  BY QuietGrows DEF Crash, files, data, tasks
<1>coll. CollectionOK'
  BY <1>temp DEF Crash, data, CollectionOK, Whole
<1>state. StateOK'
  BY <1>grows, StateKept DEF Crash, files, data, tasks
<1>snap. SnapshotOK'
  BY <1>grows, SnapshotKept DEF Crash, files, data, tasks
<1>build. BuilderOK'
  BY DEF Crash, BuilderOK
<1>hand. HandlersOK'
  <2>1. ASSUME NEW a \in Actors PROVE HandlerOK(op[a])'
    <3>1. op'[a] = Idle
      BY DEF Crash
    <3> QED
      BY <3>1, IdleHandler DEF Idle, HandlerOK, Starting, Activating, Switching, Recovering
  <2> QED
    BY <2>1, IdleHandler DEF HandlersOK, Crash
<1>proc. ProcessOK'
  BY DEF Crash, ProcessOK, Idle, Actors
<1> QED
  BY <1>grows, <1>coll, <1>state, <1>snap, <1>build, <1>hand, <1>proc

\* A write resolves its provider.
LEMMA WriteProviderStep ==
    ASSUME MigrationIInv, WriteProvider
    PROVE  MigrationIInv'
<1> USE DEF MigrationIInv
<1>grows. Grows
  BY QuietGrows DEF WriteProvider, files, data, tasks
<1>coll. CollectionOK'
  BY DEF WriteProvider, files, data, CollectionOK, Whole, Writes, NoWrite
<1>state. StateOK'
  BY <1>grows, StateKept DEF WriteProvider, files, data, tasks
<1>snap. SnapshotOK'
  BY <1>grows, SnapshotKept DEF WriteProvider, files, data, tasks
<1>build. BuilderOK'
  BY <1>grows, BuilderKept DEF WriteProvider
<1>hand. HandlersOK'
  BY <1>grows, HandlersKept DEF WriteProvider
<1>proc. ProcessOK'
  BY DEF WriteProvider, ProcessOK
<1> QED
  BY <1>grows, <1>coll, <1>state, <1>snap, <1>build, <1>hand, <1>proc

\* A write resolves the profile of its label.
LEMMA WriteProfileStep ==
    ASSUME MigrationIInv, WriteProfile
    PROVE  MigrationIInv'
<1> USE DEF MigrationIInv
<1>grows. Grows
  BY QuietGrows DEF WriteProfile, files, data, tasks
<1>coll. CollectionOK'
  BY DEF WriteProfile, files, data, CollectionOK, Whole, Writes
<1>state. StateOK'
  BY <1>grows, StateKept DEF WriteProfile, files, data, tasks
<1>snap. SnapshotOK'
  BY <1>grows, SnapshotKept DEF WriteProfile, files, data, tasks
<1>build. BuilderOK'
  BY <1>grows, BuilderKept DEF WriteProfile
<1>hand. HandlersOK'
  BY <1>grows, HandlersKept DEF WriteProfile
<1>proc. ProcessOK'
  BY DEF WriteProfile, ProcessOK
<1> QED
  BY <1>grows, <1>coll, <1>state, <1>snap, <1>build, <1>hand, <1>proc

\* A write stores its record.
LEMMA WriteUpsertStep ==
    ASSUME MigrationIInv, NEW r \in Records, NEW t \in Texts, WriteUpsert(r, t)
    PROVE  MigrationIInv'
<1> USE DEF MigrationIInv
<1>next. nextSeq \in Nat \ {0} /\ nextSeq' = nextSeq + 1
  BY DEF WriteUpsert, CollectionOK
<1>rec. LET new == Record(nextSeq, writer.profile, t, writer.provider) IN
          /\ new \in LiveRecords /\ new.seq = nextSeq /\ new.vector.of = new.text
          /\ live' = Put(live, r, new)
  <2>1. writer \in Writes /\ writer.profile \in Profiles
    BY DEF WriteUpsert, CollectionOK, Writes, NoWrite
  <2> QED
    BY <1>next, <2>1 DEF WriteUpsert, Record, Vector, LiveRecords, Vectors, Writes
<1>put. /\ DOMAIN live' = DOMAIN live \cup {r}
        /\ \A q \in DOMAIN live' \ {r} : q \in DOMAIN live /\ live'[q] = live[q]
        /\ live'[r] \in LiveRecords /\ live'[r].seq = nextSeq /\ live'[r].vector.of = live'[r].text
        /\ live' \in [DOMAIN live' -> LiveRecords]
  <2>1. \A q \in DOMAIN live : live[q] \in LiveRecords
    BY LiveMaps DEF CollectionOK
  <2> DEFINE new == Record(nextSeq, writer.profile, t, writer.provider)
  <2>2. new \in LiveRecords /\ new.seq = nextSeq /\ new.vector.of = new.text
        /\ live' = [q \in DOMAIN live \cup {r} |-> IF q = r THEN new ELSE live[q]]
    BY <1>rec DEF Put
  <2> HIDE DEF new
  <2> QED
    BY <2>1, <2>2
<1>grows. Grows
  BY <1>next, <1>put DEF Grows, WriteUpsert, files
<1>coll. CollectionOK'
  <2>1. live' \in Maps(LiveRecords)
    BY <1>put, LiveMaps, MapsIntro DEF CollectionOK
  <2>2. Whole(live)'
    BY <1>put DEF CollectionOK, Whole
  <2>3. \A q \in DOMAIN live' : live'[q].seq \in 1 .. nextSeq' - 1
    BY <1>next, <1>put DEF CollectionOK
  <2>4. \A p, q \in DOMAIN live' : live'[p].seq = live'[q].seq => p = q
    BY <1>next, <1>put DEF CollectionOK
  <2> QED
    BY <1>next, <2>1, <2>2, <2>3, <2>4 DEF WriteUpsert, files, CollectionOK
<1>state. StateOK'
  BY <1>grows, StateKept DEF WriteUpsert, files, data, tasks
<1>snap. SnapshotOK'
  BY <1>grows, SnapshotKept DEF WriteUpsert, files, data, tasks
<1>build. BuilderOK'
  BY <1>grows, BuilderKept DEF WriteUpsert
<1>hand. HandlersOK'
  BY <1>grows, HandlersKept DEF WriteUpsert
<1>proc. ProcessOK'
  BY DEF WriteUpsert, ProcessOK
<1> QED
  BY <1>grows, <1>coll, <1>state, <1>snap, <1>build, <1>hand, <1>proc

\* A record is deleted.
LEMMA DeleteStep ==
    ASSUME MigrationIInv, NEW r \in Records, Delete(r)
    PROVE  MigrationIInv'
<1> USE DEF MigrationIInv
<1>next. nextSeq \in Nat \ {0} /\ nextSeq' = nextSeq + 1
  BY DEF Delete, CollectionOK
<1>del. /\ DOMAIN live' = DOMAIN live \ {r}
        /\ \A q \in DOMAIN live' : live'[q] = live[q]
        /\ live' \in [DOMAIN live' -> LiveRecords]
  <2>1. \A q \in DOMAIN live : live[q] \in LiveRecords
    BY LiveMaps DEF CollectionOK
  <2> QED
    BY <2>1 DEF Delete, Without
<1>grows. Grows
  BY <1>next, <1>del DEF Grows, Delete, files
<1>coll. CollectionOK'
  <2>1. live' \in Maps(LiveRecords)
    BY <1>del, LiveMaps, MapsIntro DEF CollectionOK
  <2>2. Whole(live)'
    BY <1>del DEF CollectionOK, Whole
  <2>3. \A q \in DOMAIN live' : live'[q].seq \in 1 .. nextSeq' - 1
    BY <1>next, <1>del DEF CollectionOK
  <2>4. \A p, q \in DOMAIN live' : live'[p].seq = live'[q].seq => p = q
    BY <1>del DEF CollectionOK
  <2> QED
    BY <1>next, <2>1, <2>2, <2>3, <2>4 DEF Delete, files, tasks, CollectionOK
<1>state. StateOK'
  BY <1>grows, StateKept DEF Delete, files, data, tasks
<1>snap. SnapshotOK'
  BY <1>grows, SnapshotKept DEF Delete, files, data, tasks
<1>build. BuilderOK'
  BY <1>grows, BuilderKept DEF Delete, files, data, tasks
<1>hand. HandlersOK'
  BY <1>grows, HandlersKept DEF Delete
<1>proc. ProcessOK'
  BY DEF Delete, ProcessOK
<1> QED
  BY <1>grows, <1>coll, <1>state, <1>snap, <1>build, <1>hand, <1>proc

-----------------------------------------------------------------------------
(* The invariant holds initially, and every step preserves it. *)

\* A collection without a migration.
LEMMA InitialInvariant == MigrationInit => MigrationIInv
<1> SUFFICES ASSUME MigrationInit PROVE MigrationIInv
  OBVIOUS
<1>1. Cardinality(Records) \in Nat
  BY MigrationConstants, FS_CardinalityType
<1>2. PICK seqs \in [Records -> 1..Cardinality(Records)], texts \in [Records -> Texts] :
        /\ \A q, r \in Records : seqs[q] = seqs[r] => q = r
        /\ live = [r \in Records |-> Record(seqs[r], Source, texts[r], Source)]
  BY DEF MigrationInit
<1>3. /\ DOMAIN live = Records
      /\ \A r \in Records : /\ live[r] \in LiveRecords
                            /\ live[r].seq = seqs[r] /\ live[r].vector.of = live[r].text
  <2>1. \A r \in Records : seqs[r] \in Nat /\ texts[r] \in Texts /\ Source \in Profiles
    BY <1>1, <1>2, MigrationConstants
  <2> QED
    BY <1>2, <2>1 DEF Record, Vector, LiveRecords, Vectors
<1>4. live \in Maps(LiveRecords)
  <2>1. live \in [Records -> LiveRecords]
    BY <1>2, <1>3
  <2> QED
    BY <2>1, MapsIntro
<1>5. nextSeq = Cardinality(Records) + 1 /\ nextSeq \in Nat \ {0}
  BY <1>1 DEF MigrationInit
<1>6. CollectionOK
  <2>1. \A r \in DOMAIN live : live[r].seq \in 1 .. nextSeq - 1
    <3> DEFINE c == Cardinality(Records)
    <3>1. c \in Nat /\ nextSeq = c + 1 /\ \A r \in Records : seqs[r] \in 1 .. c
      BY <1>1, <1>2, <1>5
    <3> HIDE DEF c
    <3> QED
      BY <1>3, <3>1
  <2>2. \A q, r \in DOMAIN live : live[q].seq = live[r].seq => q = r
    BY <1>2, <1>3
  <2>3. Whole(live)
    BY <1>3 DEF Whole
  <2>4. active \in Profiles /\ configTemp \in BOOLEAN /\ writer = NoWrite
    BY MigrationConstants DEF MigrationInit
  <2> QED
    BY <1>4, <1>5, <2>1, <2>2, <2>3, <2>4 DEF CollectionOK
<1>7. StateOK /\ SnapshotOK /\ BuilderOK
  BY DEF StateOK, SnapshotOK, BuilderOK, MigrationInit
<1>8. op = [a \in Actors |-> Idle] /\ Boot \in Actors /\ Ops \subseteq Actors /\ process = "up"
  BY DEF MigrationInit, Actors
<1>9. HandlersOK
  <2>1. ASSUME NEW a \in Actors PROVE HandlerOK(op[a])
    BY <1>8, IdleHandler DEF Idle, HandlerOK, Starting, Activating, Switching, Recovering
  <2> QED
    BY <1>8, <2>1, IdleHandler DEF HandlersOK
<1>10. ProcessOK
  BY <1>8 DEF ProcessOK, Idle
<1> QED
  BY <1>6, <1>7, <1>9, <1>10 DEF MigrationIInv

\* The steps of handlers.
LEMMA HandlerSteps ==
    ASSUME MigrationIInv, NEW o \in Actors, Step(o)
    PROVE  MigrationIInv'
<1>1. CASE \E p \in Profiles : o \in Ops /\ StartCheck(o, p)
  BY <1>1, StartCheckStep
<1>2. CASE \E k \in {"status", "catch_up", "activate"} : o \in Ops /\ Call(o, k)
  BY <1>2, CallStep
<1>3. CASE StartRead(o) \/ StartPersist(o) \/ StartSpawn(o) \/ Status(o)
  BY <1>3, StartReadStep, StartPersistStep, StartSpawnStep, StatusStep
<1>4. CASE CatchUp(o) \/ CatchUpSnapshot(o) \/ CatchUpState(o)
  BY <1>4, CatchUpStep, CatchUpSnapshotStep, CatchUpStateStep
<1>5. CASE ActivateCheck(o) \/ ActivatePersist(o) \/ JournalPrepared(o) \/ Publish(o)
  BY <1>5, ActivateCheckStep, ActivatePersistStep, JournalPreparedStep, PublishStep
<1>6. CASE JournalPublished(o) \/ Finalize(o) \/ JournalCommitted(o) \/ ActivatePersistDone(o)
  BY <1>6, JournalPublishedStep, FinalizeStep, JournalCommittedStep, ActivatePersistDoneStep
<1>7. CASE Recover(o) \/ RecoverPersist(o) \/ Abandon(o)
  BY <1>7, RecoverStep, RecoverPersistStep, AbandonStep
<1> QED
  BY <1>1, <1>2, <1>3, <1>4, <1>5, <1>6, <1>7 DEF Step

\* A step that changes nothing.
LEMMA Stuttering == MigrationIInv /\ UNCHANGED migrationVars => MigrationIInv'
<1> SUFFICES ASSUME MigrationIInv, UNCHANGED migrationVars PROVE MigrationIInv'
  OBVIOUS
<1> USE DEF MigrationIInv, migrationVars, files, data, tasks
<1>1. Grows
  BY QuietGrows
<1>2. CollectionOK'
  BY QuietCollection DEF CollectionOK
<1>3. StateOK' /\ SnapshotOK' /\ BuilderOK' /\ HandlersOK'
  BY <1>1, StateKept, SnapshotKept, BuilderKept, HandlersKept
<1>4. ProcessOK'
  BY DEF ProcessOK
<1> QED
  BY <1>2, <1>3, <1>4

\* Every step.
LEMMA InvariantPreserved == MigrationIInv /\ [MigrationNext]_migrationVars => MigrationIInv'
<1> SUFFICES ASSUME MigrationIInv, [MigrationNext]_migrationVars PROVE MigrationIInv'
  OBVIOUS
<1>1. CASE \E o \in Actors : Step(o)
  BY <1>1, HandlerSteps
<1>2. CASE BuildRead \/ BuildSnapshot \/ BuildReady \/ BuildFails \/ BuildLeave
  BY <1>2, BuildReadStep, BuildSnapshotStep, BuildReadyStep, BuildFailsStep, BuildLeaveStep
<1>3. CASE WriteProvider \/ WriteProfile
  BY <1>3, WriteProviderStep, WriteProfileStep
<1>4. CASE \E r \in Records : BuildEmbed(r) \/ Delete(r) \/ \E t \in Texts : WriteUpsert(r, t)
  BY <1>4, BuildEmbedStep, DeleteStep, WriteUpsertStep
<1>5. CASE Crash \/ Restart
  BY <1>5, CrashStep, RestartStep
<1>6. CASE UNCHANGED migrationVars
  BY <1>6, Stuttering
<1> QED
  BY <1>1, <1>2, <1>3, <1>4, <1>5, <1>6 DEF MigrationNext

\* The invariant implies the property that the run checks.
LEMMA InvariantSuffices == MigrationIInv => MigrationInv
<1> SUFFICES ASSUME MigrationIInv PROVE MigrationTypeOK /\ VectorsMatchTheirText
  BY DEF MigrationInv
<1> USE DEF MigrationIInv
<1>1. DOMAIN live \subseteq Records
  BY LiveMaps DEF CollectionOK
<1>2. state = NoMigration \/ state.status \in Statuses
  BY DEF StateOK, Sound, Migrations
<1>3. MigrationTypeOK
  BY <1>1, <1>2 DEF MigrationTypeOK, CollectionOK, BuilderOK, ProcessOK, At
<1>4. VectorsMatchTheirText
  BY DEF VectorsMatchTheirText, CollectionOK, Whole, SnapshotOK, Staged
<1> QED
  BY <1>3, <1>4

\* MigrationInv, for any records, profiles, texts and overlapping calls: whatever handlers, user
\* writes, failures, crashes and restarts interleave, every record has a vector of its own text,
\* and every staged vector is the target's (embedding_migration.rs start, catch_up, activate).
THEOREM MigrationSafe == MigrationSpec => []MigrationInv
<1>1. MigrationInit => MigrationIInv
  BY InitialInvariant
<1>2. MigrationIInv /\ [MigrationNext]_migrationVars => MigrationIInv'
  BY InvariantPreserved
<1>3. MigrationIInv => MigrationInv
  BY InvariantSuffices
<1> QED
  BY <1>1, <1>2, <1>3, PTL DEF MigrationSpec

-----------------------------------------------------------------------------
(* The switch *)

\* Nothing but finalize_embedding_profile_cutover changes the active profile.
LEMMA OnlyFinalizeSwitches ==
    ASSUME MigrationNext, active' # active
    PROVE  \E a \in Actors : Finalize(a)
<1>1. ASSUME NEW a \in Actors, Step(a) PROVE Finalize(a)
  <2>1. ~(\E p \in Profiles : StartCheck(a, p))
    BY DEF StartCheck, files
  <2>2. ~(\E k \in {"status", "catch_up", "activate"} : Call(a, k))
    BY DEF Call, files
  <2>3. ~(StartRead(a) \/ StartPersist(a) \/ StartSpawn(a) \/ Status(a))
    BY DEF StartRead, StartPersist, StartSpawn, Status, files
  <2>4. ~(CatchUp(a) \/ CatchUpSnapshot(a) \/ CatchUpState(a) \/ ActivateCheck(a))
    BY DEF CatchUp, CatchUpSnapshot, CatchUpState, ActivateCheck, files
  <2>5. ~(ActivatePersist(a) \/ JournalPrepared(a) \/ JournalPublished(a) \/ JournalCommitted(a))
    BY DEF ActivatePersist, JournalPrepared, JournalPublished, JournalCommitted, Journal
  <2>6. ~(Publish(a) \/ ActivatePersistDone(a) \/ Recover(a) \/ RecoverPersist(a) \/ Abandon(a))
    BY DEF Publish, ActivatePersistDone, Recover, RecoverPersist, Abandon, files
  <2> QED
    BY <1>1, <2>1, <2>2, <2>3, <2>4, <2>5, <2>6 DEF Step
<1>2. ~(BuildRead \/ BuildSnapshot \/ BuildReady \/ BuildFails \/ BuildLeave)
  BY DEF BuildRead, BuildSnapshot, BuildReady, BuildFails, BuildLeave, files
<1>3. ~(WriteProvider \/ WriteProfile \/ Crash \/ Restart)
  BY DEF WriteProvider, WriteProfile, Crash, Restart, files
<1>4. ~(\E r \in Records : BuildEmbed(r) \/ Delete(r) \/ \E t \in Texts : WriteUpsert(r, t))
  BY DEF BuildEmbed, Delete, WriteUpsert, files
<1> QED
  BY <1>1, <1>2, <1>3, <1>4 DEF MigrationNext

\* The step formula of SwitchIsComplete.
SwitchStep ==
    \A o \in Actors : (Finalizing(o) /\ op'[o] # op[o] /\ active' # active) =>
        \A r \in DOMAIN live :
            /\ live[r].seq <= op[o].m.frontier
            /\ At(o, "finalize") \/ r \in DOMAIN op[o].recs
            => live[r].profile = active'

\* Every step satisfies it.
LEMMA StepsSwitchCompletely ==
    ASSUME MigrationIInv, [MigrationNext]_migrationVars
    PROVE  [SwitchStep]_migrationVars
<1> SUFFICES ASSUME MigrationNext,
                    NEW o \in Actors, Finalizing(o), op'[o] # op[o], active' # active,
                    NEW r \in DOMAIN live, live[r].seq <= op[o].m.frontier,
                    At(o, "finalize") \/ r \in DOMAIN op[o].recs
             PROVE  live[r].profile = active'
  BY DEF SwitchStep
<1>1. HandlersOK /\ HandlerOK(op[o]) /\ op \in [Actors -> Handlers]
  BY DEF MigrationIInv, HandlersOK
<1>2. live[r].seq \in Nat /\ op[o].m.frontier \in Nat
  BY <1>1 DEF MigrationIInv, CollectionOK, HandlerOK, Sound, Migrations, Finalizing, At
\* activate left no record up to the frontier: it gave each a new sequence number.
<1>3. ~At(o, "finalize")
  BY <1>1, <1>2 DEF HandlerOK, Switching, At
<1>4. live[r].profile = op[o].m.target
  BY <1>1, <1>3 DEF HandlerOK, Finalizing, At
<1>5. PICK a \in Actors : Finalize(a)
  BY OnlyFinalizeSwitches
<1>6. a = o
  <2>1. op'[o] = op[o] \/ a = o
    BY <1>1, <1>5 DEF Finalize, Goto, Return
  <2> QED
    BY <2>1
<1>7. active' = op[o].m.target
  BY <1>5, <1>6 DEF Finalize
<1> QED
  BY <1>4, <1>7

\* SwitchIsComplete, for any records, profiles, texts and overlapping calls: the profile is
\* switched only for records that have the target's vectors, by activate and by recovery alike
\* (finalize_embedding_profile_cutover).
THEOREM SwitchComplete == MigrationSpec => SwitchIsComplete
<1>1. MigrationInit => MigrationIInv
  BY InitialInvariant
<1>2. MigrationIInv /\ [MigrationNext]_migrationVars => MigrationIInv'
  BY InvariantPreserved
<1>3. MigrationIInv /\ [MigrationNext]_migrationVars => [SwitchStep]_migrationVars
  BY StepsSwitchCompletely
<1> QED
  BY <1>1, <1>2, <1>3, PTL DEF MigrationSpec, SwitchIsComplete, SwitchStep
===============================================================================
