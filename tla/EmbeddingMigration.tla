-------------------------- MODULE EmbeddingMigration --------------------------
(***************************************************************************)
(* Re-embedding one managed collection with another embedding profile      *)
(* (embedding_migration.rs): start stages target vectors in a background   *)
(* task, catch_up refreshes the staged snapshot, activate publishes it and *)
(* switches the collection's profile, and an interrupted cutover is        *)
(* recovered from a journal at start-up or by the next status call.  No    *)
(* lock spans an operation: every handler runs in the steps between which  *)
(* other handlers, user writes and crashes can come.                       *)
(*                                                                         *)
(* A vector is the pair of the profile that made it and the text it was    *)
(* made from; the target provider, model and version stand for the profile.*)
(***************************************************************************)
EXTENDS Integers, FiniteSets, FiniteSetsExt

CONSTANTS
    Records,    \* record ids
    Profiles,   \* registered embedding profiles
    Source,     \* the profile the collection was created with
    Texts,      \* source texts users write
    Ops,        \* concurrent calls of start, catch_up, activate or status
    Boot,       \* the recovery pass of a starting process
    MaxCalls,   \* bound: calls begun
    MaxWrites,  \* bound: user writes and deletes begun
    MaxFaults   \* bound: crashes and failed steps

ASSUME MigrationConstants ==
    /\ Source \in Profiles /\ "none" \notin Profiles
    /\ IsFiniteSet(Records)
    /\ Boot \notin Ops
    /\ {MaxCalls, MaxWrites, MaxFaults} \subseteq Nat

None == "none"
Actors == Ops \cup {Boot}
Statuses == {"running", "ready", "activating", "activated", "failed"}

VARIABLES
    process,    \* "up", "booting" (recovering cutovers) or "down"
    active,     \* collection.json: the active embedding profile
    configTemp, \* collection.json.tmp exists
    live,       \* the visible managed records, by id
    nextSeq,    \* the collection's next sequence number
    state,      \* embedding-migration.json, or NoMigration
    snapshot,   \* embedding-migration.snapshot.json, or NoFile
    journal,    \* embedding-migration.cutover.json, or NoFile
    running,    \* ACTIVE_MIGRATIONS holds this collection
    builder,    \* the spawned build_snapshot task, or NoBuild
    op,         \* the handler each actor is in
    writer,     \* an embedding write: the provider and the profile it resolved
    calls, writes, faults

files == <<active, configTemp, state, snapshot, journal>>
data == <<live, nextSeq>>
tasks == <<running, builder, writer>>
bounds == <<calls, writes, faults>>
migrationVars == <<process, files, data, tasks, op, bounds>>

-----------------------------------------------------------------------------
(* Data *)

Vector(profile, text) == [by |-> profile, of |-> text]
Record(seq, profile, text, provider) ==
    [seq |-> seq, profile |-> profile, text |-> text, vector |-> Vector(provider, text)]
Stage(records, profile) ==
    [r \in DOMAIN records |->
        [seq |-> records[r].seq, vector |-> Vector(profile, records[r].text)]]
Frontier(records) == Max({records[r].seq : r \in DOMAIN records} \cup {0})
Without(records, r) == [q \in DOMAIN records \ {r} |-> records[q]]
Put(records, r, record) == [q \in DOMAIN records \cup {r} |->
                                IF q = r THEN record ELSE records[q]]

Migration(status, source, target, frontier) ==
    [status |-> status, source |-> source, target |-> target, frontier |-> frontier]
NoMigration == Migration("absent", None, None, 0)
NoFile == [source |-> None, target |-> None]
NoBuild == [pc |-> None]
NoWrite == [provider |-> None, profile |-> None]
WithStatus(m, status) == [m EXCEPT !.status = status]

\* validate_snapshot_identity, validate_journal_identity
SameIdentity(m, file) ==
    file.source = m.source /\ file.target = m.target

Idle == [pc |-> "idle", kind |-> None, m |-> NoMigration, recs |-> <<>>]
At(o, pc) == op[o].pc = pc
Goto(o, pc) == op' = [op EXCEPT ![o].pc = pc]
GotoWith(o, pc, m) == op' = [op EXCEPT ![o].pc = pc, ![o].m = m]
Return(o) == op' = [op EXCEPT ![o] = Idle]

MigrationInit ==
    /\ process = "up"
    /\ active = Source /\ configTemp = FALSE
    /\ \E seqs \in [Records -> 1..Cardinality(Records)], texts \in [Records -> Texts] :
          /\ \A q, r \in Records : seqs[q] = seqs[r] => q = r
          /\ live = [r \in Records |-> Record(seqs[r], Source, texts[r], Source)]
    /\ nextSeq = Cardinality(Records) + 1
    /\ state = NoMigration /\ snapshot = NoFile /\ journal = NoFile
    /\ running = FALSE /\ builder = NoBuild /\ writer = NoWrite
    /\ op = [a \in Actors |-> Idle]
    /\ calls = 0 /\ writes = 0 /\ faults = 0

-----------------------------------------------------------------------------
(* start: the reads, the state file, the activity set, the spawned task. *)

StartCheck(o, target) ==
    /\ process = "up" /\ At(o, "idle") /\ calls < MaxCalls
    /\ calls' = calls + 1
    /\ target # active
    /\ state.status \notin {"running", "ready", "activating"}
    /\ op' = [op EXCEPT ![o] = [Idle EXCEPT !.pc = "start_read", !.kind = "start",
                  !.m = Migration("running", active, target, 0)]]
    /\ UNCHANGED <<process, files, data, tasks, writes, faults>>

StartRead(o) ==
    /\ At(o, "start_read")
    /\ op' = [op EXCEPT ![o].pc = "start_persist", ![o].recs = live,
                        ![o].m.frontier = Frontier(live)]
    /\ UNCHANGED <<process, files, data, tasks, bounds>>

StartPersist(o) ==
    /\ At(o, "start_persist")
    /\ state' = op[o].m
    /\ Goto(o, "start_spawn")
    /\ UNCHANGED <<process, active, configTemp, snapshot, journal, data, tasks, bounds>>

\* A second start that lost the race returns MigrationAlreadyExists here,
\* after it has overwritten the state file.
StartSpawn(o) ==
    /\ At(o, "start_spawn")
    /\ IF running
       THEN UNCHANGED <<running, builder>>
       ELSE /\ running' = TRUE
            /\ builder' = [pc |-> "read", m |-> NoMigration, staged |-> {}, recs |-> op[o].recs,
                            source |-> op[o].m.source, target |-> op[o].m.target]
    /\ Return(o)
    /\ UNCHANGED <<process, files, data, writer, bounds>>

-----------------------------------------------------------------------------
(* build_snapshot: keeps the state it read and persists it per record; the  *)
(* snapshot is labelled with the profiles start was called with.           *)

BuildRead ==
    /\ builder.pc = "read"
    /\ builder' = [builder EXCEPT !.pc = "embed", !.m = state]
    /\ UNCHANGED <<process, files, data, running, writer, op, bounds>>

BuildEmbed(r) ==
    /\ builder.pc = "embed"
    /\ r \in DOMAIN builder.recs \ builder.staged
    /\ builder' = [builder EXCEPT !.staged = @ \cup {r}]
    /\ state' = builder.m
    /\ UNCHANGED <<process, active, configTemp, snapshot, journal, data, running,
                   writer, op, bounds>>

BuildSnapshot ==
    /\ builder.pc = "embed"
    /\ builder.staged = DOMAIN builder.recs
    /\ snapshot' = [source |-> builder.source, target |-> builder.target,
                    recs |-> Stage(builder.recs, builder.target)]
    /\ builder' = [builder EXCEPT !.pc = "ready"]
    /\ UNCHANGED <<process, active, configTemp, state, journal, data, running,
                   writer, op, bounds>>

BuildReady ==
    /\ builder.pc = "ready"
    /\ state' = WithStatus(builder.m, "ready")
    /\ builder' = [builder EXCEPT !.pc = "leave"]
    /\ UNCHANGED <<process, active, configTemp, snapshot, journal, data, running,
                   writer, op, bounds>>

\* A provider or I/O error: the state file as it is now is marked Failed.
BuildFails ==
    /\ builder.pc \in {"embed", "ready"} /\ faults < MaxFaults
    /\ faults' = faults + 1
    /\ state' = WithStatus(state, "failed")
    /\ builder' = [builder EXCEPT !.pc = "leave"]
    /\ UNCHANGED <<process, active, configTemp, snapshot, journal, data, running,
                   writer, op, calls, writes>>

BuildLeave ==
    /\ builder.pc = "leave"
    /\ running' = FALSE /\ builder' = NoBuild
    /\ UNCHANGED <<process, files, data, writer, op, bounds>>

-----------------------------------------------------------------------------
(* status, catch_up and activate.  AfterStatus says where the caller goes  *)
(* with the state that status returned.                                    *)

Call(o, kind) ==
    /\ process = "up" /\ At(o, "idle") /\ calls < MaxCalls
    /\ state # NoMigration
    /\ calls' = calls + 1
    /\ op' = [op EXCEPT ![o] = [Idle EXCEPT !.pc = "status", !.kind = kind]]
    /\ UNCHANGED <<process, files, data, tasks, writes, faults>>

AfterStatus(o, m) ==
    \/ /\ op[o].kind \in {"catch_up", "activate"} /\ m.status = "ready"
       /\ GotoWith(o, "catch_up", m)
    \/ op[o].kind \in {"catch_up", "activate"} /\ m.status # "ready" /\ Return(o)
    \/ op[o].kind = "activate_again" /\ GotoWith(o, "check", m)
    \/ op[o].kind = "status" /\ Return(o)
    \/ op[o].kind = "boot" /\ Return(o)

Status(o) ==
    /\ At(o, "status")
    /\ \/ /\ state.status = "activating"
          /\ GotoWith(o, "recover", state)
          /\ UNCHANGED state
       \/ /\ state.status = "running" /\ ~running
          /\ state' = WithStatus(state, "failed")
          /\ AfterStatus(o, state')
       \/ /\ state.status = "running" => running
          /\ state.status # "activating"
          /\ AfterStatus(o, state)
          /\ UNCHANGED state
    /\ UNCHANGED <<process, active, configTemp, snapshot, journal, data, tasks, bounds>>

Unchanged(r, previous, current) ==
    r \in DOMAIN previous /\ previous[r].seq = current[r].seq
Restage(previous, current, profile) ==
    [r \in DOMAIN current |-> IF Unchanged(r, previous, current) THEN previous[r]
                              ELSE Stage(current, profile)[r]]

CatchUp(o) ==
    /\ At(o, "catch_up")
    /\ IF SameIdentity(op[o].m, snapshot)
       THEN op' = [op EXCEPT ![o].pc = "catch_up_snapshot",
                ![o].recs = Restage(snapshot.recs, live, op[o].m.target),
                ![o].m.frontier = Frontier(live)]
       ELSE Return(o)
    /\ UNCHANGED <<process, files, data, tasks, bounds>>

CatchUpSnapshot(o) ==
    /\ At(o, "catch_up_snapshot")
    /\ snapshot' = [source |-> op[o].m.source, target |-> op[o].m.target,
                    recs |-> op[o].recs]
    /\ Goto(o, "catch_up_state")
    /\ UNCHANGED <<process, active, configTemp, state, journal, data, tasks, bounds>>

CatchUpState(o) ==
    /\ At(o, "catch_up_state")
    /\ state' = op[o].m
    /\ IF op[o].kind = "activate"
       THEN op' = [op EXCEPT ![o].pc = "status", ![o].kind = "activate_again"]
       ELSE Return(o)
    /\ UNCHANGED <<process, active, configTemp, snapshot, journal, data, tasks, bounds>>

\* SourceChanged unless every staged record is current.
Current(staged, records) ==
    /\ DOMAIN staged = DOMAIN records
    /\ \A r \in DOMAIN staged : staged[r].seq = records[r].seq

\* Mutant: the ids are compared and the sequences are not.
SameIds(staged, records) == DOMAIN staged = DOMAIN records
StillCurrent(staged, records) == Current(staged, records)

\* The metadata is the record's, the vector is the staged one.
Pending(staged, records, profile) ==
    [r \in DOMAIN staged |->
        [records[r] EXCEPT !.profile = profile, !.vector = staged[r].vector]]

ActivateCheck(o) ==
    /\ At(o, "check")
    /\ IF SameIdentity(op[o].m, snapshot) /\ StillCurrent(snapshot.recs, live)
       THEN op' = [op EXCEPT ![o].pc = "activating",
                      ![o].recs = Pending(snapshot.recs, live, op[o].m.target)]
       ELSE Return(o)
    /\ UNCHANGED <<process, files, data, tasks, bounds>>

ActivatePersist(o) ==
    /\ At(o, "activating")
    /\ state' = WithStatus(op[o].m, "activating")
    /\ GotoWith(o, "prepare", state')
    /\ UNCHANGED <<process, active, configTemp, snapshot, journal, data, tasks, bounds>>

Journal(o, before, phase, after) ==
    /\ At(o, before)
    /\ journal' = [source |-> op[o].m.source, target |-> op[o].m.target, phase |-> phase]
    /\ Goto(o, after)
    /\ UNCHANGED <<process, active, configTemp, state, snapshot, data, tasks, bounds>>

JournalPrepared(o) == Journal(o, "prepare", "prepared", "publish")
JournalPublished(o) == Journal(o, "published", "wal_published", "finalize")
JournalCommitted(o) == Journal(o, "commit", "committed", "persist_activated")

\* Consecutive sequence numbers, in the order of the batch.
Sequences(ids) == {n \in [ids -> nextSeq..(nextSeq + Cardinality(ids) - 1)] :
                       \A q, r \in ids : n[q] = n[r] => q = r}

\* publish_embedding_migration_vectors: one WAL batch under the catalog lock,
\* which rechecks the active profile and not the records' sequences.
Publish(o) ==
    /\ At(o, "publish")
    /\ IF active = op[o].m.source /\ DOMAIN op[o].recs # {}
       THEN \E n \in Sequences(DOMAIN op[o].recs) :
              /\ live' = [r \in DOMAIN live \cup DOMAIN n |->
                    IF r \in DOMAIN n THEN [op[o].recs[r] EXCEPT !.seq = n[r]] ELSE live[r]]
              /\ nextSeq' = nextSeq + Cardinality(DOMAIN n)
              /\ Goto(o, "published")
       ELSE Return(o) /\ UNCHANGED data
    /\ UNCHANGED <<process, files, tasks, bounds>>

\* finalize_embedding_profile_cutover, under the catalog lock, from activate or from recovery.
Finalizing(o) == At(o, "finalize") \/ At(o, "recover_finalize")
Finalize(o) ==
    /\ Finalizing(o)
    /\ \/ /\ active = op[o].m.target
          /\ Goto(o, IF At(o, "finalize") THEN "commit" ELSE "recover_activated")
          /\ UNCHANGED active
       \/ /\ active = op[o].m.source /\ ~configTemp
          /\ active' = op[o].m.target
          /\ Goto(o, IF At(o, "finalize") THEN "commit" ELSE "recover_activated")
       \/ /\ \/ active \notin {op[o].m.source, op[o].m.target}
             \/ active = op[o].m.source /\ configTemp
          /\ Return(o) /\ UNCHANGED active
    /\ process' = IF op'[o].pc = "idle" /\ o = Boot THEN "down" ELSE process
    /\ UNCHANGED <<configTemp, state, snapshot, journal, data, tasks, bounds>>

ActivatePersistDone(o) ==
    /\ At(o, "persist_activated")
    /\ state' = WithStatus(op[o].m, "activated")
    /\ Return(o)
    /\ UNCHANGED <<process, active, configTemp, snapshot, journal, data, tasks, bounds>>

-----------------------------------------------------------------------------
(* recover_cutover *)

\* How many staged vectors are already the visible ones.
Published(m) == {r \in DOMAIN snapshot.recs \cap DOMAIN live :
                    /\ live[r].profile = m.target
                    /\ live[r].vector = snapshot.recs[r].vector}

\* Mutant: one published vector is taken for all of them.
SomePublished(m) == Published(m) # {}
AllPublished(m) == Published(m) = DOMAIN snapshot.recs /\ DOMAIN snapshot.recs # {}

Recover(o) ==
    /\ At(o, "recover")
    /\ LET m == op[o].m IN
       \/ /\ SameIdentity(m, journal) /\ active = m.target
          /\ Goto(o, "recover_activated") /\ UNCHANGED process
       \/ /\ SameIdentity(m, journal) /\ active = m.source /\ AllPublished(m)
          /\ op' = [op EXCEPT ![o].pc = "recover_finalize", ![o].recs = snapshot.recs]
          /\ UNCHANGED process
       \/ /\ SameIdentity(m, journal) /\ active = m.source /\ ~AllPublished(m)
          /\ Goto(o, IF Published(m) = {} /\ journal.phase = "prepared"
                     THEN "recover_ready" ELSE "recover_failed")
          /\ UNCHANGED process
       \/ /\ ~SameIdentity(m, journal) \/ active \notin {m.source, m.target}
          /\ Return(o)
          /\ process' = IF o = Boot THEN "down" ELSE process
    /\ UNCHANGED <<files, data, tasks, bounds>>

RecoverPersist(o) ==
    /\ \/ /\ At(o, "recover_activated")
          /\ state' = WithStatus(op[o].m, "activated")
          /\ AfterStatus(o, state')
          /\ process' = IF o = Boot THEN "up" ELSE process
       \/ /\ At(o, "recover_ready")
          /\ state' = WithStatus(op[o].m, "ready")
          /\ AfterStatus(o, state')
          /\ process' = IF o = Boot THEN "up" ELSE process
       \/ /\ At(o, "recover_failed")
          /\ state' = WithStatus(op[o].m, "failed")
          /\ Return(o)
          /\ process' = IF o = Boot THEN "down" ELSE process
    /\ UNCHANGED <<active, configTemp, snapshot, journal, data, tasks, bounds>>

\* recover_interrupted_cutovers at start-up; an error stops the process.
Restart ==
    /\ process = "down"
    /\ IF state.status = "activating"
       THEN /\ process' = "booting"
            /\ op' = [op EXCEPT ![Boot] = [Idle EXCEPT !.pc = "recover", !.kind = "boot",
                                               !.m = state]]
       ELSE process' = "up" /\ UNCHANGED op
    /\ UNCHANGED <<files, data, tasks, bounds>>

-----------------------------------------------------------------------------
(* Users.  An embedding write takes the active profile's provider, then    *)
(* reads the active profile again to label the record, then upserts.       *)

WriteProvider ==
    /\ process = "up" /\ writer = NoWrite /\ writes < MaxWrites
    /\ writer' = [NoWrite EXCEPT !.provider = active]
    /\ writes' = writes + 1
    /\ UNCHANGED <<process, files, data, running, builder, op, calls, faults>>

WriteProfile ==
    /\ writer # NoWrite /\ writer.profile = None
    /\ writer' = [writer EXCEPT !.profile = active]
    /\ UNCHANGED <<process, files, data, running, builder, op, bounds>>

WriteUpsert(r, text) ==
    /\ writer.profile # None
    /\ live' = Put(live, r, Record(nextSeq, writer.profile, text, writer.provider))
    /\ nextSeq' = nextSeq + 1
    /\ writer' = NoWrite
    /\ UNCHANGED <<process, files, running, builder, op, bounds>>

Delete(r) ==
    /\ process = "up" /\ r \in DOMAIN live /\ writes < MaxWrites
    /\ live' = Without(live, r)
    /\ nextSeq' = nextSeq + 1
    /\ writes' = writes + 1
    /\ UNCHANGED <<process, files, tasks, op, calls, faults>>

-----------------------------------------------------------------------------
(* Faults.  A handler stops where it is: an I/O error, or its client left. *)
(* persist_collection_config leaves its temporary file behind, and opens   *)
(* it with create_new the next time.                                       *)

Torn(o) == Finalizing(o) /\ active = op[o].m.source

Abandon(o) ==
    /\ o \in Ops /\ ~At(o, "idle") /\ faults < MaxFaults
    /\ Return(o)
    /\ \E torn \in {FALSE, Torn(o)} : configTemp' = (configTemp \/ torn)
    /\ faults' = faults + 1
    /\ UNCHANGED <<process, active, state, snapshot, journal, data, tasks, calls, writes>>

Crash ==
    /\ process # "down" /\ faults < MaxFaults
    /\ process' = "down"
    /\ op' = [a \in Actors |-> Idle]
    /\ running' = FALSE /\ builder' = NoBuild /\ writer' = NoWrite
    /\ \E torn \in {FALSE, \E a \in Actors : Torn(a)} : configTemp' = (configTemp \/ torn)
    /\ faults' = faults + 1
    /\ UNCHANGED <<active, state, snapshot, journal, data, calls, writes>>

-----------------------------------------------------------------------------
Step(o) ==
    \/ \E p \in Profiles : o \in Ops /\ StartCheck(o, p)
    \/ \E k \in {"status", "catch_up", "activate"} : o \in Ops /\ Call(o, k)
    \/ StartRead(o) \/ StartPersist(o) \/ StartSpawn(o)
    \/ Status(o)
    \/ CatchUp(o) \/ CatchUpSnapshot(o) \/ CatchUpState(o)
    \/ ActivateCheck(o) \/ ActivatePersist(o) \/ JournalPrepared(o)
    \/ Publish(o) \/ JournalPublished(o) \/ Finalize(o)
    \/ JournalCommitted(o) \/ ActivatePersistDone(o)
    \/ Recover(o) \/ RecoverPersist(o)
    \/ Abandon(o)

MigrationNext ==
    \/ \E o \in Actors : Step(o)
    \/ BuildRead \/ BuildSnapshot \/ BuildReady \/ BuildFails \/ BuildLeave
    \/ WriteProvider \/ WriteProfile
    \/ \E r \in Records : BuildEmbed(r) \/ Delete(r) \/ \E t \in Texts : WriteUpsert(r, t)
    \/ Crash \/ Restart

MigrationSpec == MigrationInit /\ [][MigrationNext]_migrationVars

-----------------------------------------------------------------------------
MigrationTypeOK ==
    /\ process \in {"up", "booting", "down"}
    /\ active \in Profiles /\ configTemp \in BOOLEAN
    /\ DOMAIN live \subseteq Records
    /\ \A q, r \in DOMAIN live : live[q].seq = live[r].seq => q = r
    /\ \A r \in DOMAIN live : live[r].seq \in 1..(nextSeq - 1)
    /\ state = NoMigration \/ state.status \in Statuses
    /\ builder # NoBuild => running
    /\ process # "up" => \A o \in Ops : At(o, "idle")
    /\ process = "booting" <=> ~At(Boot, "idle")

\* A record's vector is always an embedding of the text the record carries,
\* and a staged vector is always the target's: activation pairs staged vectors
\* with the metadata of the records as they are now, across updates, catch-ups,
\* other migrations and crashes (embedding_migration.rs activate, catch_up).
\* (Which profile made the vector of a user's write is another matter: a write
\* that straddles the switch is labelled with the new profile, embedding.rs.)
VectorsMatchTheirText ==
    /\ \A r \in DOMAIN live : live[r].vector.of = live[r].text
    /\ snapshot # NoFile =>
          \A r \in DOMAIN snapshot.recs : snapshot.recs[r].vector.by = snapshot.target

\* The active profile is switched only when the records it is switched for have the target's
\* vectors: activate leaves no record up to the migration's frontier behind, and recovery no
\* record that it found published, unless a user has written it since.  Calls, user writes and
\* crashes may come between the comparison and the switch (finalize_embedding_profile_cutover).
SwitchIsComplete ==
    [][\A o \in Actors : (Finalizing(o) /\ op'[o] # op[o] /\ active' # active) =>
          \A r \in DOMAIN live :
              /\ live[r].seq <= op[o].m.frontier
              /\ At(o, "finalize") \/ r \in DOMAIN op[o].recs
              => live[r].profile = active']_migrationVars

\* Records stay whole during a migration: the journal, the staged and the live records have their
\* shapes (MigrationTypeOK) and a vector is that of the record's own text (VectorsMatchTheirText).
MigrationInv == MigrationTypeOK /\ VectorsMatchTheirText
=============================================================================
