-------------------------------- MODULE Backup --------------------------------
(***************************************************************************)
(* Backup and restore of one collection (backup.rs) while clients write,   *)
(* seal and delete it, other operators run the same commands, stored       *)
(* copies decay and the server crashes.                                    *)
(*                                                                         *)
(* A directory is a function from the files present to their contents; a   *)
(* file holds a set of writes (collection.json holds none).  Operations    *)
(* copy directories file by file, in the order read_dir happens to give.   *)
(***************************************************************************)
EXTENDS Integers, FiniteSets, Functions

CONSTANTS
    Writes,       \* what clients write
    Operators,    \* tasks that run create and restore
    MaxTick,      \* bound: milliseconds that pass
    MaxCalls,     \* bound: calls of create and restore
    MaxFaults     \* bound: crashes, decayed files and failing recoveries

Config == "collection.json"
Checkpoint == "checkpoint"     \* stands for the checkpoint and its segments
Wal == "wal.log"
Manifest == "manifest.json"
Files == {Config, Checkpoint, Wal}
Rot == "rot"                   \* a write that nobody wrote: damaged content

Nobody == "nobody"             \* holds the catalog lock while it is free

ASSUME BackupAssumption == {MaxTick, MaxCalls, MaxFaults} \subseteq Nat /\ Nobody \notin Operators

Ids == 0..MaxTick              \* backup_id: the collection and the time in ms
NoDir == [f \in {} |-> {}]
NoSnapshot == {Rot}

VARIABLES
    live,        \* the collection is in the runtime catalog
    target,      \* data_dir/collections/<id>
    backups,     \* backups/<backup id>
    making,      \* .backup-staging/<backup id>
    staging,     \* .restore-staging/<backup id>
    lock,        \* holder of the catalog write lock, or Nobody
    op,          \* what each operator does
    tick,        \* the clock when a backup was last named
    calls,
    faults,
    snapshot,    \* history: the collection's content when create took the lock, per backup
    shared,      \* history: backup ids two operators worked on at once
    outcome      \* history: what the latest successful restore published

diskVars == <<target, backups, making, staging>>
historyVars == <<snapshot, shared, outcome>>
backupVars == <<live, diskVars, lock, op, tick, calls, faults, historyVars>>

IdleOperator == [pc |-> "idle", id |-> 0, todo |-> {}, seen |-> {}]
NoOutcome == [id |-> 0, content |-> {}, any |-> FALSE]

Content(dir) == UNION {dir[f] : f \in DOMAIN dir \ {Manifest}}
Put(dir, f, content) == [g \in DOMAIN dir \cup {f} |-> IF g = f THEN content ELSE dir[g]]

BackupInit ==
    /\ live = TRUE
    /\ target = [f \in Files |-> {}]
    /\ backups = [i \in Ids |-> NoDir]
    /\ making = [i \in Ids |-> NoDir]
    /\ staging = [i \in Ids |-> NoDir]
    /\ lock = Nobody
    /\ op = [o \in Operators |-> IdleOperator]
    /\ tick = 0 /\ calls = 0 /\ faults = 0
    /\ snapshot = [i \in Ids |-> NoSnapshot]
    /\ shared = {}
    /\ outcome = NoOutcome

-----------------------------------------------------------------------------
(* Clients *)

\* A write, logged and applied under the catalog lock.
WriteRecord(w) ==
    /\ live /\ lock = Nobody
    /\ w \notin Content(target)
    /\ target' = [target EXCEPT ![Wal] = @ \cup {w}]
    /\ UNCHANGED <<live, backups, making, staging, lock, op, tick, calls, faults, historyVars>>

\* Sealing moves the log into segments and publishes the checkpoint.
SealCollection ==
    /\ live /\ lock = Nobody /\ target[Wal] # {}
    /\ target' = [target EXCEPT ![Checkpoint] = @ \cup target[Wal], ![Wal] = {}]
    /\ UNCHANGED <<live, backups, making, staging, lock, op, tick, calls, faults, historyVars>>

DeleteCollection ==
    /\ live /\ lock = Nobody
    /\ live' = FALSE /\ target' = NoDir
    /\ UNCHANGED <<backups, making, staging, lock, op, tick, calls, faults, historyVars>>

-----------------------------------------------------------------------------
(* Create *)

OperatorTo(o, pc) == op' = [op EXCEPT ![o] = IF pc = "idle" THEN IdleOperator ELSE [@ EXCEPT !.pc = pc]]

\* Another operator is between its first and its last step on the same staging directory.
Sharing(o, id, pcs) ==
    IF \E x \in Operators \ {o} : op[x].id = id /\ op[x].pc \in pcs
    THEN shared \cup {id} ELSE shared

CreatePcs == {"copy", "verify", "inventory", "publish"}
RestorePcs == {"materialize", "check", "integrity", "gate", "recover"}

\* The id from the clock, the removal of a left-over staging directory.
CreateBegin(o, now) ==
    /\ now >= tick /\ tick' = now
    /\ calls < MaxCalls /\ calls' = calls + 1
    /\ op[o].pc = "idle"
    /\ op' = [op EXCEPT ![o] = [IdleOperator EXCEPT !.pc = "lock", !.id = now]]
    /\ making' = [making EXCEPT ![now] = NoDir]
    /\ shared' = Sharing(o, now, CreatePcs \cup {"lock"})
    /\ UNCHANGED <<live, target, backups, staging, lock, faults, snapshot, outcome>>

\* The catalog write lock; an unknown collection ends the call.
CreateLock(o) ==
    /\ op[o].pc = "lock" /\ lock = Nobody
    /\ IF live
       THEN /\ lock' = o
            /\ op' = [op EXCEPT ![o].pc = "copy", ![o].todo = DOMAIN target,
                                ![o].seen = Content(target)]
       ELSE OperatorTo(o, "idle") /\ UNCHANGED lock
    /\ UNCHANGED <<live, diskVars, tick, calls, faults, historyVars>>

\* copy_tree under the lock.
CreateCopy(o) ==
    /\ op[o].pc = "copy"
    /\ IF op[o].todo = {}
       THEN OperatorTo(o, "verify") /\ lock' = Nobody /\ UNCHANGED making
       ELSE \E f \in op[o].todo :
              /\ making' = [making EXCEPT ![op[o].id] = Put(@, f, target[f])]
              /\ op' = [op EXCEPT ![o].todo = @ \ {f}]
              /\ UNCHANGED lock
    /\ UNCHANGED <<live, target, backups, staging, tick, calls, faults, historyVars>>

\* What the integrity verifier accepts (module Integrity): readable metadata, undamaged files.
Sound(dir) == Config \in DOMAIN dir /\ Rot \notin Content(dir)

CreateVerify(o) ==
    /\ op[o].pc = "verify"
    /\ IF Sound(making[op[o].id])
       THEN OperatorTo(o, "inventory") /\ UNCHANGED making
       ELSE OperatorTo(o, "idle") /\ making' = [making EXCEPT ![op[o].id] = NoDir]
    /\ UNCHANGED <<live, target, backups, staging, lock, tick, calls, faults, historyVars>>

\* inventory_files, then the manifest beside the files it lists.
CreateInventory(o) ==
    /\ op[o].pc = "inventory"
    /\ OperatorTo(o, "publish")
    /\ making' = [making EXCEPT ![op[o].id] = Put(@, Manifest, @)]
    /\ UNCHANGED <<live, target, backups, staging, lock, tick, calls, faults, historyVars>>

\* LocalBackupRepository::publish: one rename, refused when the backup exists.
CreatePublish(o) ==
    LET id == op[o].id
    IN  /\ op[o].pc = "publish"
        /\ IF backups[id] = NoDir /\ making[id] # NoDir
           THEN /\ backups' = [backups EXCEPT ![id] = making[id]]
                /\ making' = [making EXCEPT ![id] = NoDir]
                /\ snapshot' = [snapshot EXCEPT ![id] = op[o].seen]
           ELSE UNCHANGED <<backups, making, snapshot>>
        /\ OperatorTo(o, "idle")
        /\ UNCHANGED <<live, target, staging, lock, tick, calls, faults, shared, outcome>>

-----------------------------------------------------------------------------
(* Restore *)

\* A fresh staging directory for a backup that exists.
RestoreBegin(o, id) ==
    /\ calls < MaxCalls /\ calls' = calls + 1
    /\ op[o].pc = "idle" /\ Manifest \in DOMAIN backups[id]
    /\ op' = [op EXCEPT ![o] = [IdleOperator EXCEPT !.pc = "materialize", !.id = id,
                                            !.todo = DOMAIN backups[id]]]
    /\ staging' = [staging EXCEPT ![id] = NoDir]
    /\ shared' = Sharing(o, id, RestorePcs)
    /\ UNCHANGED <<live, target, backups, making, lock, tick, faults, snapshot, outcome>>

\* LocalBackupRepository::materialize
RestoreMaterialize(o) ==
    LET id == op[o].id
    IN  /\ op[o].pc = "materialize"
        /\ IF op[o].todo = {}
           THEN OperatorTo(o, "check") /\ UNCHANGED staging
           ELSE \E f \in op[o].todo :
                  /\ staging' = [staging EXCEPT ![id] = Put(@, f, backups[id][f])]
                  /\ op' = [op EXCEPT ![o].todo = @ \ {f}]
        /\ UNCHANGED <<live, target, backups, making, lock, tick, calls, faults, historyVars>>

\* verify_inventory: the same files with the same sizes and checksums.
\* Mutant: only the names are compared.
SameNames(dir) ==
    Manifest \in DOMAIN dir /\ DOMAIN dir \ {Manifest} = DOMAIN dir[Manifest]
InventoryMatches(dir) ==
    Manifest \in DOMAIN dir /\ Restrict(dir, DOMAIN dir \ {Manifest}) = dir[Manifest]

RestoreStop(o) ==
    /\ OperatorTo(o, "idle")
    /\ staging' = [staging EXCEPT ![op[o].id] = NoDir]

RestoreCheck(o) ==
    /\ op[o].pc = "check"
    /\ IF InventoryMatches(staging[op[o].id])
       THEN OperatorTo(o, "integrity") /\ UNCHANGED staging ELSE RestoreStop(o)
    /\ UNCHANGED <<live, target, backups, making, lock, tick, calls, faults, historyVars>>

RestoreIntegrity(o) ==
    LET dir == staging[op[o].id]
    IN  /\ op[o].pc = "integrity"
        /\ IF Sound(dir)
           THEN OperatorTo(o, "gate") /\ UNCHANGED staging
           ELSE RestoreStop(o)
        /\ UNCHANGED <<live, target, backups, making, lock, tick, calls, faults, historyVars>>

\* TargetNotEmpty
\* Mutant: a restore takes the place of whatever is there.
Ungated == TRUE
TargetFree == ~live /\ target = NoDir

\* Under the catalog lock: the rename, held until the collection is recovered.
RestoreGate(o) ==
    LET id == op[o].id  dir == staging[id]  files == DOMAIN dir \ {Manifest}
    IN  /\ op[o].pc = "gate" /\ lock = Nobody
        /\ IF TargetFree /\ files # {}
           THEN /\ lock' = o /\ OperatorTo(o, "recover")
                /\ target' = Restrict(dir, files)
                /\ staging' = [staging EXCEPT ![id] = Restrict(dir, DOMAIN dir \cap {Manifest})]
           ELSE RestoreStop(o) /\ UNCHANGED <<lock, target>>
        /\ UNCHANGED <<live, backups, making, tick, calls, faults, historyVars>>

\* Opening the log creates a missing one.
Opened(dir) == [f \in Files |-> IF f \in DOMAIN dir THEN dir[f] ELSE {}]

\* recover_with_threshold on the whole data directory: a directory without metadata is
\* skipped, a failure (of any collection) undoes the rename.
RestoreRecover(o) ==
    /\ op[o].pc = "recover"
    /\ \/ /\ Config \in DOMAIN target
          /\ live' = TRUE /\ target' = Opened(target)
          /\ outcome' = [id |-> op[o].id, content |-> Content(target), any |-> TRUE]
          /\ UNCHANGED faults
       \/ /\ Config \in DOMAIN target => faults < MaxFaults
          /\ faults' = IF Config \in DOMAIN target THEN faults + 1 ELSE faults
          /\ target' = NoDir
          /\ UNCHANGED <<live, outcome>>
    /\ lock' = Nobody
    /\ RestoreStop(o)
    /\ UNCHANGED <<backups, making, tick, calls, snapshot, shared>>

-----------------------------------------------------------------------------
(* Faults *)

\* A stored file is damaged, or cut short, which the log's reader takes for a torn tail.
Decay(id, f, content) ==
    /\ faults < MaxFaults /\ faults' = faults + 1
    /\ f \in DOMAIN backups[id] \ {Manifest}
    /\ backups[id][f] # content
    /\ backups' = [backups EXCEPT ![id][f] = content]
    /\ UNCHANGED <<live, target, making, staging, lock, op, tick, calls, snapshot, shared, outcome>>

\* A stop and a start: directories with metadata are recovered.
CrashDuringBackup ==
    /\ faults < MaxFaults /\ faults' = faults + 1
    /\ live' = (Config \in DOMAIN target)
    /\ target' = IF Config \in DOMAIN target THEN Opened(target) ELSE target
    /\ lock' = Nobody
    /\ op' = [o \in Operators |-> IdleOperator]
    /\ UNCHANGED <<backups, making, staging, tick, calls, historyVars>>

BackupNext ==
    \/ \E w \in Writes : WriteRecord(w)
    \/ SealCollection \/ DeleteCollection \/ CrashDuringBackup
    \/ \E o \in Operators :
         \/ CreateLock(o) \/ CreateCopy(o) \/ CreateVerify(o)
         \/ CreateInventory(o) \/ CreatePublish(o)
         \/ \E id \in Ids : CreateBegin(o, id) \/ RestoreBegin(o, id)
         \/ RestoreMaterialize(o) \/ RestoreCheck(o) \/ RestoreIntegrity(o)
         \/ RestoreGate(o) \/ RestoreRecover(o)
    \/ \E id \in Ids, f \in Files, content \in {{Rot}, {}} : Decay(id, f, content)

BackupSpec == BackupInit /\ [][BackupNext]_backupVars

-----------------------------------------------------------------------------
(* Properties *)

\* Directories hold known files, and the lock is held exactly by the operator that copies under it or recovers (backup.rs create and
\* restore_materialized).
BackupTypeOK ==
    /\ \A i \in Ids : {DOMAIN backups[i], DOMAIN making[i], DOMAIN staging[i]}
                        \subseteq SUBSET (Files \cup {Manifest})
    /\ \A o \in Operators : lock = o <=> op[o].pc \in {"copy", "recover"}

\* A restore that reports success publishes exactly what the collection held at the instant
\* create took the catalog lock, whatever was written, sealed, deleted, damaged or crashed
\* since; only operators that worked on one staging directory side by side are excepted.
RestoredIsSnapshot ==
    outcome.any /\ outcome.id \notin shared => outcome.content = snapshot[outcome.id]

\* While a collection exists no restore replaces what it holds: acknowledged writes only
\* disappear with the collection (TargetNotEmpty under the publication gate).
LiveWritesKept ==
    [][live /\ live' => Content(target) \subseteq Content(target')]_backupVars

\* Backup and restore: the catalog lock covers the copy and the publication (BackupTypeOK), and a
\* restore brings back the snapshot (RestoredIsSnapshot).
BackupSound == BackupTypeOK /\ RestoredIsSnapshot
=============================================================================
