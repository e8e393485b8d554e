----------------------------- MODULE LexicalBuild -----------------------------
(***************************************************************************)
(* Background construction of one collection's lexical index: the process- *)
(* local LexicalBuildScheduler (lexical_scheduler.rs), the callers that    *)
(* schedule a build after a seal, a compaction or a schema change and the  *)
(* spawned builders (write.rs schedule_lexical_build), the snapshot files  *)
(* they publish and collect (lexical_index.rs LexicalIndexStore), and the  *)
(* queries that use the result (runtime.rs query_lexical_index).           *)
(*                                                                         *)
(* A fingerprint is the pair of the checkpoint and the schema it hashes.   *)
(* Builders of one fingerprint share a temporary file name.                *)
(***************************************************************************)
EXTENDS Integers, FiniteSets

CONSTANTS
    Schemas,        \* non-empty lexical field sets
    Callers,        \* concurrent seals, compactions and schema updates
    Builders,       \* spawned build tasks
    Slots,          \* DEFAULT_LEXICAL_BUILD_CONCURRENCY
    MaxAttempts,    \* DEFAULT_LEXICAL_BUILD_ATTEMPTS
    MaxChanges,     \* bound: seals and schema changes
    MaxBuildFaults       \* bound: failed builds and crashes

ASSUME LexicalConstants ==
    /\ Slots \in Nat \ {0} /\ MaxAttempts \in Nat \ {0} /\ IsFiniteSet(Builders)
    /\ {MaxChanges, MaxBuildFaults} \subseteq Nat

NoFields == "no fields"
NoPrint == <<0, NoFields>>

VARIABLES
    present,     \* the collection is in the catalog
    checkpoint,  \* its checkpoint, 0 before the first seal
    overlay,     \* the mutable overlay holds records
    schema,      \* configured lexical fields
    draining,
    latest,      \* LexicalBuildScheduler.latest, NoPrint when absent
    cache,       \* lexical_indexes: the fingerprint cached, or NoPrint
    status,      \* lexical_state: [name, print]
    indexFiles,       \* published .ktli files: fingerprint -> who wrote it
    temps,       \* .ktli.tmp files: fingerprint -> who writes it
    caller,      \* the handler each caller is in
    build,       \* the task of each builder
    changes, buildFaults

config == <<present, checkpoint, overlay, schema>>
memory == <<latest, cache, status>>
disk == <<indexFiles, temps>>
lexicalVars == <<config, draining, memory, disk, caller, build, changes, buildFaults>>

-----------------------------------------------------------------------------
(* A file's content is complete when its writer is "whole"; while a builder *)
(* is writing the inode the name refers to, the file carries the builder;   *)
(* a crash leaves it "torn".                                                *)

Prints == (1..(MaxChanges + 1)) \X Schemas
NoIndexFile == "none"
CurrentPrint == IF present /\ checkpoint > 0 /\ ~overlay /\ schema # NoFields
           THEN <<checkpoint, schema>> ELSE NoPrint
State(name, print) == [name |-> name, print |-> print]
IdleCaller == [pc |-> "idle", print |-> NoPrint]
NoTask == [pc |-> "idle", print |-> NoPrint, attempt |-> 0, ok |-> TRUE]
NewTask(print) == [pc |-> "attempt", print |-> print, attempt |-> 1, ok |-> TRUE]
Active == {b \in Builders : build[b].pc # "idle"}
Holding == {b \in Builders : build[b].pc \in
               {"permitted", "checked", "publish", "write", "rename", "collect"}}

\* register, is_current, finish, cancel
IsCurrent(print) == latest = print
Finish(print) == latest' = IF latest = print THEN NoPrint ELSE latest
Cancel == latest' = NoPrint

LexicalInit ==
    /\ present = TRUE /\ checkpoint = 0 /\ overlay = TRUE
    /\ schema \in Schemas
    /\ draining = FALSE
    /\ latest = NoPrint /\ cache = NoPrint /\ status = State("disabled", NoPrint)
    /\ indexFiles = [p \in Prints |-> NoIndexFile] /\ temps = [p \in Prints |-> NoIndexFile]
    /\ caller = [c \in Callers |-> IdleCaller]
    /\ build = [b \in Builders |-> NoTask]
    /\ changes = 0 /\ buildFaults = 0

-----------------------------------------------------------------------------
(* Callers *)

Write ==
    /\ present /\ ~overlay /\ changes < MaxChanges
    /\ overlay' = TRUE
    /\ UNCHANGED <<present, checkpoint, schema, draining, memory, disk, caller, build,
                   changes, buildFaults>>

Seal(c) ==
    /\ caller[c] = IdleCaller /\ present /\ overlay /\ changes < MaxChanges
    /\ overlay' = FALSE /\ checkpoint' = checkpoint + 1
    /\ changes' = changes + 1
    /\ caller' = [caller EXCEPT ![c].pc = "read"]
    /\ UNCHANGED <<present, schema, draining, memory, disk, build, buildFaults>>

\* update_lexical_schema: cancel, then the new config under the catalog lock,
\* then schedule.
SchemaCancel(c) ==
    /\ caller[c] = IdleCaller /\ changes < MaxChanges
    /\ Cancel
    /\ changes' = changes + 1
    /\ caller' = [caller EXCEPT ![c].pc = "schema"]
    /\ UNCHANGED <<config, draining, cache, status, disk, build, buildFaults>>

\* invalidate_lexical_index
Invalidated(newSchema) ==
    IF newSchema = NoFields \/ checkpoint = 0 THEN State("disabled", NoPrint)
    ELSE State("missing", <<checkpoint, newSchema>>)

SchemaUpdate(c, newSchema) ==
    /\ caller[c].pc = "schema"
    /\ IF present
       THEN /\ schema' = newSchema
            /\ cache' = NoPrint
            /\ status' = Invalidated(newSchema)
            /\ caller' = [caller EXCEPT ![c].pc = "read"]
       ELSE /\ caller' = [caller EXCEPT ![c] = IdleCaller]
            /\ UNCHANGED <<schema, cache, status>>
    /\ UNCHANGED <<present, checkpoint, overlay, draining, latest, disk, build,
                   changes, buildFaults>>

\* schedule_lexical_build up to the registration.
ScheduleRead(c) ==
    /\ caller[c].pc = "read"
    /\ caller' = [caller EXCEPT ![c] =
          IF ~draining /\ CurrentPrint # NoPrint THEN [pc |-> "register", print |-> CurrentPrint] ELSE IdleCaller]
    /\ status' = IF ~draining /\ present /\ ~overlay /\ checkpoint > 0 /\ schema = NoFields
                 THEN State("disabled", NoPrint) ELSE status
    /\ UNCHANGED <<config, draining, latest, cache, disk, build, changes, buildFaults>>

Register(c) ==
    /\ caller[c].pc = "register"
    /\ IF IsCurrent(caller[c].print)
       THEN caller' = [caller EXCEPT ![c] = IdleCaller] /\ UNCHANGED latest
       ELSE /\ latest' = caller[c].print
            /\ caller' = [caller EXCEPT ![c].pc = "spawn"]
    /\ UNCHANGED <<config, draining, cache, status, disk, build, changes, buildFaults>>

Spawn(c) ==
    /\ caller[c].pc = "spawn"
    /\ status' = IF present THEN State("queued", caller[c].print) ELSE status
    /\ \E b \in Builders \ Active : build' = [build EXCEPT ![b] = NewTask(caller[c].print)]
    /\ caller' = [caller EXCEPT ![c] = IdleCaller]
    /\ UNCHANGED <<config, draining, latest, cache, disk, changes, buildFaults>>

-----------------------------------------------------------------------------
(* One builder.  Leave ends the task; LeaveFinished also drops the          *)
(* registration if it is this fingerprint's.                                *)

Leave(b) == build' = [build EXCEPT ![b] = NoTask] /\ UNCHANGED latest
LeaveFinished(b) == build' = [build EXCEPT ![b] = NoTask] /\ Finish(build[b].print)
Advance(b, pc) == build' = [build EXCEPT ![b].pc = pc] /\ UNCHANGED latest

Attempt(b) ==
    /\ build[b].pc = "attempt"
    /\ \/ draining /\ LeaveFinished(b)
       \/ ~draining /\ ~IsCurrent(build[b].print) /\ Leave(b)
       \/ ~draining /\ IsCurrent(build[b].print) /\ Advance(b, "waiting")
    /\ UNCHANGED <<config, draining, cache, status, disk, caller, changes, buildFaults>>

HasSlot == Cardinality(Holding) < Slots
Acquire(b) ==
    /\ build[b].pc = "waiting"
    /\ HasSlot
    /\ IF IsCurrent(build[b].print) THEN Advance(b, "permitted") ELSE Leave(b)
    /\ UNCHANGED <<config, draining, cache, status, disk, caller, changes, buildFaults>>

Check(b) ==
    /\ build[b].pc = "permitted"
    /\ IF CurrentPrint = build[b].print
       THEN /\ status' = State("building", build[b].print)
            /\ Advance(b, "publish")
       ELSE Advance(b, "outdated") /\ UNCHANGED status
    /\ UNCHANGED <<config, draining, cache, disk, caller, changes, buildFaults>>

\* Mutant: a builder that finds itself outdated returns without finish.
LeaveRegistered(b) ==
    /\ build[b].pc = "outdated"
    /\ Leave(b)
    /\ UNCHANGED <<config, draining, cache, status, disk, caller, changes, buildFaults>>
Outdated(b) ==
    /\ build[b].pc = "outdated"
    /\ LeaveFinished(b)
    /\ UNCHANGED <<config, draining, cache, status, disk, caller, changes, buildFaults>>

\* publish: nothing to do when the final file exists; otherwise the temporary
\* file, someone else's too, is removed and created anew.
PublishTemp(b) ==
    /\ build[b].pc = "publish"
    /\ IF indexFiles[build[b].print] # NoIndexFile
       THEN Advance(b, "collect") /\ UNCHANGED temps
       ELSE /\ temps' = [temps EXCEPT ![build[b].print] = b]
            /\ Advance(b, "write")
    /\ UNCHANGED <<config, draining, cache, status, indexFiles, caller, changes, buildFaults>>

WrittenBy(b, store) == [p \in Prints |-> IF store[p] = b THEN "whole" ELSE store[p]]

PublishWrite(b) ==
    /\ build[b].pc = "write"
    /\ indexFiles' = WrittenBy(b, indexFiles) /\ temps' = WrittenBy(b, temps)
    /\ Advance(b, "rename")
    /\ UNCHANGED <<config, draining, cache, status, caller, changes, buildFaults>>

\* The name may refer to another builder's file by now, or to none.
PublishRename(b) ==
    /\ build[b].pc = "rename"
    /\ LET p == build[b].print IN
       IF temps[p] = NoIndexFile
       THEN /\ build' = [build EXCEPT ![b].pc = "built", ![b].ok = FALSE]
            /\ UNCHANGED disk
       ELSE /\ indexFiles' = [indexFiles EXCEPT ![p] = temps[p]]
            /\ temps' = [temps EXCEPT ![p] = NoIndexFile]
            /\ build' = [build EXCEPT ![b].pc = "collect"]
    /\ UNCHANGED <<config, draining, memory, caller, changes, buildFaults>>

\* garbage_collect keeps this builder's fingerprint only.
GarbageCollect(b) ==
    /\ build[b].pc = "collect"
    /\ indexFiles' = [p \in Prints |-> IF p = build[b].print THEN indexFiles[p] ELSE NoIndexFile]
    /\ Advance(b, "built")
    /\ UNCHANGED <<config, draining, cache, status, temps, caller, changes, buildFaults>>

AttemptFails(b) ==
    /\ build[b].pc \in {"publish", "write", "collect"} /\ buildFaults < MaxBuildFaults
    /\ buildFaults' = buildFaults + 1
    /\ build' = [build EXCEPT ![b].pc = "built", ![b].ok = FALSE]
    /\ temps' = [p \in Prints |-> IF temps[p] = b THEN "torn" ELSE temps[p]]
    /\ indexFiles' = [p \in Prints |-> IF indexFiles[p] = b THEN "torn" ELSE indexFiles[p]]
    /\ UNCHANGED <<config, draining, memory, caller, changes>>

\* After the build: draining, then the registration, then the fingerprint.
RemoveSnapshot(p) == indexFiles' = [indexFiles EXCEPT ![p] = NoIndexFile]

Built(b) ==
    /\ build[b].pc = "built"
    /\ \/ draining /\ RemoveSnapshot(build[b].print) /\ LeaveFinished(b)
       \/ /\ ~draining /\ ~IsCurrent(build[b].print)
          /\ RemoveSnapshot(build[b].print) /\ Leave(b)
       \/ ~draining /\ IsCurrent(build[b].print) /\ Advance(b, "compare") /\ UNCHANGED indexFiles
    /\ UNCHANGED <<config, draining, cache, status, temps, caller, changes, buildFaults>>

Compare(b) ==
    /\ build[b].pc = "compare"
    /\ IF CurrentPrint = build[b].print
       THEN Advance(b, "result") /\ UNCHANGED indexFiles
       ELSE RemoveSnapshot(build[b].print) /\ Advance(b, "outdated")
    /\ UNCHANGED <<config, draining, cache, status, temps, caller, changes, buildFaults>>

RetryAgain(b) == build[b].attempt < MaxAttempts

Result(b) ==
    /\ build[b].pc = "result"
    /\ LET p == build[b].print IN
       \/ /\ build[b].ok
          /\ cache' = IF present THEN p ELSE cache
          /\ status' = IF present THEN State("ready", p) ELSE status
          /\ Advance(b, "done")
       \/ /\ ~build[b].ok /\ RetryAgain(b)
          /\ status' = IF present THEN State("retrying", p) ELSE status
          /\ build' = [build EXCEPT ![b].pc = "attempt", ![b].ok = TRUE, ![b].attempt = @ + 1]
          /\ UNCHANGED <<latest, cache>>
       \/ /\ ~build[b].ok /\ ~RetryAgain(b)
          /\ status' = IF present THEN State("failed", p) ELSE status
          /\ Advance(b, "done")
          /\ UNCHANGED cache
    /\ UNCHANGED <<config, draining, disk, caller, changes, buildFaults>>

Done(b) ==
    /\ build[b].pc = "done"
    /\ LeaveFinished(b)
    /\ UNCHANGED <<config, draining, cache, status, disk, caller, changes, buildFaults>>

-----------------------------------------------------------------------------
(* Queries.  load checks the checksum, the fingerprint and every document's *)
(* sequence number; a file that is not complete fails the checksum.         *)

Loadable(p) == indexFiles[p] = "whole"

Cached(print) == cache = print

\* The index a query would use in this state.
Answer ==
    IF CurrentPrint = NoPrint THEN NoPrint
    ELSE IF Cached(CurrentPrint) THEN cache
    ELSE IF Loadable(CurrentPrint) THEN CurrentPrint ELSE NoPrint

\* What a query leaves behind: a loaded index is installed, a missing one is
\* reported, an unreadable one is an error.
Query ==
    /\ CurrentPrint # NoPrint /\ ~Cached(CurrentPrint)
    /\ \/ /\ Loadable(CurrentPrint)
          /\ cache' = CurrentPrint /\ status' = State("ready", CurrentPrint)
       \/ /\ indexFiles[CurrentPrint] = NoIndexFile
          /\ status' = State("missing", CurrentPrint)
          /\ UNCHANGED cache
    /\ UNCHANGED <<config, draining, latest, disk, caller, build, changes, buildFaults>>

-----------------------------------------------------------------------------
(* Deletion, drain, crash and recovery. *)

RemoveCollection ==
    /\ present /\ changes < MaxChanges
    /\ present' = FALSE
    /\ Cancel
    /\ indexFiles' = [p \in Prints |-> NoIndexFile] /\ temps' = [p \in Prints |-> NoIndexFile]
    /\ cache' = NoPrint /\ status' = State("disabled", NoPrint)
    /\ changes' = changes + 1
    /\ UNCHANGED <<checkpoint, overlay, schema, draining, caller, build, buildFaults>>

Drain ==
    /\ ~draining
    /\ draining' = TRUE
    /\ UNCHANGED <<config, memory, disk, caller, build, changes, buildFaults>>

Survivor(store) == [p \in Prints |-> IF store[p] \in Builders THEN "torn" ELSE store[p]]

\* The process ends; restore_or_rebuild_lexical loads or rebuilds the current
\* snapshot, collects the others, and reports Failed for an unreadable one.
RestartServer ==
    /\ buildFaults < MaxBuildFaults \/ draining
    /\ buildFaults' = IF draining THEN buildFaults ELSE buildFaults + 1
    /\ draining' = FALSE
    /\ latest' = NoPrint
    /\ temps' = Survivor(temps)
    /\ caller' = [c \in Callers |-> IdleCaller] /\ build' = [b \in Builders |-> NoTask]
    /\ LET kept == Survivor(indexFiles) IN
       \/ /\ CurrentPrint = NoPrint
          /\ indexFiles' = kept /\ cache' = NoPrint /\ status' = State("disabled", NoPrint)
       \/ /\ CurrentPrint # NoPrint /\ kept[CurrentPrint] = "torn"
          /\ indexFiles' = kept /\ cache' = NoPrint /\ status' = State("failed", CurrentPrint)
       \/ /\ CurrentPrint # NoPrint /\ kept[CurrentPrint] # "torn"
          /\ indexFiles' = [p \in Prints |-> IF p = CurrentPrint THEN "whole" ELSE NoIndexFile]
          /\ cache' = CurrentPrint /\ status' = State("ready", CurrentPrint)
    /\ UNCHANGED <<config, changes>>

-----------------------------------------------------------------------------
CallerStep(c) ==
    ScheduleRead(c) \/ Register(c) \/ Spawn(c) \/ \E s \in Schemas \cup {NoFields} : SchemaUpdate(c, s)
BuilderStep(b) ==
    \/ Attempt(b) \/ Acquire(b) \/ Check(b) \/ Outdated(b)
    \/ PublishTemp(b) \/ PublishWrite(b) \/ PublishRename(b) \/ GarbageCollect(b)
    \/ Built(b) \/ Compare(b) \/ Result(b) \/ Done(b)

LexicalNext ==
    \/ Write \/ Query \/ RemoveCollection \/ Drain \/ RestartServer
    \/ \E c \in Callers : Seal(c) \/ SchemaCancel(c) \/ CallerStep(c)
    \/ \E b \in Builders : BuilderStep(b) \/ AttemptFails(b)

LexicalSpec == LexicalInit /\ [][LexicalNext]_lexicalVars

-----------------------------------------------------------------------------
LexicalTypeOK ==
    /\ latest \in Prints \cup {NoPrint} /\ cache \in Prints \cup {NoPrint}
    /\ status.print \in Prints \cup {NoPrint}
    /\ indexFiles \in [Prints -> Builders \cup {NoIndexFile, "whole", "torn"}]
    /\ \A b \in Builders : build[b].attempt \in 0..MaxAttempts
    /\ Cardinality(Holding) <= Slots

\* A registration never outlives the tasks that will finish it: while one is
\* recorded, some builder of that fingerprint is still running or about to be
\* spawned.  Otherwise register would refuse that fingerprint for as long as
\* the process lives (lexical_scheduler.rs register).
RegistrationHasBuilder ==
    latest # NoPrint =>
        \/ \E b \in Active : build[b].print = latest
        \/ \E c \in Callers : caller[c].pc = "spawn" /\ caller[c].print = latest

\* The reported state is honest: Ready is shown only while that very index is
\* the cached one, across installs, invalidations and recovery (runtime.rs).
ReadyIsCached == status.name = "ready" => cache = status.print

\* A lexical query never reads an index of another checkpoint or schema, and
\* never one while records are only in the overlay, whichever builder
\* installed or published it last (runtime.rs query_lexical_index).
QueryUsesCurrentIndex == Answer \in {NoPrint, CurrentPrint}

\* The lexical index of a collection: registrations have a builder (RegistrationHasBuilder), what
\* is reported ready is cached (ReadyIsCached), and a query never uses an index of another
\* checkpoint or schema (QueryUsesCurrentIndex).
LexicalInv == LexicalTypeOK /\ RegistrationHasBuilder /\ ReadyIsCached /\ QueryUsesCurrentIndex
=============================================================================
