----------------------------- MODULE SearchProfiles -----------------------------
(***************************************************************************)
(* The search profiles of one collection (search_profiles.rs and its HTTP  *)
(* routes): immutable-looking files name@version.json that concurrent      *)
(* handlers create, list, resolve and delete without a lock, written to a  *)
(* temporary file named after the process and renamed into place.          *)
(*                                                                         *)
(* files is what the directory holds; durable is what a crash keeps of it: *)
(* a rename or a removal is durable once the directory is synced, which    *)
(* create does and delete does not.  A call is between two of its file     *)
(* system calls when it waits.  A profile is identified by its version and *)
(* the body that was sent; one name suffices, as names never interact.     *)
(***************************************************************************)
EXTENDS Integers, FiniteSets, FiniteSetsExt

CONSTANTS
    Handlers,        \* handlers that may run at the same time
    Versions,       \* versions a profile may be given, numbers from 1
    Bodies,         \* what a profile says
    Pids,           \* ids the server process may get when it starts
    MaxHandled,       \* bound on calls
    MaxCrashes      \* bound on crashes

NoFile == "no file"
Partial == "partial"
Latest == 0                     \* the version of a selector that names none
Contents == Bodies \cup {NoFile}

VARIABLES files, durable, temps, handling, pid, handled, crashes, created
profileVars == <<files, durable, temps, handling, pid, handled, crashes, created>>

\* created: versions whose creation was answered and whose deletion nobody has asked for;
\* raced in a call: the same version was renamed into place while the call was creating it.

IdleHandler == [op |-> "idle", step |-> "none", version |-> Latest, body |-> NoFile,
         names |-> {}, seen |-> {}, raced |-> FALSE, result |-> "none"]

Exists(v) == files[v] # NoFile
Present == {v \in Versions : Exists(v)}

-----------------------------------------------------------------------------
ProfilesInit ==
    /\ files = [v \in Versions |-> NoFile]
    /\ durable = files
    /\ temps = [p \in Pids |-> [v \in Versions |-> NoFile]]
    /\ handling = [c \in Handlers |-> IdleHandler]
    /\ pid \in Pids
    /\ handled = 0 /\ crashes = 0
    /\ created = {}

Begin(c, op, step, v, body) ==
    /\ handling[c].step = "none"
    /\ handled < MaxHandled
    /\ handled' = handled + 1
    /\ handling' = [handling EXCEPT ![c] = [IdleHandler EXCEPT !.op = op, !.step = step, !.version = v, !.body = body]]

Step(c, step) == handling' = [handling EXCEPT ![c].step = step]
Answer(c, result) == handling' = [handling EXCEPT ![c].step = "none", ![c].result = result]

-----------------------------------------------------------------------------
(* SearchProfileStore::create *)

\* The checks of SearchProfile::validate are those of the query module; a profile that fails
\* them ends here.
StartCreate(c, v, body) ==
    /\ Begin(c, "create", "exists", v, body)
    /\ UNCHANGED <<files, durable, temps, pid, crashes, created>>

\* path.exists()
\* Mutant: the version is not looked for.
SkipExists(c) ==
    /\ handling[c].op = "create" /\ handling[c].step = "exists"
    /\ Step(c, "open")
    /\ UNCHANGED <<files, durable, temps, pid, handled, crashes, created>>
CheckExists(c) ==
    /\ handling[c].op = "create" /\ handling[c].step = "exists"
    /\ IF Exists(handling[c].version) THEN Answer(c, "already_exists") ELSE Step(c, "open")
    /\ UNCHANGED <<files, durable, temps, pid, handled, crashes, created>>

\* create_new on the temporary file, which another call or an earlier process of this id may hold.
OpenTemporary(c) ==
    /\ handling[c].op = "create" /\ handling[c].step = "open"
    /\ IF temps[pid][handling[c].version] = NoFile
       THEN temps' = [temps EXCEPT ![pid][handling[c].version] = Partial] /\ Step(c, "write")
       ELSE Answer(c, "io_error") /\ UNCHANGED temps
    /\ UNCHANGED <<files, durable, pid, handled, crashes, created>>

\* write_all and sync_all
WriteTemporary(c) ==
    /\ handling[c].op = "create" /\ handling[c].step = "write"
    /\ temps' = [temps EXCEPT ![pid][handling[c].version] = handling[c].body]
    /\ Step(c, "rename")
    /\ UNCHANGED <<files, durable, pid, handled, crashes, created>>

\* A write that fails leaves the temporary file behind.
WriteFails(c) ==
    /\ handling[c].op = "create" /\ handling[c].step = "write"
    /\ Answer(c, "io_error")
    /\ UNCHANGED <<files, durable, temps, pid, handled, crashes, created>>

Creating(c, v) == handling[c].op = "create" /\ handling[c].step # "none" /\ handling[c].version = v

Rename(c) ==
    /\ handling[c].op = "create" /\ handling[c].step = "rename"
    /\ files' = [files EXCEPT ![handling[c].version] = temps[pid][handling[c].version]]
    /\ temps' = [temps EXCEPT ![pid][handling[c].version] = NoFile]
    /\ handling' = [d \in Handlers |->
                  IF d = c THEN [handling[d] EXCEPT !.step = "sync"]
                  ELSE [handling[d] EXCEPT !.raced = @ \/ Creating(d, handling[c].version)]]
    /\ UNCHANGED <<durable, pid, handled, crashes, created>>

\* {v} unless it is gone again or some deletion under way may still take it.
Settled(v) ==
    {w \in {v} : Exists(v) /\ \A c \in Handlers :
        handling[c].op = "delete" /\ handling[c].step # "none" => handling[c].version \notin {v, Latest}}

\* sync_all of the directory, then 201.
SyncDirectory(c) ==
    /\ handling[c].op = "create" /\ handling[c].step = "sync"
    /\ durable' = files
    /\ created' = created \cup Settled(handling[c].version)
    /\ Answer(c, "created")
    /\ UNCHANGED <<files, temps, pid, handled, crashes>>

-----------------------------------------------------------------------------
(* list and get; delete resolves its selector with get *)

StartGet(c, op, v) ==
    /\ Begin(c, op, IF v = Latest THEN "read_dir" ELSE "path_exists", v, NoFile)
    /\ created' = IF op = "delete" THEN created \ (IF v = Latest THEN Versions ELSE {v}) ELSE created
    /\ UNCHANGED <<files, durable, temps, pid, crashes>>

\* A pinned version: path.exists(), read later.
PathExists(c) ==
    /\ handling[c].step = "path_exists"
    /\ IF Exists(handling[c].version)
       THEN handling' = [handling EXCEPT ![c].step = "read", ![c].names = {handling[c].version}]
       ELSE Answer(c, "not_found")
    /\ UNCHANGED <<files, durable, temps, pid, handled, crashes, created>>

\* read_dir; the names are read one by one afterwards.
ReadDir(c) ==
    /\ handling[c].step = "read_dir"
    /\ IF Present = {} THEN Answer(c, "not_found")
       ELSE handling' = [handling EXCEPT ![c].step = "read", ![c].names = Present]
    /\ UNCHANGED <<files, durable, temps, pid, handled, crashes, created>>

\* read_profile of one name: a file that is gone, or does not parse, fails the whole call.
ReadProfile(c, v) ==
    /\ handling[c].step = "read" /\ v \in handling[c].names
    /\ CASE files[v] = NoFile -> Answer(c, "io_error")
         [] files[v] = Partial -> Answer(c, "corrupt")
         [] OTHER -> handling' = [handling EXCEPT ![c].names = @ \ {v}, ![c].seen = @ \cup {<<v, files[v]>>}]
    /\ UNCHANGED <<files, durable, temps, pid, handled, crashes, created>>

Highest(seen) == Max({p[1] : p \in seen})

\* The last file is read: list sorts, get takes the highest version, delete goes on.
Resolve(c) ==
    /\ handling[c].step = "read" /\ handling[c].names = {}
    /\ handling' = [handling EXCEPT ![c].step = IF handling[c].op = "delete" THEN "remove" ELSE "none",
                            ![c].version = Highest(handling[c].seen),
                            ![c].result = IF handling[c].op = "delete" THEN @ ELSE "found"]
    /\ UNCHANGED <<files, durable, temps, pid, handled, crashes, created>>

\* remove_file of the version that was resolved; the directory is not synced.
RemoveFile(c) ==
    /\ handling[c].step = "remove"
    /\ IF Exists(handling[c].version)
       THEN /\ files' = [files EXCEPT ![handling[c].version] = NoFile]
            /\ Answer(c, "deleted")
       ELSE Answer(c, "io_error") /\ UNCHANGED files
    /\ UNCHANGED <<durable, temps, pid, handled, crashes, created>>

-----------------------------------------------------------------------------
\* The process dies: each rename or removal since the last sync may or may not have reached the
\* disk, a temporary
\* file may be lost or back under its old name, and the new process gets an id, perhaps the same.
CrashServer ==
    /\ crashes < MaxCrashes
    /\ crashes' = crashes + 1
    /\ \E kept, gone \in SUBSET Versions :
         /\ files' = [v \in Versions |-> IF v \in kept THEN files[v] ELSE durable[v]]
         /\ temps' = [temps EXCEPT ![pid] = [v \in Versions |->
                IF v \in gone THEN NoFile
                ELSE IF v \notin kept /\ files[v] \notin {NoFile, durable[v]} THEN files[v]
                ELSE temps[pid][v]]]
    /\ durable' = files'
    /\ pid' \in Pids
    /\ handling' = [c \in Handlers |-> IdleHandler]
    /\ UNCHANGED <<handled, created>>

ProfilesNext ==
    \/ \E c \in Handlers :
         \/ \E v \in Versions, b \in Bodies : StartCreate(c, v, b)
         \/ CheckExists(c)
         \/ OpenTemporary(c)
         \/ WriteTemporary(c)
         \/ WriteFails(c)
         \/ Rename(c)
         \/ SyncDirectory(c)
         \/ \E op \in {"get", "delete"}, v \in Versions \cup {Latest} : StartGet(c, op, v)
         \/ PathExists(c)
         \/ ReadDir(c)
         \/ \E v \in Versions : ReadProfile(c, v)
         \/ Resolve(c)
         \/ RemoveFile(c)
    \/ CrashServer

ProfilesSpec == ProfilesInit /\ [][ProfilesNext]_profileVars

-----------------------------------------------------------------------------
\* Types of the variables.  In particular no file that list or get opens is ever half written:
\* profiles are written under another name and renamed (atomic_write_json).
ProfilesTypeOK ==
    /\ files \in [Versions -> Contents]
    /\ durable \in [Versions -> Contents]
    /\ temps \in [Pids -> [Versions -> Contents \cup {Partial}]]
    /\ pid \in Pids
    /\ handled \in 0 .. MaxHandled /\ crashes \in 0 .. MaxCrashes
    /\ created \subseteq Versions

\* A profile whose creation was answered is there until somebody asks for its deletion, through
\* failed writes, competing creations and crashes: create answers after sync_all of the directory.
CreatedSurvive == \A v \in created : Exists(v) /\ durable[v] # NoFile

\* create never replaces a profile that stood before the call began: a version changes only when
\* two creations of it were under way together and both had passed path.exists().
OverwriteOnlyByRace ==
    [][\A v \in Versions, c \in Handlers :
        /\ files[v] # NoFile /\ crashes' = crashes
        /\ handling[c].version = v /\ handling[c].step = "rename" /\ handling'[c].step = "sync"
        => handling[c].raced]_profileVars

\* Search profiles are kept: no reader meets a half-written file (ProfilesTypeOK), an answered
\* creation survives (CreatedSurvive), and only a race replaces a version (OverwriteOnlyByRace).
ProfilesKept == []ProfilesTypeOK /\ []CreatedSurvive /\ OverwriteOnlyByRace
================================================================================
