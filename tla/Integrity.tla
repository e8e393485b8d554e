------------------------------ MODULE Integrity -------------------------------
(***************************************************************************)
(* The integrity verifier (integrity.rs) and what it is meant to predict:  *)
(* whether recovery (runtime.rs) opens the collection.  A collection's     *)
(* directory is described by what each reader finds in it; one segment     *)
(* besides the referenced ones is enough to tell the two apart.            *)
(***************************************************************************)
EXTENDS Integers, FiniteSets

\* What is on disk.  A segment or log entry is "fine", or has one defect.
MetadataStates == {"fine", "unreadable", "not json", "version", "foreign", "schema", "ingestion"}
CheckpointStates == {"none", "fine", "damaged", "foreign"}
SegmentStates == {"fine", "absent", "damaged", "foreign", "too new", "bad range", "bad record"}
LogStates == {"fine", "absent", "torn tail", "damaged", "foreign", "bad record", "old bad record"}
IndexStates == {"disabled", "absent", "fine", "stale", "damaged"}

\* A directory; with a checkpoint, seg is the segment it names and other one it does not.
Directories ==
    [meta : MetadataStates, ckpt : CheckpointStates, segDir : BOOLEAN,
     seg : SegmentStates, other : SegmentStates \ {"too new"}, log : LogStates,
     hnsw : IndexStates \ {"disabled"}, lexical : IndexStates]

\* Every directory there can be: no segments without their directory, nothing "too new"
\* or older than the checkpoint without one.
Possible(d) ==
    /\ ~d.segDir => d.seg = "absent" /\ d.other = "absent"
    /\ d.ckpt # "fine" => d.seg # "too new" /\ d.log # "old bad record"

-----------------------------------------------------------------------------
(* The verifier: a report is the set of checks [class, outcome] *)

Authoritative(outcome) == [class |-> "authoritative", outcome |-> outcome]
Derived(outcome) == [class |-> "derived", outcome |-> outcome]

\* verify_metadata; anything but a valid configuration ends the verification.
MetadataCheck(d) ==
    Authoritative(IF d.meta \in {"fine", "ingestion"} THEN "ok" ELSE "error")

\* checkpoint_decode, checkpoint_collection
CheckpointChecks(d) ==
    {Authoritative(IF d.ckpt = "damaged" THEN "error" ELSE "ok")}
    \cup IF d.ckpt = "foreign" THEN {Authoritative("error")} ELSE {}

Loaded(d) == d.ckpt \in {"fine", "foreign"}

\* verify_segments: a damaged segment of any kind makes discover fail.
SegmentChecks(d) ==
    IF ~d.segDir THEN {Authoritative(IF Loaded(d) THEN "error" ELSE "ok")}
    ELSE (IF Loaded(d) /\ d.seg = "absent" THEN {Authoritative("error")} ELSE {})
         \cup (IF Loaded(d) /\ d.other # "absent" THEN {Authoritative("warning")} ELSE {})
         \cup IF "damaged" \in {d.seg, d.other} THEN {Authoritative("error")}
              ELSE {Authoritative("ok")}
                   \cup (IF "foreign" \in {d.seg, d.other} THEN {Authoritative("error")} ELSE {})
                   \cup (IF d.seg \in {"too new", "bad range", "bad record"}
                            \/ (~Loaded(d) /\ d.other \in {"bad range", "bad record"})
                         THEN {Authoritative("error")} ELSE {})

\* The segments were read, so the derived indexes can be compared with them.
SegmentsRead(d) ==
    IF ~d.segDir THEN ~Loaded(d) ELSE "damaged" \notin {d.seg, d.other}

\* verify_wal: entries older than the checkpoint are checked too; no log is an empty log.
WalChecks(d) ==
    IF d.log = "damaged" THEN {Authoritative("error")}
    ELSE {Authoritative("ok")}
         \cup (IF d.log = "torn tail" THEN {Authoritative("warning")} ELSE {})
         \cup (IF d.log \in {"foreign", "bad record", "old bad record"}
               THEN {Authoritative("error")} ELSE {})

IndexOutcome(state) ==
    CASE state \in {"disabled", "fine"} -> "ok"
      [] state \in {"absent", "stale"}  -> "warning"
      [] state = "damaged"              -> "error"

\* verify_derived
DerivedChecks(d) ==
    IF Loaded(d) /\ SegmentsRead(d)
    THEN {Derived(IndexOutcome(d.hnsw)), Derived(IndexOutcome(d.lexical))}
    ELSE {Derived("warning")}

\* verify_collection
Checks(d) ==
    IF MetadataCheck(d).outcome = "error" THEN {MetadataCheck(d)}
    ELSE {MetadataCheck(d)} \cup CheckpointChecks(d) \cup SegmentChecks(d)
         \cup WalChecks(d) \cup DerivedChecks(d)

\* IntegrityReport::push over all checks
AuthoritativeOk(d) == Authoritative("error") \notin Checks(d)
DerivedOk(d) == \A c \in Checks(d) : c.class = "derived" => c.outcome = "ok"
Status(d) ==
    IF ~AuthoritativeOk(d) THEN "corrupt"
    ELSE IF ~DerivedOk(d) \/ Authoritative("warning") \in Checks(d) THEN "degraded"
    ELSE "ok"

-----------------------------------------------------------------------------
(* Recovery of the same directory (recover_with_threshold) *)

\* Only segments the checkpoint names are opened, or all of them without a checkpoint, whose
\* owner is then not compared; damaged indexes are rebuilt.
SegmentsOpen(d) ==
    IF d.ckpt = "fine" THEN d.seg \notin {"absent", "damaged", "foreign", "too new"}
    ELSE "damaged" \notin {d.seg, d.other}

LogOpens(d) == d.log \notin {"damaged", "foreign", "bad record"}

Recovers(d) ==
    /\ d.meta = "fine"
    /\ d.ckpt \in {"none", "fine"}
    /\ SegmentsOpen(d)
    /\ LogOpens(d)

-----------------------------------------------------------------------------
(* Properties *)

\* What verify_collection calls authoritatively sound, recover_with_threshold opens; the one
\* exception is damage in the ingestion settings, which the verifier does not read.  Backups
\* are published and restored on the strength of this verdict (backup.rs).
SoundRecovers(d) == AuthoritativeOk(d) /\ ~Recovers(d) => d.meta = "ingestion"

\* A report of "ok" leaves nothing for recovery to repair or rebuild.
OkNeedsNoRepair(d) ==
    Status(d) = "ok" =>
      /\ d.log # "torn tail" /\ d.ckpt = "fine"
      /\ d.hnsw = "fine" /\ d.lexical \in {"fine", "disabled"}
=============================================================================
