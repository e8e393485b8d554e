----------------------------- MODULE RecordStore -----------------------------
(***************************************************************************)
(* What a collection promises its clients: a map from record ids to their  *)
(* contents that only writes change. Sealing, compaction, index rebuilds,  *)
(* crashes and restarts are invisible, except that a process that dies in  *)
(* the middle of a write may leave a prefix of that write's batch behind.  *)
(***************************************************************************)
EXTENDS Integers, Sequences

CONSTANTS Records, Values, Deleted, MaxBatch

VARIABLES
    store,   \* record id -> content, Deleted for a record that is not there
    version, \* number of changes made so far
    serving  \* the collection answers requests

recordVars == <<store, version, serving>>

Change  == [rec : Records, val : Values \cup {Deleted}]
Batches == UNION {[1 .. n -> Change] : n \in 1 .. MaxBatch}

\* The first k changes of b, applied in order.
Applied(s, b, k) ==
    [r \in Records |->
        LET hits == {i \in 1 .. k : b[i].rec = r} IN
        IF hits = {} THEN s[r]
        ELSE b[CHOOSE i \in hits : \A j \in hits : j <= i].val]

Init ==
    /\ store = [r \in Records |-> Deleted]
    /\ version = 0
    /\ serving = TRUE

\* The first k changes of some batch happen.
Changes(b, k) ==
    /\ store' = Applied(store, b, k)
    /\ version' = version + k

Write ==
    /\ serving
    /\ \E b \in Batches : Changes(b, Len(b))
    /\ UNCHANGED serving

Stop == serving /\ serving' = FALSE /\ UNCHANGED <<store, version>>

StopInWrite ==
    /\ serving
    /\ serving' = FALSE
    /\ \E b \in Batches : \E k \in 1 .. Len(b) : Changes(b, k)

Start == ~serving /\ serving' = TRUE /\ UNCHANGED <<store, version>>

Next == Write \/ Stop \/ StopInWrite \/ Start

Spec == Init /\ [][Next]_recordVars
=============================================================================
