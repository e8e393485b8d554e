----------------------------- MODULE MCMaintenance -----------------------------
(***************************************************************************)
(* Work on the files of a collection: a behaviour runs the builds of       *)
(* lexical indexes or backups and restores.                                *)
(***************************************************************************)
EXTENDS LexicalBuild, Backup, TLC

CONSTANTS x1, x2, b1, b2

VARIABLE part

vars == <<part, lexicalVars, backupVars>>

\* The parts never run together, so Callers and Operators share their model values.
Symmetric == Permutations({x1, x2}) \cup Permutations({b1, b2})

Init == part \in {"lexical", "backup"} /\ LexicalInit /\ BackupInit
Next ==
    /\ UNCHANGED part
    /\ \/ part = "lexical" /\ LexicalNext /\ UNCHANGED backupVars
       \/ part = "backup" /\ BackupNext /\ UNCHANGED lexicalVars
Spec == Init /\ [][Next]_vars
================================================================================
