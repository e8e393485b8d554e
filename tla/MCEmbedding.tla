------------------------------ MODULE MCEmbedding ------------------------------
(***************************************************************************)
(* Embeddings: a behaviour runs an embedding migration or the calls of     *)
(* embedding and reranking providers.                                      *)
(***************************************************************************)
EXTENDS EmbeddingMigration, Embedding

CONSTANTS x1, x2, r1, r2, boot

VARIABLE part

vars == <<part, migrationVars, embeddingVars>>

\* The parts never run together, so Ops and Embedders share their model values.
Symmetric == Permutations({x1, x2}) \cup Permutations({r1, r2})

\* Two texts that differ in their line endings, and two others.
MCCanonical == "a" :> "a" @@ "a2" :> "a" @@ "b" :> "b" @@ "d" :> "d"
MCConfigured == <<[profile |-> "p", model |-> "m", dimension |-> 3]>>
Embed(texts, dimension) == [profile |-> "p", texts |-> texts, dimension |-> dimension]
MCRequests == {Embed(<<"a">>, 3), Embed(<<"b">>, 2), Embed(<<"a2", "b", "a", "d">>, 3)}

Init ==
    /\ part \in {"migration", "calls"}
    /\ MigrationInit /\ EmbeddingInit
    \* Records of different texts, so that one's vector cannot pass for the other's.
    /\ part = "migration" => \A r \in Records : live[r].text = IF live[r].seq = 1 THEN "a" ELSE "b"
    \* One of the initial states of a part that does not run is enough.
    /\ part = "migration" \/ \A r \in Records : live[r].text = "a"
Next ==
    /\ UNCHANGED part
    /\ \/ part = "migration" /\ MigrationNext /\ UNCHANGED embeddingVars
       \/ part = "calls" /\ EmbeddingNext /\ UNCHANGED migrationVars
Spec == Init /\ [][Next]_vars
================================================================================
