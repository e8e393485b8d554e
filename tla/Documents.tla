----------------------------- MODULE Documents ------------------------------
(***************************************************************************)
(* Documents of a collection: PUT and DELETE of /documents/{id}            *)
(* (embedding_http.rs), the three chunking services and the replacement of *)
(* a parent's chunks (chunking.rs).  A PUT reads the collection, reads it  *)
(* again in the service, embeds without any lock and replaces the chunks   *)
(* under the catalog's lock; the collection may be dropped and created     *)
(* anew, with another ingestion schema, at any point in between.           *)
(*                                                                         *)
(* Only visible records are kept; the log below them is CollectionStore,   *)
(* the provider calls are Embedding.                                       *)
(***************************************************************************)
EXTENDS Chunking, TLC

CONSTANTS
    Putters, Parents, Texts,
    Schemas,        \* [ingestion : BOOLEAN, policy]: what a collection may be created with
    Requested,      \* NoPolicy and the character policies a PUT may ask for
    MaxPuts, MaxRecreations

VARIABLES
    collection,     \* [exists, schema, incarnation, next]
    docRecords,        \* visible records: [parent, ordinal] -> record
    doc,            \* the request each client has under way
    puts

documentVars == <<collection, docRecords, doc, puts>>

NoPolicy == [mode |-> "none"]
None == [phase |-> "idle"]
Unscored == [ok |-> FALSE, low |-> {}]

-----------------------------------------------------------------------------
(* The choice of the chunker.                                              *)

Refused == [mode |-> "refused"]

\* resolve_effective_chunking
EffectiveChunking(schema, requested) ==
    IF ~schema.ingestion THEN IF requested = NoPolicy \/ CharsPolicyValid(requested) THEN requested ELSE Refused
    ELSE IF requested \in {NoPolicy, schema.policy} THEN schema.policy ELSE Refused

\* upsert_document: a semantic or token schema allows no request chunking.
ChosenPolicy(schema, requested) ==
    IF schema.policy.mode \in {"semantic", "tokens"}
    THEN IF requested = NoPolicy THEN schema.policy ELSE Refused
    ELSE EffectiveChunking(schema, requested)

\* The services compare the policy with the schema they read; embed_and_upsert, which
\* writes the document whole, does not.
SchemaMatches(schema, policy) ==
    schema.ingestion /\ policy # NoPolicy => schema.policy = policy

-----------------------------------------------------------------------------
(* PUT                                                                     *)

Put(c, parent, text, requested, reserved) ==
    LET policy == IF collection.exists THEN ChosenPolicy(collection.schema, requested) ELSE Refused
    IN /\ doc[c] = None
       /\ puts < MaxPuts
       /\ puts' = puts + 1
       /\ doc' = [doc EXCEPT ![c] =
                  IF reserved \/ policy = Refused THEN None
                  ELSE [phase |-> "routed", parent |-> parent, text |-> text, policy |-> policy]]
       /\ UNCHANGED <<collection, docRecords>>

\* chunk_embed_and_upsert up to the embedding: text that is blank, a collection that is
\* gone, another schema or a missing provider end the request.
Prepare(c, scoring, provider) ==
    LET d == doc[c]
        accepted == /\ Spans(d.text) # << >>
                    /\ collection.exists
                    /\ SchemaMatches(collection.schema, d.policy)
                    /\ provider
    IN /\ d.phase = "routed"
       /\ d.policy.mode = "semantic" => scoring \in Scorings(d.policy, Len(Spans(d.text)))
       /\ d.policy.mode # "semantic" => ~scoring.ok
       /\ doc' = [doc EXCEPT ![c] =
                  IF accepted
                  THEN [phase |-> "embedding", parent |-> d.parent, text |-> d.text, policy |-> d.policy,
                        scoring |-> scoring, incarnation |-> collection.incarnation]
                  ELSE None]
       /\ UNCHANGED <<collection, docRecords, puts>>

EmbedFails(c) ==
    /\ doc[c].phase = "embedding"
    /\ doc' = [doc EXCEPT ![c] = None]
    /\ UNCHANGED <<collection, docRecords, puts>>

-----------------------------------------------------------------------------
(* Writing, under the catalog's lock.                                      *)

\* visible_parent_chunk_ids
ChunkIds(parent) == { id \in DOMAIN docRecords : id.parent = parent /\ id.ordinal >= 0 }

\* What each service writes into a chunk about how it was cut: the limits, the chunker's
\* fingerprint, and for a semantic chunk also the outcome of the scoring.
CharsMetadata(d) == [policy |-> d.policy, scoring |-> Unscored]
TokensMetadata(d) == [policy |-> d.policy, scoring |-> Unscored]
SemanticMetadata(d) == [policy |-> d.policy, scoring |-> d.scoring]

ChunkMetadata(d) ==
    CASE d.policy.mode \in {"none", "chars"} -> CharsMetadata(d)
      [] d.policy.mode = "tokens" -> TokensMetadata(d)
      [] d.policy.mode = "semantic" -> SemanticMetadata(d)

ChunkRecord(d, k, count, generation) ==
    [text |-> d.text, cut |-> ChunkMetadata(d), incarnation |-> d.incarnation,
     count |-> count, generation |-> generation, seq |-> generation + k]

\* The record of a document stored whole has its own id.
WholeId(parent) == [parent |-> parent, ordinal |-> -1]

\* The chunks a shorter text no longer has stay behind.
KeepObsolete(parent, new) == {}

Obsolete(parent, new) == ChunkIds(parent) \ new

\* Every upsert and every delete takes a sequence number.
Advance(new, obsolete) == collection.next + Cardinality(new) + Cardinality(obsolete)

\* replace_parent_chunks: one batch of upserts and deletes; the vectors have been checked
\* against a dimension, and no other part of the schema is looked at.
ReplaceParentChunks(c) ==
    LET d == doc[c]
        chunks == ChunksOf(d.policy, d.text, d.scoring)
        new == { [parent |-> d.parent, ordinal |-> k - 1] : k \in DOMAIN chunks }
        gone == Obsolete(d.parent, new)
        kept == [id \in DOMAIN docRecords \ (new \cup gone) |-> docRecords[id]]
    IN /\ d.phase = "embedding"
       /\ d.policy # NoPolicy
       /\ doc' = [doc EXCEPT ![c] = None]
       /\ IF collection.exists
          THEN /\ docRecords' = [id \in new |-> ChunkRecord(d, id.ordinal, Len(chunks), collection.next)] @@ kept
               /\ collection' = [collection EXCEPT !.next = Advance(new, gone)]
          ELSE UNCHANGED <<docRecords, collection>>
       /\ UNCHANGED puts

\* embed_and_upsert's write.
UpsertWhole(c) ==
    LET d == doc[c]
    IN /\ d.phase = "embedding"
       /\ d.policy = NoPolicy
       /\ doc' = [doc EXCEPT ![c] = None]
       /\ IF collection.exists
          THEN /\ docRecords' = (WholeId(d.parent) :> ChunkRecord(d, 0, 1, collection.next)) @@ docRecords
               /\ collection' = [collection EXCEPT !.next = @ + 1]
          ELSE UNCHANGED <<docRecords, collection>>
       /\ UNCHANGED puts

\* delete_parent_document: the chunks and nothing else.
DeleteParentDocument(parent) ==
    /\ puts < MaxPuts
    /\ puts' = puts + 1
    /\ collection.exists
    /\ docRecords' = [id \in DOMAIN docRecords \ ChunkIds(parent) |-> docRecords[id]]
    /\ collection' = [collection EXCEPT !.next = @ + Cardinality(ChunkIds(parent))]
    /\ UNCHANGED doc

-----------------------------------------------------------------------------
DropCollection ==
    /\ collection.exists
    /\ collection.incarnation <= MaxRecreations
    /\ collection' = [collection EXCEPT !.exists = FALSE]
    /\ docRecords' = << >>
    /\ UNCHANGED <<doc, puts>>

CreateCollection(schema) ==
    /\ ~collection.exists
    /\ collection' = [exists |-> TRUE, schema |-> schema,
                      incarnation |-> collection.incarnation + 1, next |-> 1]
    /\ UNCHANGED <<docRecords, doc, puts>>

DocumentsInit ==
    /\ collection \in { [exists |-> TRUE, schema |-> s, incarnation |-> 1, next |-> 1] : s \in Schemas }
    /\ docRecords = << >>
    /\ doc = [c \in Putters |-> None]
    /\ puts = 0

ScoringChoices(c) ==
    IF doc[c].phase = "routed" /\ doc[c].policy.mode = "semantic"
    THEN Scorings(doc[c].policy, Len(Spans(doc[c].text)))
    ELSE {Unscored}

DocumentsNext ==
    \/ \E c \in Putters :
          \/ \E parent \in Parents, text \in Texts, requested \in Requested, reserved \in BOOLEAN :
                Put(c, parent, text, requested, reserved)
          \/ \E scoring \in ScoringChoices(c), provider \in BOOLEAN : Prepare(c, scoring, provider)
          \/ EmbedFails(c)
          \/ ReplaceParentChunks(c)
          \/ UpsertWhole(c)
    \/ \E parent \in Parents : DeleteParentDocument(parent)
    \/ DropCollection
    \/ \E schema \in Schemas : CreateCollection(schema)

DocumentsSpec == DocumentsInit /\ [][DocumentsNext]_documentVars

-----------------------------------------------------------------------------
(* Properties                                                              *)

\* Sequence numbers are handed out once: every visible record's number is below the next
\* one, and no two visible records have the same number, tombstones included in the count.
DocumentsTypeOK ==
    /\ collection.schema \in Schemas
    /\ \A id \in DOMAIN docRecords : docRecords[id].seq < collection.next
    /\ \A i, j \in DOMAIN docRecords : docRecords[i].seq = docRecords[j].seq => i = j
    /\ \A c \in Putters : doc[c].phase \in {"idle", "routed", "embedding"}

\* The visible chunks of a parent are always exactly the chunks of one text cut by one
\* request: overlapping PUTs, deletes and a shrinking document never leave a mixture of
\* generations or a document with chunks missing.
GenerationsWhole ==
    \A parent \in Parents :
        LET ids == ChunkIds(parent)
        IN \A id \in ids :
            LET r == docRecords[id]
                chunks == ChunksOf(r.cut.policy, r.text, r.cut.scoring)
            IN /\ { i.ordinal : i \in ids } = 0 .. Len(chunks) - 1
               /\ \A other \in ids : docRecords[other].generation = r.generation /\ docRecords[other].text = r.text

\* In a collection with an ingestion schema every visible chunk was cut by the schema's
\* policy, unless the collection it was embedded for has been dropped meanwhile: that a
\* schema changed between the routing of a PUT and the service's own read is noticed.
ChunksMatchSchema ==
    \A id \in DOMAIN docRecords :
        (collection.schema.ingestion /\ id.ordinal >= 0) =>
            \/ docRecords[id].cut.policy = collection.schema.policy
            \/ docRecords[id].incarnation # collection.incarnation

\* Documents stored in chunks: the visible chunks of a document are one whole generation
\* (GenerationsWhole), cut by the policy of the collection they are in (ChunksMatchSchema).
DocumentsInv == DocumentsTypeOK /\ GenerationsWhole /\ ChunksMatchSchema
=============================================================================
