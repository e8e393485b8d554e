------------------------------ MODULE Chunking ------------------------------
(***************************************************************************)
(* How a document's text is cut into chunks: by characters (chunking.rs),  *)
(* by tokens with structural breaks (token_chunking.rs) and by semantic    *)
(* similarity (semantic_chunking.rs), with the policies of                 *)
(* ketebe-core/src/collection.rs.                                          *)
(*                                                                         *)
(* A text is a sequence of character classes; "tag" stands for a closing   *)
(* block tag and "hash" for a Markdown block marker, which are one         *)
(* character and one token here.  Positions count from 0 and a range       *)
(* includes from and excludes to, as in the code.                          *)
(***************************************************************************)
EXTENDS Integers, Sequences, FiniteSets, SequencesExt, FiniteSetsExt

White == {"space", "newline"}
Classes == {"word", "stop", "hash", "tag"} \cup White

-----------------------------------------------------------------------------
(* Policies.                                                               *)

\* The constructors of the three policies: what they accept.
CharsPolicyValid(p) == p.max > 0 /\ p.overlap < p.max
TokensPolicyValid(p) == p.max > 0 /\ p.overlap < p.max
SemanticPolicyValid(p) == TokensPolicyValid(p) /\ p.min \in 1 .. p.max

PolicyValid(p) ==
    CASE p.mode = "chars" -> CharsPolicyValid(p)
      [] p.mode = "tokens" -> TokensPolicyValid(p)
      [] p.mode = "semantic" -> SemanticPolicyValid(p)

-----------------------------------------------------------------------------
(* Tokens and structural boundaries.                                       *)

Positions(text, P(_)) == SelectSeq([i \in 1 .. Len(text) |-> i], P)

\* UnicodeWordTokenCounter::spans: runs of word characters, any other visible character
\* by itself.
StartsToken(text, i) ==
    /\ text[i] \notin White
    /\ text[i] = "word" /\ i > 1 => text[i - 1] # "word"

TokenEnd(text, i) ==
    IF text[i] # "word" THEN i
    ELSE Min({ j \in i .. Len(text) : j = Len(text) \/ text[j + 1] # "word" })

Spans(text) ==
    LET starts == Positions(text, LAMBDA i : StartsToken(text, i))
    IN [k \in 1 .. Len(starts) |-> [from |-> starts[k] - 1, to |-> TokenEnd(text, starts[k])]]

\* Where white space that starts after character i ends.
WhiteEnd(text, i) == Min({ j \in i .. Len(text) : j = Len(text) \/ text[j + 1] \notin White })

SentenceBoundaries(text) ==
    { WhiteEnd(text, i) : i \in { i \in 1 .. Len(text) :
        text[i] = "stop" /\ (i = Len(text) \/ text[i + 1] \in White) } }

\* The ends of the runs of two or more newlines.
ParagraphBoundaries(text) ==
    { j \in 2 .. Len(text) : /\ text[j] = "newline" /\ text[j - 1] = "newline"
                             /\ j = Len(text) \/ text[j + 1] # "newline" }

\* A line after the first that begins, after its indentation, with a block marker.
MarkdownBoundaries(text) ==
    ParagraphBoundaries(text) \cup
    { o \in 1 .. Len(text) - 1 :
        /\ text[o] = "newline"
        /\ \E j \in o + 1 .. Len(text) : text[j] = "hash" /\ \A k \in o + 1 .. j - 1 : text[k] = "space" }

HtmlBoundaries(text) == { i \in 1 .. Len(text) : text[i] = "tag" }

Boundaries(text, structure) ==
    CASE structure = "tokens" -> {}
      [] structure = "sentences" -> SentenceBoundaries(text)
      [] structure = "paragraphs" -> ParagraphBoundaries(text)
      [] structure = "markdown" -> MarkdownBoundaries(text)
      [] structure = "html" -> HtmlBoundaries(text)

\* The token at a boundary is counted with the unit before it.
BreaksLate(text, structure) ==
    LET tokens == Spans(text)
        before(b) == Cardinality({ k \in DOMAIN tokens : tokens[k].from <= b })
    IN { before(b) : b \in Boundaries(text, structure) } \cap (1 .. Len(tokens) - 1)

\* preferred_breaks: the number of tokens before each boundary, the two ends left out.
PreferredBreaks(text, structure) ==
    LET tokens == Spans(text)
        before(b) == Cardinality({ k \in DOMAIN tokens : tokens[k].from < b })
    IN { before(b) : b \in Boundaries(text, structure) } \cap (1 .. Len(tokens) - 1)

-----------------------------------------------------------------------------
(* Cutting.  A chunk is a range of tokens (or characters).                 *)

\* The breaks a chunk from start may end at: token_aware looks after start, semantic from
\* min_tokens on.
Usable(p, start, hard, preferred) ==
    preferred \cap (IF p.mode = "semantic" THEN Min({start + p.min, hard}) .. hard
                    ELSE start + 1 .. hard)

ChunkEnd(p, n, start, preferred) ==
    LET hard == Min({start + p.max, n})
        usable == Usable(p, start, hard, preferred)
    IN IF hard = n \/ usable = {} THEN hard ELSE Max(usable)

\* The overlap never takes the next chunk back to where this one began.
NextStart(p, start, end) ==
    IF end - p.overlap <= start THEN end ELSE end - p.overlap

RECURSIVE CutFrom(_, _, _, _)
CutFrom(p, n, start, preferred) ==
    LET end == ChunkEnd(p, n, start, preferred)
        rest == IF end = n THEN << >> ELSE CutFrom(p, n, NextStart(p, start, end), preferred)
    IN <<[from |-> start, to |-> end]>> \o rest

Cut(p, n, preferred) == IF n = 0 THEN << >> ELSE CutFrom(p, n, 0, preferred)

\* chunk_text: a fixed step; overlap_chars < max_chars makes it positive.
ChunkText(p, n) ==
    LET step == p.max - p.overlap
        count == IF n <= p.max THEN 1 ELSE (n - p.max + step - 1) \div step + 1
    IN IF n = 0 THEN << >>
       ELSE [k \in 1 .. count |-> [from |-> (k - 1) * step, to |-> Min({(k - 1) * step + p.max, n})]]

\* chunk_text_token_aware
ChunkTokens(p, text) == Cut(p, Len(Spans(text)), PreferredBreaks(text, p.structure))

\* semantic_boundary_candidates: every min_tokens tokens.
Candidates(p, n) == IF n <= p.min THEN {} ELSE { k * p.min : k \in 1 .. n } \cap (1 .. n - 1)

\* What the scoring pass yields: it fails or has a vector without a cosine ("fallback"),
\* or tells which candidates fall below the threshold.
Scorings(p, n) == { [ok |-> FALSE, low |-> {}] } \cup { [ok |-> TRUE, low |-> s] : s \in SUBSET Candidates(p, n) }

\* token_fallback_policy: the same limits without structure or minimum.
TokenFallbackPolicy(p) == [mode |-> "tokens", structure |-> "tokens", max |-> p.max, overlap |-> p.overlap]

ChunkSemantic(p, text, scoring) ==
    LET n == Len(Spans(text))
    IN IF scoring.ok THEN Cut(p, n, scoring.low) ELSE ChunkTokens(TokenFallbackPolicy(p), text)

\* The chunks of a document under a policy, and the number of units they cut.
Units(p, text) == IF p.mode = "chars" THEN Len(text) ELSE Len(Spans(text))

ChunksOf(p, text, scoring) ==
    CASE p.mode = "chars" -> ChunkText(p, Len(text))
      [] p.mode = "tokens" -> ChunkTokens(p, text)
      [] p.mode = "semantic" -> ChunkSemantic(p, text, scoring)

-----------------------------------------------------------------------------
(* Properties of one input: policy, text, scoring.                         *)

\* Whatever the policy and the structure of the text, the chunks cover it: none is empty or
\* longer than the limit, each starts after the one before it and no later than that one
\* ends, the overlap of neighbours is at most the configured one, the last reaches the end,
\* and a semantic chunk before the last has its minimum length unless scoring failed.
ChunksCoverDocument(in) ==
    LET p == in.policy
        c == ChunksOf(p, in.text, in.scoring)
        n == Units(p, in.text)
    IN PolicyValid(p) =>
         /\ c = << >> <=> n = 0
         /\ c # << >> => c[1].from = 0 /\ Last(c).to = n
         /\ \A k \in DOMAIN c : c[k].from < c[k].to /\ c[k].to - c[k].from <= p.max
         /\ \A k \in 1 .. Len(c) - 1 : /\ c[k].from < c[k + 1].from
                                       /\ c[k + 1].from <= c[k].to
                                       /\ c[k].to - c[k + 1].from <= p.overlap
                                       /\ p.mode = "semantic" /\ in.scoring.ok => c[k].to - c[k].from >= p.min

\* A sentence, paragraph, Markdown block or HTML block that fits the limit is whole in at
\* least one chunk, with or without overlap: a cut falls inside it only in chunks that
\* follow the one that holds it.
UnitsStayWhole(in) ==
    LET p == in.policy
        n == Units(p, in.text)
        tokens == Spans(in.text)
        edges == {0, n} \cup { Cardinality({ k \in DOMAIN tokens : tokens[k].to <= b }) :
                                b \in Boundaries(in.text, p.structure) }
        c == ChunksOf(p, in.text, in.scoring)
    IN (PolicyValid(p) /\ p.mode = "tokens") =>
         \A a, b \in edges :
            (a < b /\ b - a <= p.max /\ ~\E e \in edges : a < e /\ e < b) =>
                \E k \in DOMAIN c : c[k].from <= a /\ b <= c[k].to
=============================================================================
