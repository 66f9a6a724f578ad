----------------------------- MODULE Retrieval -----------------------------
(***************************************************************************)
(* One query through the hybrid retriever (retrieval/): the dense and the  *)
(* sparse list, their fusion by reciprocal ranks, the re-ranking and the   *)
(* context that the agent gets.  What the models compute (distances, BM25  *)
(* and cross-encoder scores) is any ranking and any score.  A score is an  *)
(* exact fraction <<n, d>>; a text is its length in characters after its   *)
(* redaction, as it is and with the white space around it stripped: the    *)
(* budget counts it stripped, and context_text has it as it is.  The       *)
(* sentence that stands for an empty list has length 0.                    *)
(***************************************************************************)
EXTENDS Integers, Sequences, FiniteSets

CONSTANTS Chunks,        \* chunk ids
          Flagged,       \* chunks whose pii_flag in the collection is "true"
          Code,          \* chunks of source type python or sql
          DocSize,       \* length of a chunk's summary
          RawSize,       \* length of its raw_implementation
          DocStripped,   \* length of the summary without white space around it
          RawStripped,   \* length of the raw_implementation without it
          HeaderSize,    \* length of the header and fences of a source as they
                         \* are counted, one character more than are written
          Budget,        \* max_context_tokens in characters
          TopK,          \* top_k_dense and top_k_sparse
          TopFused,      \* top_k_fused
          TopRerank,     \* top_k_rerank
          RRFk,          \* rrf_k
          Logits         \* cross-encoder scores in hundredths, after _sigmoid

ASSUME ChunksAssumption == IsFiniteSet(Chunks) /\ Flagged \subseteq Chunks /\ Code \subseteq Chunks
ASSUME SizesAssumption == DocSize \in [Chunks -> Nat \ {0}] /\ RawSize \in [Chunks -> Nat]
ASSUME StrippedAssumption ==
    /\ DocStripped \in [Chunks -> Nat] /\ RawStripped \in [Chunks -> Nat]
    /\ \A c \in Chunks : DocStripped[c] <= DocSize[c] /\ RawStripped[c] <= RawSize[c]
ASSUME LimitsAssumption ==
    {HeaderSize, Budget, TopK, TopFused, TopRerank, RRFk} \subseteq Nat \ {0}
ASSUME LogitsAssumption == Logits \subseteq 0..100

MinUseful == <<10, 100>>
ConfidenceThreshold == <<60, 100>>
AtLeast(p, q) == p[1] * q[2] >= q[1] * p[2]

VARIABLES pc,          \* "ask", "fuse", "rerank", "build" or "answered"
          dense,       \* chunk ids of the dense list
          sparse,      \* chunk ids of the sparse list
          ranked,      \* the current list: records of a chunk, where its object
                       \* came from and its score
          used,        \* chunks_used
          text,        \* length of context_text
          redacted,    \* history: chunks whose text went through _redact_pii
          has_pii,
          confidence,  \* confidence_score
          low_confidence

context == <<used, text, redacted, has_pii, confidence, low_confidence>>
vars == <<pc, dense, sparse, ranked, context>>

Init ==
    /\ pc = "ask"
    /\ dense = <<>> /\ sparse = <<>> /\ ranked = <<>>
    /\ used = <<>> /\ text = 0 /\ redacted = {} /\ has_pii = FALSE
    /\ confidence = <<0, 1>> /\ low_confidence = FALSE

Elements(s) == {s[i] : i \in DOMAIN s}
PositionIn(s, e) == CHOOSE i \in DOMAIN s : s[i] = e
Prefix(s, n) == SubSeq(s, 1, IF n < Len(s) THEN n ELSE Len(s))

(* The lists that a retriever may return.  *)
Lists == UNION {{s \in [1..n -> Chunks] : \A i, j \in 1..n : s[i] = s[j] => i = j} :
                n \in 0..TopK}

(* The entries of s at the indices K, in the order of R on them.           *)
Arranged(s, K, R) ==
    LET place(i) == 1 + Cardinality({j \in K : <<j, i>> \in R})
    IN  [n \in 1..Cardinality(K) |-> s[CHOOSE i \in K : place(i) = n]]

Selected(s, K) == Arranged(s, K, {p \in K \X K : p[1] < p[2]})

(* sorted(..., key=score, reverse=True), which keeps the order of equals.  *)
Better(s) ==
    {p \in (DOMAIN s) \X (DOMAIN s) :
        \/ ~AtLeast(s[p[2]].score, s[p[1]].score)
        \/ AtLeast(s[p[1]].score, s[p[2]].score) /\ p[1] < p[2]}
ByScore(s) == Arranged(s, DOMAIN s, Better(s))

-----------------------------------------------------------------------------
(* A GENERAL question skips the retrieval and is fully trusted.            *)
AskGeneral ==
    /\ pc = "ask"
    /\ confidence' = <<1, 1>>
    /\ pc' = "answered"
    /\ UNCHANGED <<dense, sparse, ranked, used, text, redacted, has_pii, low_confidence>>

(* The sparse list is empty when no index was found at startup. *)
Retrieve(d, s) ==
    /\ pc = "ask"
    /\ dense' = d /\ sparse' = s
    /\ pc' = "fuse"
    /\ UNCHANGED <<ranked, context>>

SparseShadowsDense(c) == IF c \in Elements(sparse) THEN "sparse" ELSE "dense"
PrefersDense(c) == IF c \in Elements(dense) THEN "dense" ELSE "sparse"

KeepsBetterRank(c) ==
    IF c \in Elements(dense)
    THEN <<1, RRFk + PositionIn(dense, c)>>
    ELSE <<1, RRFk + PositionIn(sparse, c)>>
RRFScore(c) ==
    LET d == RRFk + PositionIn(dense, c)
        s == RRFk + PositionIn(sparse, c)
    IN  IF c \notin Elements(sparse) THEN <<1, d>>
        ELSE IF c \notin Elements(dense) THEN <<1, s>>
        ELSE <<d + s, d * s>>

(* The ids in the order in which the dictionary of scores met them.        *)
Merged == dense \o Selected(sparse, {i \in DOMAIN sparse : sparse[i] \notin Elements(dense)})

Fuse ==
    /\ pc = "fuse"
    /\ ranked' = Prefix(ByScore([i \in DOMAIN Merged |->
                    [chunk |-> Merged[i], from |-> PrefersDense(Merged[i]),
                     score |-> RRFScore(Merged[i])]]), TopFused)
    /\ pc' = "rerank"
    /\ UNCHANGED <<dense, sparse, context>>

(* The list keeps its RRF scores when re-ranking is turned off.            *)
RerankOff ==
    /\ pc = "rerank"
    /\ ranked' = Prefix(ranked, TopRerank)
    /\ pc' = "build"
    /\ UNCHANGED <<dense, sparse, context>>

Rerank(logit) ==
    /\ pc = "rerank"
    /\ ranked' = Prefix(ByScore([i \in DOMAIN ranked |->
                    [ranked[i] EXCEPT !.score = <<logit[ranked[i].chunk], 100>>]]), TopRerank)
    /\ pc' = "build"
    /\ UNCHANGED <<dense, sparse, context>>

-----------------------------------------------------------------------------
(* A chunk of the sparse list carries its summary and no metadata.         *)
IsFlagged(r) == r.from = "dense" /\ r.chunk \in Flagged
HasCode(r) == r.from = "dense" /\ RawSize[r.chunk] > 0
IsCode(r) == HasCode(r) /\ r.chunk \in Code

(* The length of a source as the budget counts it, with body.strip(), and  *)
(* as context_text, put together once more after the selection, has it,    *)
(* without.                                                                *)
CountedSize(r) ==
    HeaderSize + (IF IsCode(r) THEN RawStripped[r.chunk] ELSE DocStripped[r.chunk])
WrittenSize(r) ==
    HeaderSize + (IF IsCode(r) \/ (IsFlagged(r) /\ HasCode(r))
                  THEN RawSize[r.chunk] ELSE DocSize[r.chunk])

Total(sizes) ==
    LET upto[n \in 0..Len(sizes)] == IF n = 0 THEN 0 ELSE upto[n - 1] + sizes[n]
    IN  upto[Len(sizes)]

(* used_chars after the first n sources of s. *)
Used(s, n) == Total([i \in 1..n |-> CountedSize(s[i])])

UsefulOnes(s) ==
    LET useful == Selected(s, {i \in DOMAIN s : AtLeast(s[i].score, MinUseful)})
    IN  IF useful = <<>> THEN Prefix(s, 1) ELSE useful

SkipsLarge(s) == Selected(s, {i \in DOMAIN s : CountedSize(s[i]) <= Budget})

(* The loop leaves at the first source that does not fit.                  *)
Fitting(s) ==
    LET fits == {n \in 0..Len(s) : Used(s, n) <= Budget}
    IN  SubSeq(s, 1, CHOOSE n \in fits : \A m \in fits : m <= n)

Redacted(s) == {r.chunk : r \in {q \in Elements(s) : IsFlagged(q)}}

(* ContextBuilder.build.  has_pii is raised for the source that no longer  *)
(* fits as well, since the loop looks at its flag first.                   *)
Build ==
    LET useful == UsefulOnes(ranked)
        selected == Fitting(useful)
    IN  /\ pc = "build"
        /\ pc' = "answered"
        /\ used' = selected
        /\ text' = Total([i \in DOMAIN selected |-> WrittenSize(selected[i])])
        /\ redacted' = Redacted(selected)
        /\ has_pii' = \E r \in Elements(Prefix(useful, Len(selected) + 1)) : IsFlagged(r)
        /\ confidence' = IF ranked = <<>> THEN <<0, 1>> ELSE useful[1].score
        /\ low_confidence' = ~AtLeast(confidence', ConfidenceThreshold)
        /\ UNCHANGED <<dense, sparse, ranked>>

Next ==
    \/ AskGeneral
    \/ \E d, s \in Lists : Retrieve(d, s)
    \/ Fuse \/ RerankOff \/ Build
    \/ \E logit \in [{r.chunk : r \in Elements(ranked)} -> Logits] : Rerank(logit)

Spec == Init /\ [][Next]_vars

-----------------------------------------------------------------------------
(* Chunk c is ranked at least as well as e by both lists. *)
AsGoodIn(s, c, e) ==
    e \in Elements(s) => c \in Elements(s) /\ PositionIn(s, c) <= PositionIn(s, e)
AsGood(c, e) == AsGoodIn(dense, c, e) /\ AsGoodIn(sparse, c, e)

(* The fused list has each chunk once and respects agreement: a chunk that *)
(* both retrievers rank at least as well as another is not behind it, and  *)
(* is not cut off while the other is kept.                                 *)
FusionAgrees ==
    pc = "rerank" =>
        /\ \A i, j \in DOMAIN ranked : ranked[i].chunk = ranked[j].chunk => i = j
        /\ \A c \in Elements(dense) \union Elements(sparse) : \A j \in DOMAIN ranked :
              AsGood(c, ranked[j].chunk) => \E i \in 1..j : ranked[i].chunk = c

(* Every text of a chunk that the dense list flags is redacted before the  *)
(* agent gets it, although a second list held the chunk without its flag,  *)
(* and the caller is told.                                                 *)
FlaggedIsRedacted ==
    pc = "answered" =>
        \A r \in Elements(used) :
            r.chunk \in Flagged \intersect Elements(dense) => r.chunk \in redacted /\ has_pii

(* The white space around the text of a source that is not counted.        *)
Blank(r) ==
    IF IsCode(r) THEN RawSize[r.chunk] - RawStripped[r.chunk]
                 ELSE DocSize[r.chunk] - DocStripped[r.chunk]

(* The context holds the best sources without a gap, and only when no      *)
(* source is useful one below the limit: a better one is never dropped for *)
(* a worse one that is shorter.  It exceeds the token budget by no more    *)
(* than the white space around its sources, but for flagged sources that   *)
(* are not code, whose summary is counted and whose raw text is written.   *)
BestSourcesUsed ==
    pc = "answered" =>
        /\ used = Prefix(ranked, Len(used))
        /\ \A i \in DOMAIN used : i > 1 => AtLeast(used[i].score, MinUseful)
        /\ \/ text <= Budget + Total([i \in DOMAIN used |-> Blank(used[i])])
           \/ \E r \in Elements(used) : IsFlagged(r) /\ r.chunk \notin Code
=============================================================================
