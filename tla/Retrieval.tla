----------------------------- MODULE Retrieval ------------------------------
(***************************************************************************)
(* A question from its arrival to its sources: Service.Query and           *)
(* prepareQuery with fuseRRF, rerankHits, selectDiverse and                *)
(* PrepareGenerationContext (internal/rag/service.go), over the searches   *)
(* of internal/store/store.go and the answers of the reranker.             *)
(*                                                                         *)
(* The vector search and the lexical search are two statements: documents  *)
(* may be reindexed, deleted and created in between.  A chunk is a text    *)
(* with the identifier it has in this generation of its document.  Scores  *)
(* are small numbers; a reciprocal rank 1/(60+r) is its multiple of the    *)
(* common denominator.                                                     *)
(*                                                                         *)
(* Not covered: spans, metrics and durations, the wording of the prompt,   *)
(* and what the model answers.                                             *)
(***************************************************************************)
EXTENDS Integers, Sequences, FiniteSets, FiniteSetsExt, SequencesExt

CONSTANTS
    Text,               \* the texts chunks may have, numbered
    Doc,                \* the document each text belongs to
    Key,                \* each text in lower case with its blanks normalised
    Blank,              \* the key of a text without a word
    Size,               \* the length of each text's block in the prompt
    Scores,             \* similarities, 0 being none
    TopKs,              \* top_k of a request
    CandidateK,         \* RETRIEVAL_CANDIDATE_K
    CommonMultiple,     \* of 61, 62, ... up to the last rank: makes 1/(60+r) an integer
    Reranking,          \* RERANK_ENABLED, in the processes considered
    RerankMaxPerDoc,    \* RERANK_MAX_PER_DOC
    MaxChars,           \* 6000 in prepareQuery
    MaxPerDocument,     \* 2 in prepareQuery
    MaxChanges          \* bounds the changes of the database during a question

ASSUME RetrievalAssumption ==
    /\ Text \subseteq Nat \ {0} /\ IsFiniteSet(Text)
    /\ {DOMAIN Doc, DOMAIN Key} = {Text}
    /\ Size \in [Text -> Nat \ {0}]
    /\ Scores \subseteq Nat /\ IsFiniteSet(Scores)
    /\ TopKs \subseteq Nat /\ IsFiniteSet(TopKs)
    /\ CandidateK \in Nat \ {0}
    /\ Reranking \subseteq BOOLEAN
    /\ {RerankMaxPerDoc, MaxPerDocument, MaxChars} \subseteq Nat \ {0}
    /\ MaxChanges \in Nat
    /\ CommonMultiple \in Nat \ {0}
    /\ \A r \in 1..Max({CandidateK} \cup TopKs) : CommonMultiple % (60 + r) = 0

VARIABLES
    chunks,     \* the stored chunks
    changes,    \* how often they changed during the question
    stage,      \* where prepareQuery is
    request,    \* top_k, whether there is a reranker, and how similar each text is
    vectorHits, \* what the vector search returned
    read,       \* history: the chunks it read
    candidates, \* the fused hits
    ranking,    \* history: the hits in the order they were selected in
    outcome     \* citations, prompt blocks and the flags of the answer

database      == <<chunks, changes>>
retrievalVars == <<chunks, changes, stage, request, vectorHits, read, candidates, ranking, outcome>>

Documents == {Doc[t] : t \in Text}
Identifier == {g * Max(Text) + t : g \in -1..1, t \in Text}

NoRequest ==
    [topK |-> 0, rerank |-> FALSE, vec |-> [t \in Text |-> 0], lex |-> [t \in Text |-> 0]]
NoOutcome == [citations |-> <<>>, blocks |-> <<>>, reranked |-> FALSE, fallback |-> FALSE]

RetrievalInit ==
    /\ \E D \in SUBSET Documents :
          chunks = {[id |-> t, text |-> t] : t \in {u \in Text : Doc[u] \in D}}
    /\ changes = 0
    /\ stage = "arrived"
    /\ request = NoRequest
    /\ vectorHits = <<>>
    /\ read = {}
    /\ candidates = <<>>
    /\ ranking = <<>>
    /\ outcome = NoOutcome

-----------------------------------------------------------------------------
(* Sequences in order.                                                     *)

\* The members of S, where Before is a strict order of all of them.
Ordered(S, Before(_, _)) ==
    [i \in 1..Cardinality(S) |->
        CHOOSE x \in S : Cardinality({y \in S : Before(y, x)}) = i - 1]

\* sort.SliceStable by a falling value.
StableSort(s, Value(_)) ==
    LET Before(i, j) == Value(s[i]) > Value(s[j]) \/ (Value(s[i]) = Value(s[j]) /\ i < j)
        at == Ordered(DOMAIN s, Before)
    IN [i \in DOMAIN s |-> s[at[i]]]

Cut(s, n) == SubSeq(s, 1, Min({n, Len(s)}))

-----------------------------------------------------------------------------
(* The searches of the store, each over the chunks one statement sees.     *)

Hit(c, vr, vs, lr, ls) ==
    [id |-> c.id, text |-> c.text, vectorRank |-> vr, vectorScore |-> vs,
     lexicalRank |-> lr, lexicalScore |-> ls, rerankRank |-> 0, rerankScore |-> 0]

\* The chunks of C by falling score, chunks of the same score by identifier.
ByScore(C, score) ==
    LET Before(a, b) == score[a.text] > score[b.text]
                        \/ (score[a.text] = score[b.text] /\ a.id < b.id)
    IN Ordered(C, Before)

searchVector(C, vec, n) ==
    LET semantic == Cut(ByScore(C, vec), n)
    IN [i \in DOMAIN semantic |-> Hit(semantic[i], i, vec[semantic[i].text], 0, 0)]

searchLexical(C, lex, n) ==
    LET lexical == Cut(ByScore({c \in C : lex[c.text] > 0}, lex), n)
    IN [i \in DOMAIN lexical |-> Hit(lexical[i], 0, 0, i, lex[lexical[i].text])]

\* 1/(60+r) for a rank r and 0 for none, times a common multiple of all of them.
MaxRank == Max({CandidateK} \cup TopKs)
Reciprocal(r) == IF r = 0 THEN 0 ELSE CommonMultiple \div (60 + r)

RRFScore(hit) == Reciprocal(hit.vectorRank) + Reciprocal(hit.lexicalRank)
BestScore(hit) == Max({hit.vectorScore, hit.lexicalScore})

\* What the hybrid statement returns of one snapshot: the outer join of both lists.
searchHybrid(C, vec, lex, n) ==
    LET semantic == searchVector(C, vec, n)
        lexical  == searchLexical(C, lex, n)
        In(s, c) == {i \in DOMAIN s : s[i].id = c.id}
        Rank(s, c) == IF In(s, c) = {} THEN 0 ELSE CHOOSE i \in In(s, c) : TRUE
        combined == {Hit(c, Rank(semantic, c),
                         IF Rank(semantic, c) = 0 THEN 0 ELSE vec[c.text],
                         Rank(lexical, c),
                         IF Rank(lexical, c) = 0 THEN 0 ELSE lex[c.text]) :
                     c \in {k \in C : In(semantic, k) \cup In(lexical, k) # {}}}
        Before(a, b) == \/ RRFScore(a) > RRFScore(b)
                        \/ RRFScore(a) = RRFScore(b) /\ BestScore(a) > BestScore(b)
                        \/ RRFScore(a) = RRFScore(b) /\ BestScore(a) = BestScore(b) /\ a.id < b.id
    IN Cut(Ordered(combined, Before), n)

-----------------------------------------------------------------------------
(* Fusion.                                                                 *)

\* Every chunk of either list once; in both, it has both ranks and scores.
Combined(vs, ls) ==
    LET Both(h) == {i \in DOMAIN ls : ls[i].id = h.id}
    IN {IF Both(h) = {} THEN h
        ELSE LET l == ls[CHOOSE i \in Both(h) : TRUE]
             IN [h EXCEPT !.lexicalRank = l.lexicalRank, !.lexicalScore = l.lexicalScore] :
            h \in ToSet(vs)}
       \cup {l \in ToSet(ls) : \A h \in ToSet(vs) : h.id # l.id}

\* Faulty variant: of two hits with the same score the one with the lower identifier wins.
FuseTiesById(vs, ls, n) ==
    LET Before(a, b) == RRFScore(a) > RRFScore(b) \/ (RRFScore(a) = RRFScore(b) /\ a.id < b.id)
    IN Cut(Ordered(Combined(vs, ls), Before), n)

fuseRRF(vs, ls, n) ==
    LET Before(a, b) == \/ RRFScore(a) > RRFScore(b)
                        \/ RRFScore(a) = RRFScore(b) /\ BestScore(a) > BestScore(b)
                        \/ RRFScore(a) = RRFScore(b) /\ BestScore(a) = BestScore(b) /\ a.id < b.id
    IN Cut(Ordered(Combined(vs, ls), Before), n)

-----------------------------------------------------------------------------
(* Selection.                                                              *)

OfDocument(hits, d) == {i \in DOMAIN hits : Doc[hits[i].text] = d}

\* From the first hit on, at most quota of a document and k in all.
selectDiverse(hits, k, quota) ==
    LET Take(taken, hit) ==
            IF Len(taken) >= k \/ Cardinality(OfDocument(taken, Doc[hit.text])) >= quota
            THEN taken ELSE Append(taken, hit)
        selected[i \in 0..Len(hits)] ==
            IF i = 0 THEN <<>> ELSE Take(selected[i - 1], hits[i])
    IN selected[Len(hits)]

\* Faulty variant: a candidate the reranker names twice is taken twice.
RankedAsNamed(hits, results) ==
    [r \in DOMAIN results |->
        [hits[results[r].index] EXCEPT !.rerankRank = r, !.rerankScore = results[r].score]]

\* The candidates in the order of the results, each where it is named first.
RankedBy(hits, results) ==
    LET First(r) == \A s \in 1..(r - 1) : results[s].index # results[r].index
        Take(ordered, r) ==
            IF First(r)
            THEN Append(ordered, [hits[results[r].index] EXCEPT !.rerankRank = r,
                                                                !.rerankScore = results[r].score])
            ELSE ordered
        ordered[r \in 0..Len(results)] ==
            IF r = 0 THEN <<>> ELSE Take(ordered[r - 1], r)
    IN ordered[Len(results)]

\* The answers the provider lets pass: one result per text, each with a valid
\* index, which it sorts.
Results(n) ==
    LET Score(result) == result.score
    IN {StableSort(items, Score) : items \in [1..n -> [index : 1..n, score : Scores]]}

generationScore(hit) == IF hit.rerankRank > 0 THEN hit.rerankScore ELSE RRFScore(hit)

Used(blocks) == MapThenSumSet(LAMBDA i : Size[blocks[i].text], DOMAIN blocks)

\* Faulty variant: it is chunks that are not repeated, not what they say.
SkippedByChunk(acc, hit) ==
    \/ Key[hit.text] = Blank
    \/ \E c \in ToSet(acc.citations) : c.id = hit.id
    \/ Cardinality(OfDocument(acc.citations, Doc[hit.text])) >= MaxPerDocument
    \/ Used(acc.blocks) + Size[hit.text] > MaxChars

\* A hit is left out where it has no words, repeats a text, is one too many of
\* its document or does not fit; a smaller one after it may fit.
Skipped(acc, hit) ==
    \/ Key[hit.text] = Blank
    \/ \E c \in ToSet(acc.citations) : Key[c.text] = Key[hit.text]
    \/ Cardinality(OfDocument(acc.citations, Doc[hit.text])) >= MaxPerDocument
    \/ Used(acc.blocks) + Size[hit.text] > MaxChars

\* Faulty variant: a block has the rank of its hit.
BlockByRank(number, hit) ==
    [number |-> IF hit.rerankRank > 0 THEN hit.rerankRank ELSE number, text |-> hit.text]

Block(number, hit) == [number |-> number, text |-> hit.text]

PrepareGenerationContext(hits) ==
    LET Take(acc, hit) ==
            IF Skipped(acc, hit) THEN acc
            ELSE [citations |-> Append(acc.citations, hit),
                  blocks    |-> Append(acc.blocks, Block(Len(acc.citations) + 1, hit))]
        ordered == StableSort(hits, generationScore)
        acc[i \in 0..Len(ordered)] ==
            IF i = 0 THEN [citations |-> <<>>, blocks |-> <<>>] ELSE Take(acc[i - 1], ordered[i])
    IN acc[Len(ordered)]

-----------------------------------------------------------------------------
(* The question.                                                           *)

\* A question that is not blank is embedded: it may be of any similarity to the
\* texts.
Embed(k, rerank, vec, lex) ==
    /\ stage = "arrived"
    /\ request' = [topK |-> k, rerank |-> rerank, vec |-> vec, lex |-> lex]
    /\ stage' = "vector"
    /\ UNCHANGED <<database, vectorHits, read, candidates, ranking, outcome>>

\* candidateK: the statements return enough for a larger top_k.
Limit == Max({CandidateK, request.topK})

VectorSearch ==
    /\ stage = "vector"
    /\ vectorHits' = searchVector(chunks, request.vec, Limit)
    /\ read' = chunks
    /\ stage' = "lexical"
    /\ UNCHANGED <<database, request, candidates, ranking, outcome>>

LexicalSearch ==
    /\ stage = "lexical"
    /\ candidates' = fuseRRF(vectorHits, searchLexical(chunks, request.lex, Limit), Limit)
    /\ stage' = "rerank"
    /\ vectorHits' = <<>>
    /\ read' = {}
    /\ request' = [NoRequest EXCEPT !.topK = request.topK, !.rerank = request.rerank]
    /\ UNCHANGED <<database, ranking, outcome>>

\* The sources are chosen from the hits in this order, and the prompt is built.
Select(ranked, reranked, fallback) ==
    /\ stage = "rerank"
    /\ ranking' = ranked
    /\ LET prepared == PrepareGenerationContext(
                           selectDiverse(ranked, request.topK, RerankMaxPerDoc))
       IN outcome' = [citations |-> prepared.citations, blocks |-> prepared.blocks,
                      reranked |-> reranked, fallback |-> fallback]
    /\ stage' = "answering"
    /\ UNCHANGED <<database, request, vectorHits, read, candidates>>

SelectFused == ~request.rerank /\ Select(candidates, FALSE, FALSE)

\* With no candidates the provider returns no results, which is an error.
Rerank ==
    /\ request.rerank
    /\ candidates # <<>>
    /\ \E results \in Results(Len(candidates)) :
          Select(RankedBy(candidates, results), TRUE, FALSE)

\* The reranker answered too late, with an error, not one result per text or
\* with an index that is none.
RerankFails == request.rerank /\ Select(candidates, FALSE, TRUE)

\* The question is over: the answer is returned with its citations, or an error.
Over ==
    /\ stage' = "over"
    /\ request' = NoRequest
    /\ vectorHits' = <<>>
    /\ read' = {}
    /\ candidates' = <<>>
    /\ ranking' = <<>>
    /\ outcome' = NoOutcome
    /\ UNCHANGED database

Complete == stage = "answering" /\ Over

\* The question is blank; the embedder, a search or the model fails.
Fail == stage \in {"arrived", "vector", "lexical", "answering"} /\ Over

-----------------------------------------------------------------------------
(* Other transactions, between the two searches: the ones before them are  *)
(* part of the initial state, and no later step reads the chunks.          *)

Change(C) ==
    /\ stage = "lexical"
    /\ changes < MaxChanges
    /\ changes' = changes + 1
    /\ chunks' = C
    /\ UNCHANGED <<stage, request, vectorHits, read, candidates, ranking, outcome>>

Of(d) == {c \in chunks : Doc[c.text] = d}

\* New chunks have random identifiers: all of them higher or all lower than before.
Generation(d, g) == {[id |-> g * Max(Text) + t, text |-> t] : t \in {u \in Text : Doc[u] = d}}

ReplaceDocumentChunks(d) ==
    \E g \in -1..1 :
        /\ Of(d) # {}
        /\ Generation(d, g) # Of(d)
        /\ Change((chunks \ Of(d)) \cup Generation(d, g))

CreateDocument(d) == Of(d) = {} /\ Change(chunks \cup Generation(d, 0))

DeleteDocument(d) == Of(d) # {} /\ Change(chunks \ Of(d))

RetrievalNext ==
    \/ \E k \in TopKs, rerank \in Reranking, vec, lex \in [Text -> Scores] :
          Embed(k, rerank, vec, lex)
    \/ VectorSearch
    \/ LexicalSearch
    \/ SelectFused
    \/ Rerank
    \/ RerankFails
    \/ Complete
    \/ Fail
    \/ \E d \in Documents :
          ReplaceDocumentChunks(d) \/ CreateDocument(d) \/ DeleteDocument(d)

RetrievalSpec == RetrievalInit /\ [][RetrievalNext]_retrievalVars

-----------------------------------------------------------------------------
(* Properties.                                                             *)

HitType == [id : Identifier, text : Text, vectorRank : 0..MaxRank, vectorScore : Scores \cup {0},
            lexicalRank : 0..MaxRank, lexicalScore : Scores \cup {0},
            rerankRank : 0..MaxRank, rerankScore : Scores \cup {0}]

\* Type correctness of every variable.
RetrievalTypeOK ==
    /\ chunks \in SUBSET [id : Identifier, text : Text]
    /\ changes \in 0..MaxChanges
    /\ stage \in {"arrived", "vector", "lexical", "rerank", "answering", "over"}
    /\ request \in [topK : TopKs \cup {0}, rerank : BOOLEAN,
                    vec : [Text -> Scores \cup {0}], lex : [Text -> Scores \cup {0}]]
    /\ \A hits \in {vectorHits, candidates, ranking, outcome.citations} :
          Len(hits) <= MaxRank /\ ToSet(hits) \subseteq HitType
    /\ read \in SUBSET [id : Identifier, text : Text]
    /\ ToSet(outcome.blocks) \subseteq [number : Nat, text : Text]
    /\ {outcome.reranked, outcome.fallback} \subseteq BOOLEAN

\* Two statements and a fusion in the service do what the hybrid statement of
\* the store, which the evaluation measures, does in one: if both searches saw
\* the same chunks, they give the same hits in the same order.
SameAsStoreHybrid ==
    [][LexicalSearch /\ read = chunks =>
          candidates' = searchHybrid(chunks, request.vec, request.lex, Limit)]_retrievalVars

\* No text is cited twice, even if it was found once before and once after a
\* reindex of its document, or in two documents.
CitationsDiffer ==
    \A i, j \in DOMAIN outcome.citations :
        Key[outcome.citations[i].text] = Key[outcome.citations[j].text] => i = j

\* Source [n] of the prompt is the n-th citation the answer is returned with.
NumbersMatchCitations ==
    /\ Len(outcome.blocks) = Len(outcome.citations)
    /\ \A n \in DOMAIN outcome.blocks :
          outcome.blocks[n] = [number |-> n, text |-> outcome.citations[n].text]

\* Who outranks the i-th hit of the ranking.
Ahead(i, S) == {j \in S : j < i}

\* The hits the request has room for: among the first RerankMaxPerDoc distinct
\* chunks of their document, and among the first top_k of those.
Roomy ==
    LET distinct == {i \in DOMAIN ranking : \A j \in 1..(i - 1) : ranking[j].id # ranking[i].id}
        SameDoc(i) == {j \in distinct : Doc[ranking[j].text] = Doc[ranking[i].text]}
        within == {i \in distinct : Cardinality(Ahead(i, SameDoc(i))) < RerankMaxPerDoc}
    IN {i \in within : Cardinality(Ahead(i, within)) < request.topK}

\* Every hit is cited unless there is a reason not to: no room, the same text
\* or enough texts of its document cited ahead of it, or no space left by those
\* cited ahead of it.
CitedUnlessCrowded ==
    stage = "answering" =>
        LET cited == {i \in DOMAIN ranking : ranking[i] \in ToSet(outcome.citations)}
            Crowded(i) ==
                \/ \E j \in Ahead(i, cited) : Key[ranking[j].text] = Key[ranking[i].text]
                \/ Cardinality({j \in Ahead(i, cited) :
                                 Doc[ranking[j].text] = Doc[ranking[i].text]}) >= MaxPerDocument
                \/ Used(SubSeq(outcome.blocks, 1, Cardinality(Ahead(i, cited))))
                      + Size[ranking[i].text] > MaxChars
        IN cited = {i \in Roomy : Key[ranking[i].text] # Blank /\ ~Crowded(i)}
=============================================================================
