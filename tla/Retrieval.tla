------------------------------ MODULE Retrieval ------------------------------
(***************************************************************************)
(* How a question finds its chunks: the shortlist of documents by their      *)
(* summaries behind a cached count, the size of the candidate pool, the two   *)
(* legs of the search with the fallback from one to the other, the batch of   *)
(* several queries with the fallback to one search each, the image attached   *)
(* to a question, and the reranking of what was found.                       *)
(*                                                                         *)
(* The index changes under a question: a document's chunks and its summary   *)
(* come and go in calls of their own (DocumentLifecycle has their order).    *)
(* A text is what its embeddings make of it: the rank of a chunk for the      *)
(* dense and for the sparse leg, and the chunks that share a term with it,     *)
(* the only ones that the sparse leg finds; the cross-encoder is one more      *)
(* ranking.  Qdrant counts with exact=False: what it says may be any number.   *)
(* MMR_LAMBDA is 1.0 and SEARCH_SCORE_THRESHOLD unset, their defaults.         *)
(***************************************************************************)
EXTENDS Naturals, Sequences, FiniteSets

CONSTANTS Doc, Chunk, Tenant, Org, Request,
          DocOf,       \* the document of a chunk
          Home,        \* [tenant, org] of a document
          Questions,   \* [kind, tenant, org, orgs, only, mode, rerank, texts, judge]
          Stored,      \* documents in the index at the start
          Limit,       \* DOC_SHORTLIST_LIMIT
          TopK,        \* top_k
          Max,         \* SEARCH_CANDIDATES_MAX
          Static,      \* SEARCH_CANDIDATES
          Ttl,         \* _DOC_COUNT_CACHE_TTL_SECONDS, in ticks
          Asks,        \* bound: questions of one request thread
          Edits,       \* bound: calls that change the index
          Ticks,       \* bound: ticks of the clock
          Rough,       \* bound: what an approximate count may say besides the truth
          Faults       \* what may go wrong in this instance

Legs == {"dense", "sparse"}
Scope == Tenant \X Org
Ranking == [Chunk -> Nat]
Text == [rank : [Legs -> Ranking], shares : SUBSET Chunk]

ASSUME IndexAssumption == /\ DocOf \in [Chunk -> Doc] /\ IsFiniteSet(Chunk)
                          /\ Home \in [Doc -> [tenant : Tenant, org : Org]] /\ IsFiniteSet(Doc)
                          /\ Stored \subseteq Doc
ASSUME SettingsAssumption == /\ {Limit, TopK, Max, Static, Ttl} \subseteq Nat \ {0}
                             /\ {Asks, Edits, Ticks} \subseteq Nat /\ Rough \subseteq Nat
ASSUME QuestionsAssumption ==
         /\ Questions # {}
         /\ Questions \subseteq [kind : {"chat", "image", "search"}, tenant : Tenant, org : Org,
                                 orgs : SUBSET Org, only : SUBSET Doc,
                                 mode : {"hybrid", "semantic", "keyword"}, rerank : BOOLEAN,
                                 texts : Seq(Text), judge : Ranking]
         /\ \A q \in Questions :
              /\ Len(q.texts) > 0
              /\ q.kind # "search" => q.orgs = {} /\ q.mode = "hybrid" /\ q.rerank
              /\ q.kind = "image" => Len(q.texts) = 2
              /\ q.kind = "search" => Len(q.texts) = 1
ASSUME FaultsAssumption ==
         Faults \subseteq {"countFails", "embeddingFails", "shortlistFails", "storeFails",
                           "rerankFails", "visionFails", "summaryFails"}

VARIABLES
  index,      \* chunks with a point in avabodh_chunks
  summaries,  \* documents with a point in the summary collection
  cache,      \* _DOC_COUNT_CACHE: count and age by scope
  asked,      \* the question of a thread
  kind,       \* "image" until the image is given up
  pc,         \* where the thread is
  ids,        \* document_ids of the shortlist, {} for the whole corpus
  pool,       \* how many candidates a search may return
  todo,       \* texts still to be searched for
  found,      \* by_id, the hits so far
  degraded,   \* codes of what failed on the way
  answer,     \* the chunks returned
  asks, edits, ticks,
  steady,     \* chunks in the index all through the question (history)
  summarised, \* documents with a summary all through the question (history)
  silent      \* what may cut the candidates and leaves no code (history)

indexVars == <<index, summaries, edits, steady, summarised>>
clockVars == <<cache, ticks>>
threadVars == <<asked, kind, pc, ids, pool, todo, found, degraded, answer, asks, silent>>
vars == <<indexVars, clockVars, threadVars>>

Fault(f) == f \in Faults
NoEntry == [count |-> 0, age |-> Ttl]
Least(m, n) == IF m < n THEN m ELSE n
ScopeOf(d) == <<Home[d].tenant, Home[d].org>>

\* build_filter: the tenant, the caller's org unit or those it names, the
\* documents that its other conditions leave, the documents shortlisted.
\* (Slip: every org unit of the tenant.)
OrgsOf(q) == IF q.orgs # {} THEN q.orgs ELSE {q.org}
WholeTenant(q, docs) == {c \in Chunk : /\ Home[DocOf[c]].tenant = q.tenant
                                       /\ q.only # {} => DocOf[c] \in q.only
                                       /\ docs # {} => DocOf[c] \in docs}
Matching(q, docs) == {c \in WholeTenant(q, docs) : Home[DocOf[c]].org \in OrgsOf(q)}

InScope(r) == Matching(asked[r], ids[r])
KeyOf(r) == <<asked[r].tenant, asked[r].org>>

\* The summaries of an org unit.  (Slip: of the whole tenant.)
TenantSummaries(s) == {d \in summaries : Home[d].tenant = s[1]}
SummariesOf(s) == {d \in summaries : ScopeOf(d) = s}

\* What count(exact=False) may say of a set.
Counts(S) == {Cardinality(S)} \cup Rough

Init ==
  /\ index = {c \in Chunk : DocOf[c] \in Stored}
  /\ summaries \in SUBSET Stored /\ (Fault("summaryFails") \/ summaries = Stored)
  /\ cache = [s \in Scope |-> NoEntry]
  /\ asked \in [Request -> {CHOOSE q \in Questions : TRUE}]
  /\ kind = [r \in Request |-> asked[r].kind]
  /\ pc = [r \in Request |-> "idle"]
  /\ ids = [r \in Request |-> {}] /\ pool = [r \in Request |-> 0]
  /\ todo = [r \in Request |-> << >>] /\ found = [r \in Request |-> {}]
  /\ degraded = [r \in Request |-> {}] /\ answer = [r \in Request |-> {}]
  /\ steady = [r \in Request |-> {}] /\ summarised = [r \in Request |-> {}]
  /\ silent = [r \in Request |-> {}]
  /\ asks = [r \in Request |-> 0] /\ edits = 0 /\ ticks = 0

-----------------------------------------------------------------------------
(* The index and the clock.                                                 *)

Edit(chunks, held) ==
  /\ edits < Edits /\ edits' = edits + 1
  /\ index' = chunks /\ summaries' = held
  /\ steady' = [r \in Request |-> steady[r] \cap chunks]
  /\ summarised' = [r \in Request |-> summarised[r] \cap held]
  /\ UNCHANGED <<clockVars, threadVars>>

ChunksOf(d) == {c \in Chunk : DocOf[c] = d}

\* upsert_chunks, and after it upsert_document_summary, whose failure leaves
\* the document without a summary.
UpsertChunks(d) == ~(ChunksOf(d) \subseteq index) /\ Edit(index \cup ChunksOf(d), summaries)
UpsertSummary(d) == d \notin summaries /\ ChunksOf(d) \subseteq index /\ Edit(index, summaries \cup {d})

\* delete_document_points, and after it delete_document_summary.
DeleteChunks(d) == ChunksOf(d) \subseteq index /\ Edit(index \ ChunksOf(d), summaries)
DeleteSummary(d) == d \in summaries /\ ChunksOf(d) \cap index = {} /\ Edit(index, summaries \ {d})

Tick ==
  /\ ticks < Ticks /\ ticks' = ticks + 1
  /\ cache' = [s \in Scope |-> [cache[s] EXCEPT !.age = Least(@ + 1, Ttl)]]
  /\ UNCHANGED <<indexVars, threadVars>>

-----------------------------------------------------------------------------
(* A question.                                                              *)

At(r, label) == pc[r] = label
Goto(r, label) == pc' = [pc EXCEPT ![r] = label]

\* A search that names its documents has nothing to shortlist.
Entry(q, k) == IF k = "image" THEN "captioning"
               ELSE IF k = "chat" /\ q.only = {} THEN "counting" ELSE "sizing"

Ask(r, q) ==
  /\ pc[r] \in {"idle", "answered"} /\ asks[r] < Asks
  /\ asks' = [asks EXCEPT ![r] = @ + 1]
  /\ asked' = [asked EXCEPT ![r] = q] /\ kind' = [kind EXCEPT ![r] = q.kind]
  /\ Goto(r, Entry(q, q.kind))
  /\ todo' = [todo EXCEPT ![r] = q.texts]
  /\ ids' = [ids EXCEPT ![r] = {}] /\ found' = [found EXCEPT ![r] = {}]
  /\ pool' = [pool EXCEPT ![r] = 0]
  /\ degraded' = [degraded EXCEPT ![r] = {}] /\ answer' = [answer EXCEPT ![r] = {}]
  /\ steady' = [steady EXCEPT ![r] = index] /\ summarised' = [summarised EXCEPT ![r] = summaries]
  /\ silent' = [silent EXCEPT ![r] = {}]
  /\ UNCHANGED <<index, summaries, edits, clockVars>>

\* Two searches without reranking, one for the caption and one for the text,
\* over everything: an image is not shortlisted.
Captioned(r) ==
  /\ At(r, "captioning") /\ Goto(r, "searching")
  /\ pool' = [pool EXCEPT ![r] = 2 * TopK]
  /\ UNCHANGED <<indexVars, clockVars, asked, kind, ids, todo, found, degraded, answer, asks, silent>>

\* The image is given up for the text alone.
WithoutImage(r, code) ==
  /\ kind' = [kind EXCEPT ![r] = "chat"] /\ Goto(r, Entry(asked[r], "chat"))
  /\ todo' = [todo EXCEPT ![r] = <<asked[r].texts[2]>>]
  /\ found' = [found EXCEPT ![r] = {}]
  /\ degraded' = [degraded EXCEPT ![r] = @ \cup {code}]
  /\ UNCHANGED <<indexVars, clockVars, asked, ids, pool, answer, asks, silent>>

CaptionFails(r) ==
  /\ Fault("visionFails") /\ At(r, "captioning")
  /\ \E code \in {"vision_captioning", "image_retrieval"} : WithoutImage(r, code)

-----------------------------------------------------------------------------
\* _cached_document_count.  The entry belongs to tenant and org unit.
Fresh(entry) == entry.age < Ttl
Entries(s) == IF Fresh(cache[s]) THEN {cache[s]}
              ELSE {[count |-> n, age |-> 0] : n \in Counts(SummariesOf(s))}

CountSummaries(r) ==
  LET s == KeyOf(r)
  IN /\ At(r, "counting")
     /\ \E entry \in Entries(s) : /\ cache' = [cache EXCEPT ![s] = entry]
                                 /\ Goto(r, IF entry.count <= Limit THEN "sizing" ELSE "shortlisting")
     /\ UNCHANGED <<indexVars, ticks, asked, kind, ids, pool, todo, found, degraded, answer, asks, silent>>

\* Counting, embedding or searching the summaries failed: the whole corpus.
NoShortlist(r) ==
  /\ \/ At(r, "counting") /\ Fault("countFails") /\ ~Fresh(cache[KeyOf(r)])
     \/ At(r, "shortlisting") /\ Fault("shortlistFails")
  /\ Goto(r, "sizing")
  /\ UNCHANGED <<indexVars, clockVars, asked, kind, ids, pool, todo, found, degraded, answer, asks, silent>>

\* Which summaries come first is for the embeddings to say.
Shortlist(r) ==
  LET held == SummariesOf(KeyOf(r))
  IN /\ At(r, "shortlisting") /\ Goto(r, "sizing")
     /\ \E docs \in SUBSET held : /\ Cardinality(docs) = Least(Limit, Cardinality(held))
                                  /\ ids' = [ids EXCEPT ![r] = docs]
     /\ UNCHANGED <<indexVars, clockVars, asked, kind, pool, todo, found, degraded, answer, asks, silent>>

\* _dynamic_search_candidates, for a count of n.  (Slip: the static number.)
StaticPool(n) == Static
PoolFor(n) == IF n > 0 THEN Least(n, Max) ELSE Static

Undercount(n, S) == IF n < Cardinality(S) THEN {"count"} ELSE {}

\* Several queries are tried in one batch.  A count that fails, or says less
\* than there is, leaves no trace.
SizePool(r) ==
  /\ At(r, "sizing")
  /\ Goto(r, IF Len(todo[r]) > 1 THEN "batching" ELSE "searching")
  /\ IF ~asked[r].rerank
     THEN pool' = [pool EXCEPT ![r] = TopK] /\ UNCHANGED silent
     ELSE \/ \E n \in Counts(InScope(r) \cap index) :
               /\ pool' = [pool EXCEPT ![r] = PoolFor(n)]
               /\ silent' = [silent EXCEPT ![r] = @ \cup Undercount(n, InScope(r) \cap index)]
          \/ /\ Fault("countFails") /\ pool' = [pool EXCEPT ![r] = Static]
             /\ silent' = [silent EXCEPT ![r] = @ \cup {"count"}]
  /\ UNCHANGED <<indexVars, clockVars, asked, kind, ids, todo, found, degraded, answer, asks>>

-----------------------------------------------------------------------------
\* The first n of a set in a ranking, whichever comes first of those that rank alike.
First(ranking, S, n) == {F \in SUBSET S : /\ Cardinality(F) = Least(n, Cardinality(S))
                                          /\ \A x \in F, y \in S \ F : ranking[x] <= ranking[y]}

\* The chunks that a leg can find for a text.
Reach(text, leg) == IF leg = "sparse" THEN text.shares ELSE Chunk

\* The first n of each leg.
Heads(text, legs, S, n) == {h \in [legs -> SUBSET S] :
                              \A l \in legs : h[l] \in First(text.rank[l], S \cap Reach(text, l), n)}

Before(text, leg, x, y) ==
  x \in Reach(text, leg) /\ (y \in Reach(text, leg) => text.rank[leg][x] <= text.rank[leg][y])

\* Reciprocal rank fusion of the heads: whatever n of them are kept, none is
\* kept for another that every leg ranks before it.
Fusions(text, legs, S, n) ==
  UNION {LET H == UNION {h[l] : l \in legs}
         IN {F \in SUBSET H : /\ Cardinality(F) = Least(n, Cardinality(H))
                              /\ \A x \in F, y \in H \ F : \E l \in legs : Before(text, l, x, y)}
         : h \in Heads(text, legs, S, n)}

Code(leg) == IF leg = "dense" THEN "dense_embedding" ELSE "sparse_embedding"
LegsOf(mode) == {l \in Legs : \/ mode = "hybrid"
                              \/ mode = "semantic" /\ l = "dense"
                              \/ mode = "keyword" /\ l = "sparse"}

\* Legs whose embedding works this time.
Working(mode) == IF Fault("embeddingFails") THEN SUBSET LegsOf(mode) ELSE {LegsOf(mode)}

\* What is searched without one of the legs.  (Slip: nothing.)
NoFallback(legs, mode) == IF legs = LegsOf(mode) THEN legs ELSE {}
Surviving(legs, mode) == legs

ShortPool(r) == IF pool[r] < Cardinality(InScope(r) \cap index) THEN {"pool"} ELSE {}

Search(r) ==
  /\ At(r, "searching")
  /\ \E working \in Working(asked[r].mode) :
       LET legs == Surviving(working, asked[r].mode)
       IN /\ degraded' = [degraded EXCEPT ![r] = @ \cup {Code(l) : l \in LegsOf(asked[r].mode) \ working}]
          /\ \/ \E hits \in Fusions(Head(todo[r]), legs, InScope(r) \cap index, pool[r]) :
                  /\ found' = [found EXCEPT ![r] = @ \cup hits]
                  /\ silent' = [silent EXCEPT ![r] = @ \cup ShortPool(r)]
             \/ /\ Fault("storeFails") /\ legs # {}
                /\ silent' = [silent EXCEPT ![r] = @ \cup {"store"}]
                /\ UNCHANGED found
  /\ todo' = [todo EXCEPT ![r] = Tail(@)]
  /\ Goto(r, IF Len(todo[r]) > 1 THEN "searching" ELSE "ranking")
  /\ UNCHANGED <<indexVars, clockVars, asked, kind, ids, pool, answer, asks>>

\* query_batch_points: every query at the same moment.
BatchSearch(r) ==
  LET S == InScope(r) \cap index
  IN /\ At(r, "batching") /\ Goto(r, "ranking")
     /\ \E hits \in {h \in [1 .. Len(todo[r]) -> SUBSET S] :
                       \A i \in DOMAIN h : h[i] \in Fusions(todo[r][i], Legs, S, pool[r])} :
          found' = [found EXCEPT ![r] = UNION {hits[i] : i \in DOMAIN hits}]
     /\ todo' = [todo EXCEPT ![r] = << >>]
     /\ silent' = [silent EXCEPT ![r] = @ \cup ShortPool(r)]
     /\ UNCHANGED <<indexVars, clockVars, asked, kind, ids, pool, degraded, answer, asks>>

\* Embedding or searching the batch failed: one search for each query.
BatchFails(r) ==
  /\ Fault("embeddingFails") \/ Fault("storeFails")
  /\ At(r, "batching") /\ Goto(r, "searching")
  /\ UNCHANGED <<indexVars, clockVars, asked, kind, ids, pool, todo, found, degraded, answer, asks, silent>>

-----------------------------------------------------------------------------
Answers(r, chunks) ==
  /\ Goto(r, "answered")
  /\ answer' = [answer EXCEPT ![r] = chunks]
  /\ found' = [found EXCEPT ![r] = {}] /\ pool' = [pool EXCEPT ![r] = 0]
  /\ UNCHANGED <<indexVars, clockVars, asked, kind, ids, todo, asks, silent>>

Rerank(r) ==
  /\ At(r, "ranking") /\ asked[r].rerank
  /\ \E chunks \in First(asked[r].judge, found[r], TopK) : Answers(r, chunks)
  /\ UNCHANGED degraded

\* In the order of the fusion, or of the best score over the queries.
InFusionOrder(r) == {A \in SUBSET found[r] : Cardinality(A) = Least(TopK, Cardinality(found[r]))}

WithoutRerank(r) ==
  /\ At(r, "ranking") /\ ~asked[r].rerank
  /\ \E chunks \in InFusionOrder(r) : Answers(r, chunks)
  /\ UNCHANGED degraded

\* What is put on record when reranking fails.  (Slips: nothing, a code that
\* nobody knows.)
Nothing(r) == {}
OtherCode(r) == {"rerank"}
RerankCode(r) == {"reranking"}

\* One search leaves a single hit as it is; merged hits are always reranked.
Merged(r) == kind[r] = "image" \/ (asked[r].kind # "image" /\ Len(asked[r].texts) > 1)
HasToRank(r) == found[r] # {} /\ (Merged(r) \/ Cardinality(found[r]) > 1)

RerankFails(r) ==
  /\ Fault("rerankFails") /\ At(r, "ranking") /\ asked[r].rerank /\ HasToRank(r)
  /\ \/ /\ kind[r] = "image" /\ WithoutImage(r, "image_retrieval")
     \/ /\ kind[r] # "image"
        /\ \E chunks \in InFusionOrder(r) : Answers(r, chunks)
        /\ degraded' = [degraded EXCEPT ![r] = @ \cup RerankCode(r)]

Step(r) == \/ Captioned(r) \/ CaptionFails(r) \/ CountSummaries(r) \/ NoShortlist(r) \/ Shortlist(r)
           \/ SizePool(r) \/ Search(r) \/ BatchSearch(r) \/ BatchFails(r)
           \/ Rerank(r) \/ WithoutRerank(r) \/ RerankFails(r)

Next == \/ \E d \in Doc : UpsertChunks(d) \/ UpsertSummary(d) \/ DeleteChunks(d) \/ DeleteSummary(d)
        \/ Tick
        \/ \E r \in Request : Step(r) \/ \E q \in Questions : Ask(r, q)

Spec == Init /\ [][Next]_vars

-----------------------------------------------------------------------------
(* Properties.                                                              *)

Codes == {"dense_embedding", "sparse_embedding", "reranking", "vision_captioning", "image_retrieval"}
Labels == {"idle", "captioning", "counting", "shortlisting", "sizing", "batching", "searching",
           "ranking", "answered"}

IndexTypeOK ==
  /\ index \subseteq Chunk /\ summaries \subseteq Doc /\ edits \in 0 .. Edits
  /\ steady \in [Request -> SUBSET Chunk] /\ summarised \in [Request -> SUBSET Doc]

ClockTypeOK ==
  cache \in [Scope -> [count : Nat, age : 0 .. Ttl]] /\ ticks \in 0 .. Ticks

ThreadTypeOK ==
  /\ asked \in [Request -> Questions] /\ kind \in [Request -> {"chat", "image", "search"}]
  /\ pc \in [Request -> Labels] /\ ids \in [Request -> SUBSET Doc] /\ pool \in [Request -> Nat]
  /\ todo \in [Request -> Seq(Text)]
  /\ found \in [Request -> SUBSET Chunk] /\ degraded \in [Request -> SUBSET Codes]
  /\ answer \in [Request -> SUBSET Chunk] /\ asks \in [Request -> 0 .. Asks]
  /\ silent \in [Request -> SUBSET {"count", "store", "pool"}]

\* Every variable has its type.
TypeOK == IndexTypeOK /\ ClockTypeOK /\ ThreadTypeOK

Answered(r) == pc[r] = "answered"

\* Whatever route a question took through shortlist, batch, fallback and image,
\* it is answered from its own tenant and org units and the documents it names.
NothingOutOfScope ==
  \A r \in Request : \A c \in found[r] \cup answer[r] :
    /\ Home[DocOf[c]].tenant = asked[r].tenant /\ Home[DocOf[c]].org \in OrgsOf(asked[r])
    /\ asked[r].only # {} => DocOf[c] \in asked[r].only

\* The shortlist leaves out a document whose summary was there all along only
\* for DOC_SHORTLIST_LIMIT others of its own org unit, however old or rough the
\* count that called for a shortlist: it must not silently exclude half of a
\* small knowledge base.
ShortlistDropsForCause ==
  \A r \in Request : \A d \in summarised[r] \ ids[r] :
    ids[r] # {} /\ ScopeOf(d) = KeyOf(r)
    => Cardinality({e \in ids[r] : ScopeOf(e) = KeyOf(r)}) = Limit

\* The texts that count for an answer: of an image given up, the question alone.
TextsOf(r) == {asked[r].texts[i] : i \in IF kind[r] = asked[r].kind THEN DOMAIN asked[r].texts ELSE {2}}

\* What a leg owes a text: the chunks that it can find, in scope all along.
Owed(r, text, leg) == Reach(text, leg) \cap steady[r] \cap InScope(r)

\* One leg is enough: with the store up, a question that finds nothing has on
\* record every leg that could have found a chunk for one of its texts.
SurvivingLegAnswers ==
  \A r \in Request :
    Answered(r) /\ answer[r] = {} /\ "store" \notin silent[r]
    => \A text \in TextsOf(r), l \in LegsOf(asked[r].mode) :
         Owed(r, text, l) # {} => Code(l) \in degraded[r]

\* An answer with nothing on record, whose pool was not outrun, is what the
\* cross-encoder would have picked from all that a leg can find in the scope:
\* batching, merging and fusing lose no better chunk.
NothingBetterLeftOut ==
  \A r \in Request :
    Answered(r) /\ asked[r].rerank /\ degraded[r] = {} /\ silent[r] \cap {"store", "pool"} = {}
    => \A text \in TextsOf(r), l \in LegsOf(asked[r].mode) : \A c \in Owed(r, text, l) \ answer[r] :
         /\ Cardinality(answer[r]) = TopK
         /\ \A a \in answer[r] : asked[r].judge[a] <= asked[r].judge[c]

\* The pool follows the scope: short of SEARCH_CANDIDATES_MAX, and unless the
\* approximate count failed or said less than there was, a reranked question is
\* outrun only by chunks that came after it was asked.
OnlyOutrunByNewcomers ==
  \A r \in Request :
    Answered(r) /\ asked[r].rerank /\ asked[r].kind # "image" /\ "pool" \in silent[r]
    /\ "count" \notin silent[r] /\ Cardinality(InScope(r)) <= Max
    => InScope(r) \ steady[r] # {}

-----------------------------------------------------------------------------
(* What a comment says and the code does not do.                            *)

\* "the shortlist stage falls back to an unscoped search when a document has
\* no summary point": a search is narrowed only among documents with a summary.
UnsummarisedStillSearched ==
  [][\A r \in Request :
       At(r, "shortlisting") /\ ids'[r] # {}
       => \A c \in index \cap Matching(asked[r], {}) : DocOf[c] \in summaries]_vars
=============================================================================
