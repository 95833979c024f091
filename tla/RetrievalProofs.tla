---------------------------- MODULE RetrievalProofs ----------------------------
(***************************************************************************)
(* Proofs about Retrieval, for any index, questions and settings, under       *)
(* every fault.                                                             *)
(*                                                                         *)
(* The invariant follows a question to its answer: what is found lies in its  *)
(* scope (Scoped), a leg that found nothing of what it owes is on record       *)
(* (Evident), the pool holds all that was in the index all along unless the    *)
(* count said less (Covered, Outrun), a search with nothing on record found    *)
(* all that its legs owe (Gathered, Best), and a shortlist is full or leaves    *)
(* out no document of those summarised all along (Listed).                    *)
(***************************************************************************)
EXTENDS Retrieval, FiniteSetTheorems, SequenceTheorems, TLAPS

-----------------------------------------------------------------------------
(* What a thread knows at each place of its question.                       *)

Early == {"captioning", "counting", "shortlisting", "sizing"}
Sought == {"searching", "batching", "ranking"}

\* Only a question with an image is captioned or held as one.
Imaged(r) == kind[r] = "image" \/ pc[r] = "captioning" => asked[r].kind = "image"

\* Texts still to be searched for: all of them before the first search, at
\* least one until the last, and none when the hits are ranked.
Left(r) == {todo[r][i] : i \in DOMAIN todo[r]}
Pending(r) ==
  /\ pc[r] \in Early \cup {"searching", "batching"} => todo[r] # << >>
  /\ pc[r] \in Early \cup {"batching"} => Left(r) = TextsOf(r)
  /\ pc[r] \in {"ranking", "answered"} => Left(r) = {}

Pooled(r) == pc[r] \in {"searching", "batching"} => pool[r] > 0

\* Nothing was found beyond what the question's own conditions allow.
Scoped(r) == found[r] \cup answer[r] \subseteq Matching(asked[r], {})

\* Nothing was found although a leg owes something for a text already searched
\* for: the leg is on record.
Evident(r) ==
  /\ "store" \notin silent[r]
  /\ \/ pc[r] \in {"searching", "ranking"} /\ found[r] = {}
     \/ pc[r] = "answered" /\ answer[r] = {}
  => \A text \in TextsOf(r) \ Left(r), l \in LegsOf(asked[r].mode) :
       Owed(r, text, l) # {} => Code(l) \in degraded[r]

\* A reranked question without an image, whose pool was counted and may hold
\* all of its scope.
Counted(r) == /\ asked[r].rerank /\ asked[r].kind # "image" /\ "count" \notin silent[r]
              /\ Cardinality(InScope(r)) <= Max

Quiet(r) == asked[r].kind # "image" /\ pc[r] \in Early => silent[r] = {}
Covered(r) == Counted(r) /\ pc[r] \in Sought => Cardinality(InScope(r) \cap steady[r]) <= pool[r]
Outrun(r) == Counted(r) /\ pc[r] \in Sought \cup {"answered"} /\ "pool" \in silent[r]
             => InScope(r) \ steady[r] # {}

\* Nothing failed on the way, and no pool was too small for its search.
Clean(r) == degraded[r] = {} /\ silent[r] \cap {"store", "pool"} = {}

\* Then all that is owed for the texts already searched for is found, and what
\* the answer leaves out ranks behind it.
Gathered(r) ==
  Clean(r) /\ pc[r] \in {"searching", "ranking"}
  => \A text \in TextsOf(r) \ Left(r), l \in LegsOf(asked[r].mode) : Owed(r, text, l) \subseteq found[r]
Best(r) ==
  Clean(r) /\ pc[r] = "answered" /\ asked[r].rerank
  => \A text \in TextsOf(r), l \in LegsOf(asked[r].mode) : \A c \in Owed(r, text, l) \ answer[r] :
       Cardinality(answer[r]) = TopK /\ \A a \in answer[r] : asked[r].judge[a] <= asked[r].judge[c]

\* The documents of a shortlist that are the asker's, and those that it may not
\* leave out unless it is full of them.
Own(r, docs) == {d \in docs : ScopeOf(d) = KeyOf(r)}
Listed(r) == ids[r] # {} => \/ Own(r, summarised[r]) \subseteq ids[r]
                            \/ Cardinality(Own(r, ids[r])) = Limit

ThreadInv(r) == /\ Imaged(r) /\ Pending(r) /\ Pooled(r) /\ Scoped(r) /\ Evident(r)
                /\ Quiet(r) /\ Covered(r) /\ Outrun(r) /\ Gathered(r) /\ Best(r) /\ Listed(r)

IInv == /\ TypeOK
        /\ \A r \in Request : /\ steady[r] \subseteq index /\ summarised[r] \subseteq summaries
                             /\ ThreadInv(r)

-----------------------------------------------------------------------------
(* Sets and rankings of chunks.                                             *)

\* Sets of chunks are finite, and a part has no more than the whole.
LEMMA ChunkSets ==
  ASSUME NEW S \in SUBSET Chunk
  PROVE  /\ IsFiniteSet(S) /\ Cardinality(S) \in Nat /\ (Cardinality(S) = 0 <=> S = {})
         /\ \A T \in SUBSET S : Cardinality(T) \in Nat /\ Cardinality(T) <= Cardinality(S)
<1>1. IsFiniteSet(S)
  BY IndexAssumption, FS_Subset
<1>2. Cardinality(S) \in Nat /\ (Cardinality(S) = 0 <=> S = {})
  BY <1>1, FS_CardinalityType, FS_EmptySet
<1>3. ASSUME NEW T \in SUBSET S PROVE Cardinality(T) \in Nat /\ Cardinality(T) <= Cardinality(S)
  BY <1>1, FS_Subset, FS_CardinalityType
<1> QED BY <1>1, <1>2, <1>3

\* The first of a set are some of it, are all of it if it has no more than them,
\* and are not none if there is one to come first.
LEMMA FirstOf ==
  ASSUME NEW ranking, NEW S \in SUBSET Chunk, NEW n \in Nat \ {0}, NEW F \in First(ranking, S, n)
  PROVE  /\ F \in SUBSET S /\ (S # {} => F # {})
         /\ Cardinality(S) <= n => F = S
         /\ F # S => Cardinality(F) = n
<1>1. F \in SUBSET S /\ Cardinality(F) = Least(n, Cardinality(S)) /\ F \in SUBSET Chunk
  BY DEF First
<1>2. Cardinality(S) \in Nat /\ (Cardinality(S) = 0 <=> S = {}) /\ (Cardinality(F) = 0 <=> F = {})
      /\ Cardinality(F) \in Nat
  BY <1>1, ChunkSets
<1>3. Cardinality(F) = Cardinality(S) => F = S
  BY <1>1, ChunkSets, FS_Subset
<1> QED BY <1>1, <1>2, <1>3 DEF Least

\* A fusion adds nothing.
LEMMA FusionsInside ==
  ASSUME NEW text, NEW legs, NEW S, NEW n, NEW F \in Fusions(text, legs, S, n)
  PROVE  F \subseteq S
<1>1. PICK h \in Heads(text, legs, S, n) : F \subseteq UNION {h[l] : l \in legs}
  BY DEF Fusions
<1> QED BY <1>1 DEF Heads, First

\* A leg that can find something leaves no fusion empty; and a pool that holds
\* everything leaves out nothing that a leg can find.
LEMMA SomeFusion ==
  ASSUME NEW text, NEW legs, NEW S \in SUBSET Chunk, NEW n \in Nat \ {0},
         NEW F \in Fusions(text, legs, S, n), NEW l \in legs
  PROVE  /\ S \cap Reach(text, l) # {} => F # {}
         /\ Cardinality(S) <= n => S \cap Reach(text, l) \subseteq F
<1>1. PICK h \in Heads(text, legs, S, n) :
        /\ F \in SUBSET UNION {h[m] : m \in legs}
        /\ Cardinality(F) = Least(n, Cardinality(UNION {h[m] : m \in legs}))
  BY DEF Fusions
<1> DEFINE H == UNION {h[m] : m \in legs}
           R == S \cap Reach(text, l)
<1>2. F \in SUBSET H /\ Cardinality(F) = Least(n, Cardinality(H))
  BY <1>1
<1>3. h \in [legs -> SUBSET S] /\ h[l] \in First(text.rank[l], R, n)
  BY DEF Heads
<1>4. h[l] \in SUBSET H /\ H \in SUBSET S /\ H \in SUBSET Chunk /\ R \in SUBSET S /\ R \in SUBSET Chunk
  BY <1>3
<1> HIDE DEF R
<1>5. (R # {} => h[l] # {}) /\ (Cardinality(R) <= n => h[l] = R)
  <2> DEFINE ranking == text.rank[l]
             g == h[l]
  <2>1. g \in First(ranking, R, n)
    BY <1>3
  <2> HIDE DEF ranking, g
  <2>2. (R # {} => g # {}) /\ (Cardinality(R) <= n => g = R)
    BY <1>4, <2>1, FirstOf
  <2> QED BY <2>2 DEF g
<1> HIDE DEF H
<1>6. /\ Cardinality(H) \in Nat /\ (Cardinality(H) = 0 <=> H = {}) /\ Cardinality(F) \in Nat
      /\ (Cardinality(F) = 0 <=> F = {}) /\ IsFiniteSet(H)
      /\ Cardinality(H) <= Cardinality(S) /\ Cardinality(R) <= Cardinality(S)
      /\ Cardinality(R) \in Nat /\ Cardinality(S) \in Nat
  BY <1>2, <1>4, ChunkSets
<1>7. R # {} => F # {}
  BY <1>2, <1>4, <1>5, <1>6 DEF Least
<1>8. ASSUME Cardinality(S) <= n PROVE R \subseteq F
  <2>1. Cardinality(F) = Cardinality(H) /\ h[l] = R
    BY <1>2, <1>5, <1>6, <1>8 DEF Least
  <2>2. F = H
    BY <1>2, <1>6, <2>1, FS_Subset
  <2> QED BY <1>4, <2>1, <2>2
<1> QED BY <1>7, <1>8 DEF R

\* What the questions of an instance are made of.
LEMMA QuestionFields ==
  ASSUME NEW q \in Questions
  PROVE  /\ q.texts \in Seq(Text) /\ q.texts # << >> /\ q.judge \in Ranking
         /\ q.kind \in {"chat", "image", "search"} /\ q.rerank \in BOOLEAN
         /\ q.mode \in {"hybrid", "semantic", "keyword"}
         /\ q.kind = "image" => Len(q.texts) = 2
         /\ <<q.tenant, q.org>> \in Scope
BY QuestionsAssumption DEF Scope

LEMMA ScopeInside ==
  ASSUME NEW r \in Request
  PROVE  InScope(r) \in SUBSET Chunk /\ InScope(r) \subseteq Matching(asked[r], {})
BY DEF InScope, Matching, WholeTenant

\* The texts of a sequence are its head's and its tail's.
LEMMA HeadAndTail ==
  ASSUME NEW S, NEW seq \in Seq(S), seq # << >>
  PROVE  /\ seq[1] \in S /\ Tail(seq) \in Seq(S) /\ 1 \in DOMAIN seq /\ Head(seq) = seq[1]
         /\ \A i \in DOMAIN seq \ {1} : i - 1 \in DOMAIN Tail(seq) /\ seq[i] = Tail(seq)[i - 1]
         /\ Len(seq) \in Nat
         /\ ~(Len(seq) > 1) => DOMAIN Tail(seq) = {}
         /\ Len(seq) > 1 => Tail(seq) # << >>
<1>1. Len(seq) \in Nat /\ Len(seq) # 0 /\ DOMAIN seq = 1 .. Len(seq)
  BY EmptySeq
<1>2. /\ Tail(seq) \in Seq(S) /\ Len(Tail(seq)) = Len(seq) - 1
      /\ \A i \in 1 .. Len(seq) - 1 : Tail(seq)[i] = seq[i + 1]
  OBVIOUS
<1>3. DOMAIN Tail(seq) = 1 .. Len(seq) - 1
  BY <1>2
<1>4. ASSUME NEW i \in DOMAIN seq \ {1}
      PROVE  i - 1 \in DOMAIN Tail(seq) /\ seq[i] = Tail(seq)[i - 1]
  <2>1. i - 1 \in 1 .. Len(seq) - 1 /\ (i - 1) + 1 = i
    BY <1>1, <1>4
  <2> QED BY <1>2, <1>3, <2>1
<1>5. ASSUME Len(seq) > 1 PROVE Tail(seq) # << >>
  <2>1. Len(Tail(seq)) # 0
    <3> DEFINE n == Len(seq)
               m == Len(Tail(seq))
    <3>1. n \in Nat /\ n > 1 /\ m = n - 1
      BY <1>1, <1>2, <1>5
    <3> HIDE DEF n, m
    <3>2. m # 0
      BY <3>1
    <3> QED BY <3>2 DEF m
  <2> QED BY <2>1, EmptySeq
<1> QED BY <1>1, <1>2, <1>3, <1>4, <1>5

-----------------------------------------------------------------------------
(* The initial states.                                                      *)

LEMMA InitInv == Init => IInv
<1> SUFFICES ASSUME Init PROVE IInv
  OBVIOUS
<1> USE SettingsAssumption
<1>1. asked \in [Request -> Questions]
  <2>1. (CHOOSE q \in Questions : TRUE) \in Questions
    BY QuestionsAssumption
  <2> QED BY <2>1 DEF Init
<1>2. \A r \in Request : asked[r].kind \in {"chat", "image", "search"}
  BY <1>1, QuestionFields
<1>3. ThreadTypeOK
  BY <1>1, <1>2 DEF Init, ThreadTypeOK, Labels, Codes
<1>4. IndexTypeOK /\ index \subseteq Chunk
  BY IndexAssumption DEF Init, IndexTypeOK
<1>5. ClockTypeOK
  BY DEF Init, ClockTypeOK, NoEntry
<1>6. ASSUME NEW r \in Request
      PROVE  steady[r] \subseteq index /\ summarised[r] \subseteq summaries /\ ThreadInv(r)
  BY <1>1 DEF Init, ThreadInv, Imaged, Pending, Pooled, Scoped, Evident, Quiet, Covered, Outrun,
                    Gathered, Best, Listed, Early, Sought
<1> QED BY <1>3, <1>4, <1>5, <1>6 DEF IInv, TypeOK

-----------------------------------------------------------------------------
(* The index and the clock.                                                 *)

\* Whatever leaves the index takes from the chunks that were there all along,
\* and what a question is owed follows them.
LEMMA EditStep ==
  ASSUME IInv, NEW chunks \in SUBSET Chunk, NEW held \in SUBSET Doc, Edit(chunks, held)
  PROVE  IInv'
<1> USE SettingsAssumption
<1>1. IndexTypeOK' /\ ClockTypeOK' /\ ThreadTypeOK'
  BY DEF IInv, TypeOK, IndexTypeOK, ClockTypeOK, ThreadTypeOK, Edit, clockVars, threadVars
<1>2. ASSUME NEW r \in Request
      PROVE  steady'[r] \subseteq index' /\ summarised'[r] \subseteq summaries' /\ ThreadInv(r)'
  <2>1. /\ steady'[r] = steady[r] \cap chunks /\ index' = chunks
        /\ summarised'[r] = summarised[r] \cap held /\ summaries' = held
    BY DEF Edit
  <2>2. UNCHANGED threadVars /\ InScope(r)' = InScope(r) /\ TextsOf(r)' = TextsOf(r) /\ Left(r)' = Left(r)
    BY DEF Edit, threadVars, InScope, Matching, WholeTenant, OrgsOf, TextsOf, Left
  <2>3. ThreadInv(r)
    BY DEF IInv
  <2>4. Imaged(r)' /\ Pending(r)' /\ Pooled(r)' /\ Scoped(r)' /\ Quiet(r)'
    BY <2>2, <2>3 DEF ThreadInv, threadVars, Imaged, Pending, Pooled, Scoped, Quiet, Matching, WholeTenant, OrgsOf
  <2>5. Outrun(r)'
    BY <2>1, <2>2, <2>3 DEF ThreadInv, threadVars, Outrun, Counted
  <2>6. Covered(r)'
    <3>1. /\ Cardinality(InScope(r) \cap steady'[r]) <= Cardinality(InScope(r) \cap steady[r])
          /\ Cardinality(InScope(r) \cap steady'[r]) \in Nat /\ Cardinality(InScope(r) \cap steady[r]) \in Nat
      BY <2>1, ScopeInside, ChunkSets
    <3>2. pool[r] \in Nat
      BY DEF IInv, TypeOK, ThreadTypeOK
    <3> QED BY <2>2, <2>3, <3>1, <3>2 DEF ThreadInv, threadVars, Covered, Counted
  <2>7. Evident(r)'
    BY <2>1, <2>2, <2>3 DEF ThreadInv, threadVars, Evident, Owed, Reach, Code, LegsOf
  <2>8. Gathered(r)' /\ Best(r)'
    BY <2>1, <2>2, <2>3 DEF ThreadInv, threadVars, Gathered, Best, Clean, Owed, Reach, LegsOf
  <2>9. Listed(r)'
    BY <2>1, <2>2, <2>3 DEF ThreadInv, threadVars, Listed, Own, KeyOf, ScopeOf
  <2> QED BY <2>1, <2>4, <2>5, <2>6, <2>7, <2>8, <2>9, <2>3 DEF ThreadInv
<1> QED BY <1>1, <1>2 DEF IInv, TypeOK

\* A question is not touched by what leaves its variables and the index alone.
LEMMA ThreadUnchanged ==
  ASSUME NEW r \in Request, ThreadInv(r), steady'[r] = steady[r], summarised'[r] = summarised[r],
         asked'[r] = asked[r], kind'[r] = kind[r], pc'[r] = pc[r], ids'[r] = ids[r],
         pool'[r] = pool[r], todo'[r] = todo[r], found'[r] = found[r],
         degraded'[r] = degraded[r], answer'[r] = answer[r], silent'[r] = silent[r]
  PROVE  ThreadInv(r)'
<1>1. /\ InScope(r)' = InScope(r) /\ Matching(asked[r], {})' = Matching(asked[r], {})
      /\ TextsOf(r)' = TextsOf(r) /\ Left(r)' = Left(r)
  BY DEF InScope, Matching, WholeTenant, OrgsOf, TextsOf, Left
<1>2. Imaged(r)' /\ Pending(r)' /\ Pooled(r)' /\ Scoped(r)' /\ Quiet(r)'
  BY <1>1 DEF ThreadInv, Imaged, Pending, Pooled, Scoped, Quiet, Early
<1>3. Covered(r)' /\ Outrun(r)'
  BY <1>1 DEF ThreadInv, Covered, Outrun, Counted, Sought
<1>4. Evident(r)'
  BY <1>1 DEF ThreadInv, Evident, Owed, Reach, Code, LegsOf
<1>5. Gathered(r)' /\ Best(r)'
  BY <1>1 DEF ThreadInv, Gathered, Best, Clean, Owed, Reach, LegsOf
<1>6. Listed(r)'
  BY DEF ThreadInv, Listed, Own, KeyOf, ScopeOf
<1> QED BY <1>2, <1>3, <1>4, <1>5, <1>6 DEF ThreadInv

\* The clock touches no question.
LEMMA TickStep == ASSUME IInv, Tick PROVE IInv'
<1> USE SettingsAssumption
<1>1. IndexTypeOK' /\ ThreadTypeOK' /\ UNCHANGED indexVars /\ UNCHANGED threadVars
  BY DEF IInv, TypeOK, IndexTypeOK, ThreadTypeOK, Tick, indexVars, threadVars
<1>2. ClockTypeOK'
  BY DEF IInv, TypeOK, ClockTypeOK, Tick, Least
<1>3. \A r \in Request : ThreadInv(r)'
  BY <1>1, ThreadUnchanged DEF IInv, indexVars, threadVars
<1> QED BY <1>1, <1>2, <1>3 DEF IInv, TypeOK, indexVars

-----------------------------------------------------------------------------
(* The steps of a question.                                                 *)

\* The variables of the other threads.
OthersStay(r) ==
  \A x \in Request \ {r} :
    /\ asked'[x] = asked[x] /\ kind'[x] = kind[x] /\ pc'[x] = pc[x] /\ ids'[x] = ids[x]
    /\ pool'[x] = pool[x] /\ todo'[x] = todo[x] /\ found'[x] = found[x]
    /\ degraded'[x] = degraded[x] /\ answer'[x] = answer[x] /\ silent'[x] = silent[x]

\* What a step of one thread has to show.
LEMMA OneThread ==
  ASSUME IInv, NEW r \in Request, UNCHANGED indexVars, ClockTypeOK',
         ThreadTypeOK', OthersStay(r), ThreadInv(r)'
  PROVE  IInv'
<1>1. IndexTypeOK' /\ steady' = steady /\ index' = index /\ summarised' = summarised /\ summaries' = summaries
  BY DEF IInv, TypeOK, IndexTypeOK, indexVars
<1>2. \A x \in Request \ {r} : ThreadInv(x)'
  BY <1>1, ThreadUnchanged DEF IInv, OthersStay
<1> QED BY <1>1, <1>2 DEF IInv, TypeOK

\* A step that leaves the cache alone keeps its type.
LEMMA CacheUnchanged ==
  ASSUME IInv, UNCHANGED clockVars
  PROVE  ClockTypeOK'
BY DEF IInv, TypeOK, ClockTypeOK, clockVars

\* What a step that keeps the question keeps, and what if it keeps more of it.
LEMMA SameScope ==
  ASSUME NEW r \in Request, asked'[r] = asked[r]
  PROVE  /\ Matching(asked[r], {})' = Matching(asked[r], {})
         /\ ids'[r] = ids[r] => InScope(r)' = InScope(r)
         /\ kind'[r] = kind[r] => TextsOf(r)' = TextsOf(r)
         /\ todo'[r] = todo[r] => Left(r)' = Left(r)
BY DEF Matching, WholeTenant, OrgsOf, InScope, TextsOf, Left

\* Nothing is owed for a text before the first search.
LEMMA NothingYet ==
  ASSUME NEW r \in Request, Left(r)' = TextsOf(r)', pc'[r] # "answered"
  PROVE  Evident(r)' /\ Gathered(r)' /\ Best(r)'
BY DEF Evident, Gathered, Best

\* A step that touches neither question nor shortlist keeps Listed.
LEMMA SameList ==
  ASSUME NEW r \in Request, Listed(r), asked'[r] = asked[r], ids'[r] = ids[r], summarised'[r] = summarised[r]
  PROVE  Listed(r)'
BY DEF Listed, Own, KeyOf, ScopeOf

LEMMA AskStep == ASSUME IInv, NEW r \in Request, NEW q \in Questions, Ask(r, q) PROVE IInv'
<1>1. q.texts \in Seq(Text) /\ q.texts # << >> /\ q.kind \in {"chat", "image", "search"}
  BY QuestionFields
<1>2. Entry(q, q.kind) \in Labels /\ Entry(q, q.kind) \in Early
  BY DEF Entry, Labels, Early
<1>3. ThreadTypeOK' /\ OthersStay(r)
  <2>1. ThreadTypeOK'
    <3>1. asks[r] + 1 \in 0 .. Asks
      BY SettingsAssumption DEF IInv, TypeOK, ThreadTypeOK, Ask
    <3> QED BY <1>1, <1>2, <3>1 DEF IInv, TypeOK, ThreadTypeOK, Ask, Goto
  <2>2. OthersStay(r)
    BY DEF IInv, TypeOK, ThreadTypeOK, Ask, Goto, OthersStay
  <2> QED BY <2>1, <2>2
<1>4. ClockTypeOK'
  BY CacheUnchanged DEF Ask
<1>5. /\ asked'[r] = q /\ kind'[r] = q.kind /\ pc'[r] = Entry(q, q.kind) /\ todo'[r] = q.texts
      /\ found'[r] = {} /\ answer'[r] = {} /\ silent'[r] = {} /\ pool'[r] = 0 /\ ids'[r] = {}
  BY DEF IInv, TypeOK, ThreadTypeOK, Ask, Goto
<1>6. ThreadInv(r)'
  <2>1. Imaged(r)'
    BY <1>5 DEF Imaged, Entry
  <2>2. Left(r)' = TextsOf(r)'
    BY <1>5 DEF Left, TextsOf
  <2>3. Pending(r)'
    BY <1>1, <1>2, <1>5, <2>2 DEF Early, Pending
  <2>4. Pooled(r)' /\ Scoped(r)' /\ Quiet(r)' /\ Covered(r)' /\ Outrun(r)' /\ Listed(r)'
    BY <1>2, <1>5 DEF Early, Pooled, Scoped, Quiet, Covered, Outrun, Listed, Sought
  <2>5. Evident(r)' /\ Gathered(r)' /\ Best(r)'
    BY <1>2, <1>5, <2>2, NothingYet DEF Early
  <2> QED BY <2>1, <2>3, <2>4, <2>5 DEF ThreadInv
<1>7. /\ IndexTypeOK' /\ index' = index /\ summaries' = summaries /\ steady'[r] = index /\ summarised'[r] = summaries
      /\ \A x \in Request \ {r} : steady'[x] = steady[x] /\ summarised'[x] = summarised[x]
  BY DEF IInv, TypeOK, IndexTypeOK, Ask
<1>8. \A x \in Request \ {r} : ThreadInv(x)'
  BY <1>3, <1>7, ThreadUnchanged DEF IInv, OthersStay
<1> QED BY <1>3, <1>4, <1>6, <1>7, <1>8 DEF IInv, TypeOK

\* An image is captioned, or given up for the text.
LEMMA CaptionedStep == ASSUME IInv, NEW r \in Request, Captioned(r) PROVE IInv'
<1>1. 2 * TopK \in Nat /\ 2 * TopK > 0
  BY SettingsAssumption
<1>2. ThreadTypeOK' /\ OthersStay(r) /\ ClockTypeOK'
  BY <1>1, CacheUnchanged DEF IInv, TypeOK, ThreadTypeOK, Captioned, Goto, Labels, OthersStay
<1>3. /\ pc[r] = "captioning" /\ pc'[r] = "searching" /\ pool'[r] > 0 /\ ThreadInv(r)
      /\ UNCHANGED <<asked, kind, ids, todo, found, answer, silent, summarised>>
  BY <1>1 DEF IInv, TypeOK, ThreadTypeOK, Captioned, Goto, At, indexVars
<1>4. asked'[r].kind = "image"
  BY <1>3 DEF ThreadInv, Imaged
<1>5. Left(r)' = TextsOf(r)' /\ todo'[r] # << >>
  BY <1>3, SameScope DEF ThreadInv, Pending, Early
<1>6. Imaged(r)' /\ Pending(r)' /\ Pooled(r)' /\ Scoped(r)' /\ Quiet(r)' /\ Covered(r)' /\ Outrun(r)'
  BY <1>3, <1>4, <1>5, SameScope DEF ThreadInv, Imaged, Pending, Pooled, Scoped, Quiet, Covered, Outrun, Counted, Early
<1>7. Evident(r)' /\ Gathered(r)' /\ Best(r)' /\ Listed(r)'
  BY <1>3, <1>5, NothingYet, SameList DEF ThreadInv
<1> QED BY <1>2, <1>6, <1>7, OneThread DEF Captioned, ThreadInv

LEMMA WithoutImageStep ==
  ASSUME IInv, NEW r \in Request, NEW code \in Codes, asked[r].kind = "image", WithoutImage(r, code)
  PROVE  IInv'
<1>1. asked[r] \in Questions
  BY DEF IInv, TypeOK, ThreadTypeOK
<1>2. <<asked[r].texts[2]>> \in Seq(Text) /\ <<asked[r].texts[2]>> # << >>
  <2>1. asked[r].texts \in Seq(Text) /\ 2 \in 1 .. Len(asked[r].texts)
    <3>1. asked[r].texts \in Seq(Text)
      BY <1>1, QuestionFields
    <3>2. Len(asked[r].texts) = 2
      BY <1>1, QuestionFields
    <3> QED BY <3>1, <3>2
  <2>2. asked[r].texts[2] \in Text
    BY <2>1
  <2> QED BY <2>2
<1>3. Entry(asked[r], "chat") \in {"counting", "sizing"}
  BY DEF Entry
<1>4. ThreadTypeOK' /\ OthersStay(r) /\ ClockTypeOK'
  BY <1>2, <1>3, CacheUnchanged DEF IInv, TypeOK, ThreadTypeOK, WithoutImage, Goto, Labels, OthersStay
<1>5. /\ kind'[r] = "chat" /\ pc'[r] \in {"counting", "sizing"} /\ todo'[r] = <<asked[r].texts[2]>> /\ found'[r] = {}
      /\ UNCHANGED <<asked, ids, answer, summarised>> /\ ThreadInv(r)
  BY <1>3 DEF IInv, TypeOK, ThreadTypeOK, WithoutImage, Goto, indexVars
<1>6. Left(r)' = TextsOf(r)'
  BY <1>5 DEF Left, TextsOf
<1>7. Imaged(r)' /\ Pending(r)' /\ Pooled(r)' /\ Scoped(r)' /\ Quiet(r)' /\ Covered(r)' /\ Outrun(r)'
  BY <1>2, <1>5, <1>6, SameScope DEF ThreadInv, Imaged, Pending, Pooled, Scoped, Quiet, Covered, Outrun, Counted,
                                     Early, Sought
<1>8. Evident(r)' /\ Gathered(r)' /\ Best(r)' /\ Listed(r)'
  BY <1>5, <1>6, NothingYet, SameList DEF ThreadInv
<1> QED BY <1>4, <1>7, <1>8, OneThread DEF WithoutImage, ThreadInv

\* The count is the cache's, or whatever is read now and put there.
LEMMA CountSummariesStep == ASSUME IInv, NEW r \in Request, CountSummaries(r) PROVE IInv'
<1> DEFINE s == KeyOf(r)
<1> USE SettingsAssumption
<1>1. s \in Scope
  BY QuestionFields DEF IInv, TypeOK, ThreadTypeOK, KeyOf
<1>2. PICK entry \in Entries(s) : cache' = [cache EXCEPT ![s] = entry]
  BY DEF CountSummaries
<1>3. ClockTypeOK'
  <2>1. Counts(SummariesOf(s)) \subseteq Nat
    <3>1. SummariesOf(s) \in SUBSET Doc /\ IsFiniteSet(Doc)
      BY IndexAssumption DEF SummariesOf, IInv, TypeOK, IndexTypeOK
    <3>2. Cardinality(SummariesOf(s)) \in Nat
      BY <3>1, FS_Subset, FS_CardinalityType
    <3> QED BY <3>2 DEF Counts
  <2>2. entry \in [count : Nat, age : 0 .. Ttl]
    BY <1>1, <2>1 DEF Entries, IInv, TypeOK, ClockTypeOK
  <2> QED BY <1>2, <2>2 DEF CountSummaries, IInv, TypeOK, ClockTypeOK
<1>4. ThreadTypeOK' /\ OthersStay(r)
  BY DEF IInv, TypeOK, ThreadTypeOK, CountSummaries, Goto, Labels, OthersStay
<1>5. /\ pc[r] = "counting" /\ pc'[r] \in {"sizing", "shortlisting"} /\ ThreadInv(r)
      /\ UNCHANGED <<asked, kind, ids, todo, found, answer, silent, steady, summarised>>
  BY DEF IInv, TypeOK, ThreadTypeOK, CountSummaries, Goto, At, indexVars
<1>6. Left(r)' = TextsOf(r)'
  BY <1>5, SameScope DEF ThreadInv, Pending, Early
<1>7. Imaged(r)' /\ Pending(r)' /\ Pooled(r)' /\ Scoped(r)' /\ Quiet(r)' /\ Covered(r)' /\ Outrun(r)'
  BY <1>5, <1>6, SameScope DEF ThreadInv, Imaged, Pending, Pooled, Scoped, Quiet, Covered, Outrun, Early, Sought
<1>8. Evident(r)' /\ Gathered(r)' /\ Best(r)' /\ Listed(r)'
  BY <1>5, <1>6, NothingYet, SameList DEF ThreadInv
<1> QED BY <1>3, <1>4, <1>7, <1>8, OneThread DEF CountSummaries, ThreadInv

LEMMA NoShortlistStep == ASSUME IInv, NEW r \in Request, NoShortlist(r) PROVE IInv'
<1>1. ThreadTypeOK' /\ OthersStay(r) /\ ClockTypeOK'
  BY CacheUnchanged DEF IInv, TypeOK, ThreadTypeOK, NoShortlist, Goto, Labels, OthersStay
<1>2. /\ pc[r] \in {"counting", "shortlisting"} /\ pc'[r] = "sizing" /\ ThreadInv(r)
      /\ UNCHANGED <<asked, kind, ids, todo, found, answer, silent, summarised>>
  BY DEF IInv, TypeOK, ThreadTypeOK, NoShortlist, Goto, At, indexVars
<1>3. Left(r)' = TextsOf(r)'
  BY <1>2, SameScope DEF ThreadInv, Pending, Early
<1>4. Imaged(r)' /\ Pending(r)' /\ Pooled(r)' /\ Scoped(r)' /\ Quiet(r)' /\ Covered(r)' /\ Outrun(r)'
  BY <1>2, <1>3, SameScope DEF ThreadInv, Imaged, Pending, Pooled, Scoped, Quiet, Covered, Outrun, Early, Sought
<1>5. Evident(r)' /\ Gathered(r)' /\ Best(r)' /\ Listed(r)'
  BY <1>2, <1>3, NothingYet, SameList DEF ThreadInv
<1> QED BY <1>1, <1>4, <1>5, OneThread DEF NoShortlist, ThreadInv

\* The shortlist is full of the asker's documents, or is all that it has.

LEMMA ShortlistStep == ASSUME IInv, NEW r \in Request, Shortlist(r) PROVE IInv'
<1> DEFINE held == SummariesOf(KeyOf(r))
<1>1. PICK docs \in SUBSET held : /\ Cardinality(docs) = Least(Limit, Cardinality(held))
                                  /\ ids' = [ids EXCEPT ![r] = docs]
  BY DEF Shortlist
<1>2. held \in SUBSET Doc /\ docs \in SUBSET Doc
  BY DEF SummariesOf, IInv, TypeOK, IndexTypeOK
<1>3. ThreadTypeOK' /\ OthersStay(r) /\ ClockTypeOK'
  BY <1>1, <1>2, CacheUnchanged DEF IInv, TypeOK, ThreadTypeOK, Shortlist, Goto, Labels, OthersStay
<1>4. /\ pc[r] = "shortlisting" /\ pc'[r] = "sizing" /\ ThreadInv(r) /\ ids'[r] = docs
      /\ UNCHANGED <<asked, kind, todo, found, answer, silent, summarised>>
  BY <1>1 DEF IInv, TypeOK, ThreadTypeOK, Shortlist, Goto, At, indexVars
<1>5. Left(r)' = TextsOf(r)'
  BY <1>4, SameScope DEF ThreadInv, Pending, Early
<1>6. Imaged(r)' /\ Pending(r)' /\ Pooled(r)' /\ Scoped(r)' /\ Quiet(r)' /\ Covered(r)' /\ Outrun(r)'
  BY <1>4, <1>5, SameScope DEF ThreadInv, Imaged, Pending, Pooled, Scoped, Quiet, Covered, Outrun, Early, Sought
<1>7. Evident(r)' /\ Gathered(r)' /\ Best(r)'
  BY <1>4, <1>5, NothingYet
<1>8. Listed(r)'
  <2>1. IsFiniteSet(held) /\ Cardinality(held) \in Nat /\ Limit \in Nat
    BY <1>2, IndexAssumption, SettingsAssumption, FS_Subset, FS_CardinalityType
  <2>2. Own(r, docs)' = docs /\ KeyOf(r)' = KeyOf(r)
    BY <1>1, <1>4 DEF Own, SummariesOf, KeyOf, ScopeOf
  <2>3. Own(r, summarised[r])' \subseteq held
    BY <1>4, <2>2 DEF Own, SummariesOf, ScopeOf, IInv
  <2>4. Cardinality(docs) = Limit \/ docs = held
    <3>1. Cardinality(docs) = Limit \/ Cardinality(docs) = Cardinality(held)
      BY <1>1 DEF Least
    <3> QED BY <2>1, <3>1, FS_Subset
  <2>5. Own(r, ids[r])' = docs
    BY <1>1, <1>4 DEF Own, SummariesOf, KeyOf, ScopeOf
  <2> QED BY <1>4, <2>3, <2>4, <2>5 DEF Listed
<1> QED BY <1>3, <1>6, <1>7, <1>8, OneThread DEF Shortlist, ThreadInv

\* A pool whose count said no less than there is holds the scope as it is now,
\* and so all of it that stays.
LEMMA SizePoolStep == ASSUME IInv, NEW r \in Request, SizePool(r) PROVE IInv'
<1> DEFINE now == InScope(r) \cap index
<1> USE SettingsAssumption
<1>1. /\ Cardinality(now) \in Nat /\ Cardinality(now) <= Cardinality(InScope(r))
      /\ Cardinality(InScope(r)) \in Nat
      /\ Cardinality(InScope(r) \cap steady[r]) \in Nat
      /\ Cardinality(InScope(r) \cap steady[r]) <= Cardinality(now)
  <2>1. InScope(r) \in SUBSET Chunk /\ now \in SUBSET InScope(r) /\ now \in SUBSET Chunk
    BY ScopeInside
  <2>2. InScope(r) \cap steady[r] \in SUBSET now
    BY DEF IInv
  <2> QED BY <2>1, <2>2, ChunkSets
<1>2. PICK n \in Nat, note \in {{}, {"count"}} :
        /\ pool' = [pool EXCEPT ![r] = n] /\ silent' = [silent EXCEPT ![r] = @ \cup note]
        /\ n > 0
        /\ asked[r].rerank /\ note = {} => \E m \in Nat : n = PoolFor(m) /\ m >= Cardinality(now)
  <2>1. CASE ~asked[r].rerank
    <3>1. silent = [silent EXCEPT ![r] = @ \cup {}]
      BY DEF IInv, TypeOK, ThreadTypeOK
    <3> QED BY <2>1, <3>1 DEF SizePool
  <2>2. CASE /\ asked[r].rerank /\ pool' = [pool EXCEPT ![r] = Static]
             /\ silent' = [silent EXCEPT ![r] = @ \cup {"count"}]
    <3>1. Static \in Nat /\ Static > 0 /\ {"count"} # {} /\ {"count"} \in {{}, {"count"}}
      OBVIOUS
    <3> QED BY <2>2, <3>1
  <2>3. ASSUME asked[r].rerank, NEW m \in Counts(now), pool' = [pool EXCEPT ![r] = PoolFor(m)],
               silent' = [silent EXCEPT ![r] = @ \cup Undercount(m, now)]
        PROVE  /\ PoolFor(m) \in Nat /\ PoolFor(m) > 0 /\ Undercount(m, now) \in {{}, {"count"}}
               /\ Undercount(m, now) = {} => m \in Nat /\ m >= Cardinality(now)
    <3>1. m \in Nat
      BY <1>1, <2>3 DEF Counts
    <3> QED BY <1>1, <3>1 DEF PoolFor, Least, Undercount
  <2> QED BY <2>1, <2>2, <2>3 DEF SizePool
<1>3. ThreadTypeOK' /\ OthersStay(r) /\ ClockTypeOK'
  BY <1>2, CacheUnchanged DEF IInv, TypeOK, ThreadTypeOK, SizePool, Goto, Labels, OthersStay, indexVars
<1>4. /\ pc[r] = "sizing" /\ pc'[r] \in {"batching", "searching"} /\ pool'[r] = n
      /\ silent'[r] = silent[r] \cup note /\ ThreadInv(r)
      /\ UNCHANGED <<asked, kind, ids, todo, found, answer, steady, summarised>>
  BY <1>2 DEF IInv, TypeOK, ThreadTypeOK, SizePool, Goto, At, indexVars
<1>5. Left(r)' = TextsOf(r)'
  BY <1>4, SameScope DEF ThreadInv, Pending, Early
<1>6. Imaged(r)' /\ Pending(r)' /\ Pooled(r)' /\ Scoped(r)' /\ Quiet(r)'
  BY <1>2, <1>4, <1>5, SameScope DEF ThreadInv, Imaged, Pending, Pooled, Scoped, Quiet, Early
<1>7. Evident(r)' /\ Gathered(r)' /\ Best(r)' /\ Listed(r)'
  BY <1>4, <1>5, NothingYet, SameList DEF ThreadInv
<1>8. Outrun(r)'
  <2>1. asked[r].kind # "image" => "pool" \notin silent'[r]
    BY <1>4 DEF ThreadInv, Quiet, Early
  <2> QED BY <1>4, <2>1 DEF Outrun, Counted
<1>9. Covered(r)'
  <2>1. SUFFICES ASSUME Counted(r)' PROVE Cardinality(InScope(r) \cap steady[r]) <= n
    BY <1>4, SameScope DEF Covered
  <2>2. Cardinality(InScope(r)) <= Max /\ asked[r].rerank /\ note = {}
    BY <1>4, <2>1, SameScope DEF Counted
  <2>3. PICK m \in Nat : n = PoolFor(m) /\ m >= Cardinality(now)
    BY <1>2, <2>2
  <2> QED BY <1>1, <2>2, <2>3 DEF PoolFor, Least
<1>10. ThreadInv(r)'
  BY <1>6, <1>8, <1>9, <1>7 DEF ThreadInv
<1> QED BY <1>3, <1>10, OneThread DEF SizePool

\* A pool that is outrun holds less than the scope has now, so something came.
LEMMA ShortPoolMeansNew ==
  ASSUME IInv, NEW r \in Request, pc[r] \in Sought, Counted(r), "pool" \in silent[r] \cup ShortPool(r)
  PROVE  InScope(r) \ steady[r] # {}
<1>1. ThreadInv(r) /\ steady[r] \subseteq index /\ pool[r] \in Nat
  BY DEF IInv, TypeOK, ThreadTypeOK
<1>2. CASE "pool" \in silent[r]
  BY <1>1, <1>2 DEF ThreadInv, Outrun
<1>3. CASE "pool" \in ShortPool(r)
  <2>1. pool[r] < Cardinality(InScope(r) \cap index)
    BY <1>3 DEF ShortPool
  <2>2. Cardinality(InScope(r) \cap steady[r]) <= pool[r]
    BY <1>1 DEF ThreadInv, Covered
  <2>3. Cardinality(InScope(r) \cap steady[r]) \in Nat /\ Cardinality(InScope(r) \cap index) \in Nat
    BY ScopeInside, ChunkSets
  <2>4. InScope(r) \cap steady[r] # InScope(r) \cap index
    BY <1>1, <2>1, <2>2, <2>3
  <2> QED BY <1>1, <2>4
<1> QED BY <1>2, <1>3

\* One search: hits of the scope, a code for every leg that failed.
LEMMA SearchStep == ASSUME IInv, NEW r \in Request, Search(r) PROVE IInv'
<1> DEFINE S == InScope(r) \cap index
<1>1. /\ pc[r] = "searching" /\ ThreadInv(r) /\ todo[r] # << >> /\ todo[r] \in Seq(Text)
      /\ pool[r] \in Nat \ {0} /\ steady[r] \subseteq index
  BY DEF Search, At, IInv, TypeOK, ThreadTypeOK, ThreadInv, Pending, Pooled
<1>2. Head(todo[r]) \in Text /\ Tail(todo[r]) \in Seq(Text)
  BY <1>1, HeadAndTail
<1>3. S \in SUBSET Chunk /\ S \subseteq Matching(asked[r], {})
  BY ScopeInside
<1>4. PICK legs \in SUBSET LegsOf(asked[r].mode), hits \in SUBSET S, note \in SUBSET {"pool", "store"} :
        /\ degraded' = [degraded EXCEPT ![r] = @ \cup {Code(l) : l \in LegsOf(asked[r].mode) \ legs}]
        /\ found' = [found EXCEPT ![r] = @ \cup hits]
        /\ silent' = [silent EXCEPT ![r] = @ \cup note]
        /\ "store" \notin note => note = ShortPool(r) /\ hits \in Fusions(Head(todo[r]), legs, S, pool[r])
        /\ "store" \in note => note = {"store"}
  <2>1. PICK legs \in Working(asked[r].mode) :
          /\ degraded' = [degraded EXCEPT ![r] = @ \cup {Code(l) : l \in LegsOf(asked[r].mode) \ legs}]
          /\ \/ \E hits \in Fusions(Head(todo[r]), legs, S, pool[r]) :
                  /\ found' = [found EXCEPT ![r] = @ \cup hits]
                  /\ silent' = [silent EXCEPT ![r] = @ \cup ShortPool(r)]
             \/ /\ silent' = [silent EXCEPT ![r] = @ \cup {"store"}]
                /\ found' = found
    BY DEF Search, Surviving
  <2>2. legs \in SUBSET LegsOf(asked[r].mode)
    BY DEF Working
  <2>3. CASE \E hits \in Fusions(Head(todo[r]), legs, S, pool[r]) :
               /\ found' = [found EXCEPT ![r] = @ \cup hits]
               /\ silent' = [silent EXCEPT ![r] = @ \cup ShortPool(r)]
    <3>1. PICK hits \in Fusions(Head(todo[r]), legs, S, pool[r]) :
            /\ found' = [found EXCEPT ![r] = @ \cup hits]
            /\ silent' = [silent EXCEPT ![r] = @ \cup ShortPool(r)]
      BY <2>3
    <3>2. hits \in SUBSET S
      BY FusionsInside
    <3>3. ShortPool(r) \in SUBSET {"pool", "store"} /\ "store" \notin ShortPool(r)
      BY DEF ShortPool
    <3> QED BY <2>1, <2>2, <3>1, <3>2, <3>3
  <2>4. CASE silent' = [silent EXCEPT ![r] = @ \cup {"store"}] /\ found' = found
    <3>1. found' = [found EXCEPT ![r] = @ \cup {}] /\ {} \in SUBSET S
      BY <2>4 DEF IInv, TypeOK, ThreadTypeOK
    <3> QED BY <2>1, <2>2, <2>4, <3>1
  <2> QED BY <2>1, <2>3, <2>4
<1>5. /\ todo' = [todo EXCEPT ![r] = Tail(@)]
      /\ pc' = [pc EXCEPT ![r] = IF Len(todo[r]) > 1 THEN "searching" ELSE "ranking"]
      /\ UNCHANGED <<asked, kind, ids, pool, answer, asks>> /\ UNCHANGED indexVars /\ UNCHANGED clockVars
  BY DEF Search, Goto
<1>6. ThreadTypeOK' /\ OthersStay(r) /\ ClockTypeOK'
  <2>1. \A l : Code(l) \in Codes
    BY DEF Code, Codes
  <2>2. ThreadTypeOK'
    BY <1>2, <1>3, <1>4, <1>5, <2>1 DEF IInv, TypeOK, ThreadTypeOK, Labels
  <2>3. OthersStay(r)
    BY <1>4, <1>5 DEF IInv, TypeOK, ThreadTypeOK, OthersStay
  <2> QED BY <1>5, <2>2, <2>3, CacheUnchanged
<1>7. /\ found'[r] = found[r] \cup hits /\ silent'[r] = silent[r] \cup note /\ todo'[r] = Tail(todo[r])
      /\ degraded'[r] = degraded[r] \cup {Code(l) : l \in LegsOf(asked[r].mode) \ legs}
      /\ pc'[r] = IF Len(todo[r]) > 1 THEN "searching" ELSE "ranking"
      /\ pool'[r] = pool[r] /\ steady'[r] = steady[r] /\ answer' = answer /\ InScope(r)' = InScope(r)
      /\ TextsOf(r)' = TextsOf(r) /\ summarised' = summarised
  BY <1>4, <1>5, SameScope DEF IInv, TypeOK, ThreadTypeOK, indexVars
<1>8. Imaged(r)' /\ Pending(r)' /\ Pooled(r)' /\ Scoped(r)' /\ Quiet(r)'
  <2>1. Pending(r)'
    BY <1>1, <1>7, HeadAndTail DEF Pending, Left, Early
  <2> QED BY <1>1, <1>3, <1>5, <1>7, <2>1, SameScope DEF ThreadInv, Imaged, Pooled, Scoped, Quiet, Early
<1>9. ASSUME NEW text \in TextsOf(r)' \ Left(r)', text \in Left(r)
       PROVE  text = Head(todo[r])
  <2>1. PICK i \in DOMAIN todo[r] : text = todo[r][i]
    BY <1>9 DEF Left
  <2>2. ASSUME i # 1 PROVE text \in Left(r)'
    <3>1. i - 1 \in DOMAIN Tail(todo[r]) /\ todo[r][i] = Tail(todo[r])[i - 1]
      BY <1>1, <2>1, <2>2, HeadAndTail
    <3>2. todo'[r] = Tail(todo[r])
      BY <1>7
    <3> QED BY <2>1, <3>1, <3>2 DEF Left
  <2> QED BY <1>1, <1>9, <2>1, <2>2, HeadAndTail
<1>10. ASSUME NEW l \in legs, "store" \notin note
       PROVE  /\ Owed(r, Head(todo[r]), l) # {} => hits # {}
              /\ Cardinality(S) <= pool[r] => Owed(r, Head(todo[r]), l) \subseteq hits
  <2> DEFINE t == Head(todo[r])
             n == pool[r]
  <2>1. Owed(r, t, l) \subseteq S \cap Reach(t, l)
    BY <1>1 DEF Owed
  <2>2. hits \in Fusions(t, legs, S, n) /\ n \in Nat \ {0}
    BY <1>1, <1>4, <1>10
  <2> HIDE DEF t, n, S
  <2>3. /\ S \cap Reach(t, l) # {} => hits # {}
        /\ Cardinality(S) <= n => S \cap Reach(t, l) \subseteq hits
    BY <1>3, <2>2, SomeFusion
  <2> QED BY <2>1, <2>3 DEF t, n
<1>11. Evident(r)'
  <2>1. SUFFICES ASSUME "store" \notin silent'[r], found'[r] = {},
                        NEW text \in TextsOf(r)' \ Left(r)', NEW l \in LegsOf(asked[r].mode),
                        Owed(r, text, l) # {}
                 PROVE  Code(l) \in degraded'[r]
    BY <1>5, <1>7 DEF Evident, Owed, Reach, Code, LegsOf
  <2>2. CASE text \in Left(r)
    <3>1. text = Head(todo[r])
      BY <1>9, <2>2
    <3>2. l \notin legs
      BY <1>7, <1>10, <2>1, <3>1
    <3> QED BY <1>7, <3>2
  <2>3. CASE text \notin Left(r)
    BY <1>1, <1>7, <2>1, <2>3 DEF ThreadInv, Evident
  <2> QED BY <2>2, <2>3
<1>12. Covered(r)' /\ Outrun(r)'
  <2>1. Counted(r)' => Counted(r)
    BY <1>5, <1>7 DEF Counted
  <2>2. Counted(r) /\ "pool" \in silent'[r] => InScope(r) \ steady[r] # {}
    <3>1. "pool" \in silent'[r] => "pool" \in silent[r] \cup ShortPool(r)
      BY <1>4, <1>7
    <3> QED BY <1>1, <3>1, ShortPoolMeansNew DEF Sought
  <2> QED BY <1>1, <1>7, <2>1, <2>2 DEF ThreadInv, Covered, Outrun, Sought
<1>13. Gathered(r)' /\ Best(r)'
  <2>1. pc'[r] # "answered"
    BY <1>7
  <2>2. SUFFICES ASSUME degraded'[r] = {}, silent'[r] \cap {"store", "pool"} = {},
                        NEW text \in TextsOf(r)' \ Left(r)', NEW l \in LegsOf(asked[r].mode)
                 PROVE  Owed(r, text, l) \subseteq found'[r]
    BY <1>5, <1>7, <2>1 DEF Gathered, Best, Clean, Owed, Reach, LegsOf
  <2>3. CASE text \in Left(r)
    <3>1. text = Head(todo[r])
      BY <1>9, <2>2, <2>3
    <3>4. l \in legs
      <4>1. degraded'[r] = degraded[r] \cup {Code(m) : m \in LegsOf(asked[r].mode) \ legs}
        BY <1>7
      <4> QED BY <2>2, <4>1
    <3>2. note = ShortPool(r) /\ "pool" \notin note /\ "store" \notin note
      BY <1>4, <1>7, <2>2
    <3>3. Cardinality(S) <= pool[r]
      <4>1. ~(pool[r] < Cardinality(S)) /\ Cardinality(S) \in Nat
        BY <1>3, <3>2, ChunkSets DEF ShortPool
      <4> QED BY <1>1, <4>1
    <3> QED BY <1>7, <1>10, <3>1, <3>2, <3>3, <3>4
  <2>4. CASE text \notin Left(r)
    BY <1>1, <1>7, <2>2, <2>4 DEF ThreadInv, Gathered, Clean
  <2> QED BY <2>3, <2>4
<1>14. ThreadInv(r)'
  <2>1. Listed(r)'
    BY <1>1, <1>5, <1>7, SameList DEF ThreadInv
  <2> QED BY <1>8, <1>11, <1>12, <1>13, <2>1 DEF ThreadInv
<1> QED BY <1>5, <1>6, <1>14, OneThread

\* The batch: the same for all texts at once, and with both legs.
LEMMA BatchSearchStep == ASSUME IInv, NEW r \in Request, BatchSearch(r) PROVE IInv'
<1> DEFINE S == InScope(r) \cap index
<1>1. /\ pc[r] = "batching" /\ ThreadInv(r) /\ todo[r] # << >> /\ todo[r] \in Seq(Text)
      /\ pool[r] \in Nat \ {0} /\ steady[r] \subseteq index
  BY DEF BatchSearch, At, IInv, TypeOK, ThreadTypeOK, ThreadInv, Pending, Pooled
<1>2. S \in SUBSET Chunk /\ S \subseteq Matching(asked[r], {})
  BY ScopeInside
<1>3. PICK h \in [1 .. Len(todo[r]) -> SUBSET S] :
        /\ \A i \in DOMAIN h : h[i] \in Fusions(todo[r][i], Legs, S, pool[r])
        /\ found' = [found EXCEPT ![r] = UNION {h[i] : i \in DOMAIN h}]
  BY DEF BatchSearch
<1> DEFINE hits == UNION {h[i] : i \in DOMAIN h}
<1>4. hits \in SUBSET S
  OBVIOUS
<1>5. ASSUME NEW text \in TextsOf(r), NEW l \in Legs
       PROVE  /\ Owed(r, text, l) # {} => hits # {}
              /\ Cardinality(S) <= pool[r] => Owed(r, text, l) \subseteq hits
  <2>1. PICK i \in DOMAIN todo[r] : text = todo[r][i]
    BY <1>1 DEF ThreadInv, Pending, Left
  <2> DEFINE g == h[i]
             n == pool[r]
  <2>2. i \in DOMAIN h
    BY <1>1, <2>1
  <2>3. g \in Fusions(text, Legs, S, n) /\ n \in Nat \ {0} /\ g \subseteq hits
    BY <1>1, <1>3, <2>1, <2>2
  <2>4. Owed(r, text, l) \subseteq S \cap Reach(text, l)
    BY <1>1 DEF Owed
  <2> HIDE DEF g, n, S, hits
  <2>5. /\ S \cap Reach(text, l) # {} => g # {}
        /\ Cardinality(S) <= n => S \cap Reach(text, l) \subseteq g
    BY <1>2, <2>3, SomeFusion
  <2> QED BY <2>3, <2>4, <2>5 DEF n
<1>6. /\ todo' = [todo EXCEPT ![r] = << >>] /\ pc' = [pc EXCEPT ![r] = "ranking"]
      /\ silent' = [silent EXCEPT ![r] = @ \cup ShortPool(r)]
      /\ UNCHANGED <<asked, kind, ids, pool, degraded, answer, asks>> /\ UNCHANGED indexVars /\ UNCHANGED clockVars
  BY DEF BatchSearch, Goto
<1>7. ThreadTypeOK' /\ OthersStay(r) /\ ClockTypeOK'
  <2>1. << >> \in Seq(Text) /\ ShortPool(r) \in SUBSET {"count", "store", "pool"}
    BY DEF ShortPool
  <2>2. ThreadTypeOK'
    BY <1>2, <1>3, <1>4, <1>6, <2>1 DEF IInv, TypeOK, ThreadTypeOK, Labels
  <2>3. OthersStay(r)
    BY <1>3, <1>6 DEF IInv, TypeOK, ThreadTypeOK, OthersStay
  <2> QED BY <1>6, <2>2, <2>3, CacheUnchanged
<1>8. /\ found'[r] = hits /\ silent'[r] = silent[r] \cup ShortPool(r) /\ pc'[r] = "ranking"
      /\ pool'[r] = pool[r] /\ steady'[r] = steady[r] /\ answer' = answer /\ InScope(r)' = InScope(r)
      /\ TextsOf(r)' = TextsOf(r) /\ Left(r)' = {} /\ LegsOf(asked[r].mode) \subseteq Legs
  BY <1>3, <1>6, SameScope DEF IInv, TypeOK, ThreadTypeOK, indexVars, Left, LegsOf
<1>9. Imaged(r)' /\ Pending(r)' /\ Pooled(r)' /\ Scoped(r)' /\ Quiet(r)'
  BY <1>1, <1>2, <1>4, <1>6, <1>8, SameScope DEF ThreadInv, Imaged, Pending, Pooled, Scoped, Quiet, Early
<1>10. Evident(r)'
  BY <1>1, <1>6, <1>8, <1>5 DEF Evident, Owed, Reach, Code, LegsOf
<1>11. Covered(r)' /\ Outrun(r)'
  <2>1. Counted(r)' => Counted(r)
    BY <1>6, <1>8 DEF Counted
  <2>2. Counted(r) /\ "pool" \in silent'[r] => InScope(r) \ steady[r] # {}
    BY <1>1, <1>8, ShortPoolMeansNew DEF Sought
  <2> QED BY <1>1, <1>8, <2>1, <2>2 DEF ThreadInv, Covered, Outrun, Sought
<1>12. Gathered(r)' /\ Best(r)'
  <2>1. SUFFICES ASSUME ShortPool(r) \cap {"store", "pool"} = {}, NEW text \in TextsOf(r),
                        NEW l \in LegsOf(asked[r].mode)
                 PROVE  Owed(r, text, l) \subseteq hits
    BY <1>6, <1>8 DEF Gathered, Best, Clean, Owed, Reach, LegsOf
  <2>2. Cardinality(S) <= pool[r]
    <3>1. ~(pool[r] < Cardinality(S)) /\ Cardinality(S) \in Nat
      BY <1>2, <2>1, ChunkSets DEF ShortPool
    <3> QED BY <1>1, <3>1
  <2> QED BY <1>8, <1>5, <2>2
<1>13. ThreadInv(r)'
  <2>1. Listed(r)'
    BY <1>1, <1>6, SameList DEF ThreadInv, indexVars
  <2> QED BY <1>9, <1>10, <1>11, <1>12, <2>1 DEF ThreadInv
<1> QED BY <1>6, <1>7, <1>13, OneThread

LEMMA BatchFailsStep == ASSUME IInv, NEW r \in Request, BatchFails(r) PROVE IInv'
<1>1. ThreadTypeOK' /\ OthersStay(r) /\ ClockTypeOK'
  BY CacheUnchanged DEF IInv, TypeOK, ThreadTypeOK, BatchFails, Goto, Labels, OthersStay
<1>2. /\ pc[r] = "batching" /\ pc'[r] = "searching" /\ ThreadInv(r)
      /\ UNCHANGED <<asked, kind, ids, pool, todo, found, answer, silent, steady, summarised>>
  BY DEF IInv, TypeOK, ThreadTypeOK, BatchFails, Goto, At, indexVars
<1>3. Left(r)' = TextsOf(r)'
  BY <1>2, SameScope DEF ThreadInv, Pending
<1>4. Imaged(r)' /\ Pending(r)' /\ Pooled(r)' /\ Scoped(r)' /\ Quiet(r)' /\ Covered(r)' /\ Outrun(r)'
  BY <1>2, <1>3, SameScope DEF ThreadInv, Imaged, Pending, Pooled, Scoped, Quiet, Covered, Outrun, Counted, Early, Sought
<1>5. Evident(r)' /\ Gathered(r)' /\ Best(r)' /\ Listed(r)'
  BY <1>2, <1>3, NothingYet, SameList DEF ThreadInv
<1> QED BY <1>1, <1>4, <1>5, OneThread DEF BatchFails, ThreadInv

\* The answer is a part of what was found, and nothing only if that was nothing;
\* reranked and with nothing on record, it is the first of it.
LEMMA AnswersStep ==
  ASSUME IInv, NEW r \in Request, NEW chunks \in SUBSET found[r], chunks = {} => found[r] = {},
         pc[r] = "ranking", Answers(r, chunks),
         NEW codes \in SUBSET Codes, degraded' = [degraded EXCEPT ![r] = @ \cup codes],
         asked[r].rerank /\ codes = {} => chunks \in First(asked[r].judge, found[r], TopK)
  PROVE  IInv'
<1>1. ThreadTypeOK' /\ OthersStay(r) /\ ClockTypeOK'
  BY CacheUnchanged DEF IInv, TypeOK, ThreadTypeOK, Answers, Goto, Labels, OthersStay
<1>2. /\ pc'[r] = "answered" /\ answer'[r] = chunks /\ found'[r] = {} /\ degraded[r] \subseteq degraded'[r]
      /\ ThreadInv(r) /\ UNCHANGED <<asked, kind, ids, todo, silent, steady, summarised>>
  BY DEF IInv, TypeOK, ThreadTypeOK, Answers, Goto, indexVars
<1>3. InScope(r)' = InScope(r) /\ TextsOf(r)' = TextsOf(r) /\ Left(r)' = {} /\ Left(r) = {}
  BY <1>2, SameScope DEF ThreadInv, Pending
<1>4. Imaged(r)' /\ Pending(r)' /\ Pooled(r)' /\ Scoped(r)' /\ Quiet(r)' /\ Covered(r)'
  BY <1>2, <1>3, SameScope DEF ThreadInv, Imaged, Pending, Pooled, Scoped, Quiet, Covered, Early, Sought
<1>5. Evident(r)'
  BY <1>2, <1>3 DEF ThreadInv, Evident, Owed, Reach, Code, LegsOf
<1>6. Outrun(r)'
  BY <1>2, <1>3 DEF ThreadInv, Outrun, Counted, Sought
<1>7. Gathered(r)' /\ Best(r)'
  <2>1. SUFFICES ASSUME Clean(r)', asked[r].rerank, NEW text \in TextsOf(r),
                        NEW l \in LegsOf(asked[r].mode), NEW c \in Owed(r, text, l) \ chunks
                 PROVE  /\ Cardinality(chunks) = TopK
                        /\ \A a \in chunks : asked[r].judge[a] <= asked[r].judge[c]
    BY <1>2, <1>3 DEF Gathered, Best, Owed, Reach, LegsOf
  <2>2. Clean(r) /\ codes = {}
    <3>1. degraded'[r] = degraded[r] \cup codes
      BY DEF IInv, TypeOK, ThreadTypeOK
    <3> QED BY <1>2, <2>1, <3>1 DEF Clean
  <2>3. c \in found[r] \ chunks
    BY <1>2, <1>3, <2>1, <2>2 DEF ThreadInv, Gathered
  <2>4. chunks \in First(asked[r].judge, found[r], TopK) /\ found[r] \in SUBSET Chunk /\ TopK \in Nat \ {0}
    BY <2>1, <2>2, SettingsAssumption DEF IInv, TypeOK, ThreadTypeOK
  <2>5. Cardinality(chunks) = TopK
    BY <2>3, <2>4, FirstOf
  <2>6. \A a \in chunks : asked[r].judge[a] <= asked[r].judge[c]
    BY <2>3, <2>4 DEF First
  <2> QED BY <2>5, <2>6
<1>8. ThreadInv(r)'
  <2>1. Listed(r)'
    BY <1>2, SameList DEF ThreadInv
  <2> QED BY <1>4, <1>5, <1>6, <1>7, <2>1 DEF ThreadInv
<1> QED BY <1>1, <1>8, OneThread DEF Answers

LEMMA FusionOrder ==
  ASSUME IInv, NEW r \in Request, NEW A \in InFusionOrder(r)
  PROVE  A \in SUBSET found[r] /\ (A = {} => found[r] = {})
<1>1. found[r] \in SUBSET Chunk /\ TopK \in Nat \ {0}
  BY SettingsAssumption DEF IInv, TypeOK, ThreadTypeOK
<1>2. A \in SUBSET found[r] /\ Cardinality(A) = Least(TopK, Cardinality(found[r]))
  BY DEF InFusionOrder
<1>3. A = {} => Cardinality(A) = 0
  BY FS_EmptySet
<1> QED BY <1>1, <1>2, <1>3, ChunkSets DEF Least

LEMMA RankingStep ==
  ASSUME IInv, NEW r \in Request, Rerank(r) \/ WithoutRerank(r) \/ RerankFails(r)
  PROVE  IInv'
<1>1. degraded = [degraded EXCEPT ![r] = @ \cup {}] /\ pc[r] = "ranking"
  BY DEF IInv, TypeOK, ThreadTypeOK, Rerank, WithoutRerank, RerankFails, At
<1>2. CASE Rerank(r)
  <2>1. found[r] \in SUBSET Chunk /\ TopK \in Nat \ {0}
    BY SettingsAssumption DEF IInv, TypeOK, ThreadTypeOK
  <2>2. PICK chunks \in First(asked[r].judge, found[r], TopK) : Answers(r, chunks)
    BY <1>2 DEF Rerank
  <2>3. chunks \in SUBSET found[r] /\ (chunks = {} => found[r] = {})
    BY <2>1, FirstOf
  <2> QED BY <1>1, <1>2, <2>2, <2>3, AnswersStep DEF Rerank
<1>3. CASE WithoutRerank(r)
  <2>1. PICK chunks \in InFusionOrder(r) : Answers(r, chunks)
    BY <1>3 DEF WithoutRerank
  <2> QED BY <1>1, <1>3, <2>1, FusionOrder, AnswersStep DEF WithoutRerank
<1>4. CASE RerankFails(r) /\ kind[r] = "image"
  <2>1. asked[r].kind = "image"
    BY <1>4 DEF IInv, ThreadInv, Imaged
  <2>2. "image_retrieval" \in Codes
    BY DEF Codes
  <2> QED BY <1>4, <2>1, <2>2, WithoutImageStep DEF RerankFails
<1>5. CASE RerankFails(r) /\ kind[r] # "image"
  <2>1. PICK chunks \in InFusionOrder(r) : Answers(r, chunks)
    BY <1>5 DEF RerankFails
  <2>2. degraded' = [degraded EXCEPT ![r] = @ \cup RerankCode(r)] /\ RerankCode(r) \in SUBSET Codes
        /\ RerankCode(r) # {}
    BY <1>5 DEF RerankFails, RerankCode, Codes
  <2> QED BY <1>1, <2>1, <2>2, FusionOrder, AnswersStep
<1> QED BY <1>2, <1>3, <1>4, <1>5

LEMMA CaptionFailsStep == ASSUME IInv, NEW r \in Request, CaptionFails(r) PROVE IInv'
<1>1. asked[r].kind = "image"
  BY DEF CaptionFails, At, IInv, ThreadInv, Imaged
<1>2. PICK code \in {"vision_captioning", "image_retrieval"} : WithoutImage(r, code)
  BY DEF CaptionFails
<1>3. code \in Codes
  BY DEF Codes
<1> QED BY <1>1, <1>2, <1>3, WithoutImageStep

-----------------------------------------------------------------------------
(* The theorems.                                                            *)

LEMMA NextStep == IInv /\ [Next]_vars => IInv'
<1> SUFFICES ASSUME IInv, [Next]_vars PROVE IInv'
  OBVIOUS
<1>1. index \in SUBSET Chunk /\ summaries \in SUBSET Doc
  BY DEF IInv, TypeOK, IndexTypeOK
<1>2. ASSUME NEW d \in Doc,
             UpsertChunks(d) \/ UpsertSummary(d) \/ DeleteChunks(d) \/ DeleteSummary(d)
      PROVE  IInv'
  <2>1. /\ index \cup ChunksOf(d) \in SUBSET Chunk /\ index \ ChunksOf(d) \in SUBSET Chunk
        /\ summaries \cup {d} \in SUBSET Doc /\ summaries \ {d} \in SUBSET Doc
    BY <1>1 DEF ChunksOf
  <2> QED BY <1>1, <1>2, <2>1, EditStep DEF UpsertChunks, UpsertSummary, DeleteChunks, DeleteSummary
<1>3. ASSUME NEW r \in Request, Step(r) PROVE IInv'
  BY <1>3, CaptionedStep, CaptionFailsStep, CountSummariesStep, NoShortlistStep, ShortlistStep, SizePoolStep,
     SearchStep, BatchSearchStep, BatchFailsStep, RankingStep DEF Step
<1>4. CASE UNCHANGED vars
  <2>1. UNCHANGED indexVars /\ UNCHANGED clockVars /\ UNCHANGED threadVars
    BY <1>4 DEF vars
  <2>2. TypeOK'
    BY <2>1, CacheUnchanged DEF IInv, TypeOK, IndexTypeOK, ThreadTypeOK, indexVars, threadVars
  <2>3. \A r \in Request : steady'[r] \subseteq index' /\ summarised'[r] \subseteq summaries' /\ ThreadInv(r)'
    BY <2>1, ThreadUnchanged DEF IInv, indexVars, threadVars
  <2> QED BY <2>2, <2>3 DEF IInv
<1> QED BY <1>2, <1>3, <1>4, AskStep, TickStep DEF Next

\* Every reachable state satisfies the invariant.
THEOREM Invariance == Spec => []IInv
BY InitInv, NextStep, PTL DEF Spec

\* Every variable keeps its type.
THEOREM TypeCorrect == Spec => []TypeOK
<1>1. IInv => TypeOK
  BY DEF IInv
<1> QED BY <1>1, Invariance, PTL

\* No question, by whatever route and with whatever failing, is answered from
\* outside its tenant, its org units and the documents it names.
THEOREM ScopeCorrect == Spec => []NothingOutOfScope
<1>1. IInv => NothingOutOfScope
  BY DEF IInv, ThreadInv, Scoped, Matching, WholeTenant, NothingOutOfScope
<1> QED BY <1>1, Invariance, PTL

\* While the store is up, a question that finds nothing has on record every leg
\* that could have found a chunk for one of its texts.
THEOREM LegsCorrect == Spec => []SurvivingLegAnswers
<1>1. IInv => SurvivingLegAnswers
  BY DEF IInv, ThreadInv, Pending, Evident, SurvivingLegAnswers, Answered
<1> QED BY <1>1, Invariance, PTL

\* An answer with nothing on record, whose pool was not outrun, is what the
\* cross-encoder picks from all that a leg can find and that was in the scope
\* throughout: no batch, merge or fusion of legs loses a better chunk.
THEOREM AnswerCorrect == Spec => []NothingBetterLeftOut
<1>1. IInv => NothingBetterLeftOut
  BY DEF IInv, ThreadInv, Best, Clean, NothingBetterLeftOut, Answered
<1> QED BY <1>1, Invariance, PTL

\* A pool whose count said no less than there was is outrun only by chunks that
\* came after the question.
THEOREM PoolCorrect == Spec => []OnlyOutrunByNewcomers
<1>1. IInv => OnlyOutrunByNewcomers
  BY DEF IInv, ThreadInv, Outrun, Counted, OnlyOutrunByNewcomers, Answered
<1> QED BY <1>1, Invariance, PTL

\* Whatever a cached or approximate count says, a shortlist leaves out a document
\* of the asker's that was summarised all along only if it is full of others.
THEOREM ShortlistCorrect == Spec => []ShortlistDropsForCause
<1>1. IInv => ShortlistDropsForCause
  BY DEF IInv, ThreadInv, Listed, Own, ShortlistDropsForCause
<1> QED BY <1>1, Invariance, PTL
=============================================================================
