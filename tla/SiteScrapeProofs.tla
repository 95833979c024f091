---------------------------- MODULE SiteScrapeProofs ----------------------------
(***************************************************************************)
(* Proofs about SiteScrape, for every site, every limit and every number of  *)
(* pages fetched together, under every fault.                               *)
(*                                                                         *)
(* The invariant says where a page to be followed is: fetched, queued or     *)
(* among the links still to be looked at (Kept); that what was fetched was     *)
(* linked (Grounded); and that the queue is in the order of depth, but for      *)
(* what stands in it twice (Ordered).                                        *)
(***************************************************************************)
EXTENDS SiteScrape, SequenceTheorems, TLAPS

-----------------------------------------------------------------------------
(* The invariant.                                                           *)

\* Only pages in their normal form are queued and fetched.
Normal == queue \in Seq(Page) /\ batch \in Seq(Page) /\ started \in Seq(Page)

InProcess == documents[Len(documents)]

\* Which links are left to be looked at, and when.
Phases ==
  /\ phase \in {"batching", "fetching"} => raw = << >>
  /\ phase = "registering" => raw = << >> /\ (queue = << >> \/ Len(documents) >= MaxPages)
  /\ raw # << >> => documents # << >> /\ Range(raw) \subseteq Range(links[InProcess])

\* visited is what was fetched, each page once, and a page of a batch is not a
\* document yet.
Once ==
  /\ visited = Range(started)
  /\ \A i, j \in DOMAIN started : started[i] = started[j] => i = j
  /\ Range(batch) \cup Range(documents) \subseteq visited
  /\ \A i, j \in DOMAIN batch : batch[i] = batch[j] => i = j
  /\ \A i, j \in DOMAIN documents : documents[i] = documents[j] => i = j
  /\ Range(batch) \cap Range(documents) = {}

\* A link that a crawl is to follow.
Wanted(s) == Norm[s] \notin Asset \cup Unsafe /\ (SameDomainOnly => Norm[s] \notin OffDomain)

\* Every link of a document that is to be followed was, is queued, or is still
\* to be looked at.
Kept ==
  \A i \in DOMAIN documents : \A s \in Range(links[documents[i]]) :
    Wanted(s) => \/ Norm[s] \in visited \cup Range(queue)
                 \/ i = Len(documents) /\ s \in Range(raw)

\* A set of pages that holds the root and what is to be followed from the
\* documents in it.
Closed(R) == Root \in R /\ \A p \in Range(documents) \cap R : Follow(p) \subseteq R

Grounded == \A R \in SUBSET Page : Closed(R) => visited \cup Range(queue) \subseteq R

\* Only the root may be an asset.
RootAsset == (\E p \in Range(queue) : p \in Asset) => visited = {} /\ Len(queue) = 1

\* What may still give links to the queue.
Ahead(p) == \/ p \in Range(batch) \/ (p \in Range(queue) /\ p \notin visited)
            \/ raw # << >> /\ p = InProcess

\* What is fetched later is not nearer; nor is what stands later in the queue,
\* unless it stood earlier too; and nothing known is more than one link beyond
\* what is ahead.
FetchedInOrder == \A i, j \in DOMAIN started : i < j => depth[started[i]] <= depth[started[j]]
QueuedBehind ==
  \A p \in visited, q \in Range(queue) : q \notin visited => depth[p] <= depth[q]
QueueInOrder ==
  \A i, j \in DOMAIN queue : i < j =>
    \/ depth[queue[i]] <= depth[queue[j]] \/ queue[j] \in visited
    \/ \E k \in 1 .. i - 1 : queue[k] = queue[j]
BatchInOrder ==
  /\ \A p \in Range(documents), q \in Range(batch) : depth[p] <= depth[q]
  /\ \A i, j \in DOMAIN batch : i < j => depth[batch[i]] <= depth[batch[j]]
OneLevelAhead == \A p \in Page : Ahead(p) => \A q \in visited \cup Range(queue) : depth[q] <= depth[p] + 1

Ordered == /\ RootAsset /\ FetchedInOrder /\ QueuedBehind /\ QueueInOrder
           /\ BatchInOrder /\ OneLevelAhead

\* Where a request of each mode may be.
Route ==
  /\ phase \in {"batching", "fetching", "processing"} => mode = "crawl" /\ next = 1 /\ mine = {}
  /\ phase = "registering" => mode = "crawl"
  /\ phase = "scraping" => mode = "pages"
  /\ phase = "responded" /\ mode = "crawl" => next > Len(documents)

\* What a response calls a success has a task to come, and its row waits for
\* it; or had one, and its row is READY or FAILED; or is behind a task that
\* raised, or is that of it, and its row is stuck.
SuccessHasTask ==
  \A s \in Spelling : results[s] = "success" =>
    \/ s \in Range(tasks) /\ rows[s] = "UPLOADED"
    \/ s \in abandoned /\ rows[s] \in {"UPLOADED", "PROCESSING"}
    \/ s \notin Range(tasks) \cup abandoned /\ rows[s] \in {"READY", "FAILED"}

\* A task is for a row that waits for it, and no row has two.
TasksAreRows ==
  /\ \A i, j \in DOMAIN tasks : tasks[i] = tasks[j] => i = j
  /\ \A s \in Range(tasks) : rows[s] = "UPLOADED" /\ s \notin abandoned
  /\ phase \notin {"registering", "responded"} => tasks = << >>
  /\ phase # "responded" => abandoned = {}

\* The documents before next are reported, as a success if and only if the
\* request registered them.
Accounted(i) == IF i < next
                THEN /\ results[documents[i]] # "none"
                     /\ results[documents[i]] = "success" <=> documents[i] \in mine
                ELSE documents[i] \notin mine
Reported ==
  /\ phase \notin {"registering", "responded"} => \A s \in Spelling : results[s] # "success"
  /\ SuccessHasTask /\ TasksAreRows
  /\ mode = "crawl" /\ phase \in {"registering", "responded"} => \A i \in DOMAIN documents : Accounted(i)

IInv == TypeOK /\ Normal /\ Phases /\ Once /\ Kept /\ Grounded /\ Ordered /\ Route /\ Reported

\* A crawl fetches nothing but the root and what is to be followed from the
\* documents it got: whatever set has the root and those links has all of it.
OnlyLinkedPages == \A R \in SUBSET Page : Closed(R) => Range(started) \subseteq R

\* The response of a crawl reports every document, and says success of exactly
\* those whose row this request registered.
SuccessIsMine ==
  phase = "responded" /\ mode = "crawl" =>
    \A d \in Range(documents) : /\ results[d] # "none"
                                /\ results[d] = "success" <=> d \in mine

-----------------------------------------------------------------------------
(* Queues.                                                                  *)

\* What an append leaves and adds.
LEMMA Push ==
  ASSUME NEW S, NEW s \in Seq(S), NEW e \in S
  PROVE  /\ Append(s, e) \in Seq(S) /\ Len(Append(s, e)) = Len(s) + 1 /\ Len(s) \in Nat
         /\ DOMAIN s = 1 .. Len(s) /\ DOMAIN Append(s, e) = 1 .. Len(s) + 1
         /\ \A i \in 1 .. Len(s) : Append(s, e)[i] = s[i]
         /\ Append(s, e)[Len(s) + 1] = e
         /\ Range(Append(s, e)) = Range(s) \cup {e}
<1>1. /\ Append(s, e) \in Seq(S) /\ Len(Append(s, e)) = Len(s) + 1 /\ Len(s) \in Nat
      /\ DOMAIN s = 1 .. Len(s) /\ DOMAIN Append(s, e) = 1 .. Len(s) + 1
      /\ \A i \in 1 .. Len(s) : Append(s, e)[i] = s[i]
      /\ Append(s, e)[Len(s) + 1] = e
  BY AppendProperties, LenProperties
<1>2. Range(Append(s, e)) = Range(s) \cup {e}
  BY <1>1 DEF Range
<1> QED BY <1>1, <1>2

\* What is taken from the front, and what is left.
LEMMA Pop ==
  ASSUME NEW S, NEW s \in Seq(S), s # << >>
  PROVE  /\ Head(s) \in S /\ Head(s) = s[1] /\ Tail(s) \in Seq(S)
         /\ Len(s) \in Nat \ {0} /\ Len(Tail(s)) = Len(s) - 1
         /\ DOMAIN s = 1 .. Len(s) /\ DOMAIN Tail(s) = 1 .. Len(s) - 1
         /\ \A i \in 1 .. Len(s) - 1 : Tail(s)[i] = s[i + 1]
         /\ Range(s) = {Head(s)} \cup Range(Tail(s))
<1>1. /\ Head(s) \in S /\ Head(s) = s[1] /\ Tail(s) \in Seq(S)
      /\ Len(s) \in Nat \ {0} /\ Len(Tail(s)) = Len(s) - 1
      /\ DOMAIN s = 1 .. Len(s) /\ DOMAIN Tail(s) = 1 .. Len(s) - 1
      /\ \A i \in 1 .. Len(s) - 1 : Tail(s)[i] = s[i + 1]
  BY HeadTailProperties, LenProperties, EmptySeq
<1>2. \A i \in 1 .. Len(s) : s[i] = Head(s) \/ s[i] \in Range(Tail(s))
  <2> SUFFICES ASSUME NEW i \in 1 .. Len(s), i # 1 PROVE s[i] \in Range(Tail(s))
    BY <1>1
  <2>1. i - 1 \in 1 .. Len(s) - 1 /\ (i - 1) + 1 = i
    BY <1>1
  <2>2. Tail(s)[i - 1] = s[i]
    BY <1>1, <2>1
  <2> QED BY <1>1, <2>1, <2>2 DEF Range
<1>3. Range(s) \subseteq {Head(s)} \cup Range(Tail(s))
  BY <1>1, <1>2 DEF Range
<1>4. \A i \in 1 .. Len(s) - 1 : i + 1 \in 1 .. Len(s)
  BY <1>1
<1>5. {Head(s)} \cup Range(Tail(s)) \subseteq Range(s)
  BY <1>1, <1>4 DEF Range
<1> QED BY <1>1, <1>3, <1>5

\* What the members of a sequence are.
LEMMA Members ==
  ASSUME NEW S, NEW s \in Seq(S)
  PROVE  /\ Len(s) \in Nat /\ DOMAIN s = 1 .. Len(s) /\ Range(s) \subseteq S
         /\ \A i \in 1 .. Len(s) : s[i] \in S /\ s[i] \in Range(s)
         /\ \A x \in Range(s) : \E i \in 1 .. Len(s) : s[i] = x
         /\ s = << >> <=> Len(s) = 0
<1>1. Len(s) \in Nat /\ DOMAIN s = 1 .. Len(s) /\ \A i \in 1 .. Len(s) : s[i] \in S
  BY LenProperties, ElementOfSeq
<1>2. s = << >> <=> Len(s) = 0
  BY EmptySeq, <1>1
<1> QED BY <1>1, <1>2 DEF Range

LEMMA NoMembers == Range(<< >>) = {} /\ DOMAIN << >> = {} /\ Len(<< >>) = 0
  BY DEF Range

\* Pages are spellings, and their own normal form.
LEMMA Pages ==
  /\ Page \subseteq Spelling /\ \A p \in Page : Norm[p] = p
  /\ \A s \in Spelling : Norm[s] \in Page
  BY NormAssumption DEF Page

LEMMA SeqOfPages == ASSUME NEW s \in Seq(Page) PROVE s \in Seq(Spelling)
  BY Pages, SeqMonotonic

LEMMA RootIsPage == ASSUME asked \in Seeds PROVE Root \in Page
<1>1. asked \in Seq(Spelling) /\ asked # << >>
  BY SeedsAssumption
<1>2. asked[1] \in Spelling
  BY <1>1, Pop
<1> QED BY <1>2, Pages DEF Root

\* The links of a page.
LEMMA LinksAreSpellings ==
  ASSUME links \in Sites, NEW p \in Page
  PROVE  links[p] \in Seq(Spelling)
BY SitesAssumption, Pages

LEMMA FollowMeansWanted ==
  ASSUME NEW p
  PROVE  Follow(p) = {Norm[s] : s \in {l \in Range(links[p]) : Wanted(l)}}
BY DEF Follow, Wanted

-----------------------------------------------------------------------------
(* The start.                                                               *)

LEMMA InitInv == Init => IInv
<1> SUFFICES ASSUME Init PROVE IInv
  OBVIOUS
<1>1. Root \in Page /\ asked \in Seeds
  BY RootIsPage DEF Init
<1>2. /\ \A S : << >> \in Seq(S)
      /\ <<Root>> \in Seq(Page) /\ <<Root>> \in Seq(Spelling) /\ Len(<<Root>>) = 1
      /\ Range(<<Root>>) = {Root}
  <2>1. <<Root>> = Append(<< >>, Root)
    BY <1>1
  <2> QED BY <1>1, Pages DEF Range
<1>3. (queue = <<Root>> \/ queue = << >>) /\ next = 1
      /\ phase \in {"batching", "scraping", "responded"}
      /\ (mode = "crawl" => phase \in {"batching", "responded"}) /\ (mode # "crawl" => phase = "scraping")
  BY DEF Init
<1>4. mode \in {"crawl", "pages"}
  BY FlagsAssumption DEF Init
<1>5. TypeOK
  <2>1. queue \in Seq(Spelling) /\ next \in Nat
    BY <1>2, <1>3
  <2>2. Len(documents) + Len(batch) <= MaxPages /\ Len(batch) <= Concurrency
    BY NoMembers, BoundsAssumption DEF Init
  <2>3. Len(fetched) = Len(batch)
    BY DEF Init
  <2>4. depth \in [Page -> Nat] /\ visited \subseteq Spelling /\ mine \subseteq Spelling /\ abandoned \subseteq Spelling
        /\ rows \in [Spelling -> {"none", "UPLOADED", "PROCESSING", "READY", "FAILED"}]
        /\ results \in [Spelling -> {"none", "success", "duplicate", "error"}]
    BY DEF Init
  <2>5. mode \in Modes /\ asked \in Seeds /\ links \in Sites
    BY DEF Init
  <2>6. /\ batch \in Seq(Spelling) /\ raw \in Seq(Spelling) /\ documents \in Seq(Page)
        /\ tasks \in Seq(Spelling) /\ started \in Seq(Spelling)
        /\ fetched \in Seq({"pending", "ok", "failed"})
    BY <1>2 DEF Init
  <2> QED BY <1>3, <2>1, <2>2, <2>3, <2>4, <2>5, <2>6 DEF TypeOK
<1>6. Normal
  BY <1>2, <1>3 DEF Normal, Init
<1>7. Phases
  BY <1>3 DEF Phases, Init
<1>8. Once
  BY NoMembers DEF Once, Init
<1>9. Kept
  BY NoMembers DEF Kept, Init
<1>10. Grounded
  BY <1>2, <1>3, NoMembers DEF Grounded, Closed, Init
<1>11. Ordered
  <2>1. \A p \in Page : depth[p] = 0
    BY DEF Init
  <2>2. Range(queue) \subseteq {Root} /\ Len(queue) \in {0, 1} /\ DOMAIN queue = 1 .. Len(queue)
        /\ (Range(queue) # {} => Len(queue) = 1)
    BY <1>2, <1>3, NoMembers, <1>6, LenProperties DEF Normal
  <2>3. RootAsset
    BY <2>2 DEF RootAsset, Init
  <2>4. FetchedInOrder /\ QueuedBehind /\ BatchInOrder
    BY NoMembers DEF FetchedInOrder, QueuedBehind, BatchInOrder, Init
  <2>5. QueueInOrder
    BY <2>2 DEF QueueInOrder
  <2>6. OneLevelAhead
    <3>1. visited \cup Range(queue) \subseteq {Root}
      BY <2>2 DEF Init
    <3> QED BY <2>1, <3>1, <1>1 DEF OneLevelAhead
  <2> QED BY <2>3, <2>4, <2>5, <2>6 DEF Ordered
<1>12. Route
  BY <1>3, <1>4, NoMembers DEF Route, Init
<1>13. Reported
  BY <1>3, NoMembers DEF Reported, SuccessHasTask, TasksAreRows, Init
<1> QED BY <1>5, <1>6, <1>7, <1>8, <1>9, <1>10, <1>11, <1>12, <1>13 DEF IInv

-----------------------------------------------------------------------------
(* The crawl.                                                               *)

\* A URL leaves the queue.
LEMMA TakeUrlStep == ASSUME IInv, TakeUrl PROVE IInv'
<1> DEFINE p == Head(queue)
<1> USE DEF request, registry
<1>1. /\ p \in Page /\ p = queue[1] /\ Tail(queue) \in Seq(Page)
      /\ Len(queue) \in Nat \ {0} /\ Len(Tail(queue)) = Len(queue) - 1
      /\ DOMAIN queue = 1 .. Len(queue) /\ DOMAIN Tail(queue) = 1 .. Len(queue) - 1
      /\ \A i \in 1 .. Len(queue) - 1 : Tail(queue)[i] = queue[i + 1]
      /\ Range(queue) = {p} \cup Range(Tail(queue)) /\ queue' = Tail(queue)
  BY Pop DEF IInv, Normal, TakeUrl
<1>2. /\ phase = "batching" /\ phase' = phase /\ raw' = raw /\ raw = << >> /\ documents' = documents
      /\ links' = links /\ depth' = depth /\ Root' = Root /\ Len(batch) < Slots
      /\ queue # << >>
  BY DEF TakeUrl, Root, IInv, Phases
<1>4. Range(queue') \cap Asset = {}
  <2> SUFFICES ASSUME NEW i \in 1 .. Len(queue) - 1, queue[i + 1] \in Asset PROVE FALSE
    BY <1>1 DEF Range
  <2>1. queue[i + 1] \in Range(queue)
    BY <1>1 DEF Range
  <2> QED BY <1>1, <2>1 DEF IInv, Ordered, RootAsset
<1>3. CASE Taken(p)
  <2>1. /\ visited' = visited \cup {p} /\ batch' = Append(batch, p)
        /\ fetched' = Append(fetched, "pending") /\ started' = Append(started, p)
        /\ p \notin visited /\ p \notin Asset
    BY <1>3 DEF TakeUrl, Taken
  <2>2. /\ batch' \in Seq(Page) /\ Len(batch') = Len(batch) + 1 /\ Len(batch) \in Nat
        /\ DOMAIN batch = 1 .. Len(batch) /\ DOMAIN batch' = 1 .. Len(batch) + 1
        /\ \A i \in 1 .. Len(batch) : batch'[i] = batch[i]
        /\ batch'[Len(batch) + 1] = p /\ Range(batch') = Range(batch) \cup {p}
    BY <1>1, <2>1, Push DEF IInv, Normal
  <2>3. /\ started' \in Seq(Page) /\ Len(started') = Len(started) + 1 /\ Len(started) \in Nat
        /\ DOMAIN started = 1 .. Len(started) /\ DOMAIN started' = 1 .. Len(started) + 1
        /\ \A i \in 1 .. Len(started) : started'[i] = started[i]
        /\ started'[Len(started) + 1] = p /\ Range(started') = Range(started) \cup {p}
    BY <1>1, <2>1, Push DEF IInv, Normal
  <2>4. TypeOK'
    <3>1. fetched' \in Seq({"pending", "ok", "failed"}) /\ Len(fetched') = Len(batch')
      BY <2>1, <2>2, AppendProperties DEF IInv, TypeOK
    <3>2. Len(documents) \in Nat /\ Len(documents') = Len(documents)
      BY <1>2, LenProperties DEF IInv, TypeOK
    <3>3. Len(batch') <= Concurrency /\ Len(documents') + Len(batch') <= MaxPages
      BY <1>2, <2>2, <3>2, BoundsAssumption DEF Slots
    <3>4. queue' \in Seq(Spelling) /\ batch' \in Seq(Spelling) /\ started' \in Seq(Spelling)
          /\ p \in Spelling
      BY <1>1, <2>2, <2>3, SeqOfPages, Pages
    <3> QED BY <1>2, <2>1, <3>1, <3>3, <3>4 DEF IInv, TypeOK, TakeUrl
  <2>5. Normal'
    BY <1>1, <2>2, <2>3 DEF Normal
  <2>6. Phases'
    BY <1>2 DEF Phases
  <2>7. Once'
    <3>1. \A i \in 1 .. Len(started) : started[i] # p
      BY <2>1, <2>3 DEF IInv, Once, Range
    <3>2. \A i, j \in DOMAIN started' : started'[i] = started'[j] => i = j
      BY <2>3, <3>1 DEF IInv, Once
    <3>3. \A i \in 1 .. Len(batch) : batch[i] # p
      BY <2>1, <2>2 DEF IInv, Once, Range
    <3>4. \A i, j \in DOMAIN batch' : batch'[i] = batch'[j] => i = j
      BY <2>2, <3>3 DEF IInv, Once
    <3> QED BY <1>2, <2>1, <2>2, <2>3, <3>2, <3>4 DEF IInv, Once
  <2>8. Kept'
    BY <1>1, <1>2, <2>1 DEF IInv, Kept, Wanted
  <2>9. Grounded'
    BY <1>1, <1>2, <2>1 DEF IInv, Grounded, Closed, Follow
  <2>10. Ordered'
    <3>1. RootAsset'
      BY <1>1, <1>4 DEF RootAsset
    <3>2. \A q \in visited : depth[q] <= depth[p]
      BY <1>1, <2>1 DEF IInv, Ordered, QueuedBehind
    <3>3. FetchedInOrder'
      <4>1. \A i \in 1 .. Len(started) : started[i] \in visited
        BY <2>3 DEF IInv, Once, Range
      <4> QED BY <1>2, <2>3, <3>2, <4>1 DEF IInv, Ordered, FetchedInOrder
    <3>4. \A q \in Range(queue') : q \notin visited' => depth[p] <= depth[q]
      <4> SUFFICES ASSUME NEW i \in 1 .. Len(queue) - 1, queue[i + 1] \notin visited'
                   PROVE  depth[p] <= depth[queue[i + 1]]
        BY <1>1 DEF Range
      <4>1. 1 \in DOMAIN queue /\ i + 1 \in DOMAIN queue /\ 1 < i + 1 /\ 1 .. 1 - 1 = {}
        BY <1>1
      <4> QED BY <1>1, <2>1, <4>1 DEF IInv, Ordered, QueueInOrder
    <3>5. QueuedBehind'
      BY <1>1, <1>2, <2>1, <3>4 DEF IInv, Ordered, QueuedBehind
    <3>6. QueueInOrder'
      <4> SUFFICES ASSUME NEW i \in DOMAIN queue', NEW j \in DOMAIN queue', i < j,
                          queue'[j] \notin visited', ~(depth'[queue'[i]] <= depth'[queue'[j]])
                   PROVE  \E k \in 1 .. i - 1 : queue'[k] = queue'[j]
        BY DEF QueueInOrder
      <4>0. /\ i \in 1 .. Len(queue) - 1 /\ j \in 1 .. Len(queue) - 1 /\ queue[j + 1] \notin visited'
            /\ ~(depth[queue[i + 1]] <= depth[queue[j + 1]])
        BY <1>1, <1>2
      <4>1. i + 1 \in DOMAIN queue /\ j + 1 \in DOMAIN queue /\ i + 1 < j + 1
        BY <1>1, <4>0
      <4>2. PICK k \in 1 .. (i + 1) - 1 : queue[k] = queue[j + 1]
        BY <2>1, <4>0, <4>1 DEF IInv, Ordered, QueueInOrder
      <4>3. k # 1
        BY <1>1, <2>1, <4>0, <4>2
      <4>4. k - 1 \in 1 .. i - 1 /\ k - 1 \in 1 .. Len(queue) - 1 /\ (k - 1) + 1 = k
        BY <1>1, <4>0, <4>3
      <4>5. queue'[k - 1] = queue[k] /\ queue'[j] = queue[j + 1]
        BY <1>1, <4>0, <4>4
      <4> QED BY <4>2, <4>4, <4>5
    <3>7. BatchInOrder'
      <4>1. \A i \in 1 .. Len(batch) : batch[i] \in visited
        BY <2>2 DEF IInv, Once, Range
      <4>2. \A q \in Range(documents) : q \in visited
        BY DEF IInv, Once
      <4>3. \A i, j \in DOMAIN batch' : i < j => depth[batch'[i]] <= depth[batch'[j]]
        BY <2>2, <3>2, <4>1 DEF IInv, Ordered, BatchInOrder
      <4> QED BY <1>2, <2>2, <3>2, <4>2, <4>3 DEF IInv, Ordered, BatchInOrder
    <3>8. OneLevelAhead'
      <4>1. \A q \in Page : Ahead(q)' => Ahead(q)
        BY <1>1, <1>2, <2>1, <2>2 DEF Ahead
      <4>2. visited' \cup Range(queue') \subseteq visited \cup Range(queue)
        BY <1>1, <2>1
      <4> QED BY <1>2, <4>1, <4>2 DEF IInv, Ordered, OneLevelAhead
    <3> QED BY <3>1, <3>3, <3>5, <3>6, <3>7, <3>8 DEF Ordered
  <2>11. Route' /\ Reported'
    BY <1>2 DEF IInv, Route, Reported, Accounted, SuccessHasTask, TasksAreRows, TakeUrl
  <2> QED BY <2>4, <2>5, <2>6, <2>7, <2>8, <2>9, <2>10, <2>11 DEF IInv
<1>5. CASE ~Taken(p)
  <2>1. UNCHANGED <<visited, batch, fetched, started>> /\ (p \in visited \/ p \in Asset)
    BY <1>5 DEF TakeUrl, Taken
  <2>2. TypeOK'
    BY <1>1, <1>2, <2>1, SeqOfPages DEF IInv, TypeOK, TakeUrl
  <2>3. Normal' /\ Phases'
    BY <1>1, <1>2, <2>1 DEF IInv, Normal, Phases
  <2>4. Once'
    BY <1>2, <2>1 DEF IInv, Once
  <2>5. Kept'
    BY <1>1, <1>2, <2>1 DEF IInv, Kept, Wanted
  <2>6. Grounded'
    BY <1>1, <1>2, <2>1 DEF IInv, Grounded, Closed, Follow
  <2>7. Ordered'
    <3>1. RootAsset' /\ FetchedInOrder' /\ BatchInOrder' /\ QueuedBehind'
      BY <1>1, <1>2, <1>4, <2>1
         DEF IInv, Ordered, RootAsset, FetchedInOrder, BatchInOrder, QueuedBehind
    <3>2. QueueInOrder'
      <4> SUFFICES ASSUME NEW i \in DOMAIN queue', NEW j \in DOMAIN queue', i < j,
                          queue'[j] \notin visited', ~(depth'[queue'[i]] <= depth'[queue'[j]])
                   PROVE  \E k \in 1 .. i - 1 : queue'[k] = queue'[j]
        BY DEF QueueInOrder
      <4>0. /\ i \in 1 .. Len(queue) - 1 /\ j \in 1 .. Len(queue) - 1 /\ queue[j + 1] \notin visited
            /\ ~(depth[queue[i + 1]] <= depth[queue[j + 1]])
        BY <1>1, <1>2, <2>1
      <4>1. i + 1 \in DOMAIN queue /\ j + 1 \in DOMAIN queue /\ i + 1 < j + 1
        BY <1>1, <4>0
      <4>2. PICK k \in 1 .. (i + 1) - 1 : queue[k] = queue[j + 1]
        BY <2>1, <4>0, <4>1 DEF IInv, Ordered, QueueInOrder
      <4>3. p \in visited
        BY <1>1, <2>1, <4>0, <4>1 DEF IInv, Ordered, RootAsset
      <4>4. k # 1
        BY <1>1, <4>0, <4>2, <4>3
      <4>5. k - 1 \in 1 .. i - 1 /\ k - 1 \in 1 .. Len(queue) - 1 /\ (k - 1) + 1 = k
        BY <1>1, <4>0, <4>4
      <4>6. queue'[k - 1] = queue[k] /\ queue'[j] = queue[j + 1]
        BY <1>1, <4>0, <4>5
      <4> QED BY <4>2, <4>5, <4>6
    <3>3. OneLevelAhead'
      <4>1. \A q \in Page : Ahead(q)' => Ahead(q)
        BY <1>1, <1>2, <2>1 DEF Ahead
      <4>2. visited' \cup Range(queue') \subseteq visited \cup Range(queue)
        BY <1>1, <2>1
      <4> QED BY <1>2, <4>1, <4>2 DEF IInv, Ordered, OneLevelAhead
    <3> QED BY <3>1, <3>2, <3>3 DEF Ordered
  <2>8. Route' /\ Reported'
    BY <1>2 DEF IInv, Route, Reported, Accounted, SuccessHasTask, TasksAreRows, TakeUrl
  <2> QED BY <2>2, <2>3, <2>4, <2>5, <2>6, <2>7, <2>8 DEF IInv
<1> QED BY <1>3, <1>5

\* A result is processed: a page that was fetched becomes a document, with all
\* of its links to be looked at.
LEMMA ProcessResultStep == ASSUME IInv, ProcessResult PROVE IInv'
<1> DEFINE p == Head(batch)
<1> USE DEF request, registry
<1>1. /\ p \in Page /\ p = batch[1] /\ Tail(batch) \in Seq(Page)
      /\ Len(batch) \in Nat \ {0} /\ Len(Tail(batch)) = Len(batch) - 1
      /\ DOMAIN batch = 1 .. Len(batch) /\ DOMAIN Tail(batch) = 1 .. Len(batch) - 1
      /\ \A i \in 1 .. Len(batch) - 1 : Tail(batch)[i] = batch[i + 1]
      /\ Range(batch) = {p} \cup Range(Tail(batch)) /\ batch' = Tail(batch)
  BY Pop DEF IInv, Normal, ProcessResult
<1>2. /\ phase = "processing" /\ phase' = phase /\ raw = << >> /\ links' = links /\ depth' = depth
      /\ Root' = Root /\ queue' = queue /\ visited' = visited /\ started' = started
      /\ fetched' = Tail(fetched)
  BY DEF ProcessResult, Root
<1>3. /\ fetched # << >>
      /\ fetched' \in Seq({"pending", "ok", "failed"}) /\ Len(fetched') = Len(batch')
  <2>1. fetched # << >>
    BY <1>1, NoMembers DEF IInv, TypeOK
  <2> QED BY <1>1, <1>2, <2>1, Pop DEF IInv, TypeOK
<1>4. batch' \in Seq(Spelling) /\ Len(documents) \in Nat
  BY <1>1, SeqOfPages, LenProperties DEF IInv, TypeOK
<1>5. \A i \in 1 .. Len(batch') : batch'[i] # p
  <2> SUFFICES ASSUME NEW i \in 1 .. Len(batch) - 1, batch[i + 1] = p PROVE FALSE
    BY <1>1
  <2>1. 1 \in DOMAIN batch /\ i + 1 \in DOMAIN batch /\ i + 1 # 1
    BY <1>1
  <2> QED BY <1>1, <2>1 DEF IInv, Once
<1>6. \A i, j \in DOMAIN batch' : batch'[i] = batch'[j] => i = j
  <2> SUFFICES ASSUME NEW i \in 1 .. Len(batch) - 1, NEW j \in 1 .. Len(batch) - 1,
                      batch[i + 1] = batch[j + 1]
               PROVE  i = j
    BY <1>1
  <2>1. i + 1 \in DOMAIN batch /\ j + 1 \in DOMAIN batch
    BY <1>1
  <2>2. i + 1 = j + 1
    BY <2>1 DEF IInv, Once
  <2> QED BY <2>2
<1>7. \A i, j \in DOMAIN batch' : i < j => depth'[batch'[i]] <= depth'[batch'[j]]
  <2> SUFFICES ASSUME NEW i \in 1 .. Len(batch) - 1, NEW j \in 1 .. Len(batch) - 1, i < j
               PROVE  depth[batch[i + 1]] <= depth[batch[j + 1]]
    BY <1>1, <1>2
  <2>1. i + 1 \in DOMAIN batch /\ j + 1 \in DOMAIN batch /\ i + 1 < j + 1
    BY <1>1
  <2> QED BY <2>1 DEF IInv, Ordered, BatchInOrder
<1>8. p \notin Range(batch') /\ p \in visited /\ p \notin Range(documents)
  <2>1. p \notin Range(batch')
    BY <1>1, <1>5 DEF Range
  <2> QED BY <1>1, <2>1 DEF IInv, Once
<1>9. Normal' /\ RootAsset' /\ FetchedInOrder' /\ QueuedBehind' /\ QueueInOrder'
  <2>1. Normal' /\ RootAsset'
    BY <1>1, <1>2 DEF IInv, Normal, Ordered, RootAsset
  <2> QED BY <1>2, <2>1 DEF IInv, Ordered, FetchedInOrder, QueuedBehind, QueueInOrder
<1>10. CASE Head(fetched) = "ok"
  <2>1. documents' = Append(documents, p) /\ raw' = links[p]
    BY <1>10 DEF ProcessResult
  <2>2. /\ documents' \in Seq(Page) /\ Len(documents') = Len(documents) + 1
        /\ DOMAIN documents = 1 .. Len(documents) /\ DOMAIN documents' = 1 .. Len(documents) + 1
        /\ \A i \in 1 .. Len(documents) : documents'[i] = documents[i]
        /\ documents'[Len(documents) + 1] = p /\ Range(documents') = Range(documents) \cup {p}
    BY <1>1, <2>1, Push DEF IInv, TypeOK
  <2>3. raw' \in Seq(Spelling) /\ InProcess' = p /\ documents' # << >>
    BY <1>1, <1>4, <2>1, <2>2, LinksAreSpellings, NoMembers DEF IInv, TypeOK, InProcess
  <2>4. TypeOK'
    <3>1. Len(documents') + Len(batch') <= MaxPages /\ Len(batch') <= Concurrency
      BY <1>1, <1>4, <2>2, BoundsAssumption DEF IInv, TypeOK
    <3> QED BY <1>2, <1>3, <1>4, <2>2, <2>3, <3>1 DEF IInv, TypeOK, ProcessResult
  <2>5. Phases'
    BY <1>2, <2>1, <2>3 DEF IInv, Phases
  <2>6. Once'
    <3>1. \A i \in 1 .. Len(documents) : documents[i] # p
      BY <1>8, <2>2 DEF Range
    <3>2. \A i, j \in DOMAIN documents' : documents'[i] = documents'[j] => i = j
      BY <2>2, <3>1 DEF IInv, Once
    <3>3. Range(batch') \cup Range(documents') \subseteq visited /\ Range(batch') \cap Range(documents') = {}
      BY <1>1, <1>8, <2>2 DEF IInv, Once
    <3> QED BY <1>2, <1>6, <3>2, <3>3 DEF IInv, Once
  <2>7. Kept'
    <3> SUFFICES ASSUME NEW i \in DOMAIN documents', NEW s \in Range(links[documents'[i]]), Wanted(s)
                 PROVE  \/ Norm[s] \in visited \cup Range(queue)
                        \/ i = Len(documents') /\ s \in Range(raw')
      BY <1>2 DEF Kept, Wanted
    <3>1. CASE i = Len(documents) + 1
      BY <2>1, <2>2, <3>1
    <3>2. CASE i \in 1 .. Len(documents)
      BY <1>2, <2>2, <3>2, NoMembers DEF IInv, Kept
    <3> QED BY <1>4, <2>2, <3>1, <3>2
  <2>8. Grounded'
    <3> SUFFICES ASSUME NEW R \in SUBSET Page, Closed(R)' PROVE visited \cup Range(queue) \subseteq R
      BY <1>2 DEF Grounded
    <3>1. Closed(R)
      BY <1>2, <2>2 DEF Closed, Follow
    <3> QED BY <3>1 DEF IInv, Grounded
  <2>9. BatchInOrder'
    <3>1. \A q \in Range(batch') : depth[p] <= depth[q]
      <4> SUFFICES ASSUME NEW i \in 1 .. Len(batch) - 1 PROVE depth[p] <= depth[batch[i + 1]]
        BY <1>1 DEF Range
      <4>1. 1 \in DOMAIN batch /\ i + 1 \in DOMAIN batch /\ 1 < i + 1
        BY <1>1
      <4> QED BY <1>1, <4>1 DEF IInv, Ordered, BatchInOrder
    <3>2. \A q \in Range(batch') : q \in Range(batch)
      BY <1>1
    <3>3. \A q \in Range(documents), r \in Range(batch') : depth[q] <= depth[r]
      BY <3>2 DEF IInv, Ordered, BatchInOrder
    <3> QED BY <1>2, <1>7, <2>2, <3>1, <3>3 DEF BatchInOrder
  <2>10. OneLevelAhead'
    <3>1. \A q \in Page : Ahead(q)' => Ahead(q)
      BY <1>1, <1>2, <2>3 DEF Ahead
    <3> QED BY <1>2, <3>1 DEF IInv, Ordered, OneLevelAhead
  <2>11. Route' /\ Reported'
    BY <1>2 DEF IInv, Route, Reported, SuccessHasTask, TasksAreRows, ProcessResult
  <2> QED BY <1>9, <2>4, <2>5, <2>6, <2>7, <2>8, <2>9, <2>10, <2>11 DEF IInv, Ordered
<1>11. CASE Head(fetched) # "ok"
  <2>1. documents' = documents /\ raw' = raw
    BY <1>11 DEF ProcessResult
  <2>2. TypeOK'
    <3>1. Len(documents') + Len(batch') <= MaxPages /\ Len(batch') <= Concurrency
      BY <1>1, <1>4, <2>1, BoundsAssumption DEF IInv, TypeOK
    <3> QED BY <1>2, <1>3, <1>4, <2>1, <3>1 DEF IInv, TypeOK, ProcessResult
  <2>3. Phases'
    BY <1>2, <2>1 DEF IInv, Phases
  <2>4. Once'
    BY <1>1, <1>2, <1>6, <2>1 DEF IInv, Once
  <2>5. Kept'
    BY <1>2, <2>1 DEF IInv, Kept, Wanted
  <2>6. Grounded'
    <3> SUFFICES ASSUME NEW R \in SUBSET Page, Closed(R)' PROVE visited \cup Range(queue) \subseteq R
      BY <1>2 DEF Grounded
    <3>1. Closed(R)
      BY <1>2, <2>1 DEF Closed, Follow
    <3> QED BY <3>1 DEF IInv, Grounded
  <2>7. BatchInOrder'
    <3>1. \A q \in Range(batch') : q \in Range(batch)
      BY <1>1
    <3> QED BY <1>2, <1>7, <2>1, <3>1 DEF IInv, Ordered, BatchInOrder
  <2>8. OneLevelAhead'
    <3>1. \A q \in Page : Ahead(q)' => Ahead(q)
      BY <1>1, <1>2, <2>1 DEF Ahead
    <3> QED BY <1>2, <3>1 DEF IInv, Ordered, OneLevelAhead
  <2>9. Route' /\ Reported'
    BY <1>2 DEF IInv, Route, Reported, SuccessHasTask, TasksAreRows, ProcessResult
  <2> QED BY <1>9, <2>2, <2>3, <2>4, <2>5, <2>6, <2>7, <2>8, <2>9 DEF IInv, Ordered
<1> QED BY <1>10, <1>11

\* A link is looked at: what it leads to stands behind the queue, unless it was
\* fetched or is not to be followed.
LEMMA FollowLinkStep == ASSUME IInv, FollowLink PROVE IInv'
<1> DEFINE s == Head(raw)
           p == Norm[s]
           d == InProcess
<1> USE DEF request, registry
<1>1. /\ s \in Spelling /\ Tail(raw) \in Seq(Spelling) /\ raw' = Tail(raw)
      /\ Range(raw) = {s} \cup Range(Tail(raw)) /\ raw # << >>
  BY Pop DEF IInv, TypeOK, FollowLink
<1>2. /\ phase = "processing" /\ phase' = phase /\ links' = links /\ Root' = Root
      /\ visited' = visited /\ started' = started /\ batch' = batch /\ fetched' = fetched
      /\ documents' = documents /\ InProcess' = d
  BY DEF FollowLink, Root, InProcess
<1>3. /\ documents # << >> /\ Range(raw) \subseteq Range(links[d])
      /\ Len(documents) \in DOMAIN documents /\ DOMAIN documents = 1 .. Len(documents)
      /\ d \in Range(documents) /\ d \in visited
  <2>1. documents # << >> /\ Range(raw) \subseteq Range(links[d])
    BY <1>1 DEF IInv, Phases
  <2>2. Len(documents) \in 1 .. Len(documents) /\ DOMAIN documents = 1 .. Len(documents)
        /\ d \in Range(documents)
    BY <2>1, Members DEF IInv, TypeOK, InProcess
  <2> QED BY <2>1, <2>2 DEF IInv, Once
<1>4. p \in Page /\ p \in Spelling /\ d \in Page /\ s \in Range(links[d])
  BY <1>1, <1>3, Pages, Members DEF IInv, TypeOK
<1>5. visited \subseteq Page /\ Range(queue) \subseteq Page /\ Range(batch) \subseteq Page
      /\ Range(documents) \subseteq Page
  BY Members DEF IInv, Normal, Once, TypeOK
<1>6. Phases' /\ Once'
  BY <1>1, <1>2, <1>3 DEF IInv, Phases, Once
<1>7. Route' /\ Reported'
  BY <1>2 DEF IInv, Route, Reported, SuccessHasTask, TasksAreRows, FollowLink
<1>8. CASE ~Followed(s)
  <2>1. queue' = queue /\ depth' = depth
    BY <1>8 DEF FollowLink
  <2>2. TypeOK' /\ Normal'
    BY <1>1, <1>2, <2>1 DEF IInv, TypeOK, Normal, FollowLink
  <2>3. Wanted(s) => p \in visited
    BY <1>8 DEF Followed, Wanted
  <2>4. Kept'
    BY <1>1, <1>2, <2>1, <2>3 DEF IInv, Kept, Wanted
  <2>5. Grounded'
    <3> SUFFICES ASSUME NEW R \in SUBSET Page, Closed(R)' PROVE visited \cup Range(queue) \subseteq R
      BY <1>2, <2>1 DEF Grounded
    <3>1. Closed(R)
      BY <1>2 DEF Closed, Follow
    <3> QED BY <3>1 DEF IInv, Grounded
  <2>6. RootAsset' /\ FetchedInOrder' /\ QueuedBehind' /\ QueueInOrder' /\ BatchInOrder'
    BY <1>2, <2>1
       DEF IInv, Ordered, RootAsset, FetchedInOrder, QueuedBehind, QueueInOrder, BatchInOrder
  <2>7. OneLevelAhead'
    <3>1. \A q \in Page : Ahead(q)' => Ahead(q)
      BY <1>1, <1>2, <2>1 DEF Ahead
    <3> QED BY <1>2, <2>1, <3>1 DEF IInv, Ordered, OneLevelAhead
  <2> QED BY <1>6, <1>7, <2>2, <2>4, <2>5, <2>6, <2>7 DEF IInv, Ordered
<1>9. CASE Followed(s)
  <2>1. /\ queue' = Append(queue, p)
        /\ depth' = IF p \in Range(queue) THEN depth ELSE [depth EXCEPT ![p] = depth[d] + 1]
        /\ p \notin visited /\ p \notin Asset /\ Wanted(s)
    BY <1>9 DEF FollowLink, Followed, Queued, Enqueue, Wanted, InProcess
  <2>2. /\ queue' \in Seq(Page) /\ Len(queue') = Len(queue) + 1 /\ Len(queue) \in Nat
        /\ DOMAIN queue = 1 .. Len(queue) /\ DOMAIN queue' = 1 .. Len(queue) + 1
        /\ \A i \in 1 .. Len(queue) : queue'[i] = queue[i]
        /\ queue'[Len(queue) + 1] = p /\ Range(queue') = Range(queue) \cup {p}
    BY <1>4, <2>1, Push DEF IInv, Normal
  <2>3. depth \in [Page -> Nat]
    BY DEF IInv, TypeOK
  <2>4. /\ depth' \in [Page -> Nat]
        /\ \A q \in Page : q # p \/ q \in Range(queue) => depth'[q] = depth[q]
        /\ p \notin Range(queue) => depth'[p] = depth[d] + 1
    BY <1>4, <2>1, <2>3
  <2>5. /\ \A q \in visited \cup Range(queue) \cup Range(batch) \cup Range(documents) :
             q \in Page /\ depth'[q] = depth[q]
        /\ p \notin Range(batch) /\ p \notin Range(documents) /\ p # d
    BY <1>3, <1>5, <2>1, <2>4 DEF IInv, Once
  <2>6. TypeOK' /\ Normal'
    <3>1. queue' \in Seq(Spelling)
      BY <2>2, SeqOfPages
    <3> QED BY <1>1, <1>2, <2>2, <2>4, <3>1 DEF IInv, TypeOK, Normal, FollowLink
  <2>7. Kept'
    BY <1>1, <1>2, <2>2 DEF IInv, Kept, Wanted
  <2>8. Grounded'
    <3> SUFFICES ASSUME NEW R \in SUBSET Page, Closed(R)' PROVE visited \cup Range(queue) \cup {p} \subseteq R
      BY <1>2, <2>2 DEF Grounded
    <3>1. Closed(R)
      BY <1>2 DEF Closed, Follow
    <3>2. visited \cup Range(queue) \subseteq R
      BY <3>1 DEF IInv, Grounded
    <3>3. Follow(d) \subseteq R
      BY <1>3, <3>1, <3>2 DEF Closed
    <3>4. p \in Follow(d)
      BY <1>4, <2>1, FollowMeansWanted
    <3> QED BY <3>2, <3>3, <3>4
  <2>9. Ordered'
    <3>1. RootAsset'
      BY <1>3, <2>1, <2>2 DEF IInv, Ordered, RootAsset
    <3>2. FetchedInOrder'
      <4>1. \A i \in DOMAIN started : started[i] \in visited
        BY DEF IInv, Once, Range
      <4> QED BY <1>2, <2>5, <4>1 DEF IInv, Ordered, FetchedInOrder
    <3>3. BatchInOrder'
      <4>1. \A i \in DOMAIN batch : batch[i] \in Range(batch)
        BY DEF Range
      <4> QED BY <1>2, <2>5, <4>1 DEF IInv, Ordered, BatchInOrder
    <3>4. Ahead(d) /\ \A q \in visited \cup Range(queue) : depth[q] <= depth[d] + 1
      BY <1>1, <1>4 DEF IInv, Ordered, OneLevelAhead, Ahead
    <3>5. p \notin Range(queue) => \A q \in visited \cup Range(queue) : depth'[q] <= depth'[p]
      BY <2>4, <2>5, <3>4
    <3>6. QueuedBehind'
      BY <1>2, <2>1, <2>2, <2>5, <3>5 DEF IInv, Ordered, QueuedBehind
    <3>7. \A i \in 1 .. Len(queue) : queue[i] \in Range(queue)
      BY <2>2 DEF Range
    <3>8. QueueInOrder'
      <4> SUFFICES ASSUME NEW i \in DOMAIN queue', NEW j \in DOMAIN queue', i < j,
                          queue'[j] \notin visited', ~(depth'[queue'[i]] <= depth'[queue'[j]])
                   PROVE  \E k \in 1 .. i - 1 : queue'[k] = queue'[j]
        BY DEF QueueInOrder
      <4>1. /\ i \in 1 .. Len(queue) /\ j \in 1 .. Len(queue) + 1 /\ queue'[i] = queue[i]
            /\ \A k \in 1 .. i - 1 : k \in 1 .. Len(queue) /\ queue'[k] = queue[k]
            /\ depth'[queue'[i]] = depth[queue[i]]
        BY <2>2, <2>5, <3>7
      <4>2. PICK m \in 1 .. Len(queue) : queue[m] = queue'[j]
        <5>1. CASE j \in 1 .. Len(queue)
          BY <2>2, <5>1
        <5>2. CASE j = Len(queue) + 1
          <6>1. p \in Range(queue)
            BY <2>2, <3>5, <3>7, <4>1, <5>2
          <6> QED BY <2>2, <5>2, <6>1 DEF Range
        <5> QED BY <2>2, <4>1, <5>1, <5>2
      <4>3. ~(depth[queue[i]] <= depth[queue[m]]) /\ queue[m] \notin visited
        BY <1>2, <2>5, <3>7, <4>1, <4>2
      <4>4. CASE i < m
        <5>1. PICK k \in 1 .. i - 1 : queue[k] = queue[m]
          BY <2>2, <4>1, <4>3, <4>4 DEF IInv, Ordered, QueueInOrder
        <5> QED BY <4>1, <4>2, <5>1
      <4>5. CASE m < i
        BY <4>1, <4>2, <4>5
      <4>6. i # m
        <5>1. depth[queue[i]] \in Nat
          BY <2>3, <2>5, <3>7, <4>1
        <5> QED BY <4>3, <5>1
      <4> QED BY <4>1, <4>4, <4>5, <4>6
    <3>9. OneLevelAhead'
      <4> SUFFICES ASSUME NEW a \in Page, Ahead(a)', NEW q \in visited \cup Range(queue) \cup {p}
                   PROVE  depth'[q] <= depth'[a] + 1
        BY <1>2, <2>2 DEF OneLevelAhead
      <4>1. CASE p \in Range(queue)
        <5>1. Ahead(a)
          BY <1>1, <1>2, <2>2, <4>1 DEF Ahead
        <5>2. q \in visited \cup Range(queue) /\ a \in visited \cup Range(queue) \cup Range(batch)
          BY <1>3, <4>1, <5>1 DEF Ahead
        <5> QED BY <2>5, <5>1, <5>2 DEF IInv, Ordered, OneLevelAhead
      <4>2. CASE p \notin Range(queue) /\ a = p
        BY <2>3, <2>4, <2>5, <3>5, <4>2
      <4>3. CASE p \notin Range(queue) /\ a # p
        <5>1. Ahead(a) /\ depth'[a] = depth[a]
          BY <1>1, <1>2, <2>2, <2>4, <4>3 DEF Ahead
        <5>2. depth[d] <= depth[a]
          BY <1>3, <1>4, <2>3, <5>1 DEF IInv, Ordered, Ahead, BatchInOrder, QueuedBehind
        <5>3. CASE q = p
          BY <1>4, <2>3, <2>4, <4>3, <5>1, <5>2, <5>3
        <5>4. CASE q # p
          BY <2>5, <5>1, <5>4 DEF IInv, Ordered, OneLevelAhead
        <5> QED BY <5>3, <5>4
      <4> QED BY <4>1, <4>2, <4>3
    <3> QED BY <3>1, <3>2, <3>3, <3>6, <3>8, <3>9 DEF Ordered
  <2> QED BY <1>6, <1>7, <2>6, <2>7, <2>8, <2>9 DEF IInv
<1> QED BY <1>8, <1>9

\* A page arrives, or does not.
LEMMA FetchStep == ASSUME IInv, NEW i \in Ids, Fetch(i) PROVE IInv'
<1> USE DEF request, registry
<1>1. PICK o \in Outcomes : fetched' = [fetched EXCEPT ![i] = o]
  BY DEF Fetch
<1>2. /\ UNCHANGED <<mode, asked, links, phase, queue, visited, batch, raw, documents, started, depth>>
      /\ UNCHANGED <<next, rows, tasks, results, mine, abandoned>>
  BY DEF Fetch
<1>3. fetched' \in Seq({"pending", "ok", "failed"}) /\ Len(fetched') = Len(batch')
  <2>1. o \in {"pending", "ok", "failed"} /\ i \in 1 .. Len(fetched)
    BY DEF Outcomes, IInv, TypeOK, Ids
  <2> QED BY <1>1, <1>2, <2>1, ExceptSeq DEF IInv, TypeOK
<1>4. TypeOK'
  BY <1>2, <1>3 DEF IInv, TypeOK
<1>5. Normal' /\ Phases' /\ Once' /\ Kept'
  BY <1>2 DEF IInv, Normal, Phases, Once, Kept, Wanted, InProcess
<1>6. Grounded'
  BY <1>2 DEF IInv, Grounded, Closed, Follow, Root
<1>7. Ordered'
  BY <1>2 DEF IInv, Ordered, RootAsset, FetchedInOrder, QueuedBehind, QueueInOrder, BatchInOrder,
              OneLevelAhead, Ahead, InProcess
<1>8. Route' /\ Reported'
  BY <1>2 DEF IInv, Route, Reported, SuccessHasTask, TasksAreRows, Accounted
<1> QED BY <1>4, <1>5, <1>6, <1>7, <1>8 DEF IInv

\* What a step that leaves the crawl alone keeps.
LEMMA SameCrawl ==
  ASSUME IInv, UNCHANGED <<request, crawl>>
  PROVE  Normal' /\ Once' /\ Kept' /\ Grounded' /\ Ordered'
<1>1. UNCHANGED <<mode, asked, links, queue, visited, batch, raw, documents, started, depth>>
  BY DEF request, crawl
<1>2. Normal' /\ Once' /\ Kept'
  BY <1>1 DEF IInv, Normal, Once, Kept, Wanted, InProcess
<1>3. Grounded'
  BY <1>1 DEF IInv, Grounded, Closed, Follow, Root
<1>4. Ordered'
  BY <1>1 DEF IInv, Ordered, RootAsset, FetchedInOrder, QueuedBehind, QueueInOrder, BatchInOrder,
              OneLevelAhead, Ahead, InProcess
<1> QED BY <1>2, <1>3, <1>4

\* The steps from one part of the request to the next.
PhaseStep == FetchBatch \/ CrawlEnds \/ Gathered \/ NextBatch \/ CrawlFails \/ Respond

LEMMA PhaseStepStep == ASSUME IInv, PhaseStep PROVE IInv'
<1> USE DEF request, crawl, registry
<1>1. /\ UNCHANGED <<mode, asked, links, queue, visited, batch, fetched, raw, documents, started, depth>>
      /\ UNCHANGED <<next, rows, tasks, results, mine, abandoned>> /\ UNCHANGED <<request, crawl>>
  BY DEF PhaseStep, FetchBatch, CrawlEnds, Gathered, NextBatch, CrawlFails, Respond
<1>2. /\ phase' \in {"batching", "fetching", "processing", "registering", "responded", "aborted"}
      /\ phase' \in {"batching", "fetching", "registering"} => raw = << >>
      /\ phase' # "responded" => phase \in {"batching", "fetching", "processing"}
      /\ phase' = "registering" => queue = << >> \/ Len(documents) >= MaxPages
      /\ phase' = "responded" => \/ phase = "registering" /\ next > Len(documents)
                                 \/ phase = "scraping"
  BY DEF IInv, Phases, PhaseStep, FetchBatch, CrawlEnds, Gathered, NextBatch, CrawlFails, Respond
<1>3. TypeOK'
  BY <1>1, <1>2 DEF IInv, TypeOK
<1>4. Phases'
  BY <1>1, <1>2 DEF IInv, Phases, InProcess
<1>5. Route'
  BY <1>1, <1>2 DEF IInv, Route
<1>6. Reported'
  <2>1. SuccessHasTask' /\ TasksAreRows'
    BY <1>1, <1>2 DEF IInv, Reported, SuccessHasTask, TasksAreRows
  <2>2. phase' \notin {"registering", "responded"} => \A s \in Spelling : results'[s] # "success"
    BY <1>1, <1>2 DEF IInv, Reported
  <2>3. CASE phase' = "registering"
    <3>1. next = 1 /\ mine = {}
      BY <1>2, <2>3 DEF IInv, Route
    <3>2. \A i \in DOMAIN documents : i \in 1 .. Len(documents)
      BY Members DEF IInv, TypeOK
    <3>3. \A i \in DOMAIN documents : Accounted(i)'
      BY <1>1, <3>1, <3>2 DEF Accounted
    <3> QED BY <1>1, <2>1, <2>3, <3>3 DEF Reported
  <2>4. CASE phase' = "responded"
    <3>1. mode = "crawl" => phase = "registering"
      BY <1>2, <2>4 DEF IInv, Route
    <3>2. mode = "crawl" => \A i \in DOMAIN documents : Accounted(i)'
      BY <1>1, <3>1 DEF IInv, Reported, Accounted
    <3> QED BY <1>1, <2>1, <2>4, <3>2 DEF Reported
  <2> QED BY <1>2, <2>1, <2>2, <2>3, <2>4 DEF Reported
<1> QED BY <1>1, <1>3, <1>4, <1>5, <1>6, SameCrawl DEF IInv

-----------------------------------------------------------------------------
(* The registration.                                                        *)

\* A document of a crawl is registered, known or not accepted.
DocumentStep == Duplicate \/ Register \/ RegisterFails

LEMMA DocumentStepStep == ASSUME IInv, DocumentStep PROVE IInv'
<1> DEFINE d == documents[next]
<1> USE DEF request, crawl, registry
<1>1. /\ UNCHANGED <<mode, asked, links, queue, visited, batch, fetched, raw, documents, started, depth>>
      /\ phase = "registering" /\ phase' = phase /\ UNCHANGED <<request, crawl>>
      /\ next <= Len(documents) /\ next' = next + 1 /\ abandoned' = abandoned
  BY DEF DocumentStep, Duplicate, Register, RegisterFails, Reports
<1>2. \/ /\ rows' = rows /\ tasks' = tasks /\ mine' = mine
         /\ \E o \in {"duplicate", "error"} : results' = [results EXCEPT ![d] = o]
      \/ /\ rows[d] = "none" /\ rows' = [rows EXCEPT ![d] = "UPLOADED"] /\ tasks' = Append(tasks, d)
         /\ mine' = mine \cup {d} /\ results' = [results EXCEPT ![d] = "success"]
  BY DEF DocumentStep, Duplicate, Register, RegisterFails, Reports, WithTask
<1>3. DOMAIN documents = 1 .. Len(documents) /\ Len(documents) \in Nat
      /\ \A i \in 1 .. Len(documents) : documents[i] \in Spelling
  BY Members, Pages DEF IInv, TypeOK
<1>4. CASE next \in DOMAIN documents
  <2>1. d \in Spelling
    BY <1>3, <1>4
  <2>2. tasks \in Seq(Spelling) /\ Append(tasks, d) \in Seq(Spelling)
        /\ Range(Append(tasks, d)) = Range(tasks) \cup {d}
    BY <2>1, Push DEF IInv, TypeOK
  <2>3. TypeOK'
    <3>1. tasks' \in Seq(Spelling) /\ mine' \subseteq Spelling /\ next' \in Nat \ {0}
      <4>1. next' \in Nat \ {0}
        BY <1>1 DEF IInv, TypeOK
      <4>2. mine' \subseteq Spelling
        BY <1>2, <2>1 DEF IInv, TypeOK
      <4>3. tasks' \in Seq(Spelling)
        BY <1>2, <2>2
      <4> QED BY <4>1, <4>2, <4>3
    <3>2. results' \in [Spelling -> {"none", "success", "duplicate", "error"}]
      BY <1>2, <2>1 DEF IInv, TypeOK
    <3>3. rows' \in [Spelling -> {"none", "UPLOADED", "PROCESSING", "READY", "FAILED"}]
      BY <1>2, <2>1 DEF IInv, TypeOK
    <3> QED BY <1>1, <3>1, <3>2, <3>3 DEF IInv, TypeOK
  <2>4. Phases' /\ Route'
    BY <1>1 DEF IInv, Phases, InProcess, Route
  <2>5. TasksAreRows'
    <3>1. /\ DOMAIN tasks = 1 .. Len(tasks) /\ DOMAIN Append(tasks, d) = 1 .. Len(tasks) + 1
          /\ Len(tasks) \in Nat /\ Append(tasks, d)[Len(tasks) + 1] = d
          /\ \A i \in 1 .. Len(tasks) : Append(tasks, d)[i] = tasks[i] /\ tasks[i] \in Range(tasks)
      BY <2>1, Push, Members DEF IInv, TypeOK
    <3>2. CASE tasks' = tasks /\ rows' = rows
      BY <1>1, <3>2 DEF IInv, Reported, TasksAreRows
    <3>3. CASE rows[d] = "none" /\ rows' = [rows EXCEPT ![d] = "UPLOADED"] /\ tasks' = Append(tasks, d)
      <4>1. \A s \in Range(tasks) : rows[s] = "UPLOADED" /\ s \in Spelling /\ s # d
        BY <3>3, Members DEF IInv, TypeOK, Reported, TasksAreRows
      <4>2. \A i, j \in DOMAIN tasks' : tasks'[i] = tasks'[j] => i = j
        <5> SUFFICES ASSUME NEW i \in 1 .. Len(tasks) + 1, NEW j \in 1 .. Len(tasks) + 1,
                            Append(tasks, d)[i] = Append(tasks, d)[j], i # j
                     PROVE  FALSE
          BY <3>1, <3>3
        <5>1. CASE i = Len(tasks) + 1
          BY <3>1, <4>1, <5>1
        <5>2. CASE j = Len(tasks) + 1
          BY <3>1, <4>1, <5>2
        <5>3. CASE i \in 1 .. Len(tasks) /\ j \in 1 .. Len(tasks)
          BY <3>1, <5>3 DEF IInv, Reported, TasksAreRows
        <5> QED BY <3>1, <5>1, <5>2, <5>3
      <4>3. abandoned = {}
        BY <1>1 DEF IInv, Reported, TasksAreRows
      <4>4. \A s \in Range(tasks') : rows'[s] = "UPLOADED" /\ s \notin abandoned'
        BY <1>1, <2>1, <2>2, <3>3, <4>1, <4>3 DEF IInv, TypeOK
      <4> QED BY <1>1, <4>2, <4>3, <4>4 DEF TasksAreRows
    <3> QED BY <1>2, <3>2, <3>3
  <2>6. SuccessHasTask'
    <3> SUFFICES ASSUME NEW s \in Spelling, results'[s] = "success"
                 PROVE  \/ s \in Range(tasks') /\ rows'[s] = "UPLOADED"
                        \/ s \in abandoned' /\ rows'[s] \in {"UPLOADED", "PROCESSING"}
                        \/ s \notin Range(tasks') \cup abandoned' /\ rows'[s] \in {"READY", "FAILED"}
      BY DEF SuccessHasTask
    <3>1. CASE s = d
      <4>1. tasks' = Append(tasks, d) /\ rows' = [rows EXCEPT ![d] = "UPLOADED"]
        BY <1>2, <2>1, <3>1 DEF IInv, TypeOK
      <4> QED BY <2>1, <2>2, <3>1, <4>1 DEF IInv, TypeOK
    <3>2. CASE s # d
      <4>1. results[s] = "success" /\ rows'[s] = rows[s] /\ (s \in Range(tasks') <=> s \in Range(tasks))
        BY <1>2, <2>1, <2>2, <3>2 DEF IInv, TypeOK
      <4> QED BY <1>1, <4>1 DEF IInv, Reported, SuccessHasTask
    <3> QED BY <3>1, <3>2
  <2>7. ASSUME mode = "crawl", NEW i \in DOMAIN documents PROVE Accounted(i)'
    <3>1. Accounted(i) /\ Accounted(next) /\ (documents[i] = d => i = next)
      BY <1>1, <1>4, <2>7 DEF IInv, Reported, Once
    <3>2. i \in Nat /\ next \in Nat /\ documents[i] \in Spelling
      BY <1>3, <1>4
    <3>3. CASE i = next
      BY <1>1, <1>2, <2>1, <3>1, <3>2, <3>3 DEF Accounted, IInv, TypeOK
    <3>4. CASE i # next
      <4>1. results'[documents[i]] = results[documents[i]] /\ (documents[i] \in mine' <=> documents[i] \in mine)
        BY <1>2, <2>1, <3>1, <3>2, <3>4 DEF IInv, TypeOK
      <4>2. i < next' <=> i < next
        BY <1>1, <3>2, <3>4
      <4> QED BY <1>1, <3>1, <4>1, <4>2 DEF Accounted
    <3> QED BY <3>3, <3>4
  <2>8. Reported'
    BY <1>1, <2>5, <2>6, <2>7 DEF Reported
  <2> QED BY <1>1, <2>3, <2>4, <2>8, SameCrawl DEF IInv
<1>5. next \in DOMAIN documents
  BY <1>1, <1>3 DEF IInv, TypeOK
<1> QED BY <1>4, <1>5

LEMMA AbortStep == ASSUME IInv, Abort PROVE IInv'
<1> USE DEF request, crawl, registry
<1>1. /\ UNCHANGED <<mode, asked, links, queue, visited, batch, fetched, raw, documents, started, depth>>
      /\ UNCHANGED <<next, rows, mine, abandoned>> /\ UNCHANGED <<request, crawl>> /\ phase' = "aborted"
      /\ tasks' = << >> /\ results' = [s \in Spelling |-> "none"] /\ phase = "registering"
  BY DEF Abort
<1>2. TypeOK'
  BY <1>1, EmptySeq DEF IInv, TypeOK
<1>3. Phases' /\ Route' /\ Reported'
  BY <1>1, NoMembers DEF IInv, Phases, InProcess, Route, Reported, SuccessHasTask, TasksAreRows
<1> QED BY <1>1, <1>2, <1>3, SameCrawl DEF IInv

\* A page asked for is registered, known or not accepted: none is reported as
\* a success.
PageStep == PageFails \/ PageKnown \/ PageRegistered

LEMMA PageStepStep == ASSUME IInv, PageStep PROVE IInv'
<1> DEFINE a == asked[next]
<1> USE DEF request, crawl, registry
<1>1. /\ UNCHANGED <<mode, asked, links, queue, visited, batch, fetched, raw, documents, started, depth>>
      /\ phase = "scraping" /\ phase' = phase /\ UNCHANGED <<request, crawl, tasks, abandoned>>
      /\ next <= Len(asked) /\ next' = next + 1
      /\ \E o \in {"duplicate", "error"} : results' = [results EXCEPT ![a] = o]
  BY DEF PageStep, PageFails, PageKnown, PageRegistered, Reports
<1>2. /\ \/ rows' = rows
         \/ \E o \in {"PROCESSING", "UPLOADED"} : rows' = [rows EXCEPT ![a] = o]
      /\ mine' \in {mine, mine \cup {a}}
  BY DEF PageStep, PageFails, PageKnown, PageRegistered, Reports
<1>3. a \in Spelling /\ next \in Nat \ {0}
  <2>1. next \in Nat \ {0} /\ asked \in Seq(Spelling)
    BY SeedsAssumption DEF IInv, TypeOK
  <2>2. next \in 1 .. Len(asked)
    BY <1>1, <2>1, Members
  <2> QED BY <2>1, <2>2, Members
<1>4. TypeOK'
  <2>1. /\ next' \in Nat \ {0} /\ mine' \subseteq Spelling
        /\ results' \in [Spelling -> {"none", "success", "duplicate", "error"}]
    BY <1>1, <1>2, <1>3 DEF IInv, TypeOK
  <2>2. rows' \in [Spelling -> {"none", "UPLOADED", "PROCESSING", "READY", "FAILED"}]
    BY <1>2, <1>3 DEF IInv, TypeOK
  <2> QED BY <1>1, <2>1, <2>2 DEF IInv, TypeOK
<1>5. Phases' /\ Route'
  BY <1>1 DEF IInv, Phases, InProcess, Route
<1>6. Reported'
  <2>1. tasks = << >> /\ abandoned = {} /\ \A s \in Spelling : results'[s] # "success"
    BY <1>1, <1>3 DEF IInv, TypeOK, Reported, TasksAreRows
  <2> QED BY <1>1, <2>1, NoMembers DEF Reported, SuccessHasTask, TasksAreRows
<1> QED BY <1>1, <1>4, <1>5, <1>6, SameCrawl DEF IInv

-----------------------------------------------------------------------------
(* The jobs.                                                                *)

LEMMA TaskEndsStep == ASSUME IInv, TaskEnds PROVE IInv'
<1> DEFINE h == Head(tasks)
<1> USE DEF request, crawl, registry
<1>1. /\ UNCHANGED <<mode, asked, links, queue, visited, batch, fetched, raw, documents, started, depth>>
      /\ UNCHANGED <<phase, next, results, mine, abandoned>> /\ UNCHANGED <<request, crawl>>
      /\ tasks # << >> /\ tasks' = Tail(tasks) /\ phase = "responded"
      /\ \E o \in {"READY", "FAILED"} : rows' = [rows EXCEPT ![h] = o]
  BY DEF TaskEnds
<1>2. /\ h \in Spelling /\ h = tasks[1] /\ tasks' \in Seq(Spelling)
      /\ Len(tasks) \in Nat \ {0} /\ DOMAIN tasks = 1 .. Len(tasks) /\ DOMAIN tasks' = 1 .. Len(tasks) - 1
      /\ \A i \in 1 .. Len(tasks) - 1 : tasks'[i] = tasks[i + 1]
      /\ Range(tasks) = {h} \cup Range(tasks')
  BY <1>1, Pop DEF IInv, TypeOK
<1>3. TypeOK'
  BY <1>1, <1>2 DEF IInv, TypeOK
<1>4. Phases' /\ Route'
  BY <1>1 DEF IInv, Phases, InProcess, Route
<1>5. h \notin Range(tasks') /\ h \notin abandoned
  <2>1. \A i \in 1 .. Len(tasks) - 1 : tasks'[i] # h
    <3> SUFFICES ASSUME NEW i \in 1 .. Len(tasks) - 1, tasks[i + 1] = tasks[1] PROVE FALSE
      BY <1>2
    <3>1. i + 1 \in 1 .. Len(tasks) /\ 1 \in 1 .. Len(tasks) /\ i + 1 # 1
      BY <1>2
    <3> QED BY <1>2, <3>1 DEF IInv, Reported, TasksAreRows
  <2>2. h \notin Range(tasks')
    BY <1>2, <2>1 DEF Range
  <2> QED BY <1>2, <2>2 DEF IInv, Reported, TasksAreRows
<1>6. TasksAreRows'
  <2>1. \A s \in Range(tasks') : rows'[s] = "UPLOADED" /\ s \notin abandoned'
    <3> SUFFICES ASSUME NEW s \in Range(tasks') PROVE rows'[s] = "UPLOADED" /\ s \notin abandoned
      BY <1>1
    <3>1. s \in Range(tasks) /\ s # h /\ s \in Spelling
      BY <1>2, <1>5, Members
    <3> QED BY <1>1, <1>2, <3>1 DEF IInv, TypeOK, Reported, TasksAreRows
  <2>2. \A i, j \in DOMAIN tasks' : tasks'[i] = tasks'[j] => i = j
    <3> SUFFICES ASSUME NEW i \in 1 .. Len(tasks) - 1, NEW j \in 1 .. Len(tasks) - 1,
                        tasks[i + 1] = tasks[j + 1]
                 PROVE  i = j
      BY <1>2
    <3>1. i + 1 \in 1 .. Len(tasks) /\ j + 1 \in 1 .. Len(tasks)
      BY <1>2
    <3>2. i + 1 = j + 1
      BY <1>2, <3>1 DEF IInv, Reported, TasksAreRows
    <3> QED BY <1>2, <3>2
  <2> QED BY <1>1, <2>1, <2>2 DEF TasksAreRows
<1>7. SuccessHasTask'
  <2> SUFFICES ASSUME NEW s \in Spelling, results[s] = "success"
               PROVE  \/ s \in Range(tasks') /\ rows'[s] = "UPLOADED"
                      \/ s \in abandoned /\ rows'[s] \in {"UPLOADED", "PROCESSING"}
                      \/ s \notin Range(tasks') \cup abandoned /\ rows'[s] \in {"READY", "FAILED"}
    BY <1>1 DEF SuccessHasTask
  <2>1. CASE s = h
    BY <1>1, <1>2, <1>5, <2>1 DEF IInv, TypeOK
  <2>2. CASE s # h
    <3>1. rows'[s] = rows[s] /\ (s \in Range(tasks') <=> s \in Range(tasks))
      BY <1>1, <1>2, <2>2 DEF IInv, TypeOK
    <3> QED BY <3>1 DEF IInv, Reported, SuccessHasTask
  <2> QED BY <2>1, <2>2
<1>8. Reported'
  BY <1>1, <1>6, <1>7 DEF IInv, Reported, Accounted
<1> QED BY <1>1, <1>3, <1>4, <1>8, SameCrawl DEF IInv

\* No task is left, and those there were are abandoned.
LEMMA TaskRaisesStep == ASSUME IInv, TaskRaises PROVE IInv'
<1> DEFINE h == Head(tasks)
<1> USE DEF request, crawl, registry
<1>1. /\ UNCHANGED <<mode, asked, links, queue, visited, batch, fetched, raw, documents, started, depth>>
      /\ UNCHANGED <<phase, next, results, mine>> /\ UNCHANGED <<request, crawl>>
      /\ tasks # << >> /\ tasks' = << >> /\ phase = "responded"
      /\ abandoned' = abandoned \cup Range(tasks)
      /\ \E o \in {"UPLOADED", "PROCESSING"} : rows' = [rows EXCEPT ![h] = o]
  BY DEF TaskRaises
<1>2. h \in Range(tasks) /\ h \in Spelling /\ Range(tasks) \subseteq Spelling
  BY <1>1, Pop, Members DEF IInv, TypeOK
<1>3. TypeOK'
  <2>1. tasks' \in Seq(Spelling) /\ abandoned' \subseteq Spelling
    BY <1>1, <1>2, EmptySeq DEF IInv, TypeOK
  <2>2. rows' \in [Spelling -> {"none", "UPLOADED", "PROCESSING", "READY", "FAILED"}]
    BY <1>1, <1>2 DEF IInv, TypeOK
  <2> QED BY <1>1, <2>1, <2>2 DEF IInv, TypeOK
<1>4. Phases' /\ Route'
  BY <1>1 DEF IInv, Phases, InProcess, Route
<1>5. TasksAreRows'
  BY <1>1, NoMembers DEF TasksAreRows
<1>6. SuccessHasTask'
  <2> SUFFICES ASSUME NEW s \in Spelling, results[s] = "success"
               PROVE  \/ s \in abandoned' /\ rows'[s] \in {"UPLOADED", "PROCESSING"}
                      \/ s \notin abandoned' /\ rows'[s] \in {"READY", "FAILED"}
    BY <1>1, NoMembers DEF SuccessHasTask
  <2>1. CASE s \in Range(tasks)
    BY <1>1, <1>2, <2>1 DEF IInv, TypeOK, Reported, TasksAreRows
  <2>2. CASE s \notin Range(tasks)
    <3>1. rows'[s] = rows[s] /\ (s \in abandoned' <=> s \in abandoned)
      BY <1>1, <1>2, <2>2 DEF IInv, TypeOK
    <3> QED BY <2>2, <3>1 DEF IInv, Reported, SuccessHasTask
  <2> QED BY <2>1, <2>2
<1>7. Reported'
  BY <1>1, <1>5, <1>6 DEF IInv, Reported, Accounted
<1> QED BY <1>1, <1>3, <1>4, <1>7, SameCrawl DEF IInv

LEMMA OthersRegisterStep == ASSUME IInv, NEW s \in Spelling, OthersRegister(s) PROVE IInv'
<1> USE DEF request, crawl, registry
<1>1. /\ UNCHANGED <<mode, asked, links, queue, visited, batch, fetched, raw, documents, started, depth>>
      /\ UNCHANGED <<phase, next, tasks, results, mine, abandoned>> /\ UNCHANGED <<request, crawl>>
      /\ phase \in {"fetching", "scraping"}
      /\ \E o \in {"READY", "FAILED"} : rows' = [rows EXCEPT ![s] = o]
  BY DEF OthersRegister
<1>2. TypeOK'
  BY <1>1 DEF IInv, TypeOK
<1>3. Phases' /\ Route' /\ Reported'
  BY <1>1, NoMembers DEF IInv, Phases, InProcess, Route, Reported, SuccessHasTask, TasksAreRows
<1> QED BY <1>1, <1>2, <1>3, SameCrawl DEF IInv

LEMMA StutterStep == ASSUME IInv, UNCHANGED vars PROVE IInv'
<1>1. /\ UNCHANGED <<mode, asked, links, phase, queue, visited, batch, fetched, raw, documents, started, depth>>
      /\ UNCHANGED <<next, rows, tasks, results, mine, abandoned>> /\ UNCHANGED <<request, crawl>>
  BY DEF vars, request, crawl, registry
<1>2. TypeOK' /\ Phases' /\ Route' /\ Reported'
  BY <1>1 DEF IInv, TypeOK, Phases, InProcess, Route, Reported, SuccessHasTask, TasksAreRows, Accounted
<1> QED BY <1>1, <1>2, SameCrawl DEF IInv

\* Every step keeps the invariant.
LEMMA NextStep == ASSUME IInv, [Next]_vars PROVE IInv'
<1>1. ASSUME NEW i \in Ids, Fetch(i) PROVE IInv'
  BY <1>1, FetchStep
<1>2. ASSUME NEW s \in Spelling, OthersRegister(s) PROVE IInv'
  BY <1>2, OthersRegisterStep
<1>3. CASE PhaseStep
  BY <1>3, PhaseStepStep
<1>4. CASE DocumentStep
  BY <1>4, DocumentStepStep
<1>5. CASE PageStep
  BY <1>5, PageStepStep
<1>6. CASE TakeUrl \/ ProcessResult \/ FollowLink \/ Abort \/ RunTask \/ UNCHANGED vars
  BY <1>6, TakeUrlStep, ProcessResultStep, FollowLinkStep, AbortStep, TaskEndsStep,
     TaskRaisesStep, StutterStep DEF RunTask
<1> QED BY <1>1, <1>2, <1>3, <1>4, <1>5, <1>6
        DEF Next, RequestStep, PhaseStep, DocumentStep, PageStep

-----------------------------------------------------------------------------
(* The theorems.                                                            *)

\* The invariant of the crawl and of its registration holds in every state.
THEOREM Invariance == Spec => []IInv
BY InitInv, NextStep, PTL DEF Spec

\* Every variable has its type, and a crawl never holds more pages than were
\* asked for, those of the batch included (the slots of _scrape_website_impl).
THEOREM TypeCorrect == Spec => []TypeOK
BY Invariance, PTL DEF IInv

\* No page is fetched twice, however often and in whatever spelling it is
\* linked: the visited set and the normalisation together.
THEOREM FetchedOnce == Spec => []NoPageFetchedTwice
<1>1. ASSUME IInv PROVE NoPageFetchedTwice
  <2>1. \A i \in DOMAIN started : Norm[started[i]] = started[i]
    BY <1>1, Members, Pages DEF IInv, Normal
  <2> QED BY <1>1, <2>1 DEF NoPageFetchedTwice, IInv, Once
<1> QED BY <1>1, Invariance, PTL

\* A crawl that ends below its limit has fetched everything that is to be
\* followed from the pages it scraped, whatever failed.
THEOREM CompleteCorrect == Spec => []CrawlIsComplete
<1>1. ASSUME IInv PROVE CrawlIsComplete
  <2> SUFFICES ASSUME phase = "registering", Len(documents) < MaxPages,
                      NEW i \in DOMAIN documents, NEW p \in Follow(documents[i])
               PROVE  p \in Range(started)
    BY DEF CrawlIsComplete
  <2>1. Len(documents) \in Nat
    BY <1>1, Members DEF IInv, TypeOK
  <2>2. raw = << >> /\ queue = << >>
    BY <1>1, <2>1, BoundsAssumption DEF IInv, Phases
  <2>3. \E s \in Range(links[documents[i]]) : Wanted(s) /\ p = Norm[s]
    BY DEF Follow, Wanted
  <2> QED BY <1>1, <2>2, <2>3, NoMembers DEF IInv, Kept, Once
<1> QED BY <1>1, Invariance, PTL

\* "Keeps BFS ordering": pages are fetched level by level, although a batch
\* straddles levels, pages fail and a page may stand in the queue twice.
THEOREM BreadthFirstCorrect == Spec => []BreadthFirst
BY Invariance, PTL DEF IInv, Ordered, FetchedInOrder, BreadthFirst

\* Nothing is fetched but the root and what is to be followed from the pages
\* scraped: an asset, another domain or an unsafe target never is.
THEOREM LinkedOnly == Spec => []OnlyLinkedPages
<1>1. IInv => OnlyLinkedPages
  BY DEF IInv, Grounded, Once, OnlyLinkedPages
<1> QED BY <1>1, Invariance, PTL

\* The response of a crawl reports every document, and as successes exactly
\* the rows that this request registered.
THEOREM ReportCorrect == Spec => []SuccessIsMine
<1>1. ASSUME IInv PROVE SuccessIsMine
  <2> SUFFICES ASSUME phase = "responded", mode = "crawl", NEW i \in DOMAIN documents
               PROVE  /\ results[documents[i]] # "none"
                      /\ results[documents[i]] = "success" <=> documents[i] \in mine
    BY DEF SuccessIsMine, Range
  <2>1. i < next
    BY <1>1, Members DEF IInv, TypeOK, Route
  <2> QED BY <1>1, <2>1 DEF IInv, Reported, Accounted
<1> QED BY <1>1, Invariance, PTL

\* A page reported as a success has its job still to come and a row that waits
\* for it, or had its job and is READY or FAILED; only where a job raised are
\* its row and those behind it stuck (add_task for each page, Starlette's list
\* of tasks, and process_web_document's two calls of set_status that may raise).
THEOREM TaskCorrect == Spec => []SuccessHasTask
BY Invariance, PTL DEF IInv, Reported
=============================================================================
