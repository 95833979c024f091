------------------------------ MODULE SiteScrape ------------------------------
(***************************************************************************)
(* POST /web/scrape: a site is crawled breadth first, in batches of pages    *)
(* fetched in parallel, and every page becomes a row and a background job;   *)
(* or up to ten given pages are scraped one after the other.                *)
(*                                                                         *)
(* A page is its normalised URL; its other spellings (a trailing slash, a    *)
(* fragment) are members of Spelling, which links and requests use.  The     *)
(* request awaits only while pages are fetched: there other requests and     *)
(* jobs act.  The registration of a crawl is not interleaved.  What a job    *)
(* does with a page is in DocumentLifecycle.                                *)
(***************************************************************************)
EXTENDS Naturals, Sequences, Functions

CONSTANTS Spelling,        \* URLs as they are written
          Norm,            \* _normalize_url: [Spelling -> Spelling]
          Seeds,           \* what is asked for: sequences of spellings
          Sites,           \* what the pages link to: [Spelling -> Seq(Spelling)]
          OffDomain,       \* netloc other than the root's
          Unsafe,          \* is_safe_scrape_target is false
          Asset,           \* _should_skip_url
          MaxPages,        \* body.max_pages
          Concurrency,     \* _DEFAULT_CRAWL_CONCURRENCY
          SameDomainOnly,  \* body.same_domain_only
          Modes,           \* "crawl" (full_site) and "pages"
          Faults

Page == {Norm[s] : s \in Spelling}

ASSUME NormAssumption == Norm \in [Spelling -> Spelling] /\ \A p \in Page : Norm[p] = p
ASSUME SeedsAssumption == Seeds \subseteq Seq(Spelling) /\ << >> \notin Seeds
ASSUME SitesAssumption == Sites \subseteq [Spelling -> Seq(Spelling)]
ASSUME ClassesAssumption == OffDomain \cup Unsafe \cup Asset \subseteq Spelling
ASSUME BoundsAssumption == MaxPages \in Nat \ {0} /\ Concurrency \in Nat \ {0}
ASSUME FlagsAssumption == SameDomainOnly \in BOOLEAN /\ Modes \subseteq {"crawl", "pages"}
ASSUME FaultsAssumption == Faults \subseteq {"fetchFails", "databaseFails", "jobFails", "others"}

VARIABLES
  mode, asked, links,  \* the request and the site: never change
  phase,      \* where the request is
  queue,      \* the frontier
  visited,
  batch,      \* pages to be fetched together, then those whose result is still to be processed
  fetched,    \* what came of them: "pending", "ok" or "failed"
  raw,        \* raw_links of the page being processed that were not looked at yet
  documents,  \* pages scraped, in order
  next,       \* the next document, or asked URL, to register
  rows,       \* status of the documents row of a URL (its hash is that of the URL)
  tasks,      \* BackgroundTasks of the response
  results,    \* status reported for a URL
  started,    \* every page ever fetched, in order (history)
  depth,      \* links from the root to a page when it was queued first (history)
  mine,       \* rows this request registered (history)
  abandoned   \* pages whose task raised, or was behind one that did (history)

request == <<mode, asked, links>>
crawl == <<queue, visited, batch, fetched, raw, documents, started, depth>>
registry == <<next, rows, tasks, results, mine, abandoned>>
vars == <<request, phase, crawl, registry>>

Fault(f) == f \in Faults
Root == Norm[asked[1]]
Ids == 1 .. Len(batch)

Init ==
  /\ mode \in Modes /\ asked \in Seeds /\ links \in Sites
  /\ mode = "crawl" => Len(asked) = 1
  /\ phase = IF mode = "crawl" /\ asked[1] \in Unsafe THEN "responded"
             ELSE IF mode = "crawl" THEN "batching" ELSE "scraping"
  /\ queue = IF mode = "crawl" THEN <<Root>> ELSE << >>
  /\ visited = {} /\ batch = << >> /\ fetched = << >> /\ raw = << >> /\ documents = << >>
  /\ next = 1
  /\ rows = [s \in Spelling |-> "none"]
  /\ tasks = << >> /\ results = [s \in Spelling |-> "none"]
  /\ started = << >> /\ mine = {} /\ abandoned = {}
  /\ depth = [p \in Page |-> 0]

-----------------------------------------------------------------------------
(* _scrape_website_impl.                                                    *)

\* The inner loop takes URLs from the queue until the batch is full: not more
\* than the pages still wanted.  (Slip: Concurrency alone.)
AnySlot == Concurrency
Slots == IF MaxPages - Len(documents) < Concurrency THEN MaxPages - Len(documents) ELSE Concurrency

\* A candidate is taken once.  (Slip: what is queued twice is taken twice.)
AnyCandidate(s) == s \notin Asset
Taken(s) == s \notin visited /\ s \notin Asset

TakeUrl ==
  /\ phase = "batching" /\ queue # << >> /\ Len(batch) < Slots
  /\ queue' = Tail(queue)
  /\ IF Taken(Head(queue))
     THEN /\ visited' = visited \cup {Head(queue)}
          /\ batch' = Append(batch, Head(queue)) /\ fetched' = Append(fetched, "pending")
          /\ started' = Append(started, Head(queue))
     ELSE UNCHANGED <<visited, batch, fetched, started>>
  /\ UNCHANGED <<request, phase, raw, documents, depth, registry>>

FetchBatch ==
  /\ phase = "batching" /\ batch # << >> /\ (queue = << >> \/ Len(batch) >= Slots)
  /\ phase' = "fetching"
  /\ UNCHANGED <<request, crawl, registry>>

\* No page is left or wanted; a crawl without any is a 404.
CrawlEnds ==
  /\ phase = "batching" /\ batch = << >> /\ (queue = << >> \/ Len(documents) >= MaxPages)
  /\ phase' = IF documents = << >> THEN "aborted" ELSE "registering"
  /\ UNCHANGED <<request, crawl, registry>>

\* A page, or what the browser, the guard of its requests or an empty text say.
Outcomes == {"ok"} \cup (IF Fault("fetchFails") THEN {"failed"} ELSE {})

\* The pages of a batch arrive in any order, and an exception in a page is a
\* result.  A page that turns out to be empty counts as failed: neither gives a
\* document, nor are its links followed.
Fetch(i) ==
  /\ phase = "fetching" /\ i \in Ids /\ fetched[i] = "pending"
  /\ \E o \in Outcomes : fetched' = [fetched EXCEPT ![i] = o]
  /\ UNCHANGED <<request, phase, queue, visited, batch, raw, documents, started, depth, registry>>

\* gather waits for all of them.
Gathered ==
  /\ phase = "fetching" /\ \A i \in Ids : fetched[i] # "pending"
  /\ phase' = "processing"
  /\ UNCHANGED <<request, crawl, registry>>

\* Results are processed in the order of the batch.
ProcessResult ==
  /\ phase = "processing" /\ raw = << >> /\ batch # << >>
  /\ IF Head(fetched) = "ok"
     THEN documents' = Append(documents, Head(batch)) /\ raw' = links[Head(batch)]
     ELSE UNCHANGED <<documents, raw>>
  /\ batch' = Tail(batch) /\ fetched' = Tail(fetched)
  /\ UNCHANGED <<request, phase, queue, visited, started, depth, registry>>

\* What a link must be to be queued.
Followed(s) == /\ Norm[s] \notin visited /\ Norm[s] \notin Asset
               /\ SameDomainOnly => Norm[s] \notin OffDomain
               /\ Norm[s] \notin Unsafe

\* What is queued for a link.  (Slip: the link as it is written.)
AsWritten(s) == s
Queued(s) == Norm[s]

\* queue.append.  (Slip: appendleft.)
AtTheFront(p) == <<p>> \o queue
Enqueue(p) == Append(queue, p)

\* The next link of the page whose result is being processed.
FollowLink ==
  /\ phase = "processing" /\ raw # << >>
  /\ raw' = Tail(raw)
  /\ LET p == Queued(Head(raw))
     IN IF Followed(Head(raw))
        THEN /\ queue' = Enqueue(p)
             /\ depth' = IF p \in Range(queue) THEN depth
                         ELSE [depth EXCEPT ![p] = depth[documents[Len(documents)]] + 1]
        ELSE UNCHANGED <<queue, depth>>
  /\ UNCHANGED <<request, phase, visited, batch, fetched, documents, started, registry>>

NextBatch ==
  /\ phase = "processing" /\ raw = << >> /\ batch = << >>
  /\ phase' = "batching"
  /\ UNCHANGED <<request, crawl, registry>>

\* Launching the browser, opening a tab, parsing a link, or making a document
\* for another reason than an empty text, fails the crawl: a 500.
CrawlFails ==
  /\ Fault("fetchFails")
  /\ phase \in {"fetching", "processing"} \/ (phase = "batching" /\ visited = {})
  /\ phase' = "aborted"
  /\ UNCHANGED <<request, crawl, registry>>

-----------------------------------------------------------------------------
(* scrape, full_site: check_duplicate, register_document and add_task, for   *)
(* each page.                                                               *)

Reports(s, status) == results' = [results EXCEPT ![s] = status] /\ next' = next + 1

Duplicate ==
  /\ phase = "registering" /\ next <= Len(documents)
  /\ rows[documents[next]] # "none"
  /\ Reports(documents[next], "duplicate")
  /\ UNCHANGED <<request, phase, crawl, rows, tasks, mine, abandoned>>

\* background_tasks.add_task.  (Slip: only for the first page.)
FirstTaskOnly(d) == IF tasks = << >> THEN <<d>> ELSE tasks
WithTask(d) == Append(tasks, d)

Register ==
  /\ phase = "registering" /\ next <= Len(documents)
  /\ LET d == documents[next] IN
       /\ rows[d] = "none"
       /\ rows' = [rows EXCEPT ![d] = "UPLOADED"]
       /\ tasks' = WithTask(d) /\ mine' = mine \cup {d}
       /\ Reports(d, "success")
  /\ UNCHANGED <<request, phase, crawl, abandoned>>

RegisterFails ==
  /\ Fault("databaseFails") /\ phase = "registering" /\ next <= Len(documents)
  /\ rows[documents[next]] = "none"
  /\ Reports(documents[next], "error")
  /\ UNCHANGED <<request, phase, crawl, rows, tasks, mine, abandoned>>

\* check_duplicate is outside of the try: the request ends in a 500, and with
\* it the tasks it has added.
Abort ==
  /\ Fault("databaseFails") /\ phase = "registering" /\ next <= Len(documents)
  /\ phase' = "aborted" /\ tasks' = << >>
  /\ results' = [s \in Spelling |-> "none"]
  /\ UNCHANGED <<request, crawl, next, rows, mine, abandoned>>

Respond ==
  /\ \/ phase = "registering" /\ next > Len(documents)
     \/ phase = "scraping" /\ next > Len(asked)
  /\ phase' = "responded"
  /\ UNCHANGED <<request, crawl, registry>>

-----------------------------------------------------------------------------
(* scrape of single pages: _register_and_schedule.                          *)

\* Blocked, not fetched, or the database fails: the next page is tried.
PageFails ==
  /\ phase = "scraping" /\ next <= Len(asked)
  /\ asked[next] \in Unsafe \/ "failed" \in Outcomes \/ Fault("databaseFails")
  /\ Reports(asked[next], "error")
  /\ UNCHANGED <<request, phase, crawl, rows, tasks, mine, abandoned>>

\* The URL has a row.  If it FAILED the row is set to PROCESSING, and naming the
\* caption_images of a body that is not in scope fails the rest.
PageKnown ==
  /\ phase = "scraping" /\ next <= Len(asked) /\ asked[next] \notin Unsafe
  /\ rows[asked[next]] # "none"
  /\ IF rows[asked[next]] = "FAILED"
     THEN rows' = [rows EXCEPT ![asked[next]] = "PROCESSING"] /\ Reports(asked[next], "error")
     ELSE Reports(asked[next], "duplicate") /\ UNCHANGED rows
  /\ UNCHANGED <<request, phase, crawl, tasks, mine, abandoned>>

\* A new row, and the same NameError where its task is built.
PageRegistered ==
  /\ phase = "scraping" /\ next <= Len(asked) /\ asked[next] \notin Unsafe
  /\ rows[asked[next]] = "none"
  /\ rows' = [rows EXCEPT ![asked[next]] = "UPLOADED"]
  /\ mine' = mine \cup {asked[next]}
  /\ Reports(asked[next], "error")
  /\ UNCHANGED <<request, phase, crawl, tasks, abandoned>>

-----------------------------------------------------------------------------
(* process_web_document: the tasks run one after the other once the response *)
(* is sent.                                                                 *)

TaskEnds ==
  /\ phase = "responded" /\ tasks # << >>
  /\ \E o \in {"READY"} \cup (IF Fault("jobFails") THEN {"FAILED"} ELSE {}) :
       rows' = [rows EXCEPT ![Head(tasks)] = o]
  /\ tasks' = Tail(tasks)
  /\ UNCHANGED <<request, phase, crawl, next, results, mine, abandoned>>

\* Setting PROCESSING is outside of the try, and setting FAILED is in its except:
\* either may raise, and no task behind it runs.
TaskRaises ==
  /\ Fault("databaseFails") /\ phase = "responded" /\ tasks # << >>
  /\ \E o \in {"UPLOADED", "PROCESSING"} : rows' = [rows EXCEPT ![Head(tasks)] = o]
  /\ abandoned' = abandoned \cup Range(tasks) /\ tasks' = << >>
  /\ UNCHANGED <<request, phase, crawl, next, results, mine>>

RunTask == TaskEnds \/ TaskRaises

\* Another request registers a page while this one awaits the browser, and
\* its job ends.  Bound: one page, that this request meets.
OthersRegister(s) ==
  /\ Fault("others") /\ phase \in {"fetching", "scraping"}
  /\ \A t \in Spelling : rows[t] = "none" \/ t \in mine
  /\ s \in (visited \cup Range(asked)) \ mine
  /\ \E o \in {"READY", "FAILED"} : rows' = [rows EXCEPT ![s] = o]
  /\ UNCHANGED <<request, phase, crawl, next, tasks, results, mine, abandoned>>

RequestStep == \/ TakeUrl \/ FetchBatch \/ CrawlEnds \/ (\E i \in Ids : Fetch(i)) \/ Gathered
               \/ ProcessResult \/ FollowLink \/ NextBatch \/ CrawlFails
               \/ Duplicate \/ Register \/ RegisterFails \/ Abort \/ Respond
               \/ PageFails \/ PageKnown \/ PageRegistered

Next == RequestStep \/ RunTask \/ \E s \in Spelling : OthersRegister(s)

Spec == Init /\ [][Next]_vars

\* Every fetch has a timeout, the handler runs to its response, and the
\* application runs the tasks of a response it sent.
FairSpec == Spec /\ WF_vars(RequestStep) /\ WF_vars(RunTask)

-----------------------------------------------------------------------------
(* Properties.                                                              *)

\* Every variable has its type; a crawl never holds more pages than were asked
\* for, those being fetched included.
TypeOK ==
  /\ mode \in Modes /\ asked \in Seeds /\ links \in Sites
  /\ phase \in {"batching", "fetching", "processing", "registering", "scraping", "aborted", "responded"}
  /\ queue \in Seq(Spelling) /\ visited \subseteq Spelling
  /\ batch \in Seq(Spelling) /\ Len(batch) <= Concurrency
  /\ fetched \in Seq({"pending", "ok", "failed"}) /\ Len(fetched) = Len(batch)
  /\ raw \in Seq(Spelling) /\ documents \in Seq(Page) /\ Len(documents) + Len(batch) <= MaxPages
  /\ next \in Nat \ {0} /\ mine \subseteq Spelling /\ abandoned \subseteq Spelling
  /\ rows \in [Spelling -> {"none", "UPLOADED", "PROCESSING", "READY", "FAILED"}]
  /\ tasks \in Seq(Spelling) /\ started \in Seq(Spelling) /\ depth \in [Page -> Nat]
  /\ results \in [Spelling -> {"none", "success", "duplicate", "error"}]

\* No page is fetched twice, however often and in whatever spelling it is
\* linked, and nothing that was queued twice is.
NoPageFetchedTwice == \A i, j \in DOMAIN started : Norm[started[i]] = Norm[started[j]] => i = j

\* What a crawl is to follow from a page.
Follow(p) == {Norm[s] : s \in {l \in Range(links[p]) : /\ Norm[l] \notin Asset \cup Unsafe
                                                       /\ SameDomainOnly => Norm[l] \notin OffDomain}}

\* A crawl that ends below its limit has fetched everything that can be reached
\* from the root over the pages it scraped.
CrawlIsComplete ==
  mode = "crawl" /\ phase = "registering" /\ Len(documents) < MaxPages =>
    \A i \in DOMAIN documents : Follow(documents[i]) \subseteq Range(started)

\* "Keeps BFS ordering": pages are fetched level by level although batches
\* straddle levels and pages fail: none before one that is fewer links away.
BreadthFirst == \A i, j \in DOMAIN started : i < j => depth[started[i]] <= depth[started[j]]

\* What the response calls a success is ingested: its row becomes READY or
\* FAILED, unless a task of this response that was not behind it raised.
SuccessIsIngested ==
  \A s \in Spelling : (phase = "responded" /\ results[s] = "success")
                      ~> rows[s] \in {"READY", "FAILED"} \/ s \in abandoned

-----------------------------------------------------------------------------
(* What the documentation says and the code does not do.                    *)

\* "Single page / batch / full-site crawl. Registers inline, ingests in the
\* background": a row the request registered has a job to come.
RegisteredHasTask ==
  phase = "responded" => \A s \in mine : rows[s] = "UPLOADED" => s \in Range(tasks)
=============================================================================
