# AvabodhAI: a verification project in TLA+

AvabodhAI is a document-intelligence backend: a FastAPI service that ingests
documents and web pages into a vector store (Qdrant), answers questions about
them in chat threads, and keeps its registry in PostgreSQL, with the originals
on local disk or in an S3 bucket; a second, smaller service answers from a
knowledge base of its own. These modules state what its stateful parts promise,
model-check them with TLC on small instances, and prove the most important
promises for every instance with TLAPS.

Checking one run: `tlc -workers 2 -config ChatMemory_overlap.cfg MCChatMemory`.
Checking the proofs of a module: `tlapm RetrievalProofs.tla`.
`PROJECT.json` holds the runs, the mutants that show that every property can
fail, the source lines behind every definition, the hazards and the findings.

## 1. Inventory

Line references are to the repository's files under `src/`.

| Component | State it keeps | Operations | Hard because |
|---|---|---|---|
| **Rolling memory of a chat thread** (`pipeline/chat_storage.py`, `pipeline/memory.py`, `api/routes/chat.py`) | `chat_threads` row (`rolling_summary`, `rolling_summary_through`, `message_count`), `chat_messages`, points in `avabodh_chat_messages`, per-process `_THREAD_UPDATE_LOCKS` | `send_message`, `load_memory_from_db`, `save_*_message`, `increment_message_count`, `update_rolling_summary` (background), `delete_thread` | turns and jobs overlap, in one process and in several; the cut is read in one transaction and used in others; the lock is per process; messages are deleted under a running turn |
| **Document lifecycle and ingestion** (`pipeline/ingest.py`, `pipeline/storage.py`, `api/routes/documents.py`, `pipeline/object_store.py`, `pipeline/webhook.py`) | `documents` row, `UPLOAD_DIR` files, S3 objects, temporary downloads, `avabodh_chunks`, `avabodh_doc_summaries`, what Core was told | upload, `register_document`, `process_document`, `process_web_document`, reprocess, delete, `set_status` + webhook | five stores and no transaction across them; every call may fail; retries; a job may overlap with another, with a delete, with a crash |
| **Startup recovery** (`db/database.py`, `main.py`, `cli.py`) | the same rows and files | `init_db` (backfill and `mark_interrupted_jobs`), `sweep_orphaned_uploads` | runs on whatever a crash left; the CLI runs the first half beside a live server |
| **Images of a document** (`pipeline/image_processor.py`, `pipeline/ingest.py`) | role=image points, `image_count`, hashes shared by documents | selection, dedup, captioning, upsert, `image_chunk_offset`, `set_image_count` | dedup across documents that come and go, ids built from an offset that assumes success |
| **Web scraping** (`pipeline/scraper.py`, `api/routes/web.py`) | visited set, frontier, batch; rows of pages and the tasks of the response | `_scrape_website_impl`, full-site and page scrape, `_register_and_schedule` | breadth-first in parallel batches, several spellings of one URL, limits; registration and scheduling are separate steps |
| **Vector store** (`pipeline/vector_store.py`, `pipeline/embedder.py`) | Qdrant collections | batched upserts with retries, deletes, counts, searches | a batch may be applied although the call failed |
| **Retrieval** (`pipeline/retriever.py`, `pipeline/chat.py`, `api/routes/search.py`, `internal.py`) | `_DOC_COUNT_CACHE` (TTL) | shortlist, pool, search, batch, rerank, image search | a fallback at every stage, a cached count that is stale after an ingestion or a delete, an index that changes between two calls |
| **KB microservice** (`pipeline/kb_pipeline.py`, `api/routes/kb.py`) | `kb_documents`, vectors, `kb_chat_history`, temporary files | upload, background ingestion, chat | no transaction over vectors and row, no recovery, chats that overlap in one conversation |
| **Database sessions and row-level security** (`db/database.py`) | `SET LOCAL` tenant variables on pooled connections | session contexts | what a pooled connection carries over |
| **LLM execution log**, **prompt building and quoted evidence**, **summariser**, **extraction and chunking**, **signed links and SSRF guard**, **models, schemas and settings**, **health, scripts** | a log table; none | best-effort inserts; pure functions; I/O | pure or I/O |

**Interactions.** The routes write PostgreSQL and disk in the request, then hand
a job to Starlette's background tasks, which run on the thread pool after the
response is sent; the jobs write PostgreSQL, Qdrant and disk, and notify Core by
a webhook. A restart repairs the rows and sweeps the disk. Turns read the rows
that jobs write, and search the index that ingestions and deletions change. The
crawler hands its pages to the same registry and the same jobs. Nothing but the
conditional UPDATE of `rolling_summary_through`, the per-process thread lock and
the event loop coordinates any of this. The KB service shares only the database
server.

**What makes each part correct.**

- *Memory:* the summary stands for exactly a prefix of the thread; the newest
  `MEMORY_WINDOW_SIZE` turns are not folded; the prompt of every turn (summary
  and window) has no gap and no repetition; the cut never moves back; the lock
  is exclusive in a process and always given back; what aged out is folded.
- *Lifecycle and recovery:* READY means wholly indexed; the original is never
  lost; a deletion leaves nothing to retrieve; copies on disk are released and
  nothing is removed before it was read; only dead jobs are marked interrupted;
  every ingestion ends.
- *Images:* an image of a READY document can be found in its tenant, in its own
  points or another document's; no upsert replaces a point; repeats are indexed
  once; the count counts what is there.
- *Web scraping:* no page twice, limits respected, breadth first, complete below
  the limit; what is reported as a success is ingested unless a task raised.
- *Retrieval:* no answer leaves its scope; a fallback loses nothing that is not on
  record; a shortlist drops a document only for `DOC_SHORTLIST_LIMIT` others.
- *KB:* ready means every vector; a turn stays whole; a task leaves an outcome and,
  even when its outcome cannot be written, no file.

## 2. Plan

| Order | Module | Subject | State |
|---|---|---|---|
| 1 | `ConversationLog` | abstract: an append-only log with a moving cut | done |
| 2 | `ChatMemory` | the memory of one thread; implements `ConversationLog` | done |
| 3 | `ChatMemoryProofs` | its invariants and the refinement, for every instance | done |
| 4 | `DocumentRegistry` | abstract: the life of a document as its clients see it | done |
| 5 | `DocumentLifecycle` | upload, ingestion, retry, delete, crash, restart of one document; implements `DocumentRegistry` for patient clients | done |
| 6 | `DocumentLifecycleProofs` | type correctness, `BytesReachable` under every fault | done |
| 6a | `DocumentRegistryProofs` | the refinement of `DocumentRegistry` and the other safety properties, for patient clients | done |
| 7 | `DocumentImages`, `DocumentImagesProofs` | images of several documents: dedup, offsets, counts | done |
| 8 | `SiteScrape`, `SiteScrapeProofs` | crawl, registration of its pages, single pages | done |
| 9 | `Retrieval`, `RetrievalProofs` | shortlist, pool, legs, fallbacks, reranking | done |
| 10 | `KnowledgeBase`, `KnowledgeBaseProofs` | the KB service | done |
| 11 | database sessions, LLM log | the smaller state machines | not begun |

An `MC` module beside each of 2, 5, 7, 8, 9 and 10 gives its constants values.

Every invariant that a run checks is a theorem for every value of the constants.
Still planned: the safety properties of `DocumentLifecycle` without the hypothesis
of patient clients, and the modules of row 11.

Every module declares its parameters as CONSTANTS with named assumptions, has
one action per handler step, and no RECURSIVE operator of its own.

## 3. The chat memory

### `ConversationLog` (abstract)

`log`, `cut`, `digest`, `open`. `Say` appends; `Fold` moves the cut forward to
anywhere that leaves `2 * WindowTurns` messages after it and replaces the digest
by the log up to the cut; `Close` empties everything.

### `ChatMemory`

One thread; the row, the lock and every query are keyed by its id, so threads
do not interact. A commit, and a call to Qdrant, is one step.

| Variables | Code |
|---|---|
| `live`, `summary`, `through`, `count`, `msgs` | the `chat_threads` row and its `chat_messages` |
| `points` | the thread's points in `avabodh_chat_messages` |
| `pc`, `seenSummary`, `seenThrough`, `window`, `readCount` | a request: where it is and its locals |
| `began` | history: how many messages there were when it read the row |
| `jobPc`, `jobSummary`, `jobThrough`, `jobEnd`, `jobSlice` | its background job and its locals |
| `held` | processes in which the thread's lock is taken |
| `deleter` | the DELETE request |

A turn is `ReadThread`, `LoadWindow`, `SaveHuman`, `IndexHuman`, `SaveAi`,
`IndexAi`, `ReadCount`, `WriteCount` (or `SkipCount`, if the row is gone), and
any of them may fail (`TurnFails`). A job is `JobReadThread` (lock and first
transaction), `JobReadMessages` (second transaction, then return or go on),
`JobWrite` (the LLM call and the conditional UPDATE), or `JobSkips`/`JobFails`.

- *The turn keeps the row it first read.* `get_thread` puts the ORM object in
  the session's identity map, and the query in `load_memory_from_db` returns
  that same object: `seenSummary` and `seenThrough` are of one moment, which is
  why the prompt has no gap even when a job moves the row in between. The
  mutant `FreshOffset` breaks `PromptTiles`.
- *A summary is the sequence of messages its text was made from.* The LLM's
  wording is abstracted. When `RawTextFits` is false the fallback may cut it.
- *Summarising has no step of its own.* What the job holds while the LLM runs
  are its locals, and other processes move between its read and its write.
- `created_at` orders the messages and is stamped at flush; the model appends at
  commit. The few statements between the two are not modelled (see the hazards).
- Titles, listing, PATCH and search over messages are not modelled.

### Runs

| Run | Instance | Shows |
|---|---|---|
| `chat_overlap` | 3 turns, one alone in its process and two that share one, window 1, failing turns, loads and jobs, crashes | prefix, window, tiling and monotonic cut under every interleaving of turns and jobs: three turns are what it takes for a turn to load its window while a job moves the cut; where two jobs share a process, the lock lets one of them in |
| `chat_faults` | 2 turns, each in its process, all faults, fair | with failing indexing and a delete as well: the types, the refinement of `ConversationLog`; a taken lock is given back; what a job found aged out is folded, by it or by the one of the other process that overtook it, unless the job fails |

With a window of one turn a second turn already ages out the first, so three
turns give two different cuts, an empty slice, a stale write and a skipped job.
`Turn` bounds the number of requests; nothing else grows. A job is skipped only in
`chat_overlap`, as no two turns of `chat_faults` share a process: it has seen
nothing then, `AgedOutGetsFolded` does not speak of it, and what it would have
folded waits for the job of the next turn.

**Fairness.** Weak fairness of each job: Starlette awaits background tasks after
the response and the thread pool runs each until it returns. Nothing is assumed
of turns, clients, deletions or faults.

### Proofs (`ChatMemoryProofs`)

For any finite or infinite set of turns, any set of processes, any assignment of
one to the other, any window and any set of faults, from the four named
assumptions on the constants:

- `TypeCorrect`: `Spec => []TypeOK`;
- `SummaryCorrect`, `WindowCorrect`, `PromptCorrect`, `LockCorrect`: the four
  invariants of `chat_overlap` and `chat_faults`;
- `MonotonicThrough`: the cut never moves back;
- `LogRefinement`: while the raw text of a fallback fits, `ChatMemory`
  implements `ConversationLog`.

The properties are not inductive. `IInv` adds what the jobs and turns hold: a
job in `readThread` has a summary and cut that were the row's at some moment, so
its summary is the prefix of that length; a job in `summarising` has as its slice
exactly the messages from that cut to `jobEnd`, and `jobEnd` leaves the window;
a turn that has read the row holds a prefix of the same kind. A deletion empties
`msgs`, and from then on nothing can commit for the thread (`live` never comes
back), so these parts are conditioned on `live`. The argument is then: messages
are only appended while `live`, hence a prefix stays that prefix
(`AppendKeepsSlice`, `PrefixStaysTrue`), and the conditional UPDATE only ever replaces
a prefix by a longer one.

Only model-checked: `LockIsFreed` and `AgedOutGetsFolded`, which are liveness.

## 4. Documents, pages, questions and the knowledge base

### 4.1 The document lifecycle

#### `DocumentRegistry` (abstract)

`state` goes ABSENT, UPLOADED, PROCESSING, then READY or FAILED, again and again,
until DELETED. READY is entered only when the whole text is `searchable`, which
changes in an ingestion and is taken away by a deletion, before the document is.
A deletion may be given up (`GiveUpDeletion`): the document is then what it was,
and not searchable until it is ingested again.

#### `DocumentLifecycle`

One document; rows, points, files and objects are all keyed by the document.

| Variables | Code |
|---|---|
| `up` | the one server process (`uvicorn --workers 1`, `Dockerfile`) |
| `kind`, `row`, `status`, `storedIn`, `summaryText` | the `documents` row; `storedIn` is whether `stored_path` is a path or an `s3://` URI |
| `scratch`, `object`, `temps` | the file the upload wrote, the S3 object, temporary downloads per job |
| `forgone` | history: the upload was rejected, or a deletion reached the bytes |
| `index`, `summaryPoint` | the upserted batches of the text, the point in `avabodh_doc_summaries` |
| `told` | the last status of the webhook |
| `handler` | the request that is under way |
| `jobPc`, `jobSource`, `jobDisposes`, `jobBatch`, `jobSays` | each job and its arguments and locals |

The routes are `async def` and do not await once they have started on the row,
so one is under way at a time; each of their commits and calls is a step, because
the jobs run in the thread pool beside them and the process may die between any
two. The jobs go through `JobStarts` (PROCESSING), `JobTells`, `JobClears`,
`JobClearsSummary`, `JobReads`, `JobIndexes` (once per batch), `JobSummarises`,
`JobIndexesSummary`, `JobFinishes`, `JobTells`, `JobEnds`; a stage that raises
goes to `failing` (the except branch) and on to `ending` (the finally branch).
`Restart` is `init_db` with its two repairs, and the sweep; `CliInitsDb` is the
same `init_db` called from the command line.

- `kind`, chosen from `Kinds`, is *file* (parsed, chunked, summarised), *image* (one chunk, a caption
  for a summary, no summary point) or *page* (scraped: the content is in memory).
  A page scraped alone is never scheduled (`ScrapeFailsToSchedule`); one of a
  site is (`Schedule`).
- `Patient` clients act on a document only when it is READY or FAILED. The code
  does not ask them to; runs with `Patient = TRUE` show what holds for clients
  that wait, and `Documents_overlap.cfg` and `Documents_lateDelete.cfg` what
  happens to those that do not.
- `Faults` names what may go wrong in an instance: `crash` is a crash at any
  moment, `crashLater` one when the document is not UPLOADED any more (in that state
  a crash leads to the disagreement of `documents_backfill`); the others make the
  named calls fail.
- The retries inside one batch are one step: the batch is applied, or fails with
  or without having been applied. The age the sweep compares with a TTL is a
  choice. The images inside a document are in `DocumentImages`; PATCH of its
  metadata and leftovers of the LLM log are not modelled.
- The initial states are two: the document is unknown, or it was ingested before
  the bucket was configured, so that its local file is the only copy.

#### Runs

| Run | Instance | Shows |
|---|---|---|
| `documents_retries` | files and images, 3 jobs, 2 batches, bucket, failing stages, patient | READY is indexed; a file lives until it is read and is gone at rest; what is shortlisted has chunks |
| `documents_restarts` | all kinds, 2 jobs, 2 batches, failing stages, clears and deletions, later crashes, fair | a deleted document leaves nothing; only documents of dead jobs are marked interrupted; refinement of `DocumentRegistry`; an ingestion of a file or image ends |
| `documents_bytes` | files and pages, 2 jobs, 1 batch, impatient clients, CLI, crashes, sweeps, failing buckets, databases, deletions, unlinks and webhooks | the original is lost only to the rejection of its upload or to its deletion |
| `documents_backfill` | one file, one job, a crash | a disagreement, section 5 |

Two batches are the least that can be half done, two jobs the least that can
overlap or follow a failure, and three let a second retry meet what the first
one left. `Job` bounds the number of ingestions.

**Fairness.** Weak fairness of the request under way (it runs on the event loop
to its response), of each job (the pool runs it until it returns), and of
`Restart` (the container is restarted when it exits). Nothing is assumed of
clients and faults.

#### Proofs (`DocumentLifecycleProofs`, `DocumentRegistryProofs`)

Under every fault and for all clients:

- `TypeCorrect`: `Spec => []TypeOK`, for any number of jobs and batches, any
  kind and any faults.
- `BytesCorrect`: `Spec => []BytesReachable`, with no assumption beyond those on
  the constants: whatever the clients (patient or not), the jobs, the crashes, the
  sweeps, the failing storage and the CLI do, the bytes are where `stored_path`
  says unless the upload was rejected or a deletion reached them, which `forgone`
  records. The invariant `BytesInv` adds: which rows each position of the request
  handler implies (*HandlerAndRow*), where the stored path points at each of them
  (*StoredPathHolds*), that an upload under way still has its file
  (*UploadsHoldBytes*), and that a job which may dispose of the file it was
  handed belongs to a document the bucket holds (*DisposesOnlyCopies*): the last
  is what the sweep and the finally branch rely on, and it is why the code asks
  `is_s3_uri(stored_path)` and not whether a bucket is configured.

For any number of jobs and batches and every kind of document, under *Waits*
(patient clients, no `init_db` from the command line beside the server), and under
every fault but those named:

| Theorem | States | Not with |
|---|---|---|
| `DeletionCorrect` | `Spec => []DeletedLeavesNothing` | - |
| `InterruptionCorrect` | `Spec => OnlyDeadJobsAreInterrupted` | - |
| `RegistryRefinement` | `Spec => RegistrySpec`: every step is one of `DocumentRegistry` or a stutter | `crash` |
| `ReadyCorrect` | `Spec => []ReadyIsIndexed` | `deleteFails`, `crash`, `crashLater` |
| `ShortlistCorrect` | `Spec => []ShortlistedHasChunks` | these, `clearFails` |
| `SourceCorrect` | `Spec => []SourceOutlivesJob` | those of `ReadyCorrect`, `storeFails` |
| `ScratchCorrect` | `Spec => []ScratchReleased`, for any clients and with the CLI | those of `SourceCorrect`, `databaseFails`, `unlinkFails` |

The hypotheses are tight: with two jobs and two batches TLC finds each property
violated when one of the faults it excludes is allowed beside failing stages. They
are thus
what the code does not survive: a crash before the job starts is the disagreement
of section 5 (`crash`; `crashLater` is a crash once the row has left UPLOADED); a
deletion that failed after it took the chunks leaves the row READY, which is why
`DocumentRegistry` has `GiveUpDeletion`; a clear that failed halfway leaves the
summary point; an upload the bucket refused leaves a FAILED row without a file.

They rest on one invariant (`Invariance`, under *Waits* and every fault): at most
one job is there that is going
to change the document (*OneWorker*); while it is, the row is PROCESSING, or just
registered, and no request is under way (*WorkerHoldsRow*); what it has counted is
what is in the index, in each of its stages (*IndexProgress*); each request finds
a row it may act on (*Rows*); and a deletion stays where it has got to (*Gone*).
A patient client acts only on a READY or FAILED row, and a row is that only when no
worker holds it: nothing else keeps two jobs apart.

The last three theorems add one invariant each: a summary point is alone only
between the two calls of a clear or a deletion (*Shortlist*); a file which two jobs
were handed is an original (*Sources*); and at most one job waits for its request to
be answered, and every copy on disk has a job which is going to remove it
(*OneAdded*, *Copies*). The refinement needs that a server which
died left no row UPLOADED, which the backfill would make READY (*NotBackfilled*).

Only model-checked: `Settles` (liveness).

### 4.2 The images of the documents (`DocumentImages`)

The part of an ingestion that follows the text, for several documents at once,
because the dedup relates them. `DocumentLifecycle` treats the ingestion of the
images as nothing, this module treats that of the text as nothing; what they
share is the row's status and the order Start, Clear, ..., Finish or Fail.

| Variables | Code |
|---|---|
| `tenant`, `shape` | whose a document is and what it contains: figures, and tables with the quality of their markup and of the text layer |
| `status`, `count` | `documents.status`, `documents.image_count` |
| `points` | role=image points of `avabodh_chunks`: document, `chunk_index`, hash |
| `pc`, `at`, `seen`, `results`, `offset`, `indexed` | the job of a document: its place, the next element of its list, `seen_hashes`, captions not upserted yet, `image_chunk_offset`, `total_images_indexed` |
| `ingested` | history: number of ingestions |
| `relies`, `lost` | history: which document's points stand for an image of which, and the images known to be left out |

A job is `Start`, `Clear` (`delete_document_points`), then the list of the
figures, then, for a PDF, that of the unreliable tables; each element is one of
`Skip` (noise, or met in this list), `NoPayload` (the extractor delivered no bytes),
`DownloadFails`, `AlreadyIndexed` (`image_hash_exists`), `Overcounted` (the same by
mistake), `Caption`, `CaptionFails`; a list ends in `Index` or
`IndexFails`; then `Count`, and `Finish` or `Fail`. A standalone image is a list of
one with no dedup (`StandaloneFails`). `Delete` acts on a document at rest.

- The check of the hash and the upsert of its caption are steps of one job with
  the steps of every other job and deletion in between. Two documents may thus
  both index an image; neither may leave it to the other and have nobody do it.
- `image_hash_exists` asks Qdrant for an approximate count (`exact=False`). It may
  say 0 of an image that is there (`checkFails`, which also stands for a call that
  failed: the image is indexed again), or more of one that is not
  (`checkOvercounts`: the image is left out).
- `lost` is why an image is left out: it came without bytes, its download, caption
  or upsert failed, the count was too high, or the document whose points stood for
  it was deleted. The element without bytes and the last two leave no trace in the
  log; section 5 lists them.
- At most `2 * Cap` points are upserted by one call (40 in the code, a batch is
  100), so an upsert is one step.

| Run | Instance | Shows |
|---|---|---|
| `images_shared` | 2 documents of 1 or 2 tenants, 3 hashes of which one is noise, 4 shapes, `Cap` 2, 2 ingestions each, missing bytes, failing downloads, Vision and databases, checks that fail or count wrong, upserts that fail and are not applied; symmetric in documents and tenants | every wanted image is findable in its tenant or on record as lost; repeats in a PDF are indexed once; table crops never overwrite figures; the count of a first ingestion has no phantoms |

The shapes give every case the code distinguishes: repeats within and beyond the
cap, noise, tables that are reliable, made by OCR or without markup, a crop that is
also a figure, a page, a standalone image. Two ingestions are what a clear needs to remove something, two
documents what the shared dedup needs.

*Proofs* (`DocumentImagesProofs`), for any documents, tenants, hashes, shapes, cap
and number of ingestions: under every fault `TypeCorrect`, `RepeatsCorrect` and
`CountCorrect`; and `FindableCorrect` and `PointsCorrect` if no failed upsert was
applied (`"upsertUnknown" \notin Faults`: with it TLC finds `EveryImageFindable` and
`NothingOverwritten` violated, section 5). `IInv` says, for each document, that one
at rest has nothing in hand (*Rested*), that the ids of its points lie below the offset
(*Below*) or nothing was counted yet (*Placed*), that points, captions and `seen` do
not repeat a hash (*Once*), that every element passed is captioned, relied on,
exempt or lost (*Handled*), that this survives the end of each list (*Covered*),
and that `indexed` counts no more than the points that are there, whatever was
overwritten (*Tallied*); and, over all documents, that what is relied on is there
unless it was overwritten (*Relied*). `PlaceOnto`, a pigeonhole
over the unreliable tables of a document, gives the list of their crops its
positions without recursion.

### 4.3 Web scraping (`SiteScrape`)

One POST /web/scrape: a crawl and the registration of its pages, or up to ten
given pages; and the tasks of its response.

| Variables | Code |
|---|---|
| `mode`, `asked`, `links` | `full_site` or pages, the URLs given, what the pages link to |
| `phase` | where the request is |
| `queue`, `visited`, `batch`, `fetched`, `raw`, `documents` | locals of `_scrape_website_impl`: the frontier, what was taken from it, a batch and its results, the links of the page being processed, the pages scraped |
| `next`, `rows`, `tasks`, `results` | the loop of the route, the rows of the pages, `BackgroundTasks`, the status reported |
| `started`, `depth`, `mine`, `abandoned` | history: every page fetched, its distance from the root when first queued, the rows this request registered, the pages whose task raised or was behind one that did |

The crawl goes round three loops. `TakeUrl` is one `popleft` of the loop that fills
a batch, which ends with `FetchBatch`, or with `CrawlEnds` if there is nothing to
fetch. `Fetch` ends one page of the batch, in any order, and `Gathered` is the
return of `gather`. `ProcessResult` takes the next result in the order of the
batch, `FollowLink` the next link of its page, and `NextBatch` goes back.
`CrawlFails` is an exception of the crawl as a whole (no browser, no tab, a link
that cannot be parsed): a 500; a crawl without any document is a 404. The route is `Duplicate`, `Register`, `RegisterFails`, `Abort`, `Respond`; single
pages are `PageFails`, `PageKnown`, `PageRegistered`; afterwards `RunTask`, which is
`TaskEnds` or `TaskRaises`.
`OthersRegister` is another request that registers one of the pages while this
one awaits the browser.

- A page is its normalised URL, and links name *spellings* of it. The browser, the
  extraction of links from HTML and the retries inside one fetch are the one
  outcome of `Fetch`. The guard against internal targets, the skipped extensions
  and the domain are the sets `Unsafe`, `Asset` and `OffDomain`.
- A task writes its outcome itself, and may fail to: the `set_status` that marks
  PROCESSING is outside of its try (`ingest.py:541`), and the one that marks FAILED is
  in the except branch. It then raises, leaves its row UPLOADED or PROCESSING, and
  Starlette runs none of the tasks behind it (`TaskRaises`). `SuccessIsIngested`
  excuses these pages and no others. What the next start does to such rows is in
  `DocumentLifecycle`: PROCESSING becomes FAILED, and UPLOADED becomes READY with
  nothing indexed, the disagreement of section 5.
- A page whose fetch failed and one that was empty have the same effect on the
  crawl: no document, no links.

| Run | Instance | Shows |
|---|---|---|
| `scrape_crawl` | every site of five pages with three linking schemes each, the root linking out of the site as well, `MaxPages` 4, batches of 2, failing fetches and crawls, databases and jobs, tasks that raise, a racing request; fair | no page twice, complete below the limit, breadth first, the limit holds while pages are being fetched, and a page reported as a success becomes READY or FAILED unless its task, or one before it, raised |
| `scrape_pages` | single pages, no fault | a disagreement, section 5 |

With five pages and batches of two, a batch straddles two levels, a page is linked
from its own batch, from a later one and by a fragment, and `MaxPages` 4 cuts
before the end; four is also the least limit that takes a third batch when no
fetch fails.

*Fairness.* Of the request (every fetch has a timeout, and the handler runs to its
response) and of `RunTask` (Starlette awaits the tasks of a response it sent, up to
the first that raises).
Nothing is assumed of other requests and of faults.

*Proofs* (`SiteScrapeProofs`), for any site, spellings, limit and number of pages
fetched together, under every fault: `TypeCorrect`, `FetchedOnce`,
`CompleteCorrect`, `BreadthFirstCorrect`, and three that only the proofs state:
`LinkedOnly` (nothing is fetched but the root and what is to be followed from the
documents), `ReportCorrect` (every document is reported, and as a success exactly
when this request registered it) and `TaskCorrect` (a success is UPLOADED and has a
task to come, or was abandoned and is UPLOADED or PROCESSING, or is READY or
FAILED). None of the properties is inductive. `IInv`
adds:

- *Normal*: only normal forms are queued and fetched. Queueing the link as it is
  written breaks this one, and `NoPageFetchedTwice` with it.
- *Phases*, *Route*: which links are left to be looked at, and where a request of
  each mode may be.
- *Once*: what is visited was fetched, once, and a page of the batch is not a
  document.
- *Kept*: every link of a document that is to be followed was fetched, or is in
  the queue or among the links still to be looked at. A crawl that ends below its
  limit has an empty queue, so they were all fetched.
- *Grounded*: whatever set of pages is closed under following links from the root
  holds all that is known; quantifying over such sets avoids a recursion over
  paths.
- *Ordered*: the queue is in the order of depth. That is false as it stands, as a
  page may be queued again behind deeper ones; it holds of the first place of each
  page that is not visited. To append at depth d + 1 keeps it because nothing
  known is more than one link beyond anything still ahead (*OneLevelAhead*).
- *Reported*: the documents before `next` are accounted for, and the tasks are those
  of rows this request registered, each once (*TasksAreRows*).

`SuccessIsIngested` is liveness and stays with TLC.

### 4.4 Retrieval (`Retrieval`)

Questions of several request threads over an index that ingestions and deletions
change call by call.

| Variables | Code |
|---|---|
| `index`, `summaries` | points of `avabodh_chunks` and of `avabodh_doc_summaries` |
| `cache` | `_DOC_COUNT_CACHE`: count and age per tenant and org unit |
| `asked`, `kind`, `pc` | the question of a thread and where it is |
| `ids`, `pool`, `todo`, `found`, `degraded`, `answer` | shortlist, `_dynamic_search_candidates`, queries left, `by_id`, the codes reported, the chunks returned |
| `steady`, `summarised`, `silent` | history: chunks that were in the index, and documents that had a summary, all through the question; what cut the candidates without a code |

The index moves by `UpsertChunks`, `UpsertSummary`, `DeleteChunks`, `DeleteSummary`,
the clock by `Tick`. A question is `Ask`, then `Captioned` or `CaptionFails` if it
has an image, `CountSummaries`, `Shortlist` or `NoShortlist`, `SizePool`,
`BatchSearch` or `BatchFails`, `Search` for each query, and `Rerank`,
`WithoutRerank` or `RerankFails`.

- A text is what its embeddings make of it: a ranking of the chunks for each leg,
  and the chunks that share a term with it. The dense leg finds every chunk of the
  scope, the sparse one only those that share a term (`Reach`): a keyword search,
  or a hybrid one that lost its dense embedding, may find none of a scope that is not
  empty. What a leg owes an answer is what it can find (`Owed`). The cross-encoder
  is one more ranking. Fusion may keep any of the heads of the legs as long as it
  drops none for one that every leg ranks behind it. Chunks that rank alike may
  come in any order (`First`), as the code promises none.
- Counts are approximate, as the code asks for them (`exact=False`): one of a set
  may say its size or any number of `Rough` (`Counts`). A count that says less than
  there is leaves a pool that is too small and no trace but in `silent`; one that
  says too much of a small org unit calls for a shortlist that is not needed, and
  drops no document with a summary, as the shortlist then holds every one.
- The first n of the dense leg are exact. Qdrant's may be approximate in a large
  collection; the properties about better chunks assume they are not.
- `SEARCH_SCORE_THRESHOLD` is unset and `MMR_LAMBDA` 1.0, their defaults. A threshold
  would drop hits of the semantic and keyword modes.
- Neighbouring chunks added to a hit, and the rewriting of a question, are not
  modelled.

| Run | Instance | Shows |
|---|---|---|
| `retrieval_answers` | a thread that asks 2 questions out of 5 (a chat, a chat with an image, a semantic and two keyword searches), 3 documents and 4 chunks in 2 org units, `Stored` two documents of one of them, `Limit` 1, `TopK` 1, `Max` 3, `Static` 2, `Ttl` 1, `Rough` 0 and 3, 2 edits, 1 tick, every fault but a document without a summary | no answer leaves its scope; a question that finds nothing has on record every leg that could have found something; an answer with nothing on record is the reranker's choice from all that its legs can find; the pool is outrun only by newcomers unless the count was short; the shortlist drops a document only for `Limit` others of its org unit |

`Limit` 1 makes two documents many and one few, so an edit moves a scope over
the threshold in either direction, and a count of 0 or 3 takes it for the
other; 0 is also less than any scope that has a chunk, and 3 more than most. A
second question meets the cache of the first, on either side of its TTL; the static
pool of 2 is smaller than a scope
and `Max` is as large as one. One text ranks two chunks alike, and some texts
share a term with every chunk, others not with all. `Retrieval_unsummarised.cfg`
(section 5) has the documents without a summary.

*Proofs* (`RetrievalProofs`), for any finite corpus, any number of threads, any
settings, questions and faults, and any approximate counts: `TypeCorrect`,
`ScopeCorrect`, `LegsCorrect`, `PoolCorrect`, `ShortlistCorrect`, `AnswerCorrect`.
`IInv` follows a question: what it has found is in its scope (*Scoped*); while it searches there is a query left and room in the
pool (*Pending*, *Pooled*); if nothing was found though a leg could have found a
steady chunk, that leg is on record (*Evident*); the pool covers the steady part of
the scope unless its count was short (*Covered*), and if a search met more than
that there is a newcomer (*Outrun*); a shortlist holds `Limit` documents of the own
org unit, or all that were summarised throughout (*Listed*); and if nothing is on record,
the searches found all that their legs can find and was in the scope all along
(*Gathered*), and what the answer leaves out of it ranks behind every chunk of a
full answer (*Best*). `AnswerCorrect` is the last one without its
history. Its step is that a pool with room for a whole scope leaves none of it
out, and that what a set of several pools found is judged together (`SomeFusion`,
`FirstOf`).

### 4.5 The knowledge base service (`KnowledgeBase`)

| Variables | Code |
|---|---|
| `up` | the process |
| `file`, `status`, `vectors`, `job` | temporary files, `kb_documents.status`, `kb_vectors`, the upload of a document and its task |
| `pc`, `from`, `seen`, `hits`, `cited`, `stamps` | a POST /kb/chat and its locals |
| `history` | `kb_chat_history` |
| `clock`, `arrived`, `excused` | time; history: when a chat came in; what kept a task from its end: it `died`, its outcome was `unwritten`, its file `unremovable` |

An upload is `WriteFile`, `Register`, and its task `Read`, `Add` (row by row),
`Finish`, `Fail`, `Clean`; a chat is `ReadHistory`, `Remember`, `Retrieve`, `Cite`,
`Answer`, `Save`. All of it runs on one event loop: a step lies between two awaits.
The store and the model are external; which K chunks of the owner come back, and in
which order, is a choice. A request fails where its search, the lookup of the names of
its sources, the model or the commit does.

- `Fail` is the except branch of `ingest_document`. If the database refuses the failure as
  well, the exception leaves that branch and meets the finally of
  `bg_ingestion_wrapper` (`Finally`), which removes the file all the same: a row whose
  outcome is `unwritten` is excused by `Settles` and not by `FilesAreReleased`.

| Run | Instance | Shows |
|---|---|---|
| `kb_service` | 2 documents of 2 owners of which one is there already, 2 chats in 1 conversation, 2 chunks, K 2, window 2, every fault and crashes; fair | ready means every vector; overlapping chats keep question and answer together; a task that lives leaves an outcome, unless the database refuses it, and even then no file |
| `kb_follow_up` | the same without faults | a disagreement, section 5 |

Two chunks can be half added, and two chats overlap at every await.

*Fairness.* Of each task: the event loop gives every task its turn. The run has no
fairness for chats or for `Restart`.

*Proofs* (`KnowledgeBaseProofs`), for finitely many documents, each uploaded
once to the one process, and any number of owners, chats, conversations and chunks,
under all faults: `TypeCorrect`, `ReadyCorrect`, `FilesCorrect`, `TurnsCorrect`. `DocInv`
says that the vectors of a document are always its first n chunks (*Filled*) and
what each position of its task implies for row and file (*Staged*); `ChatInv` that
the two stamps of a turn are adjacent (*Stamped*), that no two turns share one and
none is ahead of the clock, and that history is made of whole turns (*Saved*). Only model-checked: `Settles`.

## 5. Where the code and its comments disagree

Three runs in which TLC violates what a text of the repository says (the
quotations are in `PROJECT.json`):

| Run | In short |
|---|---|
| `documents_backfill` | a crash before the job starts: the row becomes READY at restart with nothing indexed (`database.py:203`) |
| `scrape_pages` | a page scraped by its URL stays UPLOADED for ever: `_register_and_schedule` names `body`, which it does not have, after it registered the row (`web.py:133`) |
| `kb_follow_up` | the second chat of a conversation ends in a 500: its history is handed to a method that does not exist (`kb_pipeline.py:332`) |

Further instances, whose configurations are kept beside the runs and which TLC
refutes in the same way:

| Configuration | Violates | In short |
|---|---|---|
| `ChatMemory_dropped.cfg` | `NothingDropped` | interleaved turns leave messages in neither summary nor prompt: only a human message directly followed by an ai message is injected (`memory.py:261`) |
| `ChatMemory_fallback.cfg` | `FallbackLosesNothing` | the fallback cuts at 4000 characters what the row counts as folded (`chat_storage.py:104`) |
| `Documents_overlap.cfg` | `ReadyIsIndexed` | a reprocess while a job runs: READY over a cleared index (`documents.py:469`) |
| `Documents_lateDelete.cfg` | `DeletedLeavesNothing` | a delete during a job leaves chunks of a document that is gone (`documents.py:491`) |
| `Documents_untold.cfg` | `CoreLearnsOutcome` | a job commits its outcome and tells Core in two steps, so a patient client's retry may be told first and Core ends with the older outcome (`ingest.py:483`) |
| `Retrieval_unsummarised.cfg` | `UnsummarisedStillSearched` | a document without a summary point is left out of every shortlisted search, where a comment of `vector_store.py` says that search falls back to an unscoped one |

One more definition states what a source is for and is false of the model:
`SourceQuotesItself` of `KnowledgeBase` (`_build_kb_sources` quotes the variable an
earlier loop left behind, so every source quotes the last chunk retrieved,
`kb_pipeline.py:290`).

The modules also contain these behaviours, which no configuration singles out.

Chat memory:

- two overlapping turns count once in `message_count` (`chat_storage.py:329`;
  `ReadCount`, `WriteCount`);
- a turn under way can index a point of a thread that was just deleted
  (`chat.py:719`; `DeletePoints`, then `IndexAi`).

Documents:

- an upload the bucket refused leaves a FAILED row and no file, so no retry can
  succeed (`documents.py:278`; `RejectUpload`); `BytesReachable` excuses it through
  `forgone`;
- a failure between the two calls that clear an index leaves a document that is
  shortlisted and has no chunks (`ingest.py:150`; `JobClearsSummary`), which is
  why `documents_retries` has no `clearFails`;
- temporary downloads that survive a crash are never swept (`database.py:313`):
  `ScratchReleased` is checked without crashes;
- a page may be reprocessed as a file (`documents.py:451`; `Resolve`);
- the commit of READY may fail and leave PROCESSING until the next restart;
- `mark_interrupted_jobs` does not notify Core (`database.py:365`), and the CLI's
  `init_db` marks the documents of a live server's jobs interrupted
  (`cli.py:117`; `CliInitsDb`).

Images:

- `settings.py:315` speaks of a hard cap for one document; figures and tables are
  capped separately (`Elements`, once for each list);
- an element that the extractor delivers without its bytes is passed over
  (`image_processor.py:703`; `NoPayload`), and an approximate count that is too high
  leaves an image in nobody's points (`vector_store.py:349`; `Overcounted`);
- when the document that holds a shared image is deleted or cleared, the others
  that left the image to it have lost it (`Removes`);
- an upsert that was applied but reported as failed leaves the offset at 0, and
  the tables overwrite the figures (fault `upsertUnknown`);
- `image_count` keeps its old value when a reprocess finds no image
  (`ingest.py:480`; `Count`), and its failure fails the ingestion of a file,
  although it is called non-fatal by design;
- the caption made of an image's alt text when Vision fails never reaches the
  index: its confidence is below the threshold (`CaptionFails`).

Web scraping:

- `check_duplicate` is outside of the try of the loop over the pages: if the database
  fails there, the request ends in a 500 and the tasks of the pages registered so
  far are gone (`Abort`);
- a task whose first or last `set_status` raises leaves its row UPLOADED or PROCESSING,
  and with it the rows of the tasks behind it, all of them reported as successes
  (`ingest.py:541`; `TaskRaises`);
- a full-site crawl reports a page that FAILED before as a duplicate and does not
  try it again, where the code for single pages means to (`Duplicate`, `PageKnown`);
- rows belong to a URL as it is written: two spellings of one page, asked for
  singly, are two documents.

Retrieval and the knowledge base:

- a keyword search, or a hybrid one whose dense embedding failed, finds nothing for a
  question that shares no term with any chunk (`Reach`);
- a count of the scope that says too little hides its best chunk from the reranker,
  with no code in the answer (`vector_store.py:369`; `SizePool`);
- the documentation of the KB service promises a contextual compression retriever;
  the code returns the base retriever (`Retrieve`);
- the vectors of a failed KB document stay searchable (`Retrieve` does not look at
  the status);
- a KB document in processing when the process dies stays there
  (`KB_MICROSERVICE.md:96` has its files survive, nothing takes the task up again).

## 6. Not modelled, and why

- Database sessions and row-level security: a variable set on a session at each
  request, and policies that are SQL of the database server.
- The LLM log: an insert whose failure is swallowed.
- Prompt building, quoted evidence, summariser, extraction, chunking, signed
  links, schemas and settings: pure functions or calls into libraries with no
  state of their own. Where a modelled component calls one it is a step that may
  fail; the SSRF guard is the constant `Unsafe` of `SiteScrape`.
- Of the modelled components: thread titles, listings, PATCH and search over chat
  messages; document metadata; collection set-up; `VISION_ENABLED` and
  `caption_images=false`, which leave the images out altogether; MMR below
  1.0, neighbours and query rewriting; the read-only endpoints of the KB service.
- `created_at` of a chat message is stamped at flush and the models append at
  commit; the few statements between the two, in two processes, are not modelled.

Liveness, everything about ENABLED, and what needs an induction over data stay
with TLC. Checked only there: `LockIsFreed`, `AgedOutGetsFolded`, both `Settles`
and `SuccessIsIngested`.
