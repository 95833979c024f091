-------------------------- MODULE DocumentLifecycle --------------------------
(***************************************************************************)
(* One document from upload to deletion: the requests that act on it, the   *)
(* background jobs that ingest it, the crash and the restart of the server,  *)
(* over the PostgreSQL row, the Qdrant points, the file on disk, its object  *)
(* in S3 and what Core was told.                                            *)
(*                                                                         *)
(* The server is one process (uvicorn --workers 1).  The request handlers    *)
(* never await once they have started on the row, so at most one of them is  *)
(* under way; the jobs run on the thread pool and interleave with it and     *)
(* with each other.  Every commit and every call to Qdrant or S3 is a step.  *)
(* The images inside a document are left out.                               *)
(***************************************************************************)
EXTENDS Naturals, FiniteSets

CONSTANTS Kinds,    \* what the document may be: a parsed file, an image, a web page
          Job,      \* background jobs that may be scheduled for it
          Batches,  \* upsert batches its text chunks take (1 for an image)
          S3,       \* a bucket is configured
          Patient,  \* clients act on a document only when it is READY or FAILED
          Faults    \* what may go wrong in this instance

ASSUME KindsAssumption == Kinds \subseteq {"file", "image", "page"}
ASSUME BatchesAssumption == Batches \in Nat \ {0}
ASSUME FlagsAssumption == S3 \in BOOLEAN /\ Patient \in BOOLEAN
ASSUME FaultsAssumption ==
         Faults \subseteq {"stageFails", "clearFails", "storeFails", "databaseFails",
                           "deleteFails", "unlinkFails", "webhookFails", "crash",
                           "crashLater", "cli"}

VARIABLES
  up,            \* the server is running
  kind,          \* what the document is (documents.file_type)
  row,           \* the documents row
  status,        \* documents.status
  storedIn,      \* where documents.stored_path points
  summaryText,   \* documents.summary_text is not empty
  scratch,       \* the file the upload wrote to disk is there
  object,        \* the S3 object is there
  temps,         \* jobs whose downloaded temporary file is on disk
  forgone,       \* the upload was rejected or a deletion reached the file (history)
  index,         \* the batches of chunks in avabodh_chunks
  summaryPoint,  \* the point in avabodh_doc_summaries is there
  told,          \* the last status Core was notified of
  handler,       \* where the request under way is
  jobPc,         \* where each job is
  jobSource,     \* where each job reads the content from
  jobDisposes,   \* delete_local_when_done of each job
  jobBatch,      \* batches the job upserted so far
  jobSays        \* the status the job is about to notify Core of

rowVars == <<row, status, storedIn, summaryText>>
fileVars == <<scratch, object, temps, forgone>>
indexVars == <<index, summaryPoint>>
jobVars == <<jobPc, jobSource, jobDisposes, jobBatch, jobSays>>
vars == <<up, kind, rowVars, fileVars, indexVars, told, handler, jobVars>>

Status == {"UPLOADED", "PROCESSING", "READY", "FAILED"}
HandlerPc == {"idle", "registering", "storing", "pointing", "rejecting", "scheduling",
              "marking", "deletingSummary", "deletingFile", "deletingRow"}
JobPc == {"none", "added", "queued", "telling", "clearing", "clearingSummary", "reading",
          "indexing", "summarising", "indexingSummary", "finishing", "failing", "ending",
          "done"}

AllBatches == 1 .. Batches
Live == row = "live"
Fault(f) == f \in Faults
InFlight(t) == jobPc[t] \notin {"none", "added", "done"}
Deleting == handler \in {"deletingSummary", "deletingFile", "deletingRow"}

\* A document not uploaded yet, or one ingested before the bucket was
\* configured: its local file is then the only copy.
Init ==
  /\ kind \in Kinds
  /\ up = TRUE /\ storedIn = "local" /\ object = FALSE /\ temps = {}
  /\ forgone = FALSE
  /\ \/ /\ row = "absent" /\ status = "UPLOADED" /\ summaryText = FALSE
        /\ scratch = FALSE /\ index = {} /\ summaryPoint = FALSE /\ told = "nothing"
     \/ /\ S3
        /\ row = "live" /\ status = "READY" /\ summaryText = TRUE
        /\ scratch = TRUE /\ index = AllBatches /\ summaryPoint = (kind # "image")
        /\ told = "READY"
  /\ handler = "idle"
  /\ jobPc = [t \in Job |-> "none"]
  /\ jobSource = [t \in Job |-> "none"]
  /\ jobDisposes = [t \in Job |-> FALSE]
  /\ jobBatch = [t \in Job |-> 0]
  /\ jobSays = [t \in Job |-> "nothing"]

-----------------------------------------------------------------------------
(* Requests.                                                                *)

Handler(from, to) == up /\ handler = from /\ handler' = to

\* upload_document writes the bytes to UPLOAD_DIR, the scrape routes the
\* markdown: check_duplicate has found no row with this hash.
WriteFile ==
  /\ Handler("idle", "registering") /\ row = "absent"
  /\ scratch' = TRUE
  /\ UNCHANGED <<kind, up, rowVars, object, temps, forgone, indexVars, told, jobVars>>

\* register_document: the row is UPLOADED and stored_path is the local file.
RegisterDocument ==
  /\ Handler("registering", IF S3 /\ kind # "page" THEN "storing" ELSE "scheduling")
  /\ row' = "live" /\ status' = "UPLOADED" /\ storedIn' = "local"
  /\ UNCHANGED <<kind, up, summaryText, fileVars, indexVars, told, jobVars>>

\* object_store.upload_file: the original goes to the bucket.
StoreObject ==
  /\ up /\ handler = "storing"
  /\ \/ object' = TRUE /\ handler' = "pointing"
     \/ Fault("storeFails") /\ handler' = "rejecting" /\ UNCHANGED object
  /\ UNCHANGED <<kind, up, rowVars, scratch, temps, forgone, indexVars, told, jobVars>>

\* set_stored_path: the row points at the object from now on.
SetStoredPath ==
  /\ up /\ handler = "pointing"
  /\ \/ storedIn' = "s3" /\ handler' = "scheduling"
     \/ Fault("storeFails") /\ handler' = "rejecting" /\ UNCHANGED storedIn
  /\ UNCHANGED <<kind, up, row, status, summaryText, fileVars, indexVars, told, jobVars>>

\* Storing failed: the row is FAILED, the local file is removed, 502.
RejectUpload ==
  /\ Handler("rejecting", "idle")
  /\ status' = "FAILED"
  /\ scratch' = FALSE /\ forgone' = TRUE
  /\ UNCHANGED <<kind, up, row, storedIn, summaryText, object, temps, indexVars, told, jobVars>>

\* is_s3_uri(stored_path): the job may remove the file it is handed only if
\* the bucket holds this document.  (Slips: if a bucket is configured; never.)
DisposesIfConfigured == S3
NeverDisposes == FALSE
Disposable == storedIn = "s3"

\* The response is sent and the background task starts.
Schedule(t) ==
  /\ Handler("scheduling", "idle")
  /\ jobPc[t] = "none"
  /\ jobPc' = [jobPc EXCEPT ![t] = "queued"]
  /\ jobSource' = [jobSource EXCEPT ![t] = IF kind = "page" THEN "memory" ELSE "scratch"]
  /\ jobDisposes' = [jobDisposes EXCEPT ![t] = kind # "page" /\ Disposable]
  /\ UNCHANGED <<kind, up, rowVars, fileVars, indexVars, told, jobBatch, jobSays>>

\* /web/scrape of single pages: _register_and_schedule names an undefined
\* variable where it builds the task; the page is reported as an error.
ScrapeFailsToSchedule ==
  /\ kind = "page" /\ Handler("scheduling", "idle")
  /\ UNCHANGED <<kind, up, rowVars, fileVars, indexVars, told, jobVars>>

\* The client may act on the document as it is.
ClientActs == ~Patient \/ status \in {"READY", "FAILED"}

\* A retry: POST reprocess, or the upload of the same bytes while the row is
\* FAILED.  _resolve_local_source downloads the object, or hands over the
\* local path without looking whether it is there.
Resolve(t) ==
  /\ up /\ handler = "idle" /\ Live /\ ClientActs
  /\ jobPc[t] = "none"
  /\ \/ /\ storedIn = "local" \/ object
        /\ handler' = "marking"
        /\ jobPc' = [jobPc EXCEPT ![t] = "added"]
        /\ jobSource' = [jobSource EXCEPT ![t] = IF storedIn = "s3" THEN "temp" ELSE "scratch"]
        /\ jobDisposes' = [jobDisposes EXCEPT ![t] = Disposable]
        /\ temps' = IF storedIn = "s3" THEN temps \cup {t} ELSE temps
     \/ /\ storedIn = "s3" /\ (~object \/ Fault("storeFails"))
        /\ jobPc' = [jobPc EXCEPT ![t] = "done"]
        /\ temps' = temps \cup {t}
        /\ UNCHANGED <<handler, jobSource, jobDisposes>>
  /\ UNCHANGED <<kind, up, rowVars, scratch, object, forgone, indexVars, told, jobBatch, jobSays>>

\* set_status PROCESSING; the task starts after the response.  If the commit
\* fails the request does, and the task it added is never run.  (Slip: the row
\* is left to the job.)
LeftToTheJob == status
RetriedStatus == "PROCESSING"

MarkProcessing(t) ==
  /\ Handler("marking", "idle") /\ jobPc[t] = "added"
  /\ \/ status' = RetriedStatus /\ jobPc' = [jobPc EXCEPT ![t] = "queued"]
     \/ /\ Fault("databaseFails")
        /\ jobPc' = [jobPc EXCEPT ![t] = "done"]
        /\ UNCHANGED status
  /\ UNCHANGED <<kind, up, row, storedIn, summaryText, fileVars, indexVars, told, jobSource,
                 jobDisposes, jobBatch, jobSays>>

\* Scraping a FAILED page again: PROCESSING is committed, and then building
\* the task fails as above.
RescrapeFails ==
  /\ kind = "page" /\ up /\ handler = "idle" /\ Live /\ status = "FAILED"
  /\ status' = "PROCESSING"
  /\ UNCHANGED <<kind, up, row, storedIn, summaryText, fileVars, indexVars, told, handler,
                 jobVars>>

\* DELETE: the chunks, the summary point, the file and the row, in this order.
DeletePoints ==
  /\ Live /\ ClientActs /\ Handler("idle", "deletingSummary")
  /\ index' = {}
  /\ UNCHANGED <<kind, up, rowVars, fileVars, summaryPoint, told, jobVars>>

\* delete_document_summary.  (Slip: not called.)
SummaryKept == summaryPoint
SummaryCleared == FALSE

DeleteSummaryPoint ==
  /\ Handler("deletingSummary", "deletingFile")
  /\ summaryPoint' = SummaryCleared
  /\ UNCHANGED <<kind, up, rowVars, fileVars, index, told, jobVars>>

\* object_store.delete swallows its errors, os.remove's are caught.
DeleteFile ==
  /\ Handler("deletingFile", "deletingRow")
  /\ \/ storedIn = "s3" /\ object' = FALSE /\ UNCHANGED scratch
     \/ storedIn = "local" /\ scratch' = FALSE /\ UNCHANGED object
     \/ Fault("deleteFails") /\ UNCHANGED <<scratch, object>>
  /\ forgone' = TRUE
  /\ UNCHANGED <<kind, up, rowVars, temps, indexVars, told, jobVars>>

DeleteRow ==
  /\ Handler("deletingRow", "idle")
  /\ row' = "deleted"
  /\ UNCHANGED <<kind, up, status, storedIn, summaryText, fileVars, indexVars, told, jobVars>>

\* Qdrant or the commit fails: 500, whatever was deleted stays deleted.
DeleteFails ==
  /\ Fault("deleteFails") /\ handler \in {"deletingSummary", "deletingRow"}
  /\ up /\ handler' = "idle"
  /\ UNCHANGED <<kind, up, rowVars, fileVars, indexVars, told, jobVars>>

-----------------------------------------------------------------------------
(* Jobs: process_document and process_web_document.                         *)

JobMoves(t, from, to) == up /\ jobPc[t] = from /\ jobPc' = [jobPc EXCEPT ![t] = to]

\* set_status: a row that is gone is skipped with a warning.
SetStatus(s) == status' = IF Live THEN s ELSE status

\* PROCESSING is committed before the try: if that fails, nothing of what
\* follows is run, the except and the finally included.
JobStarts(t) ==
  /\ \/ /\ JobMoves(t, "queued", "telling")
        /\ SetStatus("PROCESSING")
        /\ jobSays' = [jobSays EXCEPT ![t] = "PROCESSING"]
     \/ /\ Fault("databaseFails") /\ JobMoves(t, "queued", "done")
        /\ UNCHANGED <<status, jobSays>>
  /\ UNCHANGED <<kind, up, row, storedIn, summaryText, fileVars, indexVars, told, handler,
                 jobSource, jobDisposes, jobBatch>>

\* notify_status_change: never raises, and is not tried again.
JobTells(t) ==
  /\ JobMoves(t, "telling", IF jobSays[t] = "PROCESSING" THEN "clearing" ELSE "ending")
  /\ \/ told' = jobSays[t]
     \/ Fault("webhookFails") /\ UNCHANGED told
  /\ UNCHANGED <<kind, up, rowVars, fileVars, indexVars, handler, jobSource, jobDisposes,
                 jobBatch, jobSays>>

\* A stage that raises ends in the except branch.
StageFails(t, from, fault) ==
  /\ Fault(fault) /\ JobMoves(t, from, "failing")
  /\ UNCHANGED <<rowVars, indexVars, jobBatch>>

JobClears(t) ==
  /\ \/ /\ JobMoves(t, "clearing", "clearingSummary")
        /\ index' = {}
        /\ UNCHANGED <<rowVars, summaryPoint, jobBatch>>
     \/ StageFails(t, "clearing", "clearFails")
  /\ UNCHANGED <<kind, up, fileVars, told, handler, jobSource, jobDisposes, jobSays>>

JobClearsSummary(t) ==
  /\ \/ /\ JobMoves(t, "clearingSummary", "reading")
        /\ summaryPoint' = SummaryCleared
        /\ UNCHANGED <<rowVars, index, jobBatch>>
     \/ StageFails(t, "clearingSummary", "clearFails")
  /\ UNCHANGED <<kind, up, fileVars, told, handler, jobSource, jobDisposes, jobSays>>

HasSource(t) == \/ jobSource[t] = "memory"
                \/ jobSource[t] = "scratch" /\ scratch
                \/ jobSource[t] = "temp" /\ t \in temps

\* Extraction and chunking, or the caption of an image.
JobReads(t) ==
  /\ \/ /\ HasSource(t) /\ JobMoves(t, "reading", "indexing")
        /\ UNCHANGED <<rowVars, indexVars, jobBatch>>
     \/ /\ ~HasSource(t) /\ JobMoves(t, "reading", "failing")
        /\ UNCHANGED <<rowVars, indexVars, jobBatch>>
     \/ StageFails(t, "reading", "stageFails")
  /\ UNCHANGED <<kind, up, fileVars, told, handler, jobSource, jobDisposes, jobSays>>

\* upsert_chunks: all batches were upserted.  (Slips: one is left; one too
\* many.)
StopsOneEarly(t) == jobBatch[t] + 1 >= Batches
RunsOver(t) == jobBatch[t] > Batches
AllUpserted(t) == jobBatch[t] = Batches

\* The next batch, or the end of the loop.  A batch whose retries are
\* exhausted may have been applied all the same.
JobIndexes(t) ==
  /\ \/ /\ ~AllUpserted(t) /\ JobMoves(t, "indexing", "indexing")
        /\ index' = index \cup {jobBatch[t] + 1}
        /\ jobBatch' = [jobBatch EXCEPT ![t] = @ + 1]
        /\ UNCHANGED <<rowVars, summaryPoint>>
     \/ /\ AllUpserted(t) /\ JobMoves(t, "indexing", "summarising")
        /\ UNCHANGED <<rowVars, indexVars, jobBatch>>
     \/ /\ ~AllUpserted(t) /\ Fault("stageFails") /\ JobMoves(t, "indexing", "failing")
        /\ index' \in {index, index \cup {jobBatch[t] + 1}}
        /\ UNCHANGED <<rowVars, summaryPoint, jobBatch>>
  /\ UNCHANGED <<kind, up, fileVars, told, handler, jobSource, jobDisposes, jobSays>>

\* apply_summary, with the summary or, if there is none, with an empty one;
\* an image's caption is its summary and is not in the shortlist.
JobSummarises(t) ==
  /\ \/ /\ JobMoves(t, "summarising", IF kind = "image" THEN "finishing" ELSE "indexingSummary")
        /\ summaryText' = (Live \/ summaryText)
        /\ UNCHANGED <<row, status, storedIn, indexVars, jobBatch>>
     \/ /\ kind # "image" /\ Fault("stageFails") /\ JobMoves(t, "summarising", "finishing")
        /\ summaryText' = (summaryText /\ ~Live)
        /\ UNCHANGED <<row, status, storedIn, indexVars, jobBatch>>
     \/ StageFails(t, "summarising", "databaseFails")
  /\ UNCHANGED <<kind, up, fileVars, told, handler, jobSource, jobDisposes, jobSays>>

\* Best effort: the document is not shortlisted if this fails.
JobIndexesSummary(t) ==
  /\ JobMoves(t, "indexingSummary", "finishing")
  /\ \/ summaryPoint' = TRUE
     \/ Fault("stageFails") /\ UNCHANGED summaryPoint
  /\ UNCHANGED <<kind, up, rowVars, fileVars, index, told, handler, jobSource, jobDisposes,
                 jobBatch, jobSays>>

\* set_image_count and set_status READY.
JobFinishes(t) ==
  /\ \/ /\ JobMoves(t, "finishing", "telling")
        /\ SetStatus("READY")
        /\ jobSays' = [jobSays EXCEPT ![t] = "READY"]
        /\ UNCHANGED <<row, storedIn, summaryText, indexVars, jobBatch>>
     \/ StageFails(t, "finishing", "databaseFails") /\ UNCHANGED jobSays
  /\ UNCHANGED <<kind, up, fileVars, told, handler, jobSource, jobDisposes>>

\* The except branch.  (Slip: the row is left as it is.)
LeftProcessing == "PROCESSING"
FailureStatus == "FAILED"

JobFails(t) ==
  /\ \/ /\ JobMoves(t, "failing", "telling")
        /\ SetStatus(FailureStatus)
        /\ jobSays' = [jobSays EXCEPT ![t] = "FAILED"]
     \/ /\ Fault("databaseFails") /\ JobMoves(t, "failing", "ending")
        /\ UNCHANGED <<status, jobSays>>
  /\ UNCHANGED <<kind, up, row, storedIn, summaryText, fileVars, indexVars, told, handler,
                 jobSource, jobDisposes, jobBatch>>

\* The finally branch.
JobEnds(t) ==
  /\ JobMoves(t, "ending", "done")
  /\ \/ /\ jobDisposes[t]
        /\ scratch' = (scratch /\ jobSource[t] # "scratch")
        /\ temps' = temps \ {t}
     \/ /\ ~jobDisposes[t] \/ Fault("unlinkFails")
        /\ UNCHANGED <<scratch, temps>>
  /\ jobSource' = [jobSource EXCEPT ![t] = "none"]
  /\ jobDisposes' = [jobDisposes EXCEPT ![t] = FALSE]
  /\ jobBatch' = [jobBatch EXCEPT ![t] = 0]
  /\ jobSays' = [jobSays EXCEPT ![t] = "nothing"]
  /\ UNCHANGED <<kind, up, rowVars, object, forgone, indexVars, told, handler>>

-----------------------------------------------------------------------------
(* The process dies, and starts again.                                      *)

\* At any time, or only when the document is not UPLOADED any more.
Crash ==
  /\ up
  /\ Fault("crash") \/ (Fault("crashLater") /\ status # "UPLOADED")
  /\ up' = FALSE /\ handler' = "idle"
  /\ jobPc' = [t \in Job |-> IF jobPc[t] = "none" THEN "none" ELSE "done"]
  /\ jobSource' = [t \in Job |-> "none"]
  /\ jobDisposes' = [t \in Job |-> FALSE]
  /\ jobBatch' = [t \in Job |-> 0]
  /\ jobSays' = [t \in Job |-> "nothing"]
  /\ UNCHANGED <<kind, rowVars, fileVars, indexVars, told>>

\* init_db: _bootstrap_document_registry_columns backfills UPLOADED to READY,
\* then mark_interrupted_jobs fails what is in PROCESSING.  (Slip: it does not.)
BackfillOnly(s) == IF s = "UPLOADED" THEN "READY" ELSE s
AfterInitDb(s) == CASE s = "UPLOADED" -> "READY"
                    [] s = "PROCESSING" -> "FAILED"
                    [] OTHER -> s

InitDb == status' = IF Live THEN AfterInitDb(status) ELSE status

\* sweep_orphaned_uploads: a bucket is configured and the row says that it
\* has this document.  (Slip: the age of the file is enough.)
SweptByAge == S3
Swept == S3 /\ Live /\ storedIn = "s3"

\* The lifespan of the application begins; a file younger than the TTL stays.
Restart ==
  /\ ~up /\ up' = TRUE
  /\ InitDb
  /\ \/ Swept /\ scratch' = FALSE
     \/ UNCHANGED scratch
  /\ UNCHANGED <<kind, row, storedIn, summaryText, object, temps, forgone, indexVars, told, handler,
                 jobVars>>

\* cli.py calls init_db too, whether or not the server is running.
CliInitsDb ==
  /\ Fault("cli")
  /\ InitDb
  /\ UNCHANGED <<kind, up, row, storedIn, summaryText, fileVars, indexVars, told, handler,
                 jobVars>>

-----------------------------------------------------------------------------
HandlerStep == \/ RegisterDocument \/ StoreObject \/ SetStoredPath \/ RejectUpload
               \/ ScrapeFailsToSchedule
               \/ \E t \in Job : Schedule(t) \/ MarkProcessing(t)
               \/ DeleteSummaryPoint \/ DeleteFile \/ DeleteRow \/ DeleteFails

Request == WriteFile \/ (\E t \in Job : Resolve(t)) \/ RescrapeFails \/ DeletePoints

JobStep(t) == \/ JobStarts(t) \/ JobTells(t) \/ JobClears(t) \/ JobClearsSummary(t)
              \/ JobReads(t) \/ JobIndexes(t) \/ JobSummarises(t) \/ JobIndexesSummary(t)
              \/ JobFinishes(t) \/ JobFails(t) \/ JobEnds(t)

Next == Request \/ HandlerStep \/ (\E t \in Job : JobStep(t)) \/ Crash \/ Restart \/ CliInitsDb

Spec == Init /\ [][Next]_vars

\* A handler runs to its response, the pool runs every job it was given, and
\* the container is restarted.
FairSpec == /\ Spec
            /\ WF_vars(HandlerStep)
            /\ \A t \in Job : WF_vars(JobStep(t))
            /\ WF_vars(Restart)

-----------------------------------------------------------------------------
(* Properties.                                                              *)

\* Every variable has its type; the index and the jobs name only batches that
\* exist, and temporary files belong to jobs.
ServerTypeOK == /\ up \in BOOLEAN /\ handler \in HandlerPc
                /\ told \in {"nothing", "PROCESSING", "READY", "FAILED"}

RowTypeOK == /\ row \in {"absent", "live", "deleted"} /\ status \in Status
             /\ storedIn \in {"local", "s3"} /\ summaryText \in BOOLEAN

FileTypeOK == /\ scratch \in BOOLEAN /\ object \in BOOLEAN /\ temps \subseteq Job
              /\ forgone \in BOOLEAN

IndexTypeOK == index \subseteq AllBatches /\ summaryPoint \in BOOLEAN

JobTypeOK == /\ jobPc \in [Job -> JobPc]
             /\ jobSource \in [Job -> {"none", "memory", "scratch", "temp"}]
             /\ jobDisposes \in [Job -> BOOLEAN]
             /\ jobBatch \in [Job -> 0 .. Batches]
             /\ jobSays \in [Job -> {"nothing", "PROCESSING", "READY", "FAILED"}]

TypeOK == kind \in Kinds /\ ServerTypeOK /\ RowTypeOK /\ FileTypeOK /\ IndexTypeOK /\ JobTypeOK

Resting == up /\ handler = "idle" /\ \A t \in Job : ~InFlight(t)

\* A job whose outcome is still to come.
Working(t) == InFlight(t) /\ jobPc[t] # "ending" /\ jobSays[t] \in {"nothing", "PROCESSING"}

\* A document that is READY, and is not being deleted, is in the index with
\* every batch of its text: what process_document calls the retrieval-critical
\* step is complete whatever retry, crash or failed stage came before.
ReadyIsIndexed == Live /\ status = "READY" /\ ~Deleting => index = AllBatches

\* The bytes of a document are where stored_path says, so that it can be
\* served and ingested again, unless its upload was rejected or a deletion has
\* reached them: no crash, sweep, retry or failed deletion of the rest loses them.
BytesReachable == Live /\ ~forgone => IF storedIn = "s3" THEN object ELSE scratch

\* Nobody removes the file a job was handed before the job has read it.
SourceOutlivesJob ==
  \A t \in Job :
    \/ jobPc[t] \in {"added", "queued", "clearing", "clearingSummary", "reading"}
    \/ jobPc[t] = "telling" /\ jobSays[t] = "PROCESSING"
    => HasSource(t)

\* A deleted document has no chunk and no summary point left to be retrieved.
DeletedLeavesNothing == row = "deleted" => index = {} /\ ~summaryPoint

\* At rest, a document that can be shortlisted has something to retrieve.
ShortlistedHasChunks == Resting /\ summaryPoint => index # {}

\* At rest, no disposable copy is left on disk: no downloaded temporary file,
\* and no upload that the bucket holds.
ScratchReleased == Resting => temps = {} /\ ~(Live /\ storedIn = "s3" /\ scratch)

\* Only the documents of dead jobs are marked as interrupted: a row leaves
\* PROCESSING for FAILED by its job, or when no job is left.
OnlyDeadJobsAreInterrupted ==
  [][status = "PROCESSING" /\ status' = "FAILED"
       => \A t \in Job : Working(t) => jobPc[t] = "failing"]_vars

\* Every file or image that is being ingested becomes READY or FAILED.
Settles == (Live /\ kind # "page" /\ status \in {"UPLOADED", "PROCESSING"})
             ~> (Live /\ status \in {"READY", "FAILED"})

\* One document as its clients see it.
Registry == INSTANCE DocumentRegistry WITH
  state <- IF row = "absent" THEN "ABSENT" ELSE IF row = "deleted" THEN "DELETED" ELSE status,
  deleting <- Deleting,
  searchable <- index = AllBatches

\* The lifecycle is one of the registry: PROCESSING comes before READY, READY
\* only with the whole text in the index, the text goes only in a deletion or
\* an ingestion, also when the deletion fails, and nothing comes after DELETED.
RegistrySpec == Registry!Spec

-----------------------------------------------------------------------------
(* What a comment says and the code does not do.                            *)

\* "Core learns a document reached PROCESSING/READY/FAILED the moment it
\* happens": at rest, the last status Core was notified of is the row's.
CoreLearnsOutcome ==
  Resting /\ Live /\ status \in {"READY", "FAILED"} => told = status
=============================================================================
