----------------------- MODULE DocumentRegistryProofs -----------------------
(***************************************************************************)
(* What holds of one document for clients that wait until it is READY or     *)
(* FAILED, for every number of jobs and batches: at most one job works on it, *)
(* and holds its row.  That is why READY means wholly indexed, a deletion      *)
(* leaves nothing, and the lifecycle implements DocumentRegistry.             *)
(*                                                                         *)
(* Each theorem names the faults that its property does not survive; every    *)
(* other fault may happen at any time.                                        *)
(***************************************************************************)
EXTENDS DocumentLifecycleProofs

\* Clients that wait, and no init_db beside the server.
Waits == Patient /\ "cli" \notin Faults

\* None of these faults happens.
Without(F) == \A f \in F : f \notin Faults

\* A job that is going to change the document.
Active(t) ==
  \/ jobPc[t] \in {"queued", "clearing", "clearingSummary", "reading", "indexing", "summarising",
                   "indexingSummary", "finishing", "failing"}
  \/ jobPc[t] = "telling" /\ jobSays[t] \in {"nothing", "PROCESSING"}

Busy(t) == Active(t) \/ jobPc[t] = "added"

\* What each request finds in the row.
Rows ==
  /\ row = "absent" => status = "UPLOADED" /\ handler \in {"idle", "registering"}
  /\ handler = "registering" => row = "absent"
  /\ handler \in {"storing", "pointing", "rejecting", "scheduling"} => Live /\ status = "UPLOADED"
  /\ handler = "marking" \/ Deleting => Live /\ status \in {"READY", "FAILED"}
  /\ ~up => handler = "idle"

OneWorker ==
  /\ \A t \in Job : jobPc[t] = "added" => handler = "marking"
  /\ \A t, u \in Job : Busy(t) /\ Busy(u) => t = u

WorkerHoldsRow ==
  \A t \in Job : Active(t) =>
    /\ up /\ handler = "idle" /\ Live
    /\ status = "PROCESSING" \/ (status = "UPLOADED" /\ jobPc[t] = "queued")

\* The index is what the worker has counted.
IndexProgress ==
  \A t \in Job :
    /\ jobPc[t] \in {"none", "added", "queued", "clearing", "clearingSummary", "reading"}
       \/ (jobPc[t] = "telling" /\ Active(t)) => jobBatch[t] = 0
    /\ jobPc[t] \in {"clearingSummary", "reading"} => index = {}
    /\ jobPc[t] = "indexing" => index = 1 .. jobBatch[t]
    /\ jobPc[t] \in {"summarising", "indexingSummary", "finishing"} => index = AllBatches

\* What is, or is being, deleted.
Gone ==
  /\ row = "absent" => index = {} /\ ~summaryPoint
  /\ Deleting \/ row = "deleted" => index = {}
  /\ handler \in {"deletingFile", "deletingRow"} \/ row = "deleted" => ~summaryPoint

Inv == Rows /\ OneWorker /\ WorkerHoldsRow /\ IndexProgress /\ Gone

LEMMA EmptyRange == 1 .. 0 = {}
  OBVIOUS

LEMMA NextOfRange == ASSUME NEW n \in Nat PROVE (1 .. n) \cup {n + 1} = 1 .. (n + 1)
  OBVIOUS

LEMMA SomeBatch == 1 \in AllBatches
  BY BatchesAssumption DEF AllBatches

LEMMA InvInit == Init => Inv
BY DEF Init, Inv, Rows, OneWorker, WorkerHoldsRow, IndexProgress, Gone, Active, Busy, Deleting, Live

\* Of a row that is not UPLOADED, init_db changes PROCESSING only.
LEMMA AfterRestart == status # "UPLOADED" => AfterInitDb(status) = IF status = "PROCESSING" THEN "FAILED" ELSE status
  BY Zenon DEF AfterInitDb

\* Only the worker and the request under way change the status.
LEMMA RowsStep ==
  ASSUME TypeOK, Inv, [Next]_vars, Waits
  PROVE  Rows'
<1> USE DEF TypeOK, Live, Fault, rowVars, fileVars, indexVars, jobVars,
            Inv, Waits, Rows, WorkerHoldsRow, Active, Deleting, RowTypeOK, ServerTypeOK, Status, HandlerPc
<1>1. CASE WriteFile
  BY <1>1 DEF WriteFile, Handler
<1>2. CASE RegisterDocument
  BY <1>2 DEF RegisterDocument, Handler
<1>3. CASE StoreObject
  BY <1>3 DEF StoreObject
<1>4. CASE SetStoredPath
  BY <1>4 DEF SetStoredPath
<1>5. CASE RejectUpload
  BY <1>5 DEF RejectUpload, Handler
<1>6. CASE ScrapeFailsToSchedule
  BY <1>6 DEF ScrapeFailsToSchedule, Handler
<1>7. CASE RescrapeFails
  BY <1>7 DEF RescrapeFails
<1>8. CASE DeletePoints
  BY <1>8 DEF DeletePoints, Handler, ClientActs
<1>9. CASE DeleteSummaryPoint
  BY <1>9 DEF DeleteSummaryPoint, Handler, SummaryCleared
<1>10. CASE DeleteFile
  BY <1>10 DEF DeleteFile, Handler
<1>11. CASE DeleteRow
  BY <1>11 DEF DeleteRow, Handler
<1>12. CASE DeleteFails
  BY <1>12 DEF DeleteFails
<1>13. CASE Crash
  BY <1>13 DEF Crash
<1>14. CASE Restart
  BY <1>14 DEF Restart, InitDb, AfterInitDb
<1>15. ASSUME NEW t \in Job, Resolve(t) PROVE Rows'
  BY <1>15 DEF Resolve, ClientActs
<1>16. ASSUME NEW t \in Job, Schedule(t) PROVE Rows'
  BY <1>16 DEF Schedule, Handler
<1>17. ASSUME NEW t \in Job, MarkProcessing(t) PROVE Rows'
  BY <1>17 DEF MarkProcessing, Handler, RetriedStatus
<1>18. ASSUME NEW t \in Job, JobStarts(t) PROVE Rows'
  BY <1>18 DEF JobStarts, JobMoves, SetStatus
<1>19. ASSUME NEW t \in Job, JobTells(t) PROVE Rows'
  BY <1>19 DEF JobTells, JobMoves
<1>20. ASSUME NEW t \in Job, JobClears(t) PROVE Rows'
  BY <1>20 DEF JobClears, JobMoves, StageFails
<1>21. ASSUME NEW t \in Job, JobClearsSummary(t) PROVE Rows'
  BY <1>21 DEF JobClearsSummary, JobMoves, StageFails, SummaryCleared
<1>22. ASSUME NEW t \in Job, JobReads(t) PROVE Rows'
  BY <1>22 DEF JobReads, JobMoves, StageFails
<1>23. ASSUME NEW t \in Job, JobIndexes(t) PROVE Rows'
  BY <1>23 DEF JobIndexes, JobMoves, AllUpserted
<1>24. ASSUME NEW t \in Job, JobSummarises(t) PROVE Rows'
  BY <1>24 DEF JobSummarises, JobMoves, StageFails
<1>25. ASSUME NEW t \in Job, JobIndexesSummary(t) PROVE Rows'
  BY <1>25 DEF JobIndexesSummary, JobMoves
<1>26. ASSUME NEW t \in Job, JobFinishes(t) PROVE Rows'
  BY <1>26 DEF JobFinishes, JobMoves, StageFails, SetStatus
<1>27. ASSUME NEW t \in Job, JobFails(t) PROVE Rows'
  BY <1>27 DEF JobFails, JobMoves, SetStatus, FailureStatus
<1>28. ASSUME NEW t \in Job, JobEnds(t) PROVE Rows'
  BY <1>28 DEF JobEnds, JobMoves
<1>29. CASE UNCHANGED vars
  BY <1>29 DEF vars
<1>30. ~CliInitsDb
  BY DEF CliInitsDb
<1> QED
  BY <1>1, <1>2, <1>3, <1>4, <1>5, <1>6, <1>7, <1>8, <1>9, <1>10, <1>11, <1>12,
     <1>13, <1>14, <1>15, <1>16, <1>17, <1>18, <1>19, <1>20, <1>21, <1>22, <1>23, <1>24,
     <1>25, <1>26, <1>27, <1>28, <1>29, <1>30
     DEF Next, Request, HandlerStep, JobStep

\* A job is added only by a request, and a request waits for the worker.
LEMMA OneWorkerStep ==
  ASSUME TypeOK, Inv, [Next]_vars, Waits
  PROVE  OneWorker'
<1> USE DEF TypeOK, Live, Fault, rowVars, fileVars, indexVars, jobVars,
            Inv, Waits, OneWorker, Rows, WorkerHoldsRow, Active, Busy, Deleting, JobTypeOK, RowTypeOK,
            Status
<1>1. CASE WriteFile
  BY <1>1 DEF WriteFile, Handler
<1>2. CASE RegisterDocument
  BY <1>2 DEF RegisterDocument, Handler
<1>3. CASE StoreObject
  BY <1>3 DEF StoreObject
<1>4. CASE SetStoredPath
  BY <1>4 DEF SetStoredPath
<1>5. CASE RejectUpload
  BY <1>5 DEF RejectUpload, Handler
<1>6. CASE ScrapeFailsToSchedule
  BY <1>6 DEF ScrapeFailsToSchedule, Handler
<1>7. CASE RescrapeFails
  BY <1>7 DEF RescrapeFails
<1>8. CASE DeletePoints
  BY <1>8 DEF DeletePoints, Handler, ClientActs
<1>9. CASE DeleteSummaryPoint
  BY <1>9 DEF DeleteSummaryPoint, Handler, SummaryCleared
<1>10. CASE DeleteFile
  BY <1>10 DEF DeleteFile, Handler
<1>11. CASE DeleteRow
  BY <1>11 DEF DeleteRow, Handler
<1>12. CASE DeleteFails
  BY <1>12 DEF DeleteFails
<1>13. CASE Crash
  BY <1>13 DEF Crash
<1>14. CASE Restart
  BY <1>14 DEF Restart, InitDb, AfterInitDb
<1>15. ASSUME NEW t \in Job, Resolve(t) PROVE OneWorker'
  BY <1>15 DEF Resolve, ClientActs
<1>16. ASSUME NEW t \in Job, Schedule(t) PROVE OneWorker'
  BY <1>16 DEF Schedule, Handler
<1>17. ASSUME NEW t \in Job, MarkProcessing(t) PROVE OneWorker'
  BY <1>17 DEF MarkProcessing, Handler, RetriedStatus
<1>18. ASSUME NEW t \in Job, JobStarts(t) PROVE OneWorker'
  BY <1>18 DEF JobStarts, JobMoves, SetStatus
<1>19. ASSUME NEW t \in Job, JobTells(t) PROVE OneWorker'
  BY <1>19 DEF JobTells, JobMoves
<1>20. ASSUME NEW t \in Job, JobClears(t) PROVE OneWorker'
  BY <1>20 DEF JobClears, JobMoves, StageFails
<1>21. ASSUME NEW t \in Job, JobClearsSummary(t) PROVE OneWorker'
  BY <1>21 DEF JobClearsSummary, JobMoves, StageFails, SummaryCleared
<1>22. ASSUME NEW t \in Job, JobReads(t) PROVE OneWorker'
  BY <1>22 DEF JobReads, JobMoves, StageFails
<1>23. ASSUME NEW t \in Job, JobIndexes(t) PROVE OneWorker'
  BY <1>23 DEF JobIndexes, JobMoves, AllUpserted
<1>24. ASSUME NEW t \in Job, JobSummarises(t) PROVE OneWorker'
  BY <1>24 DEF JobSummarises, JobMoves, StageFails
<1>25. ASSUME NEW t \in Job, JobIndexesSummary(t) PROVE OneWorker'
  BY <1>25 DEF JobIndexesSummary, JobMoves
<1>26. ASSUME NEW t \in Job, JobFinishes(t) PROVE OneWorker'
  BY <1>26 DEF JobFinishes, JobMoves, StageFails, SetStatus
<1>27. ASSUME NEW t \in Job, JobFails(t) PROVE OneWorker'
  BY <1>27 DEF JobFails, JobMoves, SetStatus, FailureStatus
<1>28. ASSUME NEW t \in Job, JobEnds(t) PROVE OneWorker'
  BY <1>28 DEF JobEnds, JobMoves
<1>29. CASE UNCHANGED vars
  BY <1>29 DEF vars
<1>30. ~CliInitsDb
  BY DEF CliInitsDb
<1> QED
  BY <1>1, <1>2, <1>3, <1>4, <1>5, <1>6, <1>7, <1>8, <1>9, <1>10, <1>11, <1>12,
     <1>13, <1>14, <1>15, <1>16, <1>17, <1>18, <1>19, <1>20, <1>21, <1>22, <1>23, <1>24,
     <1>25, <1>26, <1>27, <1>28, <1>29, <1>30
     DEF Next, Request, HandlerStep, JobStep

\* Nothing takes the row from the worker.
LEMMA WorkerHoldsRowStep ==
  ASSUME TypeOK, Inv, [Next]_vars, Waits
  PROVE  WorkerHoldsRow'
<1> USE DEF TypeOK, Live, Fault, rowVars, fileVars, indexVars, jobVars,
            Inv, Waits, OneWorker, Rows, WorkerHoldsRow, Active, Busy, Deleting, JobTypeOK, RowTypeOK,
            Status
<1>1. CASE WriteFile
  BY <1>1 DEF WriteFile, Handler
<1>2. CASE RegisterDocument
  BY <1>2 DEF RegisterDocument, Handler
<1>3. CASE StoreObject
  BY <1>3 DEF StoreObject
<1>4. CASE SetStoredPath
  BY <1>4 DEF SetStoredPath
<1>5. CASE RejectUpload
  BY <1>5 DEF RejectUpload, Handler
<1>6. CASE ScrapeFailsToSchedule
  BY <1>6 DEF ScrapeFailsToSchedule, Handler
<1>7. CASE RescrapeFails
  BY <1>7 DEF RescrapeFails
<1>8. CASE DeletePoints
  BY <1>8 DEF DeletePoints, Handler, ClientActs
<1>9. CASE DeleteSummaryPoint
  BY <1>9 DEF DeleteSummaryPoint, Handler, SummaryCleared
<1>10. CASE DeleteFile
  BY <1>10 DEF DeleteFile, Handler
<1>11. CASE DeleteRow
  BY <1>11 DEF DeleteRow, Handler
<1>12. CASE DeleteFails
  BY <1>12 DEF DeleteFails
<1>13. CASE Crash
  BY <1>13 DEF Crash
<1>14. CASE Restart
  BY <1>14 DEF Restart, InitDb, AfterInitDb
<1>15. ASSUME NEW t \in Job, Resolve(t) PROVE WorkerHoldsRow'
  BY <1>15 DEF Resolve, ClientActs
<1>16. ASSUME NEW t \in Job, Schedule(t) PROVE WorkerHoldsRow'
  BY <1>16 DEF Schedule, Handler
<1>17. ASSUME NEW t \in Job, MarkProcessing(t) PROVE WorkerHoldsRow'
  BY <1>17 DEF MarkProcessing, Handler, RetriedStatus
<1>18. ASSUME NEW t \in Job, JobStarts(t) PROVE WorkerHoldsRow'
  BY <1>18 DEF JobStarts, JobMoves, SetStatus
<1>19. ASSUME NEW t \in Job, JobTells(t) PROVE WorkerHoldsRow'
  BY <1>19 DEF JobTells, JobMoves
<1>20. ASSUME NEW t \in Job, JobClears(t) PROVE WorkerHoldsRow'
  BY <1>20 DEF JobClears, JobMoves, StageFails
<1>21. ASSUME NEW t \in Job, JobClearsSummary(t) PROVE WorkerHoldsRow'
  BY <1>21 DEF JobClearsSummary, JobMoves, StageFails, SummaryCleared
<1>22. ASSUME NEW t \in Job, JobReads(t) PROVE WorkerHoldsRow'
  BY <1>22 DEF JobReads, JobMoves, StageFails
<1>23. ASSUME NEW t \in Job, JobIndexes(t) PROVE WorkerHoldsRow'
  BY <1>23 DEF JobIndexes, JobMoves, AllUpserted
<1>24. ASSUME NEW t \in Job, JobSummarises(t) PROVE WorkerHoldsRow'
  BY <1>24 DEF JobSummarises, JobMoves, StageFails
<1>25. ASSUME NEW t \in Job, JobIndexesSummary(t) PROVE WorkerHoldsRow'
  BY <1>25 DEF JobIndexesSummary, JobMoves
<1>26. ASSUME NEW t \in Job, JobFinishes(t) PROVE WorkerHoldsRow'
  BY <1>26 DEF JobFinishes, JobMoves, StageFails, SetStatus
<1>27. ASSUME NEW t \in Job, JobFails(t) PROVE WorkerHoldsRow'
  BY <1>27 DEF JobFails, JobMoves, SetStatus, FailureStatus
<1>28. ASSUME NEW t \in Job, JobEnds(t) PROVE WorkerHoldsRow'
  BY <1>28 DEF JobEnds, JobMoves
<1>29. CASE UNCHANGED vars
  BY <1>29 DEF vars
<1>30. ~CliInitsDb
  BY DEF CliInitsDb
<1> QED
  BY <1>1, <1>2, <1>3, <1>4, <1>5, <1>6, <1>7, <1>8, <1>9, <1>10, <1>11, <1>12,
     <1>13, <1>14, <1>15, <1>16, <1>17, <1>18, <1>19, <1>20, <1>21, <1>22, <1>23, <1>24,
     <1>25, <1>26, <1>27, <1>28, <1>29, <1>30
     DEF Next, Request, HandlerStep, JobStep

\* The index is that of the worker, batch by batch.
LEMMA IndexProgressStep ==
  ASSUME TypeOK, Inv, [Next]_vars, Waits
  PROVE  IndexProgress'
<1> USE DEF TypeOK, Live, Fault, rowVars, fileVars, indexVars, jobVars,
            Inv, Waits, OneWorker, IndexProgress, Rows, WorkerHoldsRow, Active, Busy, Deleting, JobTypeOK
<1>1. CASE WriteFile
  BY <1>1 DEF WriteFile, Handler
<1>2. CASE RegisterDocument
  BY <1>2 DEF RegisterDocument, Handler
<1>3. CASE StoreObject
  BY <1>3 DEF StoreObject
<1>4. CASE SetStoredPath
  BY <1>4 DEF SetStoredPath
<1>5. CASE RejectUpload
  BY <1>5 DEF RejectUpload, Handler
<1>6. CASE ScrapeFailsToSchedule
  BY <1>6 DEF ScrapeFailsToSchedule, Handler
<1>7. CASE RescrapeFails
  BY <1>7 DEF RescrapeFails
<1>8. CASE DeletePoints
  BY <1>8 DEF DeletePoints, Handler, ClientActs
<1>9. CASE DeleteSummaryPoint
  BY <1>9 DEF DeleteSummaryPoint, Handler, SummaryCleared
<1>10. CASE DeleteFile
  BY <1>10 DEF DeleteFile, Handler
<1>11. CASE DeleteRow
  BY <1>11 DEF DeleteRow, Handler
<1>12. CASE DeleteFails
  BY <1>12 DEF DeleteFails
<1>13. CASE Crash
  BY <1>13 DEF Crash
<1>14. CASE Restart
  BY <1>14 DEF Restart, InitDb, AfterInitDb
<1>15. ASSUME NEW t \in Job, Resolve(t) PROVE IndexProgress'
  BY <1>15 DEF Resolve, ClientActs
<1>16. ASSUME NEW t \in Job, Schedule(t) PROVE IndexProgress'
  BY <1>16 DEF Schedule, Handler
<1>17. ASSUME NEW t \in Job, MarkProcessing(t) PROVE IndexProgress'
  BY <1>17 DEF MarkProcessing, Handler, RetriedStatus
<1>18. ASSUME NEW t \in Job, JobStarts(t) PROVE IndexProgress'
  BY <1>18 DEF JobStarts, JobMoves, SetStatus
<1>19. ASSUME NEW t \in Job, JobTells(t) PROVE IndexProgress'
  BY <1>19 DEF JobTells, JobMoves
<1>20. ASSUME NEW t \in Job, JobClears(t) PROVE IndexProgress'
  BY <1>20 DEF JobClears, JobMoves, StageFails
<1>21. ASSUME NEW t \in Job, JobClearsSummary(t) PROVE IndexProgress'
  BY <1>21 DEF JobClearsSummary, JobMoves, StageFails, SummaryCleared
<1>22. ASSUME NEW t \in Job, JobReads(t) PROVE IndexProgress'
  BY <1>22, EmptyRange DEF JobReads, JobMoves, StageFails
<1>23. ASSUME NEW t \in Job, JobIndexes(t) PROVE IndexProgress'
  <2>1. /\ jobPc[t] = "indexing" /\ Active(t) /\ jobBatch[t] \in 0 .. Batches
        /\ index = 1 .. jobBatch[t]
    BY <1>23 DEF JobIndexes, JobMoves, AllUpserted
  <2>2. \A u \in Job : u # t => /\ ~Active(u) /\ jobPc'[u] = jobPc[u]
                                /\ jobBatch'[u] = jobBatch[u] /\ jobSays'[u] = jobSays[u]
    BY <1>23, <2>1 DEF JobIndexes, JobMoves, AllUpserted
  <2>3. \/ /\ jobPc'[t] = "indexing" /\ jobBatch'[t] = jobBatch[t] + 1
           /\ index' = index \cup {jobBatch[t] + 1}
        \/ jobPc'[t] = "summarising" /\ index' = index /\ jobBatch[t] = Batches
        \/ jobPc'[t] = "failing"
    BY <1>23, <2>1 DEF JobIndexes, JobMoves, AllUpserted
  <2>4. jobBatch[t] \in Nat /\ index \cup {jobBatch[t] + 1} = 1 .. (jobBatch[t] + 1)
    BY <2>1, NextOfRange
  <2>5. jobPc'[t] = "indexing" => index' = 1 .. jobBatch'[t]
    BY <2>3, <2>4
  <2>6. jobPc'[t] = "summarising" => index' = AllBatches
    BY <2>1, <2>3 DEF AllBatches
  <2> QED BY <2>2, <2>3, <2>5, <2>6
<1>24. ASSUME NEW t \in Job, JobSummarises(t) PROVE IndexProgress'
  BY <1>24 DEF JobSummarises, JobMoves, StageFails
<1>25. ASSUME NEW t \in Job, JobIndexesSummary(t) PROVE IndexProgress'
  BY <1>25 DEF JobIndexesSummary, JobMoves
<1>26. ASSUME NEW t \in Job, JobFinishes(t) PROVE IndexProgress'
  BY <1>26 DEF JobFinishes, JobMoves, StageFails, SetStatus
<1>27. ASSUME NEW t \in Job, JobFails(t) PROVE IndexProgress'
  BY <1>27 DEF JobFails, JobMoves, SetStatus, FailureStatus
<1>28. ASSUME NEW t \in Job, JobEnds(t) PROVE IndexProgress'
  BY <1>28 DEF JobEnds, JobMoves
<1>29. CASE UNCHANGED vars
  BY <1>29 DEF vars
<1>30. ~CliInitsDb
  BY DEF CliInitsDb
<1> QED
  BY <1>1, <1>2, <1>3, <1>4, <1>5, <1>6, <1>7, <1>8, <1>9, <1>10, <1>11, <1>12,
     <1>13, <1>14, <1>15, <1>16, <1>17, <1>18, <1>19, <1>20, <1>21, <1>22, <1>23, <1>24,
     <1>25, <1>26, <1>27, <1>28, <1>29, <1>30
     DEF Next, Request, HandlerStep, JobStep

\* No job works on a document that is being deleted.
LEMMA GoneStep ==
  ASSUME TypeOK, Inv, [Next]_vars, Waits
  PROVE  Gone'
<1> USE DEF TypeOK, Live, Fault, rowVars, fileVars, indexVars, jobVars,
            Inv, Waits, Gone, Rows, WorkerHoldsRow, Active, Deleting
<1>1. CASE WriteFile
  BY <1>1 DEF WriteFile, Handler
<1>2. CASE RegisterDocument
  BY <1>2 DEF RegisterDocument, Handler
<1>3. CASE StoreObject
  BY <1>3 DEF StoreObject
<1>4. CASE SetStoredPath
  BY <1>4 DEF SetStoredPath
<1>5. CASE RejectUpload
  BY <1>5 DEF RejectUpload, Handler
<1>6. CASE ScrapeFailsToSchedule
  BY <1>6 DEF ScrapeFailsToSchedule, Handler
<1>7. CASE RescrapeFails
  BY <1>7 DEF RescrapeFails
<1>8. CASE DeletePoints
  BY <1>8 DEF DeletePoints, Handler, ClientActs
<1>9. CASE DeleteSummaryPoint
  BY <1>9 DEF DeleteSummaryPoint, Handler, SummaryCleared
<1>10. CASE DeleteFile
  BY <1>10 DEF DeleteFile, Handler
<1>11. CASE DeleteRow
  BY <1>11 DEF DeleteRow, Handler
<1>12. CASE DeleteFails
  BY <1>12 DEF DeleteFails
<1>13. CASE Crash
  BY <1>13 DEF Crash
<1>14. CASE Restart
  BY <1>14 DEF Restart, InitDb, AfterInitDb
<1>15. ASSUME NEW t \in Job, Resolve(t) PROVE Gone'
  BY <1>15 DEF Resolve, ClientActs
<1>16. ASSUME NEW t \in Job, Schedule(t) PROVE Gone'
  BY <1>16 DEF Schedule, Handler
<1>17. ASSUME NEW t \in Job, MarkProcessing(t) PROVE Gone'
  BY <1>17 DEF MarkProcessing, Handler, RetriedStatus
<1>18. ASSUME NEW t \in Job, JobStarts(t) PROVE Gone'
  BY <1>18 DEF JobStarts, JobMoves, SetStatus
<1>19. ASSUME NEW t \in Job, JobTells(t) PROVE Gone'
  BY <1>19 DEF JobTells, JobMoves
<1>20. ASSUME NEW t \in Job, JobClears(t) PROVE Gone'
  BY <1>20 DEF JobClears, JobMoves, StageFails
<1>21. ASSUME NEW t \in Job, JobClearsSummary(t) PROVE Gone'
  BY <1>21 DEF JobClearsSummary, JobMoves, StageFails, SummaryCleared
<1>22. ASSUME NEW t \in Job, JobReads(t) PROVE Gone'
  BY <1>22 DEF JobReads, JobMoves, StageFails
<1>23. ASSUME NEW t \in Job, JobIndexes(t) PROVE Gone'
  BY <1>23 DEF JobIndexes, JobMoves, AllUpserted
<1>24. ASSUME NEW t \in Job, JobSummarises(t) PROVE Gone'
  BY <1>24 DEF JobSummarises, JobMoves, StageFails
<1>25. ASSUME NEW t \in Job, JobIndexesSummary(t) PROVE Gone'
  BY <1>25 DEF JobIndexesSummary, JobMoves
<1>26. ASSUME NEW t \in Job, JobFinishes(t) PROVE Gone'
  BY <1>26 DEF JobFinishes, JobMoves, StageFails, SetStatus
<1>27. ASSUME NEW t \in Job, JobFails(t) PROVE Gone'
  BY <1>27 DEF JobFails, JobMoves, SetStatus, FailureStatus
<1>28. ASSUME NEW t \in Job, JobEnds(t) PROVE Gone'
  BY <1>28 DEF JobEnds, JobMoves
<1>29. CASE UNCHANGED vars
  BY <1>29 DEF vars
<1>30. ~CliInitsDb
  BY DEF CliInitsDb
<1> QED
  BY <1>1, <1>2, <1>3, <1>4, <1>5, <1>6, <1>7, <1>8, <1>9, <1>10, <1>11, <1>12,
     <1>13, <1>14, <1>15, <1>16, <1>17, <1>18, <1>19, <1>20, <1>21, <1>22, <1>23, <1>24,
     <1>25, <1>26, <1>27, <1>28, <1>29, <1>30
     DEF Next, Request, HandlerStep, JobStep

\* At most one job works on a document, and the row and the index are its.
THEOREM Invariance == Waits => (Spec => [](TypeOK /\ Inv))
<1> SUFFICES ASSUME Waits PROVE Spec => [](TypeOK /\ Inv)
  OBVIOUS
<1>1. Init => TypeOK /\ Inv
  BY InitType, InvInit
<1>2. TypeOK /\ Inv /\ [Next]_vars => (TypeOK /\ Inv)'
  BY StepType, RowsStep, OneWorkerStep, WorkerHoldsRowStep, IndexProgressStep, GoneStep DEF Inv
<1> QED BY <1>1, <1>2, PTL DEF Spec

\* A deletion leaves no chunk and no summary point, also when it fails or dies
\* halfway and is tried again, and no job brings one back.
THEOREM DeletionCorrect == Waits => (Spec => []DeletedLeavesNothing)
<1>1. Inv => DeletedLeavesNothing
  BY DEF Inv, Gone, DeletedLeavesNothing
<1> QED BY <1>1, Invariance, PTL

\* Only the worker, at its end, sets READY, and only a deletion that fails or dies
\* leaves a READY document without its text.
LEMMA ReadyStep ==
  ASSUME TypeOK, Inv, up, ReadyIsIndexed, [Next]_vars, Waits,
         Without({"deleteFails", "crash", "crashLater"})
  PROVE  up' /\ ReadyIsIndexed'
<1> USE DEF TypeOK, Live, Fault, rowVars, fileVars, indexVars, jobVars,
            Inv, Waits, Without, ReadyIsIndexed, Rows, OneWorker, WorkerHoldsRow, IndexProgress, Active, Busy,
            Deleting, JobTypeOK
<1>1. CASE WriteFile
  BY <1>1 DEF WriteFile, Handler
<1>2. CASE RegisterDocument
  BY <1>2 DEF RegisterDocument, Handler
<1>3. CASE StoreObject
  BY <1>3 DEF StoreObject
<1>4. CASE SetStoredPath
  BY <1>4 DEF SetStoredPath
<1>5. CASE RejectUpload
  BY <1>5 DEF RejectUpload, Handler
<1>6. CASE ScrapeFailsToSchedule
  BY <1>6 DEF ScrapeFailsToSchedule, Handler
<1>7. CASE RescrapeFails
  BY <1>7 DEF RescrapeFails
<1>8. CASE DeletePoints
  BY <1>8 DEF DeletePoints, Handler, ClientActs
<1>9. CASE DeleteSummaryPoint
  BY <1>9 DEF DeleteSummaryPoint, Handler, SummaryCleared
<1>10. CASE DeleteFile
  BY <1>10 DEF DeleteFile, Handler
<1>11. CASE DeleteRow
  BY <1>11 DEF DeleteRow, Handler
<1>12. ~Restart
  BY DEF Restart
<1>13. ASSUME NEW t \in Job, Resolve(t) PROVE up' /\ ReadyIsIndexed'
  BY <1>13 DEF Resolve, ClientActs
<1>14. ASSUME NEW t \in Job, Schedule(t) PROVE up' /\ ReadyIsIndexed'
  BY <1>14 DEF Schedule, Handler
<1>15. ASSUME NEW t \in Job, MarkProcessing(t) PROVE up' /\ ReadyIsIndexed'
  BY <1>15 DEF MarkProcessing, Handler, RetriedStatus
<1>16. ASSUME NEW t \in Job, JobStarts(t) PROVE up' /\ ReadyIsIndexed'
  BY <1>16 DEF JobStarts, JobMoves, SetStatus
<1>17. ASSUME NEW t \in Job, JobTells(t) PROVE up' /\ ReadyIsIndexed'
  BY <1>17 DEF JobTells, JobMoves
<1>18. ASSUME NEW t \in Job, JobClears(t) PROVE up' /\ ReadyIsIndexed'
  BY <1>18 DEF JobClears, JobMoves, StageFails
<1>19. ASSUME NEW t \in Job, JobClearsSummary(t) PROVE up' /\ ReadyIsIndexed'
  BY <1>19 DEF JobClearsSummary, JobMoves, StageFails, SummaryCleared
<1>20. ASSUME NEW t \in Job, JobReads(t) PROVE up' /\ ReadyIsIndexed'
  BY <1>20 DEF JobReads, JobMoves, StageFails
<1>21. ASSUME NEW t \in Job, JobIndexes(t) PROVE up' /\ ReadyIsIndexed'
  BY <1>21 DEF JobIndexes, JobMoves, AllUpserted
<1>22. ASSUME NEW t \in Job, JobSummarises(t) PROVE up' /\ ReadyIsIndexed'
  BY <1>22 DEF JobSummarises, JobMoves, StageFails
<1>23. ASSUME NEW t \in Job, JobIndexesSummary(t) PROVE up' /\ ReadyIsIndexed'
  BY <1>23 DEF JobIndexesSummary, JobMoves
<1>24. ASSUME NEW t \in Job, JobFinishes(t) PROVE up' /\ ReadyIsIndexed'
  BY <1>24 DEF JobFinishes, JobMoves, StageFails, SetStatus
<1>25. ASSUME NEW t \in Job, JobFails(t) PROVE up' /\ ReadyIsIndexed'
  BY <1>25 DEF JobFails, JobMoves, SetStatus, FailureStatus
<1>26. ASSUME NEW t \in Job, JobEnds(t) PROVE up' /\ ReadyIsIndexed'
  BY <1>26 DEF JobEnds, JobMoves
<1>27. CASE UNCHANGED vars
  BY <1>27 DEF vars
<1>28. ~CliInitsDb /\ ~Crash /\ ~DeleteFails
  BY DEF CliInitsDb, Crash, DeleteFails
<1> QED
  BY <1>1, <1>2, <1>3, <1>4, <1>5, <1>6, <1>7, <1>8, <1>9, <1>10, <1>11, <1>12,
     <1>13, <1>14, <1>15, <1>16, <1>17, <1>18, <1>19, <1>20, <1>21, <1>22, <1>23, <1>24,
     <1>25, <1>26, <1>27, <1>28
     DEF Next, Request, HandlerStep, JobStep

\* READY means that every batch is in the index, unless a deletion took them and
\* did not get to its end, or a backfill made READY of an upload that died.
THEOREM ReadyCorrect ==
  Waits /\ Without({"deleteFails", "crash", "crashLater"}) => (Spec => []ReadyIsIndexed)
<1> SUFFICES ASSUME Waits, Without({"deleteFails", "crash", "crashLater"})
             PROVE  Spec => []ReadyIsIndexed
  OBVIOUS
<1>1. Init => up /\ ReadyIsIndexed
  BY DEF Init, ReadyIsIndexed, Live
<1>2. TypeOK /\ Inv /\ up /\ ReadyIsIndexed /\ [Next]_vars => up' /\ ReadyIsIndexed'
  BY ReadyStep
<1> QED BY <1>1, <1>2, Invariance, PTL DEF Spec

\* The process does not die while the row is UPLOADED: the backfill of init_db
\* would make READY of it.
NotBackfilled == ~up => status # "UPLOADED"

LEMMA NotBackfilledStep ==
  ASSUME TypeOK, Inv, NotBackfilled, [Next]_vars, Without({"crash"}), Waits
  PROVE  NotBackfilled'
<1> USE DEF TypeOK, Live, Fault, Without, rowVars, fileVars, indexVars, jobVars,
            Inv, Waits, NotBackfilled, Rows, RowTypeOK, Status
<1>1. CASE WriteFile
  BY <1>1 DEF WriteFile, Handler
<1>2. CASE RegisterDocument
  BY <1>2 DEF RegisterDocument, Handler
<1>3. CASE StoreObject
  BY <1>3 DEF StoreObject
<1>4. CASE SetStoredPath
  BY <1>4 DEF SetStoredPath
<1>5. CASE RejectUpload
  BY <1>5 DEF RejectUpload, Handler
<1>6. CASE ScrapeFailsToSchedule
  BY <1>6 DEF ScrapeFailsToSchedule, Handler
<1>7. CASE RescrapeFails
  BY <1>7 DEF RescrapeFails
<1>8. CASE DeletePoints
  BY <1>8 DEF DeletePoints, Handler, ClientActs
<1>9. CASE DeleteSummaryPoint
  BY <1>9 DEF DeleteSummaryPoint, Handler, SummaryCleared
<1>10. CASE DeleteFile
  BY <1>10 DEF DeleteFile, Handler
<1>11. CASE DeleteRow
  BY <1>11 DEF DeleteRow, Handler
<1>12. CASE DeleteFails
  BY <1>12 DEF DeleteFails
<1>13. CASE Crash
  BY <1>13 DEF Crash
<1>14. CASE Restart
  BY <1>14 DEF Restart, InitDb, AfterInitDb
<1>15. ASSUME NEW t \in Job, Resolve(t) PROVE NotBackfilled'
  BY <1>15 DEF Resolve, ClientActs
<1>16. ASSUME NEW t \in Job, Schedule(t) PROVE NotBackfilled'
  BY <1>16 DEF Schedule, Handler
<1>17. ASSUME NEW t \in Job, MarkProcessing(t) PROVE NotBackfilled'
  BY <1>17 DEF MarkProcessing, Handler, RetriedStatus
<1>18. ASSUME NEW t \in Job, JobStarts(t) PROVE NotBackfilled'
  BY <1>18 DEF JobStarts, JobMoves, SetStatus
<1>19. ASSUME NEW t \in Job, JobTells(t) PROVE NotBackfilled'
  BY <1>19 DEF JobTells, JobMoves
<1>20. ASSUME NEW t \in Job, JobClears(t) PROVE NotBackfilled'
  BY <1>20 DEF JobClears, JobMoves, StageFails
<1>21. ASSUME NEW t \in Job, JobClearsSummary(t) PROVE NotBackfilled'
  BY <1>21 DEF JobClearsSummary, JobMoves, StageFails, SummaryCleared
<1>22. ASSUME NEW t \in Job, JobReads(t) PROVE NotBackfilled'
  BY <1>22 DEF JobReads, JobMoves, StageFails
<1>23. ASSUME NEW t \in Job, JobIndexes(t) PROVE NotBackfilled'
  BY <1>23 DEF JobIndexes, JobMoves, AllUpserted
<1>24. ASSUME NEW t \in Job, JobSummarises(t) PROVE NotBackfilled'
  BY <1>24 DEF JobSummarises, JobMoves, StageFails
<1>25. ASSUME NEW t \in Job, JobIndexesSummary(t) PROVE NotBackfilled'
  BY <1>25 DEF JobIndexesSummary, JobMoves
<1>26. ASSUME NEW t \in Job, JobFinishes(t) PROVE NotBackfilled'
  BY <1>26 DEF JobFinishes, JobMoves, StageFails, SetStatus
<1>27. ASSUME NEW t \in Job, JobFails(t) PROVE NotBackfilled'
  BY <1>27 DEF JobFails, JobMoves, SetStatus, FailureStatus
<1>28. ASSUME NEW t \in Job, JobEnds(t) PROVE NotBackfilled'
  BY <1>28 DEF JobEnds, JobMoves
<1>29. CASE UNCHANGED vars
  BY <1>29 DEF vars
<1>30. ~CliInitsDb
  BY DEF CliInitsDb
<1> QED
  BY <1>1, <1>2, <1>3, <1>4, <1>5, <1>6, <1>7, <1>8, <1>9, <1>10, <1>11, <1>12,
     <1>13, <1>14, <1>15, <1>16, <1>17, <1>18, <1>19, <1>20, <1>21, <1>22, <1>23, <1>24,
     <1>25, <1>26, <1>27, <1>28, <1>29, <1>30
     DEF Next, Request, HandlerStep, JobStep

\* Every step is one of the registry or changes nothing that it sees.
LEMMA RegistryStep ==
  ASSUME TypeOK, Inv, NotBackfilled, [Next]_vars, Waits
  PROVE  [Registry!Next]_(Registry!vars)
<1> USE DEF TypeOK, Live, Fault, rowVars, fileVars, indexVars, jobVars,
            Inv, Waits, NotBackfilled, Rows, OneWorker, WorkerHoldsRow, IndexProgress, Gone, Active, Busy, Deleting,
            JobTypeOK, RowTypeOK, Registry!Next, Registry!vars, Registry!Register, Registry!Begin, Registry!Work, Registry!Finish,
            Registry!Fail, Registry!BeginDeletion, Registry!GiveUpDeletion, Registry!Remove, Status
<1>1. CASE WriteFile
  BY <1>1 DEF WriteFile, Handler
<1>2. CASE RegisterDocument
  BY <1>2 DEF RegisterDocument, Handler
<1>3. CASE StoreObject
  BY <1>3 DEF StoreObject
<1>4. CASE SetStoredPath
  BY <1>4 DEF SetStoredPath
<1>5. CASE RejectUpload
  BY <1>5 DEF RejectUpload, Handler
<1>6. CASE ScrapeFailsToSchedule
  BY <1>6 DEF ScrapeFailsToSchedule, Handler
<1>7. CASE RescrapeFails
  BY <1>7 DEF RescrapeFails
<1>8. CASE DeletePoints
  BY <1>8, SomeBatch DEF DeletePoints, Handler, ClientActs
<1>9. CASE DeleteSummaryPoint
  BY <1>9 DEF DeleteSummaryPoint, Handler, SummaryCleared
<1>10. CASE DeleteFile
  BY <1>10 DEF DeleteFile, Handler
<1>11. CASE DeleteRow
  BY <1>11 DEF DeleteRow, Handler
<1>12. CASE DeleteFails
  BY <1>12 DEF DeleteFails
<1>13. CASE Crash
  BY <1>13 DEF Crash
<1>14. CASE Restart
  BY <1>14, AfterRestart DEF Restart, InitDb
<1>15. ASSUME NEW t \in Job, Resolve(t) PROVE [Registry!Next]_(Registry!vars)
  BY <1>15 DEF Resolve, ClientActs
<1>16. ASSUME NEW t \in Job, Schedule(t) PROVE [Registry!Next]_(Registry!vars)
  BY <1>16 DEF Schedule, Handler
<1>17. ASSUME NEW t \in Job, MarkProcessing(t) PROVE [Registry!Next]_(Registry!vars)
  BY <1>17 DEF MarkProcessing, Handler, RetriedStatus
<1>18. ASSUME NEW t \in Job, JobStarts(t) PROVE [Registry!Next]_(Registry!vars)
  BY <1>18 DEF JobStarts, JobMoves, SetStatus
<1>19. ASSUME NEW t \in Job, JobTells(t) PROVE [Registry!Next]_(Registry!vars)
  BY <1>19 DEF JobTells, JobMoves
<1>20. ASSUME NEW t \in Job, JobClears(t) PROVE [Registry!Next]_(Registry!vars)
  BY <1>20 DEF JobClears, JobMoves, StageFails
<1>21. ASSUME NEW t \in Job, JobClearsSummary(t) PROVE [Registry!Next]_(Registry!vars)
  BY <1>21 DEF JobClearsSummary, JobMoves, StageFails, SummaryCleared
<1>22. ASSUME NEW t \in Job, JobReads(t) PROVE [Registry!Next]_(Registry!vars)
  BY <1>22 DEF JobReads, JobMoves, StageFails
<1>23. ASSUME NEW t \in Job, JobIndexes(t) PROVE [Registry!Next]_(Registry!vars)
  BY <1>23 DEF JobIndexes, JobMoves, AllUpserted
<1>24. ASSUME NEW t \in Job, JobSummarises(t) PROVE [Registry!Next]_(Registry!vars)
  BY <1>24 DEF JobSummarises, JobMoves, StageFails
<1>25. ASSUME NEW t \in Job, JobIndexesSummary(t) PROVE [Registry!Next]_(Registry!vars)
  BY <1>25 DEF JobIndexesSummary, JobMoves
<1>26. ASSUME NEW t \in Job, JobFinishes(t) PROVE [Registry!Next]_(Registry!vars)
  BY <1>26 DEF JobFinishes, JobMoves, StageFails, SetStatus
<1>27. ASSUME NEW t \in Job, JobFails(t) PROVE [Registry!Next]_(Registry!vars)
  BY <1>27 DEF JobFails, JobMoves, SetStatus, FailureStatus
<1>28. ASSUME NEW t \in Job, JobEnds(t) PROVE [Registry!Next]_(Registry!vars)
  BY <1>28 DEF JobEnds, JobMoves
<1>29. CASE UNCHANGED vars
  BY <1>29 DEF vars
<1>30. ~CliInitsDb
  BY DEF CliInitsDb
<1> QED
  BY <1>1, <1>2, <1>3, <1>4, <1>5, <1>6, <1>7, <1>8, <1>9, <1>10, <1>11, <1>12,
     <1>13, <1>14, <1>15, <1>16, <1>17, <1>18, <1>19, <1>20, <1>21, <1>22, <1>23, <1>24,
     <1>25, <1>26, <1>27, <1>28, <1>29, <1>30
     DEF Next, Request, HandlerStep, JobStep

\* For clients that wait the lifecycle is one of the registry, unless a crash
\* meets an UPLOADED row.
THEOREM RegistryRefinement == Waits /\ Without({"crash"}) => (Spec => RegistrySpec)
<1> SUFFICES ASSUME Waits, Without({"crash"}) PROVE Spec => RegistrySpec
  OBVIOUS
<1>1. Init => Registry!Init
  <2> SUFFICES ASSUME Init PROVE Registry!Init
    OBVIOUS
  <2>1. Deleting = FALSE
    BY DEF Init, Deleting
  <2>2. CASE row = "absent"
    <3>1. (index = AllBatches) = FALSE
      BY <2>2, SomeBatch DEF Init
    <3> QED BY <2>1, <2>2, <3>1, Zenon DEF Registry!Init
  <2>3. CASE row = "live" /\ status = "READY"
    <3>1. (index = AllBatches) = TRUE
      BY <2>3 DEF Init
    <3>2. row # "absent" /\ row # "deleted"
      BY <2>3
    <3> QED BY <2>1, <2>3, <3>1, <3>2, Zenon DEF Registry!Init
  <2> QED BY <2>2, <2>3 DEF Init
<1>2. TypeOK /\ Inv /\ NotBackfilled /\ [Next]_vars => [Registry!Next]_(Registry!vars)
  BY RegistryStep
<1>3. Init => NotBackfilled
  BY DEF Init, NotBackfilled
<1>4. TypeOK /\ Inv /\ NotBackfilled /\ [Next]_vars => NotBackfilled'
  BY NotBackfilledStep
<1> QED BY <1>1, <1>2, <1>3, <1>4, Invariance, PTL DEF Spec, RegistrySpec, Registry!Spec

\* A row goes from PROCESSING to FAILED by its worker, or when there is none.
THEOREM InterruptionCorrect == Waits => (Spec => OnlyDeadJobsAreInterrupted)
<1> SUFFICES ASSUME Waits PROVE Spec => OnlyDeadJobsAreInterrupted
  OBVIOUS
<1> DEFINE Fails == status = "PROCESSING" /\ status' = "FAILED"
                      => \A t \in Job : Working(t) => jobPc[t] = "failing"
<1>1. ASSUME TypeOK, Inv, [Next]_vars PROVE [Fails]_vars
  <2> SUFFICES ASSUME Next, status = "PROCESSING", status' = "FAILED",
                      NEW t \in Job, Working(t)
               PROVE  jobPc[t] = "failing"
    BY <1>1
  <2>1. Active(t)
    BY <1>1 DEF TypeOK, JobTypeOK, JobPc, Inv, OneWorker, Rows, Working, InFlight, Active
  <2>2. up /\ handler = "idle"
    BY <1>1, <2>1 DEF Inv, WorkerHoldsRow
  <2>3. PICK u \in Job : JobFails(u)
    <3>1. ~WriteFile /\ ~RegisterDocument /\ ~RejectUpload /\ ~Restart
      BY <2>2 DEF WriteFile, RegisterDocument, RejectUpload, Restart, Handler, rowVars
    <3>2. ~RescrapeFails /\ ~DeletePoints /\ ~CliInitsDb
      BY DEF RescrapeFails, DeletePoints, CliInitsDb, Waits, Fault, rowVars
    <3>3. ~StoreObject /\ ~SetStoredPath /\ ~ScrapeFailsToSchedule /\ ~DeleteSummaryPoint
          /\ ~DeleteFile /\ ~DeleteRow /\ ~DeleteFails
      BY <2>2 DEF StoreObject, SetStoredPath, ScrapeFailsToSchedule, DeleteSummaryPoint, DeleteFile,
                  DeleteRow, DeleteFails, Handler
    <3>4. ASSUME NEW u \in Job
          PROVE  ~Schedule(u) /\ ~MarkProcessing(u) /\ ~Resolve(u)
      BY <2>2 DEF Schedule, MarkProcessing, Resolve, Handler, rowVars
    <3>5. ASSUME NEW u \in Job, JobStep(u) PROVE JobFails(u)
      BY <3>5 DEF JobStep, JobStarts, JobTells, JobClears, JobClearsSummary, JobReads, JobIndexes,
                  JobSummarises, JobIndexesSummary, JobFinishes, JobEnds, SetStatus, StageFails, rowVars
    <3>6. ~Crash
      BY DEF Crash, rowVars
    <3> QED BY <3>1, <3>2, <3>3, <3>4, <3>5, <3>6 DEF Next, Request, HandlerStep
  <2>4. jobPc[u] = "failing"
    BY <2>3 DEF JobFails, JobMoves
  <2> QED BY <1>1, <2>1, <2>4 DEF Inv, OneWorker, Busy, Active
<1>2. TypeOK /\ Inv /\ [Next]_vars => [Fails]_vars
  BY <1>1
<1> QED BY <1>2, Invariance, PTL DEF Spec, OnlyDeadJobsAreInterrupted

-----------------------------------------------------------------------------
(* What is shortlisted.                                                     *)

\* Only between the two calls of a clear or a deletion is a summary left alone.
Shortlist ==
  summaryPoint /\ index = {} => handler = "deletingSummary" \/ \E t \in Job : jobPc[t] = "clearingSummary"

\* A job that clears goes on to the summary.
LEMMA ShortlistStep ==
  ASSUME TypeOK, Inv, Shortlist, [Next]_vars, Waits,
         Without({"clearFails", "deleteFails", "crash", "crashLater"})
  PROVE  Shortlist'
<1> USE DEF TypeOK, Live, Fault, Without, rowVars, fileVars, indexVars, jobVars,
            Inv, Waits, Rows, OneWorker, WorkerHoldsRow, Active, Busy, Deleting, JobTypeOK,
            Shortlist, IndexProgress, Gone
<1>1. CASE WriteFile
  BY <1>1 DEF WriteFile, Handler
<1>2. CASE RegisterDocument
  BY <1>2 DEF RegisterDocument, Handler
<1>3. CASE StoreObject
  BY <1>3 DEF StoreObject
<1>4. CASE SetStoredPath
  BY <1>4 DEF SetStoredPath
<1>5. CASE RejectUpload
  BY <1>5 DEF RejectUpload, Handler
<1>6. CASE ScrapeFailsToSchedule
  BY <1>6 DEF ScrapeFailsToSchedule, Handler
<1>7. CASE RescrapeFails
  BY <1>7 DEF RescrapeFails
<1>8. CASE DeletePoints
  BY <1>8 DEF DeletePoints, Handler, ClientActs
<1>9. CASE DeleteSummaryPoint
  BY <1>9 DEF DeleteSummaryPoint, Handler, SummaryCleared
<1>10. CASE DeleteFile
  BY <1>10 DEF DeleteFile, Handler
<1>11. CASE DeleteRow
  BY <1>11 DEF DeleteRow, Handler
<1>12. CASE Restart
  BY <1>12 DEF Restart, InitDb, AfterInitDb
<1>13. ASSUME NEW t \in Job, Resolve(t) PROVE Shortlist'
  BY <1>13 DEF Resolve, ClientActs
<1>14. ASSUME NEW t \in Job, Schedule(t) PROVE Shortlist'
  BY <1>14 DEF Schedule, Handler
<1>15. ASSUME NEW t \in Job, MarkProcessing(t) PROVE Shortlist'
  BY <1>15 DEF MarkProcessing, Handler, RetriedStatus
<1>16. ASSUME NEW t \in Job, JobStarts(t) PROVE Shortlist'
  BY <1>16 DEF JobStarts, JobMoves, SetStatus
<1>17. ASSUME NEW t \in Job, JobTells(t) PROVE Shortlist'
  BY <1>17 DEF JobTells, JobMoves
<1>18. ASSUME NEW t \in Job, JobClears(t) PROVE Shortlist'
  BY <1>18 DEF JobClears, JobMoves, StageFails
<1>19. ASSUME NEW t \in Job, JobClearsSummary(t) PROVE Shortlist'
  BY <1>19 DEF JobClearsSummary, JobMoves, StageFails, SummaryCleared
<1>20. ASSUME NEW t \in Job, JobReads(t) PROVE Shortlist'
  BY <1>20 DEF JobReads, JobMoves, StageFails
<1>21. ASSUME NEW t \in Job, JobIndexes(t) PROVE Shortlist'
  BY <1>21 DEF JobIndexes, JobMoves, AllUpserted
<1>22. ASSUME NEW t \in Job, JobSummarises(t) PROVE Shortlist'
  BY <1>22 DEF JobSummarises, JobMoves, StageFails
<1>23. ASSUME NEW t \in Job, JobIndexesSummary(t) PROVE Shortlist'
  BY <1>23, SomeBatch DEF JobIndexesSummary, JobMoves
<1>24. ASSUME NEW t \in Job, JobFinishes(t) PROVE Shortlist'
  BY <1>24 DEF JobFinishes, JobMoves, StageFails, SetStatus
<1>25. ASSUME NEW t \in Job, JobFails(t) PROVE Shortlist'
  BY <1>25 DEF JobFails, JobMoves, SetStatus, FailureStatus
<1>26. ASSUME NEW t \in Job, JobEnds(t) PROVE Shortlist'
  BY <1>26 DEF JobEnds, JobMoves
<1>27. CASE UNCHANGED vars
  BY <1>27 DEF vars
<1>28. ~CliInitsDb /\ ~Crash /\ ~DeleteFails
  BY DEF CliInitsDb, Crash, DeleteFails
<1> QED
  BY <1>1, <1>2, <1>3, <1>4, <1>5, <1>6, <1>7, <1>8, <1>9, <1>10, <1>11, <1>12,
     <1>13, <1>14, <1>15, <1>16, <1>17, <1>18, <1>19, <1>20, <1>21, <1>22, <1>23, <1>24,
     <1>25, <1>26, <1>27, <1>28
     DEF Next, Request, HandlerStep, JobStep

\* At rest, a document that can be shortlisted has something to retrieve,
\* unless a clear or a deletion stopped between its two calls.
THEOREM ShortlistCorrect ==
  Waits /\ Without({"clearFails", "deleteFails", "crash", "crashLater"}) => (Spec => []ShortlistedHasChunks)
<1> SUFFICES ASSUME Waits, Without({"clearFails", "deleteFails", "crash", "crashLater"})
             PROVE  Spec => []ShortlistedHasChunks
  OBVIOUS
<1>1. Init => Shortlist
  BY SomeBatch DEF Init, Shortlist
<1>2. TypeOK /\ Inv /\ Shortlist /\ [Next]_vars => Shortlist'
  BY ShortlistStep
<1>3. Shortlist => ShortlistedHasChunks
  BY DEF Shortlist, ShortlistedHasChunks, Resting, InFlight
<1> QED BY <1>1, <1>2, <1>3, Invariance, PTL DEF Spec

-----------------------------------------------------------------------------
(* Files.                                                                   *)

\* No bytes are given up but in a deletion that gets to its end.
NoneForgone == Without({"storeFails", "deleteFails", "crash", "crashLater"})

Sound ==
  /\ up /\ handler # "rejecting"
  /\ forgone => handler = "deletingRow" \/ row = "deleted"
  /\ kind = "page" => storedIn = "local" /\ handler \notin {"storing", "pointing"}

\* What gives up bytes is a deletion, and pages stay local.
LEMMA SoundStep ==
  ASSUME TypeOK, BytesInv, Sound, [Next]_vars, NoneForgone
  PROVE  Sound'
<1> USE DEF TypeOK, Live, Fault, Without, rowVars, fileVars, indexVars, jobVars,
            NoneForgone, Sound, BytesInv, HandlerAndRow, Deleting
<1>1. CASE WriteFile
  BY <1>1 DEF WriteFile, Handler
<1>2. CASE RegisterDocument
  BY <1>2 DEF RegisterDocument, Handler
<1>3. CASE StoreObject
  BY <1>3 DEF StoreObject
<1>4. CASE SetStoredPath
  BY <1>4 DEF SetStoredPath
<1>5. CASE ScrapeFailsToSchedule
  BY <1>5 DEF ScrapeFailsToSchedule, Handler
<1>6. CASE RescrapeFails
  BY <1>6 DEF RescrapeFails
<1>7. CASE DeletePoints
  BY <1>7 DEF DeletePoints, Handler, ClientActs
<1>8. CASE DeleteSummaryPoint
  BY <1>8 DEF DeleteSummaryPoint, Handler, SummaryCleared
<1>9. CASE DeleteFile
  BY <1>9 DEF DeleteFile, Handler
<1>10. CASE DeleteRow
  BY <1>10 DEF DeleteRow, Handler
<1>11. CASE CliInitsDb
  BY <1>11 DEF CliInitsDb, InitDb, AfterInitDb
<1>12. ASSUME NEW t \in Job, Resolve(t) PROVE Sound'
  BY <1>12 DEF Resolve, ClientActs
<1>13. ASSUME NEW t \in Job, Schedule(t) PROVE Sound'
  BY <1>13 DEF Schedule, Handler
<1>14. ASSUME NEW t \in Job, MarkProcessing(t) PROVE Sound'
  BY <1>14 DEF MarkProcessing, Handler, RetriedStatus
<1>15. ASSUME NEW t \in Job, JobStarts(t) PROVE Sound'
  BY <1>15 DEF JobStarts, JobMoves, SetStatus
<1>16. ASSUME NEW t \in Job, JobTells(t) PROVE Sound'
  BY <1>16 DEF JobTells, JobMoves
<1>17. ASSUME NEW t \in Job, JobClears(t) PROVE Sound'
  BY <1>17 DEF JobClears, JobMoves, StageFails
<1>18. ASSUME NEW t \in Job, JobClearsSummary(t) PROVE Sound'
  BY <1>18 DEF JobClearsSummary, JobMoves, StageFails, SummaryCleared
<1>19. ASSUME NEW t \in Job, JobReads(t) PROVE Sound'
  BY <1>19 DEF JobReads, JobMoves, StageFails
<1>20. ASSUME NEW t \in Job, JobIndexes(t) PROVE Sound'
  BY <1>20 DEF JobIndexes, JobMoves, AllUpserted
<1>21. ASSUME NEW t \in Job, JobSummarises(t) PROVE Sound'
  BY <1>21 DEF JobSummarises, JobMoves, StageFails
<1>22. ASSUME NEW t \in Job, JobIndexesSummary(t) PROVE Sound'
  BY <1>22 DEF JobIndexesSummary, JobMoves
<1>23. ASSUME NEW t \in Job, JobFinishes(t) PROVE Sound'
  BY <1>23 DEF JobFinishes, JobMoves, StageFails, SetStatus
<1>24. ASSUME NEW t \in Job, JobFails(t) PROVE Sound'
  BY <1>24 DEF JobFails, JobMoves, SetStatus, FailureStatus
<1>25. ASSUME NEW t \in Job, JobEnds(t) PROVE Sound'
  BY <1>25 DEF JobEnds, JobMoves
<1>26. CASE UNCHANGED vars
  BY <1>26 DEF vars
<1>27. ~Crash /\ ~DeleteFails /\ ~Restart /\ ~RejectUpload
  BY DEF Crash, DeleteFails, Restart, RejectUpload, Handler
<1> QED
  BY <1>1, <1>2, <1>3, <1>4, <1>5, <1>6, <1>7, <1>8, <1>9, <1>10, <1>11, <1>12,
     <1>13, <1>14, <1>15, <1>16, <1>17, <1>18, <1>19, <1>20, <1>21, <1>22, <1>23, <1>24,
     <1>25, <1>26, <1>27
     DEF Next, Request, HandlerStep, JobStep

\* A job that has not read yet.
Holding(t) == \/ jobPc[t] \in {"added", "queued", "clearing", "clearingSummary", "reading"}
              \/ jobPc[t] = "telling" /\ jobSays[t] = "PROCESSING"

\* Its source is there; no job is there before the upload is complete; and the
\* file of an upload is handed to two jobs only if it is the original, which
\* none of them may remove.
Sources ==
  /\ \A t \in Job : Holding(t) => HasSource(t)
  /\ handler \in {"registering", "storing", "pointing", "scheduling"} => scratch
  /\ row = "absent" \/ handler \in {"registering", "storing", "pointing", "scheduling"}
     => \A t \in Job : jobPc[t] = "none" /\ jobSource[t] = "none"
  /\ \A t, u \in Job : t # u /\ jobSource[t] = "scratch" /\ jobSource[u] = "scratch" => storedIn = "local"

\* Who may remove a file is not who others wait for.
LEMMA SourcesStep ==
  ASSUME TypeOK, Inv, BytesInv, Sound, Sources, [Next]_vars, Waits, NoneForgone
  PROVE  Sources'
<1> USE DEF TypeOK, Live, Fault, Without, rowVars, fileVars, indexVars, jobVars,
            NoneForgone, Sound, Inv, Waits, Rows, OneWorker, WorkerHoldsRow, Active, Busy, Deleting, JobTypeOK,
            Sources, Holding, HasSource, BytesInv, StoredPathHolds, DisposesOnlyCopies, Disposable
<1>1. CASE WriteFile
  BY <1>1 DEF WriteFile, Handler
<1>2. CASE RegisterDocument
  BY <1>2 DEF RegisterDocument, Handler
<1>3. CASE StoreObject
  BY <1>3 DEF StoreObject
<1>4. CASE SetStoredPath
  BY <1>4 DEF SetStoredPath
<1>5. CASE ScrapeFailsToSchedule
  BY <1>5 DEF ScrapeFailsToSchedule, Handler
<1>6. CASE RescrapeFails
  BY <1>6 DEF RescrapeFails
<1>7. CASE DeletePoints
  BY <1>7 DEF DeletePoints, Handler, ClientActs
<1>8. CASE DeleteSummaryPoint
  BY <1>8 DEF DeleteSummaryPoint, Handler, SummaryCleared
<1>9. CASE DeleteFile
  BY <1>9 DEF DeleteFile, Handler
<1>10. CASE DeleteRow
  BY <1>10 DEF DeleteRow, Handler
<1>11. ASSUME NEW t \in Job, Resolve(t) PROVE Sources'
  <2>1. up /\ handler = "idle" /\ handler' \in {"idle", "marking"} /\ row = "live" /\ jobPc[t] = "none"
    BY <1>11 DEF Resolve
  <2>2. \A u \in Job : u # t => jobPc'[u] = jobPc[u] /\ jobSays'[u] = jobSays[u]
                                /\ jobSource'[u] = jobSource[u]
    BY <1>11 DEF Resolve
  <2>3. temps \subseteq temps' /\ scratch' = scratch /\ storedIn' = storedIn
    BY <1>11 DEF Resolve
  <2>4. row' = "live" /\ handler' \notin {"registering", "storing", "pointing", "scheduling"}
    BY <1>11, <2>1 DEF Resolve
  <2>5. CASE jobPc'[t] = "added"
    <3>1. jobSource'[t] = (IF storedIn = "s3" THEN "temp" ELSE "scratch") /\ t \in Job
      BY <1>11, <2>5 DEF Resolve
    <3>2. storedIn = "s3" => t \in temps'
      BY <1>11, <2>5 DEF Resolve
    <3>3. storedIn # "s3" => scratch
      BY <2>1
    <3>4. storedIn # "s3" => storedIn = "local"
      BY DEF RowTypeOK
    <3>5. \A u \in Job : Holding(u)' => HasSource(u)'
      BY <2>2, <2>3, <3>1, <3>2, <3>3
    <3>6. \A u, v \in Job : u # v /\ jobSource'[u] = "scratch" /\ jobSource'[v] = "scratch" => storedIn' = "local"
      BY <2>2, <2>3, <3>1, <3>4
    <3> QED BY <2>4, <3>5, <3>6
  <2>6. CASE jobPc'[t] # "added"
    <3>1. jobPc'[t] = "done" /\ jobSource' = jobSource
      BY <1>11, <2>6 DEF Resolve
    <3>2. \A u \in Job : Holding(u)' => HasSource(u)'
      BY <2>2, <2>3, <3>1
    <3>3. \A u, v \in Job : u # v /\ jobSource'[u] = "scratch" /\ jobSource'[v] = "scratch" => storedIn' = "local"
      BY <2>3, <3>1
    <3> QED BY <2>4, <3>2, <3>3
  <2> QED BY <2>5, <2>6
<1>12. ASSUME NEW t \in Job, Schedule(t) PROVE Sources'
  BY <1>12 DEF Schedule, Handler
<1>13. ASSUME NEW t \in Job, MarkProcessing(t) PROVE Sources'
  BY <1>13 DEF MarkProcessing, Handler, RetriedStatus
<1>14. ASSUME NEW t \in Job, JobStarts(t) PROVE Sources'
  BY <1>14 DEF JobStarts, JobMoves, SetStatus
<1>15. ASSUME NEW t \in Job, JobTells(t) PROVE Sources'
  BY <1>15 DEF JobTells, JobMoves
<1>16. ASSUME NEW t \in Job, JobClears(t) PROVE Sources'
  BY <1>16 DEF JobClears, JobMoves, StageFails
<1>17. ASSUME NEW t \in Job, JobClearsSummary(t) PROVE Sources'
  BY <1>17 DEF JobClearsSummary, JobMoves, StageFails, SummaryCleared
<1>18. ASSUME NEW t \in Job, JobReads(t) PROVE Sources'
  BY <1>18 DEF JobReads, JobMoves, StageFails
<1>19. ASSUME NEW t \in Job, JobIndexes(t) PROVE Sources'
  BY <1>19 DEF JobIndexes, JobMoves, AllUpserted
<1>20. ASSUME NEW t \in Job, JobSummarises(t) PROVE Sources'
  BY <1>20 DEF JobSummarises, JobMoves, StageFails
<1>21. ASSUME NEW t \in Job, JobIndexesSummary(t) PROVE Sources'
  BY <1>21 DEF JobIndexesSummary, JobMoves
<1>22. ASSUME NEW t \in Job, JobFinishes(t) PROVE Sources'
  BY <1>22 DEF JobFinishes, JobMoves, StageFails, SetStatus
<1>23. ASSUME NEW t \in Job, JobFails(t) PROVE Sources'
  BY <1>23 DEF JobFails, JobMoves, SetStatus, FailureStatus
<1>24. ASSUME NEW t \in Job, JobEnds(t) PROVE Sources'
  BY <1>24 DEF JobEnds, JobMoves
<1>25. CASE UNCHANGED vars
  BY <1>25 DEF vars
<1>26. ~CliInitsDb /\ ~Crash /\ ~DeleteFails /\ ~Restart /\ ~RejectUpload
  BY DEF CliInitsDb, Crash, DeleteFails, Restart, RejectUpload, Handler
<1> QED
  BY <1>1, <1>2, <1>3, <1>4, <1>5, <1>6, <1>7, <1>8, <1>9, <1>10, <1>11, <1>12,
     <1>13, <1>14, <1>15, <1>16, <1>17, <1>18, <1>19, <1>20, <1>21, <1>22, <1>23, <1>24,
     <1>25, <1>26
     DEF Next, Request, HandlerStep, JobStep

\* Nobody removes the file a job was handed before the job has read it.
THEOREM SourceCorrect == Waits /\ NoneForgone => (Spec => []SourceOutlivesJob)
<1> SUFFICES ASSUME Waits, NoneForgone PROVE Spec => []SourceOutlivesJob
  OBVIOUS
<1>1. Init => TypeOK /\ BytesInv /\ Sound /\ Sources
  BY InitType, BytesInit DEF Init, Sound, Sources, Holding
<1>2. TypeOK /\ BytesInv /\ [Next]_vars => BytesInv'
  BY BytesStep
<1>3. TypeOK /\ BytesInv /\ Sound /\ [Next]_vars => Sound'
  BY SoundStep
<1>4. TypeOK /\ Inv /\ BytesInv /\ Sound /\ Sources /\ [Next]_vars => Sources'
  BY SourcesStep
<1>5. Sources => SourceOutlivesJob
  BY DEF Sources, Holding, SourceOutlivesJob
<1> QED BY <1>1, <1>2, <1>3, <1>4, <1>5, Invariance, PTL DEF Spec

\* A request that hands a file to a job.
OneAdded == \A t \in Job : jobPc[t] = "added" => /\ handler = "marking"
                                                 /\ \A u \in Job : jobPc[u] = "added" => u = t

\* Every copy on disk belongs to a job that is going to remove it.
Disposes(t, source) == jobSource[t] = source /\ jobDisposes[t] /\ jobPc[t] \notin {"none", "done"}

Copies ==
  /\ OneAdded
  /\ \A t \in temps : Disposes(t, "temp")
  /\ storedIn = "s3" /\ scratch /\ Live
     => handler = "scheduling" \/ \E t \in Job : Disposes(t, "scratch")

\* A job is handed every copy that is made, and removes it.
LEMMA CopiesStep ==
  ASSUME TypeOK, BytesInv, Sound, Copies, [Next]_vars, NoneForgone,
         Without({"databaseFails", "unlinkFails"})
  PROVE  Copies'
<1> USE DEF TypeOK, Live, Fault, Without, rowVars, fileVars, indexVars, jobVars,
            NoneForgone, Sound, BytesInv, HandlerAndRow, StoredPathHolds, Deleting, JobTypeOK, FileTypeOK,
            Copies, OneAdded, Disposes, Disposable
<1>1. CASE WriteFile
  BY <1>1 DEF WriteFile, Handler
<1>2. CASE RegisterDocument
  BY <1>2 DEF RegisterDocument, Handler
<1>3. CASE StoreObject
  BY <1>3 DEF StoreObject
<1>4. CASE SetStoredPath
  BY <1>4 DEF SetStoredPath
<1>5. CASE ScrapeFailsToSchedule
  BY <1>5 DEF ScrapeFailsToSchedule, Handler
<1>6. CASE RescrapeFails
  BY <1>6 DEF RescrapeFails
<1>7. CASE DeletePoints
  BY <1>7 DEF DeletePoints, Handler, ClientActs
<1>8. CASE DeleteSummaryPoint
  BY <1>8 DEF DeleteSummaryPoint, Handler, SummaryCleared
<1>9. CASE DeleteFile
  BY <1>9 DEF DeleteFile, Handler
<1>10. CASE DeleteRow
  BY <1>10 DEF DeleteRow, Handler
<1>11. CASE CliInitsDb
  BY <1>11 DEF CliInitsDb, InitDb, AfterInitDb
<1>12. ASSUME NEW t \in Job, Resolve(t) PROVE Copies'
  BY <1>12 DEF Resolve, ClientActs
<1>13. ASSUME NEW t \in Job, Schedule(t) PROVE Copies'
  BY <1>13 DEF Schedule, Handler
<1>14. ASSUME NEW t \in Job, MarkProcessing(t) PROVE Copies'
  BY <1>14 DEF MarkProcessing, Handler, RetriedStatus
<1>15. ASSUME NEW t \in Job, JobStarts(t) PROVE Copies'
  BY <1>15 DEF JobStarts, JobMoves, SetStatus
<1>16. ASSUME NEW t \in Job, JobTells(t) PROVE Copies'
  BY <1>16 DEF JobTells, JobMoves
<1>17. ASSUME NEW t \in Job, JobClears(t) PROVE Copies'
  BY <1>17 DEF JobClears, JobMoves, StageFails
<1>18. ASSUME NEW t \in Job, JobClearsSummary(t) PROVE Copies'
  BY <1>18 DEF JobClearsSummary, JobMoves, StageFails, SummaryCleared
<1>19. ASSUME NEW t \in Job, JobReads(t) PROVE Copies'
  BY <1>19 DEF JobReads, JobMoves, StageFails
<1>20. ASSUME NEW t \in Job, JobIndexes(t) PROVE Copies'
  BY <1>20 DEF JobIndexes, JobMoves, AllUpserted
<1>21. ASSUME NEW t \in Job, JobSummarises(t) PROVE Copies'
  BY <1>21 DEF JobSummarises, JobMoves, StageFails
<1>22. ASSUME NEW t \in Job, JobIndexesSummary(t) PROVE Copies'
  BY <1>22 DEF JobIndexesSummary, JobMoves
<1>23. ASSUME NEW t \in Job, JobFinishes(t) PROVE Copies'
  BY <1>23 DEF JobFinishes, JobMoves, StageFails, SetStatus
<1>24. ASSUME NEW t \in Job, JobFails(t) PROVE Copies'
  BY <1>24 DEF JobFails, JobMoves, SetStatus, FailureStatus
<1>25. ASSUME NEW t \in Job, JobEnds(t) PROVE Copies'
  <2>1. jobPc[t] = "ending" /\ handler' = handler /\ storedIn' = storedIn /\ row' = row
    BY <1>25 DEF JobEnds, JobMoves
  <2>2. \A u \in Job : u # t => jobPc'[u] = jobPc[u] /\ jobSource'[u] = jobSource[u]
                                /\ jobDisposes'[u] = jobDisposes[u]
    BY <1>25 DEF JobEnds, JobMoves
  <2>3. \/ jobDisposes[t] /\ scratch' = (scratch /\ jobSource[t] # "scratch") /\ temps' = temps \ {t}
        \/ ~jobDisposes[t] /\ scratch' = scratch /\ temps' = temps
    BY <1>25 DEF JobEnds
  <2>4. \A u \in temps' : u \in temps /\ u # t
    BY <2>3
  <2>5. ASSUME storedIn = "s3", scratch', row = "live", handler # "scheduling"
        PROVE  \E u \in Job : u # t /\ Disposes(u, "scratch")
    <3>1. scratch
      BY <2>3, <2>5
    <3>2. PICK u \in Job : Disposes(u, "scratch")
      BY <2>5, <3>1
    <3>3. u # t
      BY <2>3, <2>5, <3>2
    <3> QED BY <3>2, <3>3
  <2>6. OneAdded'
    BY <1>25, <2>1, <2>2 DEF JobEnds, JobMoves
  <2>7. \A u \in temps' : Disposes(u, "temp")'
    BY <2>2, <2>4
  <2>8. ASSUME storedIn' = "s3", scratch', Live', handler' # "scheduling"
        PROVE  \E u \in Job : Disposes(u, "scratch")'
    <3>1. PICK u \in Job : u # t /\ Disposes(u, "scratch")
      BY <2>1, <2>5, <2>8
    <3>2. Disposes(u, "scratch")'
      BY <2>2, <3>1
    <3> QED BY <3>2
  <2> QED BY <2>6, <2>7, <2>8
<1>26. CASE UNCHANGED vars
  BY <1>26 DEF vars
<1>27. ~Crash /\ ~DeleteFails /\ ~Restart /\ ~RejectUpload
  BY DEF Crash, DeleteFails, Restart, RejectUpload, Handler
<1> QED
  BY <1>1, <1>2, <1>3, <1>4, <1>5, <1>6, <1>7, <1>8, <1>9, <1>10, <1>11, <1>12,
     <1>13, <1>14, <1>15, <1>16, <1>17, <1>18, <1>19, <1>20, <1>21, <1>22, <1>23, <1>24,
     <1>25, <1>26, <1>27
     DEF Next, Request, HandlerStep, JobStep

\* At rest, no disposable copy is left on disk, whatever the clients do.
THEOREM ScratchCorrect ==
  NoneForgone /\ Without({"databaseFails", "unlinkFails"}) => (Spec => []ScratchReleased)
<1> SUFFICES ASSUME NoneForgone, Without({"databaseFails", "unlinkFails"})
             PROVE  Spec => []ScratchReleased
  OBVIOUS
<1>1. Init => TypeOK /\ BytesInv /\ Sound /\ Copies
  BY InitType, BytesInit DEF Init, Sound, Copies, OneAdded, Live
<1>2. TypeOK /\ [Next]_vars => TypeOK'
  BY StepType
<1>3. TypeOK /\ BytesInv /\ [Next]_vars => BytesInv'
  BY BytesStep
<1>4. TypeOK /\ BytesInv /\ Sound /\ [Next]_vars => Sound'
  BY SoundStep
<1>5. TypeOK /\ BytesInv /\ Sound /\ Copies /\ [Next]_vars => Copies'
  BY CopiesStep
<1>6. TypeOK /\ Copies => ScratchReleased
  <2> SUFFICES ASSUME TypeOK, Copies, Resting
               PROVE  temps = {} /\ ~(Live /\ storedIn = "s3" /\ scratch)
    BY DEF ScratchReleased
  <2>1. \A t \in Job, s \in {"temp", "scratch"} : ~Disposes(t, s)
    BY DEF Resting, InFlight, Disposes, Copies, OneAdded
  <2> QED BY <2>1 DEF Copies, TypeOK, FileTypeOK, Resting
<1> QED BY <1>1, <1>2, <1>3, <1>4, <1>5, <1>6, PTL DEF Spec
=============================================================================
