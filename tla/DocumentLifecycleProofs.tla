----------------------- MODULE DocumentLifecycleProofs -----------------------
(***************************************************************************)
(* What holds of one document for every number of jobs and of batches, with *)
(* or without a bucket, and whatever its clients do.                        *)
(***************************************************************************)
EXTENDS DocumentLifecycle, TLAPS

USE BatchesAssumption

-----------------------------------------------------------------------------
(* Type correctness.                                                        *)

LEMMA SameServer == ServerTypeOK /\ UNCHANGED <<up, told, handler>> => ServerTypeOK'
  BY DEF ServerTypeOK

LEMMA SameRow == RowTypeOK /\ UNCHANGED rowVars => RowTypeOK'
  BY DEF RowTypeOK, rowVars

LEMMA SameFiles == FileTypeOK /\ UNCHANGED fileVars => FileTypeOK'
  BY DEF FileTypeOK, fileVars

LEMMA SameIndex == IndexTypeOK /\ UNCHANGED indexVars => IndexTypeOK'
  BY DEF IndexTypeOK, indexVars

LEMMA SameJobs == JobTypeOK /\ UNCHANGED jobVars => JobTypeOK'
  BY DEF JobTypeOK, jobVars

LEMMA InitType == Init => TypeOK
<1> SUFFICES ASSUME Init PROVE TypeOK
  OBVIOUS
<1>1. ServerTypeOK
  BY DEF Init, ServerTypeOK, HandlerPc
<1>2. RowTypeOK
  BY DEF Init, RowTypeOK, Status
<1>3. FileTypeOK
  BY DEF Init, FileTypeOK
<1>4. IndexTypeOK
  BY DEF Init, IndexTypeOK, AllBatches
<1>5. JobTypeOK
  BY DEF Init, JobTypeOK, JobPc
<1>6. QED
  BY <1>1, <1>2, <1>3, <1>4, <1>5 DEF TypeOK, Init

LEMMA StepType == TypeOK /\ [Next]_vars => TypeOK'
<1> SUFFICES ASSUME TypeOK, [Next]_vars PROVE TypeOK'
  OBVIOUS
<1> USE DEF TypeOK, Fault, Live
<1>1. CASE WriteFile
  <2>1. ServerTypeOK'
    BY <1>1 DEF WriteFile, Handler, ServerTypeOK, HandlerPc
  <2>2. FileTypeOK'
    BY <1>1 DEF WriteFile, Handler, FileTypeOK, fileVars
  <2>3. QED
    BY <1>1, <2>1, <2>2, SameRow, SameIndex, SameJobs DEF WriteFile, Handler, rowVars, fileVars, indexVars, jobVars
<1>2. CASE RegisterDocument
  <2>1. ServerTypeOK'
    BY <1>2 DEF RegisterDocument, Handler, ServerTypeOK, HandlerPc
  <2>2. RowTypeOK'
    BY <1>2 DEF RegisterDocument, Handler, RowTypeOK, rowVars, Status
  <2>3. QED
    BY <1>2, <2>1, <2>2, SameFiles, SameIndex, SameJobs DEF RegisterDocument, Handler, rowVars, fileVars, indexVars, jobVars
<1>3. CASE StoreObject
  <2>1. ServerTypeOK'
    BY <1>3 DEF StoreObject, ServerTypeOK, HandlerPc
  <2>2. FileTypeOK'
    BY <1>3 DEF StoreObject, FileTypeOK, fileVars
  <2>3. QED
    BY <1>3, <2>1, <2>2, SameRow, SameIndex, SameJobs DEF StoreObject, rowVars, fileVars, indexVars, jobVars
<1>4. CASE SetStoredPath
  <2>1. ServerTypeOK'
    BY <1>4 DEF SetStoredPath, ServerTypeOK, HandlerPc
  <2>2. RowTypeOK'
    BY <1>4 DEF SetStoredPath, RowTypeOK, rowVars, Status
  <2>3. QED
    BY <1>4, <2>1, <2>2, SameFiles, SameIndex, SameJobs DEF SetStoredPath, rowVars, fileVars, indexVars, jobVars
<1>5. CASE RejectUpload
  <2>1. ServerTypeOK'
    BY <1>5 DEF RejectUpload, Handler, ServerTypeOK, HandlerPc
  <2>2. RowTypeOK'
    BY <1>5 DEF RejectUpload, Handler, RowTypeOK, rowVars, Status
  <2>3. FileTypeOK'
    BY <1>5 DEF RejectUpload, Handler, FileTypeOK, fileVars
  <2>4. QED
    BY <1>5, <2>1, <2>2, <2>3, SameIndex, SameJobs DEF RejectUpload, Handler, rowVars, fileVars, indexVars, jobVars
<1>6. CASE ScrapeFailsToSchedule
  <2>1. ServerTypeOK'
    BY <1>6 DEF ScrapeFailsToSchedule, Handler, ServerTypeOK, HandlerPc
  <2>2. QED
    BY <1>6, <2>1, SameRow, SameFiles, SameIndex, SameJobs DEF ScrapeFailsToSchedule, Handler, rowVars, fileVars, indexVars, jobVars
<1>7. CASE RescrapeFails
  <2>1. RowTypeOK'
    BY <1>7 DEF RescrapeFails, RowTypeOK, rowVars, Status
  <2>2. QED
    BY <1>7, <2>1, SameServer, SameFiles, SameIndex, SameJobs DEF RescrapeFails, rowVars, fileVars, indexVars, jobVars
<1>8. CASE DeletePoints
  <2>1. ServerTypeOK'
    BY <1>8 DEF DeletePoints, Handler, ServerTypeOK, HandlerPc
  <2>2. IndexTypeOK'
    BY <1>8 DEF DeletePoints, Handler, IndexTypeOK, indexVars, AllBatches
  <2>3. QED
    BY <1>8, <2>1, <2>2, SameRow, SameFiles, SameJobs DEF DeletePoints, Handler, rowVars, fileVars, indexVars, jobVars
<1>9. CASE DeleteSummaryPoint
  <2>1. ServerTypeOK'
    BY <1>9 DEF DeleteSummaryPoint, Handler, SummaryCleared, ServerTypeOK, HandlerPc
  <2>2. IndexTypeOK'
    BY <1>9 DEF DeleteSummaryPoint, Handler, SummaryCleared, IndexTypeOK, indexVars, AllBatches
  <2>3. QED
    BY <1>9, <2>1, <2>2, SameRow, SameFiles, SameJobs DEF DeleteSummaryPoint, Handler, SummaryCleared, rowVars, fileVars, indexVars, jobVars
<1>10. CASE DeleteFile
  <2>1. ServerTypeOK'
    BY <1>10 DEF DeleteFile, Handler, ServerTypeOK, HandlerPc
  <2>2. FileTypeOK'
    BY <1>10 DEF DeleteFile, Handler, FileTypeOK, fileVars
  <2>3. QED
    BY <1>10, <2>1, <2>2, SameRow, SameIndex, SameJobs DEF DeleteFile, Handler, rowVars, fileVars, indexVars, jobVars
<1>11. CASE DeleteRow
  <2>1. ServerTypeOK'
    BY <1>11 DEF DeleteRow, Handler, ServerTypeOK, HandlerPc
  <2>2. RowTypeOK'
    BY <1>11 DEF DeleteRow, Handler, RowTypeOK, rowVars, Status
  <2>3. QED
    BY <1>11, <2>1, <2>2, SameFiles, SameIndex, SameJobs DEF DeleteRow, Handler, rowVars, fileVars, indexVars, jobVars
<1>12. CASE DeleteFails
  <2>1. ServerTypeOK'
    BY <1>12 DEF DeleteFails, ServerTypeOK, HandlerPc
  <2>2. QED
    BY <1>12, <2>1, SameRow, SameFiles, SameIndex, SameJobs DEF DeleteFails, rowVars, fileVars, indexVars, jobVars
<1>13. CASE Crash
  <2>1. ServerTypeOK'
    BY <1>13 DEF Crash, ServerTypeOK, HandlerPc
  <2>2. JobTypeOK'
    BY <1>13 DEF Crash, JobTypeOK, jobVars, JobPc
  <2>3. QED
    BY <1>13, <2>1, <2>2, SameRow, SameFiles, SameIndex DEF Crash, rowVars, fileVars, indexVars, jobVars
<1>14. CASE Restart
  <2>1. ServerTypeOK'
    BY <1>14 DEF Restart, InitDb, AfterInitDb, ServerTypeOK, HandlerPc
  <2>2. RowTypeOK'
    BY <1>14 DEF Restart, InitDb, AfterInitDb, RowTypeOK, rowVars, Status
  <2>3. FileTypeOK'
    BY <1>14 DEF Restart, InitDb, AfterInitDb, FileTypeOK, fileVars
  <2>4. QED
    BY <1>14, <2>1, <2>2, <2>3, SameIndex, SameJobs DEF Restart, InitDb, AfterInitDb, rowVars, fileVars, indexVars, jobVars
<1>15. CASE CliInitsDb
  <2>1. RowTypeOK'
    BY <1>15 DEF CliInitsDb, InitDb, AfterInitDb, RowTypeOK, rowVars, Status
  <2>2. QED
    BY <1>15, <2>1, SameServer, SameFiles, SameIndex, SameJobs DEF CliInitsDb, InitDb, AfterInitDb, rowVars, fileVars, indexVars, jobVars
<1>16. ASSUME NEW t \in Job, Schedule(t) PROVE TypeOK'
  <2>1. ServerTypeOK'
    BY <1>16 DEF Schedule, Handler, Disposable, ServerTypeOK, HandlerPc
  <2>2. JobTypeOK'
    BY <1>16 DEF Schedule, Handler, Disposable, JobTypeOK, jobVars, JobPc
  <2>3. QED
    BY <1>16, <2>1, <2>2, SameRow, SameFiles, SameIndex DEF Schedule, Handler, Disposable, rowVars, fileVars, indexVars, jobVars
<1>17. ASSUME NEW t \in Job, Resolve(t) PROVE TypeOK'
  <2>1. ServerTypeOK'
    BY <1>17 DEF Resolve, Disposable, ServerTypeOK, HandlerPc
  <2>2. FileTypeOK'
    BY <1>17 DEF Resolve, Disposable, FileTypeOK, fileVars
  <2>3. JobTypeOK'
    BY <1>17 DEF Resolve, Disposable, JobTypeOK, jobVars, JobPc
  <2>4. QED
    BY <1>17, <2>1, <2>2, <2>3, SameRow, SameIndex DEF Resolve, Disposable, rowVars, fileVars, indexVars, jobVars
<1>18. ASSUME NEW t \in Job, MarkProcessing(t) PROVE TypeOK'
  <2>1. ServerTypeOK'
    BY <1>18 DEF MarkProcessing, Handler, RetriedStatus, ServerTypeOK, HandlerPc
  <2>2. RowTypeOK'
    BY <1>18 DEF MarkProcessing, Handler, RetriedStatus, RowTypeOK, rowVars, Status
  <2>3. JobTypeOK'
    BY <1>18 DEF MarkProcessing, Handler, RetriedStatus, JobTypeOK, jobVars, JobPc
  <2>4. QED
    BY <1>18, <2>1, <2>2, <2>3, SameFiles, SameIndex DEF MarkProcessing, Handler, RetriedStatus, rowVars, fileVars, indexVars, jobVars
<1>19. ASSUME NEW t \in Job, JobStarts(t) PROVE TypeOK'
  <2>1. RowTypeOK'
    BY <1>19 DEF JobStarts, JobMoves, SetStatus, RowTypeOK, rowVars, Status
  <2>2. JobTypeOK'
    BY <1>19 DEF JobStarts, JobMoves, SetStatus, JobTypeOK, jobVars, JobPc
  <2>3. QED
    BY <1>19, <2>1, <2>2, SameServer, SameFiles, SameIndex DEF JobStarts, JobMoves, SetStatus, rowVars, fileVars, indexVars, jobVars
<1>20. ASSUME NEW t \in Job, JobTells(t) PROVE TypeOK'
  <2>1. ServerTypeOK'
    BY <1>20 DEF JobTells, JobMoves, ServerTypeOK, HandlerPc, JobTypeOK
  <2>2. JobTypeOK'
    BY <1>20 DEF JobTells, JobMoves, JobTypeOK, jobVars, JobPc
  <2>3. QED
    BY <1>20, <2>1, <2>2, SameRow, SameFiles, SameIndex DEF JobTells, JobMoves, rowVars, fileVars, indexVars, jobVars
<1>21. ASSUME NEW t \in Job, JobClears(t) PROVE TypeOK'
  <2>1. IndexTypeOK'
    BY <1>21 DEF JobClears, JobMoves, StageFails, IndexTypeOK, indexVars, AllBatches
  <2>2. JobTypeOK'
    BY <1>21 DEF JobClears, JobMoves, StageFails, JobTypeOK, jobVars, JobPc
  <2>3. QED
    BY <1>21, <2>1, <2>2, SameServer, SameRow, SameFiles DEF JobClears, JobMoves, StageFails, rowVars, fileVars, indexVars, jobVars
<1>22. ASSUME NEW t \in Job, JobClearsSummary(t) PROVE TypeOK'
  <2>1. IndexTypeOK'
    BY <1>22 DEF JobClearsSummary, JobMoves, StageFails, SummaryCleared, IndexTypeOK, indexVars, AllBatches
  <2>2. JobTypeOK'
    BY <1>22 DEF JobClearsSummary, JobMoves, StageFails, SummaryCleared, JobTypeOK, jobVars, JobPc
  <2>3. QED
    BY <1>22, <2>1, <2>2, SameServer, SameRow, SameFiles DEF JobClearsSummary, JobMoves, StageFails, SummaryCleared, rowVars, fileVars, indexVars, jobVars
<1>23. ASSUME NEW t \in Job, JobReads(t) PROVE TypeOK'
  <2>1. JobTypeOK'
    BY <1>23 DEF JobReads, JobMoves, StageFails, JobTypeOK, jobVars, JobPc
  <2>2. QED
    BY <1>23, <2>1, SameServer, SameRow, SameFiles, SameIndex DEF JobReads, JobMoves, StageFails, rowVars, fileVars, indexVars, jobVars
<1>24. ASSUME NEW t \in Job, JobIndexes(t) PROVE TypeOK'
  <2>1. IndexTypeOK'
    <3>1. jobBatch[t] \in 0 .. Batches
      BY DEF JobTypeOK
    <3>2. jobBatch[t] # Batches => jobBatch[t] + 1 \in AllBatches
      BY <3>1 DEF AllBatches
    <3>3. QED
      BY <1>24, <3>2 DEF JobIndexes, AllUpserted, IndexTypeOK, indexVars, AllBatches
  <2>2. JobTypeOK'
    BY <1>24 DEF JobIndexes, JobMoves, AllUpserted, JobTypeOK, jobVars, JobPc
  <2>3. QED
    BY <1>24, <2>1, <2>2, SameServer, SameRow, SameFiles DEF JobIndexes, JobMoves, AllUpserted, rowVars, fileVars, indexVars, jobVars
<1>25. ASSUME NEW t \in Job, JobSummarises(t) PROVE TypeOK'
  <2>1. RowTypeOK'
    BY <1>25 DEF JobSummarises, JobMoves, StageFails, RowTypeOK, rowVars, Status
  <2>2. JobTypeOK'
    BY <1>25 DEF JobSummarises, JobMoves, StageFails, JobTypeOK, jobVars, JobPc
  <2>3. QED
    BY <1>25, <2>1, <2>2, SameServer, SameFiles, SameIndex DEF JobSummarises, JobMoves, StageFails, rowVars, fileVars, indexVars, jobVars
<1>26. ASSUME NEW t \in Job, JobIndexesSummary(t) PROVE TypeOK'
  <2>1. IndexTypeOK'
    BY <1>26 DEF JobIndexesSummary, JobMoves, IndexTypeOK, indexVars, AllBatches
  <2>2. JobTypeOK'
    BY <1>26 DEF JobIndexesSummary, JobMoves, JobTypeOK, jobVars, JobPc
  <2>3. QED
    BY <1>26, <2>1, <2>2, SameServer, SameRow, SameFiles DEF JobIndexesSummary, JobMoves, rowVars, fileVars, indexVars, jobVars
<1>27. ASSUME NEW t \in Job, JobFinishes(t) PROVE TypeOK'
  <2>1. RowTypeOK'
    BY <1>27 DEF JobFinishes, JobMoves, StageFails, SetStatus, RowTypeOK, rowVars, Status
  <2>2. JobTypeOK'
    BY <1>27 DEF JobFinishes, JobMoves, StageFails, SetStatus, JobTypeOK, jobVars, JobPc
  <2>3. QED
    BY <1>27, <2>1, <2>2, SameServer, SameFiles, SameIndex DEF JobFinishes, JobMoves, StageFails, SetStatus, rowVars, fileVars, indexVars, jobVars
<1>28. ASSUME NEW t \in Job, JobFails(t) PROVE TypeOK'
  <2>1. RowTypeOK'
    BY <1>28 DEF JobFails, JobMoves, SetStatus, FailureStatus, RowTypeOK, rowVars, Status
  <2>2. JobTypeOK'
    BY <1>28 DEF JobFails, JobMoves, SetStatus, FailureStatus, JobTypeOK, jobVars, JobPc
  <2>3. QED
    BY <1>28, <2>1, <2>2, SameServer, SameFiles, SameIndex DEF JobFails, JobMoves, SetStatus, FailureStatus, rowVars, fileVars, indexVars, jobVars
<1>29. ASSUME NEW t \in Job, JobEnds(t) PROVE TypeOK'
  <2>1. FileTypeOK'
    BY <1>29 DEF JobEnds, JobMoves, FileTypeOK, fileVars
  <2>2. JobTypeOK'
    BY <1>29 DEF JobEnds, JobMoves, JobTypeOK, jobVars, JobPc
  <2>3. QED
    BY <1>29, <2>1, <2>2, SameServer, SameRow, SameIndex DEF JobEnds, JobMoves, rowVars, fileVars, indexVars, jobVars
<1>30. CASE UNCHANGED vars
  BY <1>30, SameServer, SameRow, SameFiles, SameIndex, SameJobs DEF vars
<1>31. QED
  BY <1>1, <1>2, <1>3, <1>4, <1>5, <1>6, <1>7, <1>8, <1>9, <1>10, <1>11, <1>12, <1>13, <1>14, <1>15, <1>16, <1>17, <1>18, <1>19, <1>20, <1>21, <1>22, <1>23, <1>24, <1>25, <1>26, <1>27, <1>28, <1>29, <1>30 DEF Next, Request, HandlerStep, JobStep

\* Every variable keeps its type, whatever the faults.
THEOREM TypeCorrect == Spec => []TypeOK
  BY InitType, StepType, PTL DEF Spec

-----------------------------------------------------------------------------
(* The bytes of a document.                                                 *)

\* Which row each request under way acts on; a server that is down has none.
HandlerAndRow ==
  /\ handler = "registering" => row = "absent"
  /\ handler \in {"storing", "pointing", "rejecting", "scheduling"} => row = "live"
  /\ Deleting => row = "live"
  /\ ~up => handler = "idle"
  /\ row = "absent" => storedIn = "local"

StoredPathHolds ==
  row = "live" /\ ~forgone => IF storedIn = "s3" THEN object ELSE scratch

\* An upload under way has written its file, and its object before it points
\* the row at it.
UploadsHoldBytes ==
  /\ handler = "registering" => scratch
  /\ handler = "pointing" => object

\* A job may only remove the upload's file once the bucket has the document.
DisposesOnlyCopies ==
  \A t \in Job : jobDisposes[t] /\ jobSource[t] = "scratch" => storedIn = "s3"

BytesInv == HandlerAndRow /\ StoredPathHolds /\ UploadsHoldBytes /\ DisposesOnlyCopies

LEMMA BytesInit == Init => BytesInv
BY DEF Init, BytesInv, HandlerAndRow, StoredPathHolds, UploadsHoldBytes,
       DisposesOnlyCopies, Deleting

LEMMA BytesStep ==
  ASSUME TypeOK, BytesInv, [Next]_vars
  PROVE  BytesInv'
<1> USE DEF TypeOK, Live, Deleting, rowVars, fileVars, indexVars, jobVars
<1>b. HandlerAndRow /\ StoredPathHolds /\ UploadsHoldBytes /\ DisposesOnlyCopies
  BY DEF BytesInv
<1>1. CASE WriteFile
  <2>1. HandlerAndRow' /\ StoredPathHolds'
    BY <1>b, <1>1 DEF WriteFile, Handler, HandlerAndRow, StoredPathHolds, UploadsHoldBytes, DisposesOnlyCopies
  <2>2. UploadsHoldBytes' /\ DisposesOnlyCopies'
    BY <1>b, <1>1 DEF WriteFile, Handler, HandlerAndRow, UploadsHoldBytes, DisposesOnlyCopies, JobTypeOK
  <2>3. QED
    BY <2>1, <2>2 DEF BytesInv
<1>2. CASE RegisterDocument
  <2>1. HandlerAndRow' /\ StoredPathHolds'
    BY <1>b, <1>2 DEF RegisterDocument, Handler, HandlerAndRow, StoredPathHolds, UploadsHoldBytes, DisposesOnlyCopies
  <2>2. UploadsHoldBytes' /\ DisposesOnlyCopies'
    BY <1>b, <1>2 DEF RegisterDocument, Handler, HandlerAndRow, UploadsHoldBytes, DisposesOnlyCopies, JobTypeOK
  <2>3. QED
    BY <2>1, <2>2 DEF BytesInv
<1>3. CASE StoreObject
  <2>1. HandlerAndRow' /\ StoredPathHolds'
    BY <1>b, <1>3 DEF StoreObject, HandlerAndRow, StoredPathHolds, UploadsHoldBytes, DisposesOnlyCopies
  <2>2. UploadsHoldBytes' /\ DisposesOnlyCopies'
    BY <1>b, <1>3 DEF StoreObject, HandlerAndRow, UploadsHoldBytes, DisposesOnlyCopies, JobTypeOK
  <2>3. QED
    BY <2>1, <2>2 DEF BytesInv
<1>4. CASE SetStoredPath
  <2>1. HandlerAndRow' /\ StoredPathHolds'
    BY <1>b, <1>4 DEF SetStoredPath, HandlerAndRow, StoredPathHolds, UploadsHoldBytes, DisposesOnlyCopies
  <2>2. UploadsHoldBytes' /\ DisposesOnlyCopies'
    BY <1>b, <1>4 DEF SetStoredPath, HandlerAndRow, UploadsHoldBytes, DisposesOnlyCopies, JobTypeOK
  <2>3. QED
    BY <2>1, <2>2 DEF BytesInv
<1>5. CASE RejectUpload
  <2>1. HandlerAndRow' /\ StoredPathHolds'
    BY <1>b, <1>5 DEF RejectUpload, Handler, HandlerAndRow, StoredPathHolds, UploadsHoldBytes, DisposesOnlyCopies
  <2>2. UploadsHoldBytes' /\ DisposesOnlyCopies'
    BY <1>b, <1>5 DEF RejectUpload, Handler, HandlerAndRow, UploadsHoldBytes, DisposesOnlyCopies, JobTypeOK
  <2>3. QED
    BY <2>1, <2>2 DEF BytesInv
<1>6. CASE ScrapeFailsToSchedule
  BY <1>b, <1>6 DEF ScrapeFailsToSchedule, Handler, BytesInv, HandlerAndRow, StoredPathHolds, UploadsHoldBytes, DisposesOnlyCopies
<1>7. CASE RescrapeFails
  <2>1. HandlerAndRow' /\ StoredPathHolds'
    BY <1>b, <1>7 DEF RescrapeFails, HandlerAndRow, StoredPathHolds, UploadsHoldBytes, DisposesOnlyCopies
  <2>2. UploadsHoldBytes' /\ DisposesOnlyCopies'
    BY <1>b, <1>7 DEF RescrapeFails, HandlerAndRow, UploadsHoldBytes, DisposesOnlyCopies, JobTypeOK
  <2>3. QED
    BY <2>1, <2>2 DEF BytesInv
<1>8. CASE DeletePoints
  BY <1>b, <1>8 DEF DeletePoints, Handler, BytesInv, HandlerAndRow, StoredPathHolds, UploadsHoldBytes, DisposesOnlyCopies
<1>9. CASE DeleteSummaryPoint
  BY <1>b, <1>9 DEF DeleteSummaryPoint, Handler, BytesInv, HandlerAndRow, StoredPathHolds, UploadsHoldBytes, DisposesOnlyCopies
<1>10. CASE DeleteFile
  <2>1. HandlerAndRow' /\ StoredPathHolds'
    BY <1>b, <1>10 DEF DeleteFile, Handler, HandlerAndRow, StoredPathHolds, UploadsHoldBytes, DisposesOnlyCopies
  <2>2. UploadsHoldBytes' /\ DisposesOnlyCopies'
    BY <1>b, <1>10 DEF DeleteFile, Handler, HandlerAndRow, UploadsHoldBytes, DisposesOnlyCopies, JobTypeOK
  <2>3. QED
    BY <2>1, <2>2 DEF BytesInv
<1>11. CASE DeleteRow
  <2>1. HandlerAndRow' /\ StoredPathHolds'
    BY <1>b, <1>11 DEF DeleteRow, Handler, HandlerAndRow, StoredPathHolds, UploadsHoldBytes, DisposesOnlyCopies
  <2>2. UploadsHoldBytes' /\ DisposesOnlyCopies'
    BY <1>b, <1>11 DEF DeleteRow, Handler, HandlerAndRow, UploadsHoldBytes, DisposesOnlyCopies, JobTypeOK
  <2>3. QED
    BY <2>1, <2>2 DEF BytesInv
<1>12. CASE DeleteFails
  BY <1>b, <1>12 DEF DeleteFails, BytesInv, HandlerAndRow, StoredPathHolds, UploadsHoldBytes, DisposesOnlyCopies
<1>13. CASE Crash
  <2>1. HandlerAndRow' /\ StoredPathHolds'
    BY <1>b, <1>13 DEF Crash, HandlerAndRow, StoredPathHolds, UploadsHoldBytes, DisposesOnlyCopies
  <2>2. UploadsHoldBytes' /\ DisposesOnlyCopies'
    BY <1>b, <1>13 DEF Crash, HandlerAndRow, UploadsHoldBytes, DisposesOnlyCopies, JobTypeOK
  <2>3. QED
    BY <2>1, <2>2 DEF BytesInv
<1>14. CASE Restart
  <2>1. HandlerAndRow' /\ StoredPathHolds'
    BY <1>b, <1>14 DEF Restart, Swept, HandlerAndRow, StoredPathHolds, UploadsHoldBytes, DisposesOnlyCopies
  <2>2. UploadsHoldBytes' /\ DisposesOnlyCopies'
    BY <1>b, <1>14 DEF Restart, Swept, HandlerAndRow, UploadsHoldBytes, DisposesOnlyCopies, JobTypeOK
  <2>3. QED
    BY <2>1, <2>2 DEF BytesInv
<1>15. CASE CliInitsDb
  <2>1. HandlerAndRow' /\ StoredPathHolds'
    BY <1>b, <1>15 DEF CliInitsDb, HandlerAndRow, StoredPathHolds, UploadsHoldBytes, DisposesOnlyCopies
  <2>2. UploadsHoldBytes' /\ DisposesOnlyCopies'
    BY <1>b, <1>15 DEF CliInitsDb, HandlerAndRow, UploadsHoldBytes, DisposesOnlyCopies, JobTypeOK
  <2>3. QED
    BY <2>1, <2>2 DEF BytesInv
<1>16. ASSUME NEW t \in Job, Schedule(t) PROVE BytesInv'
  <2>1. HandlerAndRow' /\ StoredPathHolds'
    BY <1>b, <1>16 DEF Schedule, Handler, Disposable, HandlerAndRow, StoredPathHolds, UploadsHoldBytes, DisposesOnlyCopies
  <2>2. UploadsHoldBytes' /\ DisposesOnlyCopies'
    BY <1>b, <1>16 DEF Schedule, Handler, Disposable, HandlerAndRow, UploadsHoldBytes, DisposesOnlyCopies, JobTypeOK
  <2>3. QED
    BY <2>1, <2>2 DEF BytesInv
<1>17. ASSUME NEW t \in Job, Resolve(t) PROVE BytesInv'
  <2>1. HandlerAndRow' /\ StoredPathHolds'
    BY <1>b, <1>17 DEF Resolve, Disposable, HandlerAndRow, StoredPathHolds, UploadsHoldBytes, DisposesOnlyCopies
  <2>2. UploadsHoldBytes' /\ DisposesOnlyCopies'
    BY <1>b, <1>17 DEF Resolve, Disposable, HandlerAndRow, UploadsHoldBytes, DisposesOnlyCopies, JobTypeOK
  <2>3. QED
    BY <2>1, <2>2 DEF BytesInv
<1>18. ASSUME NEW t \in Job, MarkProcessing(t) PROVE BytesInv'
  <2>1. HandlerAndRow' /\ StoredPathHolds'
    BY <1>b, <1>18 DEF MarkProcessing, Handler, HandlerAndRow, StoredPathHolds, UploadsHoldBytes, DisposesOnlyCopies
  <2>2. UploadsHoldBytes' /\ DisposesOnlyCopies'
    BY <1>b, <1>18 DEF MarkProcessing, Handler, HandlerAndRow, UploadsHoldBytes, DisposesOnlyCopies, JobTypeOK
  <2>3. QED
    BY <2>1, <2>2 DEF BytesInv
<1>19. ASSUME NEW t \in Job, JobStarts(t) PROVE BytesInv'
  <2>1. HandlerAndRow' /\ StoredPathHolds'
    BY <1>b, <1>19 DEF JobStarts, JobMoves, HandlerAndRow, StoredPathHolds, UploadsHoldBytes, DisposesOnlyCopies
  <2>2. UploadsHoldBytes' /\ DisposesOnlyCopies'
    BY <1>b, <1>19 DEF JobStarts, JobMoves, HandlerAndRow, UploadsHoldBytes, DisposesOnlyCopies, JobTypeOK
  <2>3. QED
    BY <2>1, <2>2 DEF BytesInv
<1>20. ASSUME NEW t \in Job, JobTells(t) PROVE BytesInv'
  <2>1. HandlerAndRow' /\ StoredPathHolds'
    BY <1>b, <1>20 DEF JobTells, JobMoves, HandlerAndRow, StoredPathHolds, UploadsHoldBytes, DisposesOnlyCopies
  <2>2. UploadsHoldBytes' /\ DisposesOnlyCopies'
    BY <1>b, <1>20 DEF JobTells, JobMoves, HandlerAndRow, UploadsHoldBytes, DisposesOnlyCopies, JobTypeOK
  <2>3. QED
    BY <2>1, <2>2 DEF BytesInv
<1>21. ASSUME NEW t \in Job, JobClears(t) PROVE BytesInv'
  <2>1. HandlerAndRow' /\ StoredPathHolds'
    BY <1>b, <1>21 DEF JobClears, JobMoves, StageFails, HandlerAndRow, StoredPathHolds, UploadsHoldBytes, DisposesOnlyCopies
  <2>2. UploadsHoldBytes' /\ DisposesOnlyCopies'
    BY <1>b, <1>21 DEF JobClears, JobMoves, StageFails, HandlerAndRow, UploadsHoldBytes, DisposesOnlyCopies, JobTypeOK
  <2>3. QED
    BY <2>1, <2>2 DEF BytesInv
<1>22. ASSUME NEW t \in Job, JobClearsSummary(t) PROVE BytesInv'
  <2>1. HandlerAndRow' /\ StoredPathHolds'
    BY <1>b, <1>22 DEF JobClearsSummary, JobMoves, StageFails, HandlerAndRow, StoredPathHolds, UploadsHoldBytes, DisposesOnlyCopies
  <2>2. UploadsHoldBytes' /\ DisposesOnlyCopies'
    BY <1>b, <1>22 DEF JobClearsSummary, JobMoves, StageFails, HandlerAndRow, UploadsHoldBytes, DisposesOnlyCopies, JobTypeOK
  <2>3. QED
    BY <2>1, <2>2 DEF BytesInv
<1>23. ASSUME NEW t \in Job, JobReads(t) PROVE BytesInv'
  <2>1. HandlerAndRow' /\ StoredPathHolds'
    BY <1>b, <1>23 DEF JobReads, JobMoves, StageFails, HandlerAndRow, StoredPathHolds, UploadsHoldBytes, DisposesOnlyCopies
  <2>2. UploadsHoldBytes' /\ DisposesOnlyCopies'
    BY <1>b, <1>23 DEF JobReads, JobMoves, StageFails, HandlerAndRow, UploadsHoldBytes, DisposesOnlyCopies, JobTypeOK
  <2>3. QED
    BY <2>1, <2>2 DEF BytesInv
<1>24. ASSUME NEW t \in Job, JobIndexes(t) PROVE BytesInv'
  <2>1. HandlerAndRow' /\ StoredPathHolds'
    BY <1>b, <1>24 DEF JobIndexes, JobMoves, HandlerAndRow, StoredPathHolds, UploadsHoldBytes, DisposesOnlyCopies
  <2>2. UploadsHoldBytes' /\ DisposesOnlyCopies'
    BY <1>b, <1>24 DEF JobIndexes, JobMoves, HandlerAndRow, UploadsHoldBytes, DisposesOnlyCopies, JobTypeOK
  <2>3. QED
    BY <2>1, <2>2 DEF BytesInv
<1>25. ASSUME NEW t \in Job, JobSummarises(t) PROVE BytesInv'
  <2>1. HandlerAndRow' /\ StoredPathHolds'
    BY <1>b, <1>25 DEF JobSummarises, JobMoves, StageFails, HandlerAndRow, StoredPathHolds, UploadsHoldBytes, DisposesOnlyCopies
  <2>2. UploadsHoldBytes' /\ DisposesOnlyCopies'
    BY <1>b, <1>25 DEF JobSummarises, JobMoves, StageFails, HandlerAndRow, UploadsHoldBytes, DisposesOnlyCopies, JobTypeOK
  <2>3. QED
    BY <2>1, <2>2 DEF BytesInv
<1>26. ASSUME NEW t \in Job, JobIndexesSummary(t) PROVE BytesInv'
  <2>1. HandlerAndRow' /\ StoredPathHolds'
    BY <1>b, <1>26 DEF JobIndexesSummary, JobMoves, HandlerAndRow, StoredPathHolds, UploadsHoldBytes, DisposesOnlyCopies
  <2>2. UploadsHoldBytes' /\ DisposesOnlyCopies'
    BY <1>b, <1>26 DEF JobIndexesSummary, JobMoves, HandlerAndRow, UploadsHoldBytes, DisposesOnlyCopies, JobTypeOK
  <2>3. QED
    BY <2>1, <2>2 DEF BytesInv
<1>27. ASSUME NEW t \in Job, JobFinishes(t) PROVE BytesInv'
  <2>1. HandlerAndRow' /\ StoredPathHolds'
    BY <1>b, <1>27 DEF JobFinishes, JobMoves, StageFails, HandlerAndRow, StoredPathHolds, UploadsHoldBytes, DisposesOnlyCopies
  <2>2. UploadsHoldBytes' /\ DisposesOnlyCopies'
    BY <1>b, <1>27 DEF JobFinishes, JobMoves, StageFails, HandlerAndRow, UploadsHoldBytes, DisposesOnlyCopies, JobTypeOK
  <2>3. QED
    BY <2>1, <2>2 DEF BytesInv
<1>28. ASSUME NEW t \in Job, JobFails(t) PROVE BytesInv'
  <2>1. HandlerAndRow' /\ StoredPathHolds'
    BY <1>b, <1>28 DEF JobFails, JobMoves, HandlerAndRow, StoredPathHolds, UploadsHoldBytes, DisposesOnlyCopies
  <2>2. UploadsHoldBytes' /\ DisposesOnlyCopies'
    BY <1>b, <1>28 DEF JobFails, JobMoves, HandlerAndRow, UploadsHoldBytes, DisposesOnlyCopies, JobTypeOK
  <2>3. QED
    BY <2>1, <2>2 DEF BytesInv
<1>29. ASSUME NEW t \in Job, JobEnds(t) PROVE BytesInv'
  <2>1. HandlerAndRow' /\ StoredPathHolds'
    <3>1. /\ UNCHANGED <<up, row, status, storedIn, object, forgone, handler>>
          /\ scratch' = scratch \/ (jobDisposes[t] /\ jobSource[t] = "scratch")
      BY <1>29 DEF JobEnds, FileTypeOK
    <3>2. scratch' = scratch \/ storedIn = "s3"
      BY <1>b, <3>1 DEF DisposesOnlyCopies
    <3>3. QED
      BY <1>b, <3>1, <3>2 DEF HandlerAndRow, StoredPathHolds
  <2>2. UploadsHoldBytes' /\ DisposesOnlyCopies'
    BY <1>b, <1>29 DEF JobEnds, JobMoves, HandlerAndRow, UploadsHoldBytes, DisposesOnlyCopies, JobTypeOK
  <2>3. QED
    BY <2>1, <2>2 DEF BytesInv
<1>30. CASE UNCHANGED vars
  BY <1>b, <1>30 DEF vars, BytesInv, HandlerAndRow, StoredPathHolds, UploadsHoldBytes, DisposesOnlyCopies
<1>31. QED
  BY <1>1, <1>2, <1>3, <1>4, <1>5, <1>6, <1>7, <1>8, <1>9, <1>10, <1>11, <1>12, <1>13, <1>14, <1>15, <1>16, <1>17, <1>18, <1>19, <1>20, <1>21, <1>22, <1>23, <1>24, <1>25, <1>26, <1>27, <1>28, <1>29, <1>30 DEF Next, Request, HandlerStep, JobStep

\* No ingestion, retry, sweep, failed upload, crash or restart loses the bytes
\* of a document whose deletion has not reached them, whatever the faults are.
THEOREM BytesCorrect == Spec => []BytesReachable
<1>1. Init => TypeOK /\ BytesInv
  BY InitType, BytesInit
<1>2. TypeOK /\ BytesInv /\ [Next]_vars => (TypeOK /\ BytesInv)'
  BY StepType, BytesStep
<1>3. BytesInv => BytesReachable
  BY DEF BytesInv, StoredPathHolds, BytesReachable, Live
<1>4. QED
  BY <1>1, <1>2, <1>3, PTL DEF Spec
=============================================================================
