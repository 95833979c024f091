---------------------------- MODULE DocumentImages ----------------------------
(***************************************************************************)
(* The images of the documents: the part of an ingestion that follows the   *)
(* text.  Figures, tables whose HTML is not reliable, <img> tags of a page   *)
(* and standalone images are captioned by Vision one by one and upserted as  *)
(* role="image" points, whose ids are document and chunk_index.              *)
(*                                                                         *)
(* The jobs of different documents interleave; an image another document of  *)
(* the same tenant has in the index is not indexed again.  An image is its    *)
(* hash.  The text of the documents is in DocumentLifecycle.  At most        *)
(* 2 * Cap points are upserted in one batch of upsert_chunks (Cap is 20 in    *)
(* the code, a batch 100), so an upsert is one step.                         *)
(***************************************************************************)
EXTENDS Integers, Sequences, FiniteSets

CONSTANTS Doc, Tenant,
          Hash,        \* hashes of image bytes
          Noise,       \* hashes of icons, logos, tracking pixels
          Shapes,      \* what a document may be: [kind, figures, tables]
          Cap,         \* MAX_IMAGES_PER_DOCUMENT
          Ingestions,  \* bound: ingestions of one document
          Faults       \* what may go wrong in this instance

\* A table: the hash of its crop, its structure-inference HTML, and how much
\* text the layer of its page has.
Tables == [hash : Hash, html : {"none", "oneRow", "full"}, layer : {"unknown", "thin", "rich"}]

ASSUME NoiseAssumption == Noise \subseteq Hash
ASSUME CapAssumption == Cap \in Nat \ {0}
ASSUME IngestionsAssumption == Ingestions \in Nat \ {0}
ASSUME ShapesAssumption ==
         \A s \in Shapes : /\ s.kind \in {"pdf", "page", "image"}
                           /\ s.figures \in Seq(Hash) /\ s.tables \in Seq(Tables)
                           /\ s.kind # "pdf" => s.tables = << >>
                           /\ s.kind = "image" => Len(s.figures) = 1
ASSUME FaultsAssumption ==
         Faults \subseteq {"payloadMissing", "downloadFails", "visionFails", "checkFails",
                           "checkOvercounts", "upsertFails", "upsertUnknown", "databaseFails"}

VARIABLES
  tenant,     \* whose the document is
  shape,      \* what the document is
  status,     \* documents.status
  count,      \* documents.image_count
  points,     \* role="image" points of avabodh_chunks: [doc, index, hash, from]
  ingested,   \* ingestions of the document so far
  pc,         \* where its job is
  at,         \* the next element of the list the job works on
  seen,       \* seen_hashes of that list
  results,    \* hashes captioned and not upserted yet
  offset,     \* image_chunk_offset
  indexed,    \* total_images_indexed
  relies,     \* <<hash, doc>>: whose points stand for an image of this document (history)
  lost        \* hashes left out for a reason that Exempt and the dedup do not give (history)

docVars == <<tenant, shape, status, count, ingested>>
jobVars == <<pc, at, seen, results, offset, indexed>>
history == <<relies, lost>>
vars == <<docVars, points, jobVars, history>>

Fault(f) == f \in Faults
PointsOf(d) == {p \in points : p.doc = d}
Kind(d) == shape[d].kind

\* table_html_is_reliable: markup of two rows, and not made by OCR.
Reliable(t) == t.html = "full" /\ t.layer # "thin"

\* Lists are cut at MAX_IMAGES_PER_DOCUMENT.  (Slip: not cut.)
Uncut(s) == s
Capped(s) == SubSeq(s, 1, IF Len(s) < Cap THEN Len(s) ELSE Cap)

\* The crops of the tables whose HTML is not reliable, in their order.
Unreliable(d) == {i \in DOMAIN shape[d].tables : ~Reliable(shape[d].tables[i])}
Place(d, i) == Cardinality({j \in Unreliable(d) : j <= i})
NeedsVision(d) == [n \in 1 .. Cardinality(Unreliable(d)) |->
                     shape[d].tables[CHOOSE i \in Unreliable(d) : Place(d, i) = n].hash]

\* The elements the job works on.
Elements(d, from) == Capped(IF from = "figures" THEN shape[d].figures ELSE NeedsVision(d))

Init ==
  /\ tenant \in [Doc -> Tenant]
  /\ shape \in [Doc -> Shapes]
  /\ status = [d \in Doc |-> "UPLOADED"] /\ count = [d \in Doc |-> 0]
  /\ ingested = [d \in Doc |-> 0]
  /\ points = {}
  /\ pc = [d \in Doc |-> "idle"]
  /\ at = [d \in Doc |-> 1] /\ seen = [d \in Doc |-> {}] /\ results = [d \in Doc |-> << >>]
  /\ offset = [d \in Doc |-> 0] /\ indexed = [d \in Doc |-> 0]
  /\ relies = [d \in Doc |-> {}] /\ lost = [d \in Doc |-> {}]

-----------------------------------------------------------------------------
Moves(d, from, to) == pc[d] = from /\ pc' = [pc EXCEPT ![d] = to]

\* A job begins on a document that none is working on.
Start(d) ==
  /\ Moves(d, "idle", "clearing")
  /\ status[d] # "DELETED" /\ ingested[d] < Ingestions
  /\ ingested' = [ingested EXCEPT ![d] = @ + 1]
  /\ status' = [status EXCEPT ![d] = "PROCESSING"]
  /\ UNCHANGED <<tenant, shape, count, points, at, seen, results, offset, indexed, history>>

\* delete_document_points.  What relied on these points is on record as lost.
Removes(x) ==
  /\ points' = points \ PointsOf(x)
  /\ relies' = [d \in Doc |-> IF d = x THEN {} ELSE {r \in relies[d] : r[2] # x}]
  /\ lost' = [d \in Doc |-> IF d = x THEN {}
                            ELSE lost[d] \cup {r[1] : r \in {s \in relies[d] : s[2] = x}}]

Clear(d) ==
  /\ Moves(d, "clearing", "figures")
  /\ Removes(d)
  /\ UNCHANGED <<docVars, at, seen, results, offset, indexed>>

\* DELETE of a document at rest: image_hash_exists counted on it for others.
Delete(d) ==
  /\ pc[d] = "idle" /\ status[d] \in {"READY", "FAILED"}
  /\ Removes(d)
  /\ status' = [status EXCEPT ![d] = "DELETED"]
  /\ UNCHANGED <<tenant, shape, count, ingested, jobVars>>

\* image_hash_exists: documents that hold the image in this tenant and org
\* unit.  (Slip: in any tenant.)
HoldersAnywhere(d, h) == {p.doc : p \in {q \in points : q.hash = h}}
Holders(d, h) == {p.doc : p \in {q \in points : q.hash = h /\ tenant[q.doc] = tenant[d]}}

\* Dedup within the list: only where the elements of a PDF are taken.  (Slip:
\* nowhere.)
NeverSeen(d, h) == FALSE
SeenBefore(d, h) == Kind(d) = "pdf" /\ h \in seen[d]

\* Next element of the list, and what becomes of it.
Examining(d) == pc[d] \in {"figures", "tables"} /\ at[d] <= Len(Elements(d, pc[d]))
Element(d) == Elements(d, pc[d])[at[d]]
Passes(d) == /\ at' = [at EXCEPT ![d] = @ + 1]
             /\ UNCHANGED <<docVars, points, pc, offset, indexed>>
Notes(d, h) == seen' = [seen EXCEPT ![d] = IF Kind(d) = "pdf" THEN @ \cup {h} ELSE @]

\* should_skip_image, or the same image was met in this list.
Skip(d) ==
  /\ Examining(d) /\ Kind(d) # "image"
  /\ Element(d) \in Noise \/ SeenBefore(d, Element(d))
  /\ Passes(d)
  /\ UNCHANGED <<seen, results, history>>

\* The extractor delivered the element without its crop: nothing is hashed or
\* noted.
NoPayload(d) ==
  /\ Fault("payloadMissing") /\ Examining(d) /\ Kind(d) = "pdf"
  /\ Passes(d)
  /\ lost' = [lost EXCEPT ![d] = @ \cup {Element(d)}]
  /\ UNCHANGED <<seen, results, relies>>

\* The bytes of an image of a page cannot be had.
DownloadFails(d) ==
  /\ Fault("downloadFails") /\ Examining(d) /\ Kind(d) = "page"
  /\ Passes(d)
  /\ lost' = [lost EXCEPT ![d] = @ \cup {Element(d)}]
  /\ UNCHANGED <<seen, results, relies>>

Fresh(d) ==
  /\ Examining(d)
  /\ Kind(d) = "image" \/ (Element(d) \notin Noise /\ ~SeenBefore(d, Element(d)))

\* The image is in the index already: no Vision call.
AlreadyIndexed(d) ==
  /\ Fresh(d) /\ Kind(d) # "image" /\ Holders(d, Element(d)) # {}
  /\ Notes(d, Element(d)) /\ Passes(d)
  /\ relies' = [relies EXCEPT ![d] = @ \cup {<<Element(d), x>> : x \in Holders(d, Element(d))}]
  /\ UNCHANGED <<results, lost>>

\* The count is approximate: it may say so of an image nobody holds.
Overcounted(d) ==
  /\ Fault("checkOvercounts") /\ Fresh(d) /\ Kind(d) # "image" /\ Holders(d, Element(d)) = {}
  /\ Notes(d, Element(d)) /\ Passes(d)
  /\ lost' = [lost EXCEPT ![d] = @ \cup {Element(d)}]
  /\ UNCHANGED <<results, relies>>

\* The check says that nobody holds the image, or fails, or counts too little.
NotIndexed(d) == Fresh(d) /\ (\/ Kind(d) = "image" \/ Holders(d, Element(d)) = {}
                              \/ Fault("checkFails"))

Caption(d) ==
  /\ NotIndexed(d)
  /\ Notes(d, Element(d)) /\ Passes(d)
  /\ results' = [results EXCEPT ![d] = Append(@, Element(d))]
  /\ UNCHANGED history

\* Vision fails: the caption made of the alt text of a page's image is thrown
\* away for its confidence, so nothing of the image is kept.
CaptionFails(d) ==
  /\ Fault("visionFails") /\ NotIndexed(d) /\ Kind(d) # "image"
  /\ Notes(d, Element(d)) /\ Passes(d)
  /\ lost' = [lost EXCEPT ![d] = @ \cup {Element(d)}]
  /\ UNCHANGED <<results, relies>>

-----------------------------------------------------------------------------
\* The end of the list: the captions are embedded and upserted.
AtEnd(d) == pc[d] \in {"figures", "tables"} /\ at[d] > Len(Elements(d, pc[d]))
AfterList(d) == IF Kind(d) = "pdf" /\ pc[d] = "figures" THEN "tables" ELSE "counting"

\* image_chunk_offset keeps the ids of the tables behind those of the figures.
\* (Slip: it is not added.)
NoOffset(d) == 0
IndexFrom(d) == IF pc[d] = "tables" THEN offset[d] ELSE 0

Upserted(d) == {[doc |-> d, index |-> IndexFrom(d) + i - 1, hash |-> results[d][i], from |-> pc[d]] :
                  i \in 1 .. Len(results[d])}
Overwrite(new) == {p \in points : \A q \in new : p.doc # q.doc \/ p.index # q.index} \cup new

NextList(d) ==
  /\ at' = [at EXCEPT ![d] = 1] /\ seen' = [seen EXCEPT ![d] = {}]
  /\ results' = [results EXCEPT ![d] = << >>]
  /\ UNCHANGED <<docVars>>

\* The offset is moved behind the figures only when they are in.
Index(d) ==
  /\ AtEnd(d) /\ Moves(d, pc[d], AfterList(d)) /\ NextList(d)
  /\ points' = Overwrite(Upserted(d))
  /\ indexed' = [indexed EXCEPT ![d] = @ + Len(results[d])]
  /\ offset' = [offset EXCEPT ![d] = IF pc[d] = "figures" THEN Len(results[d]) ELSE @]
  /\ relies' = [relies EXCEPT ![d] = @ \cup {<<p.hash, d>> : p \in Upserted(d)}]
  /\ UNCHANGED lost

\* What a failed upsert adds to total_images_indexed.  (Slip: the captions.)
CountsCaptions(d) == Len(results[d])
CountsNothing(d) == 0

\* Every attempt failed, or all that was heard of the last one is a timeout.
\* The exception ends the list and, but for a standalone image, nothing else.
IndexFails(d) ==
  /\ Fault("upsertFails") /\ AtEnd(d) /\ results[d] # << >>
  /\ Moves(d, pc[d], IF Kind(d) = "image" THEN "failing" ELSE AfterList(d))
  /\ NextList(d)
  /\ \E applied \in {FALSE, Fault("upsertUnknown")} :
       points' = IF applied THEN Overwrite(Upserted(d)) ELSE points
  /\ indexed' = [indexed EXCEPT ![d] = @ + CountsNothing(d)]
  /\ lost' = [lost EXCEPT ![d] = @ \cup {results[d][i] : i \in 1 .. Len(results[d])}]
  /\ UNCHANGED <<offset, relies>>

\* A standalone image without a caption has nothing else to offer.
StandaloneFails(d) ==
  /\ Fault("visionFails") /\ Kind(d) = "image" /\ Examining(d)
  /\ Moves(d, "figures", "failing")
  /\ UNCHANGED <<docVars, points, at, seen, results, offset, indexed, history>>

\* set_image_count, only if an image was indexed.  It fails the ingestion of
\* a file, and is caught in that of a page.
Count(d) ==
  /\ \/ /\ Moves(d, "counting", "finishing")
        /\ count' = [count EXCEPT ![d] = IF indexed[d] > 0 THEN indexed[d] ELSE @]
     \/ /\ Fault("databaseFails") /\ indexed[d] > 0
        /\ Moves(d, "counting", IF Kind(d) = "page" THEN "finishing" ELSE "failing")
        /\ UNCHANGED count
  /\ UNCHANGED <<tenant, shape, status, ingested, points, at, seen, results, offset, indexed,
                 history>>

Ends(d, from, outcome) ==
  /\ Moves(d, from, "idle")
  /\ status' = [status EXCEPT ![d] = outcome]
  /\ at' = [at EXCEPT ![d] = 1] /\ seen' = [seen EXCEPT ![d] = {}]
  /\ results' = [results EXCEPT ![d] = << >>]
  /\ offset' = [offset EXCEPT ![d] = 0] /\ indexed' = [indexed EXCEPT ![d] = 0]
  /\ UNCHANGED <<tenant, shape, count, ingested, points, history>>

Finish(d) == Ends(d, "finishing", "READY")
Fail(d) == Ends(d, "failing", "FAILED")

Next == \E d \in Doc : \/ Start(d) \/ Clear(d) \/ Skip(d) \/ NoPayload(d) \/ DownloadFails(d)
                       \/ AlreadyIndexed(d) \/ Overcounted(d)
                       \/ Caption(d) \/ CaptionFails(d) \/ Index(d) \/ IndexFails(d)
                       \/ StandaloneFails(d) \/ Count(d) \/ Finish(d) \/ Fail(d) \/ Delete(d)

Spec == Init /\ [][Next]_vars

-----------------------------------------------------------------------------
(* Properties.                                                              *)

Lists == {"figures", "tables"}
Indexes == 0 .. 2 * Cap - 1

DocTypeOK ==
  /\ tenant \in [Doc -> Tenant] /\ shape \in [Doc -> Shapes]
  /\ status \in [Doc -> {"UPLOADED", "PROCESSING", "READY", "FAILED", "DELETED"}]
  /\ count \in [Doc -> 0 .. 2 * Cap] /\ ingested \in [Doc -> 0 .. Ingestions]
  /\ relies \in [Doc -> SUBSET (Hash \X Doc)] /\ lost \in [Doc -> SUBSET Hash]

PointTypeOK == points \subseteq [doc : Doc, index : Indexes, hash : Hash, from : Lists]

JobTypeOK ==
  /\ pc \in [Doc -> {"idle", "clearing", "counting", "finishing", "failing"} \cup Lists]
  /\ at \in [Doc -> 1 .. Cap + 1] /\ seen \in [Doc -> SUBSET Hash]
  /\ results \in [Doc -> Seq(Hash)] /\ \A d \in Doc : Len(results[d]) < at[d]
  /\ offset \in [Doc -> 0 .. Cap] /\ indexed \in [Doc -> 0 .. 2 * Cap]

\* Every variable has its type; no list outgrows MAX_IMAGES_PER_DOCUMENT.
TypeOK == DocTypeOK /\ PointTypeOK /\ JobTypeOK

Settled(d) == pc[d] = "idle" /\ status[d] = "READY"
Exempt(d, h) == h \in Noise /\ Kind(d) # "image"
Wanted(d) == {h \in Hash : /\ ~Exempt(d, h)
                           /\ \E l \in Lists : \E i \in DOMAIN Elements(d, l) : Elements(d, l)[i] = h}
Found(d, h) == \E p \in points : p.hash = h /\ tenant[p.doc] = tenant[d]

\* Every image of a READY document, and every table whose HTML is not to be
\* trusted, is in the index of its own tenant, unless it was left out for one of
\* these reasons: it came without bytes, Vision or the upsert failed, the
\* approximate count took it for indexed, or the document that held it was removed.
\* The dedup across documents, within one, and the ids of the points lose none.
EveryImageFindable == \A d \in Doc : Settled(d) => \A h \in Wanted(d) : h \in lost[d] \/ Found(d, h)

\* A PDF that repeats an image on its pages does not flood the index with it.
RepeatsIndexedOnce ==
  \A p, q \in points : p.doc = q.doc /\ p.hash = q.hash /\ p.from = q.from /\ Kind(p.doc) = "pdf" => p = q

\* No upsert replaces a point: the crops of the tables do not overwrite the
\* figures of their document, whose ids are built the same way.
NothingOverwritten == [][\A p \in points : p \in points' \/ ~\E q \in points' : q.doc = p.doc]_vars

\* The image_count that the first ingestion of a document leaves counts only
\* what is in the index, whatever failed.
NoPhantomImages ==
  \A d \in Doc : Settled(d) /\ ingested[d] = 1 => count[d] <= Cardinality(PointsOf(d))
=============================================================================
