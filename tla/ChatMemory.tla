----------------------------- MODULE ChatMemory -----------------------------
(***************************************************************************)
(* The memory of one chat thread: POST /chat/message turns, the background  *)
(* job that folds old messages into the rolling summary, DELETE             *)
(* /chat/threads/{id}, and process crashes, over the PostgreSQL rows and    *)
(* the Qdrant points they share.                                            *)
(*                                                                         *)
(* One thread is enough: the row, the lock and every query are keyed by its *)
(* id.  Each turn is one request; a commit is one step (READ COMMITTED), so *)
(* two statements of one handler are two steps.  A message is inserted at   *)
(* the end: created_at is taken at flush, right before the commit.          *)
(***************************************************************************)
EXTENDS Integers, Sequences, FiniteSets

CONSTANTS Turn,         \* the requests that may be sent to the thread
          Process,      \* server processes (uvicorn workers)
          ProcessOf,    \* the process that serves each turn and its job
          WindowTurns,  \* MEMORY_WINDOW_SIZE
          RawTextFits,  \* the raw text of a fallback summary is under 4000 chars
          Faults        \* what may go wrong in this instance

ASSUME ProcessOfAssumption == ProcessOf \in [Turn -> Process]
ASSUME WindowAssumption == WindowTurns \in Nat
ASSUME RawTextAssumption == RawTextFits \in BOOLEAN
ASSUME FaultsAssumption ==
         Faults \subseteq {"turnFails", "loadFails", "jobFails", "indexFails", "crash", "delete"}

VARIABLES
  live,         \* the chat_threads row exists
  msgs,         \* chat_messages of the thread, by created_at
  summary,      \* rolling_summary, as the messages its text was made from
  through,      \* rolling_summary_through
  count,        \* message_count
  points,       \* the thread's points in avabodh_chat_messages
  pc,           \* where each turn's request handler is
  began,        \* history: messages committed when the turn read the row
  seenSummary,  \* rolling_summary as the turn read it
  seenThrough,  \* rolling_summary_through as the turn read it
  window,       \* the messages load_memory_from_db fetched for the turn
  readCount,    \* message_count as increment_message_count read it
  jobPc,        \* where each turn's background job is
  jobSummary,   \* thread.rolling_summary in the job
  jobThrough,   \* already_summarized in the job
  jobEnd,       \* aged_out_end in the job
  jobSlice,     \* new_slice in the job
  held,         \* processes whose _THREAD_UPDATE_LOCKS entry is taken
  deleter       \* where the delete request is

threadVars == <<live, msgs, summary, through, count>>
turnVars == <<pc, began, seenSummary, seenThrough, window, readCount>>
jobVars == <<jobPc, jobSummary, jobThrough, jobEnd, jobSlice, held>>
vars == <<threadVars, points, turnVars, jobVars, deleter>>

Message == [turn : Turn, role : {"human", "ai"}]
Human(t) == [turn |-> t, role |-> "human"]
Ai(t) == [turn |-> t, role |-> "ai"]

TurnPc == {"idle", "read", "loaded", "withoutHistory", "humanSaved", "humanIndexed",
           "aiSaved", "aiIndexed", "countRead", "answered", "failed"}
JobPc == {"none", "queued", "readThread", "summarising", "done", "failed"}
Active(t) == pc[t] \notin {"idle", "answered", "failed"}
JobRunning(t) == jobPc[t] \in {"readThread", "summarising"}

Init ==
  /\ live = TRUE /\ msgs = <<>> /\ summary = <<>> /\ through = 0 /\ count = 0
  /\ points = {}
  /\ pc = [t \in Turn |-> "idle"]
  /\ began = [t \in Turn |-> 0]
  /\ seenSummary = [t \in Turn |-> <<>>]
  /\ seenThrough = [t \in Turn |-> 0]
  /\ window = [t \in Turn |-> <<>>]
  /\ readCount = [t \in Turn |-> 0]
  /\ jobPc = [t \in Turn |-> "none"]
  /\ jobSummary = [t \in Turn |-> <<>>]
  /\ jobThrough = [t \in Turn |-> 0]
  /\ jobEnd = [t \in Turn |-> 0]
  /\ jobSlice = [t \in Turn |-> <<>>]
  /\ held = {}
  /\ deleter = "idle"

-----------------------------------------------------------------------------
(* The turn: send_message, _prepare_chat and _save_turn.                    *)

\* get_thread fills the session's identity map: load_memory_from_db's own
\* query for the row later returns this same object, not fresher columns.
ReadThread(t) ==
  /\ pc[t] = "idle" /\ live
  /\ pc' = [pc EXCEPT ![t] = "read"]
  /\ began' = [began EXCEPT ![t] = Len(msgs)]
  /\ seenSummary' = [seenSummary EXCEPT ![t] = summary]
  /\ seenThrough' = [seenThrough EXCEPT ![t] = through]
  /\ UNCHANGED <<threadVars, points, window, readCount, jobVars, deleter>>

\* get_thread finds no row: 404.
ThreadMissing(t) ==
  /\ pc[t] = "idle" /\ ~live
  /\ pc' = [pc EXCEPT ![t] = "failed"]
  /\ UNCHANGED <<threadVars, points, began, seenSummary, seenThrough, window,
                 readCount, jobVars, deleter>>

\* The window starts where the summary the turn holds ends.  (Slip: where the
\* row says the summary ends by now.)
FreshOffset(t) == through
WindowOffset(t) == seenThrough[t]

\* ORDER BY created_at OFFSET rolling_summary_through; if the query raises the
\* turn goes on with no history.
LoadWindow(t) ==
  /\ pc[t] = "read"
  /\ \/ /\ pc' = [pc EXCEPT ![t] = "loaded"]
        /\ window' = [window EXCEPT ![t] = SubSeq(msgs, WindowOffset(t) + 1, Len(msgs))]
     \/ /\ "loadFails" \in Faults
        /\ pc' = [pc EXCEPT ![t] = "withoutHistory"]
        /\ UNCHANGED window
  /\ UNCHANGED <<threadVars, points, began, seenSummary, seenThrough, readCount,
                 jobVars, deleter>>

\* The positions of a window that are injected: a human message directly
\* followed by an ai message, as a pair; any other message is skipped.
Injected(w) ==
  {i \in DOMAIN w : \/ /\ i < Len(w)
                       /\ w[i].role = "human" /\ w[i + 1].role = "ai"
                    \/ /\ i > 1
                       /\ w[i - 1].role = "human" /\ w[i].role = "ai"}

\* The prompt was built and answered: nothing reads the memory again.
DropMemory(t) ==
  /\ began' = [began EXCEPT ![t] = 0]
  /\ seenSummary' = [seenSummary EXCEPT ![t] = <<>>]
  /\ seenThrough' = [seenThrough EXCEPT ![t] = 0]
  /\ window' = [window EXCEPT ![t] = <<>>]

\* save_human_message: one transaction; the foreign key needs the row.
SaveHuman(t) ==
  /\ pc[t] \in {"loaded", "withoutHistory"} /\ live
  /\ pc' = [pc EXCEPT ![t] = "humanSaved"]
  /\ msgs' = Append(msgs, Human(t))
  /\ DropMemory(t)
  /\ UNCHANGED <<live, summary, through, count, points, readCount, jobVars, deleter>>

\* _index_message_in_qdrant after the commit: non-fatal.
IndexHuman(t) ==
  /\ pc[t] = "humanSaved"
  /\ pc' = [pc EXCEPT ![t] = "humanIndexed"]
  /\ \/ points' = points \cup {Human(t)}
     \/ "indexFails" \in Faults /\ UNCHANGED points
  /\ UNCHANGED <<threadVars, began, seenSummary, seenThrough, window, readCount,
                 jobVars, deleter>>

SaveAi(t) ==
  /\ pc[t] = "humanIndexed" /\ live
  /\ pc' = [pc EXCEPT ![t] = "aiSaved"]
  /\ msgs' = Append(msgs, Ai(t))
  /\ UNCHANGED <<live, summary, through, count, points, began, seenSummary,
                 seenThrough, window, readCount, jobVars, deleter>>

IndexAi(t) ==
  /\ pc[t] = "aiSaved"
  /\ pc' = [pc EXCEPT ![t] = "aiIndexed"]
  /\ \/ points' = points \cup {Ai(t)}
     \/ "indexFails" \in Faults /\ UNCHANGED points
  /\ UNCHANGED <<threadVars, began, seenSummary, seenThrough, window, readCount,
                 jobVars, deleter>>

\* increment_message_count: SELECT the row, then UPDATE it with the sum.
ReadCount(t) ==
  /\ pc[t] = "aiIndexed" /\ live
  /\ pc' = [pc EXCEPT ![t] = "countRead"]
  /\ readCount' = [readCount EXCEPT ![t] = count]
  /\ UNCHANGED <<threadVars, points, began, seenSummary, seenThrough, window,
                 jobVars, deleter>>

\* The request is over: its locals are gone.
Ends(t, outcome) ==
  /\ pc' = [pc EXCEPT ![t] = outcome]
  /\ DropMemory(t)
  /\ readCount' = [readCount EXCEPT ![t] = 0]

\* The UPDATE writes message_count only; then the job is added and the
\* response is sent, which is what starts background tasks.
WriteCount(t) ==
  /\ pc[t] = "countRead" /\ live
  /\ count' = readCount[t] + 1
  /\ Ends(t, "answered")
  /\ jobPc' = [jobPc EXCEPT ![t] = "queued"]
  /\ UNCHANGED <<live, msgs, summary, through, points, jobSummary, jobThrough,
                 jobEnd, jobSlice, held, deleter>>

\* increment_message_count finds no row and does nothing: the turn goes on.
SkipCount(t) ==
  /\ pc[t] = "aiIndexed" /\ ~live
  /\ Ends(t, "answered")
  /\ jobPc' = [jobPc EXCEPT ![t] = "queued"]
  /\ UNCHANGED <<threadVars, points, jobSummary, jobThrough, jobEnd, jobSlice,
                 held, deleter>>

\* An exception (LLM, database, foreign key, title): 500, no task is run.
TurnFails(t) ==
  /\ Active(t) /\ ("turnFails" \in Faults \/ ~live)
  /\ Ends(t, "failed")
  /\ UNCHANGED <<threadVars, points, jobVars, deleter>>

-----------------------------------------------------------------------------
(* The background job: update_rolling_summary.                              *)

\* The lock is the thread's, in the table of the process.  (Slip: the request's.)
LockPerTurn(t) == held' = held \cup {t}
TakeLock(t) == held' = held \cup {ProcessOf[t]}

\* The finally clause gives it back.  (Slip: it does not.)
LeakLock(t) == UNCHANGED held
ReleaseLock(t) == held' = held \ {ProcessOf[t]}

\* The job leaves: its locals are gone.
Leaves(t, outcome) ==
  /\ jobPc' = [jobPc EXCEPT ![t] = outcome]
  /\ jobSummary' = [jobSummary EXCEPT ![t] = <<>>]
  /\ jobThrough' = [jobThrough EXCEPT ![t] = 0]
  /\ jobEnd' = [jobEnd EXCEPT ![t] = 0]
  /\ jobSlice' = [jobSlice EXCEPT ![t] = <<>>]

\* lock.acquire(blocking=False) fails: skipped outright, not queued.
JobSkips(t) ==
  /\ jobPc[t] = "queued" /\ ProcessOf[t] \in held
  /\ Leaves(t, "done")
  /\ UNCHANGED <<threadVars, points, turnVars, held, deleter>>

\* The lock is free; a job that finds no row gives it back at once.
JobReadThread(t) ==
  /\ jobPc[t] = "queued" /\ ProcessOf[t] \notin held
  /\ \/ /\ ~live
        /\ Leaves(t, "done")
        /\ UNCHANGED held
     \/ /\ live
        /\ jobPc' = [jobPc EXCEPT ![t] = "readThread"]
        /\ jobSummary' = [jobSummary EXCEPT ![t] = summary]
        /\ jobThrough' = [jobThrough EXCEPT ![t] = through]
        /\ TakeLock(t)
        /\ UNCHANGED <<jobEnd, jobSlice>>
  /\ UNCHANGED <<threadVars, points, turnVars, deleter>>

\* A turn is two messages.  (Slip: it is one.)
AgedOutByTurns == Len(msgs) - WindowTurns
AgedOutEnd == Len(msgs) - 2 * WindowTurns

\* messages[already_summarized : aged_out_end], 0-based.  (Slip: one is
\* skipped.)
SkipsOne(t) == SubSeq(msgs, jobThrough[t] + 2, AgedOutEnd)
NewSlice(t) == SubSeq(msgs, jobThrough[t] + 1, AgedOutEnd)

\* Something aged out since the last update.
HasAgedOut(t) == AgedOutEnd > jobThrough[t]

\* Nothing has aged out since the last update: return before any LLM call.
JobReadMessages(t) ==
  /\ jobPc[t] = "readThread"
  /\ \/ /\ ~HasAgedOut(t)
        /\ Leaves(t, "done")
        /\ ReleaseLock(t)
     \/ /\ HasAgedOut(t)
        /\ jobPc' = [jobPc EXCEPT ![t] = "summarising"]
        /\ jobEnd' = [jobEnd EXCEPT ![t] = AgedOutEnd]
        /\ jobSlice' = [jobSlice EXCEPT ![t] = NewSlice(t)]
        /\ UNCHANGED <<jobSummary, jobThrough, held>>
  /\ UNCHANGED <<threadVars, points, turnVars, deleter>>

\* _summarize_turns: the LLM's text stands for the summary and the slice;
\* after three failures the raw text, cut at 4000 characters, does.  The
\* existing summary comes first and is shorter than the cut.
Summaries(t) ==
  LET whole == jobSummary[t] \o jobSlice[t]
  IN  {whole} \cup
      (IF RawTextFits THEN {}
       ELSE {SubSeq(whole, 1, n) : n \in Len(jobSummary[t]) .. Len(whole)})

\* The row may have moved since the job read it: only a cut further on is
\* written.  (Slips: any cut; only if the row has not moved at all.)
AlwaysApplies(t) == TRUE
UnmovedOnly(t) == through = jobThrough[t]
WriteApplies(t) == through < jobEnd[t]

\* UPDATE ... WHERE id = thread AND rolling_summary_through < aged_out_end.
JobWrite(t) ==
  /\ jobPc[t] = "summarising"
  /\ \/ /\ live /\ WriteApplies(t)
        /\ summary' \in Summaries(t)
        /\ through' = jobEnd[t]
     \/ /\ ~live \/ ~WriteApplies(t)
        /\ UNCHANGED <<summary, through>>
  /\ Leaves(t, "done")
  /\ ReleaseLock(t)
  /\ UNCHANGED <<live, msgs, count, points, turnVars, deleter>>

\* An exception in the job: logged, the finally clause frees the lock.
JobFails(t) ==
  /\ JobRunning(t) /\ "jobFails" \in Faults
  /\ Leaves(t, "failed")
  /\ ReleaseLock(t)
  /\ UNCHANGED <<threadVars, points, turnVars, deleter>>

-----------------------------------------------------------------------------
(* DELETE /chat/threads/{id}: the Qdrant points first, then the row.        *)

DeletePoints ==
  /\ "delete" \in Faults
  /\ deleter = "idle" /\ live
  /\ deleter' = "pointsGone"
  /\ points' = {}
  /\ UNCHANGED <<threadVars, turnVars, jobVars>>

\* db.delete and commit; ON DELETE CASCADE takes the messages along.
DeleteRow ==
  /\ deleter = "pointsGone"
  /\ deleter' = "done"
  /\ live' = FALSE /\ msgs' = <<>> /\ summary' = <<>> /\ through' = 0 /\ count' = 0
  /\ UNCHANGED <<points, turnVars, jobVars>>

\* The commit fails or the process dies: the row stays, the points are gone.
DeleteFails ==
  /\ deleter = "pointsGone"
  /\ deleter' = "idle"
  /\ UNCHANGED <<threadVars, points, turnVars, jobVars>>

-----------------------------------------------------------------------------
(* A process dies: its requests, its background tasks and its lock table    *)
(* go with it; nothing is persisted about them.                             *)

Crash(p) ==
  LET mine == {t \in Turn : ProcessOf[t] = p}
      requests == {t \in mine : Active(t)}
      tasks == {t \in mine : jobPc[t] = "queued" \/ JobRunning(t)}
      Lost(f, S, v) == [t \in Turn |-> IF t \in S THEN v ELSE f[t]]
  IN  /\ "crash" \in Faults
      /\ requests \cup tasks # {}
      /\ pc' = Lost(pc, requests, "failed")
      /\ began' = Lost(began, requests, 0)
      /\ seenSummary' = Lost(seenSummary, requests, <<>>)
      /\ seenThrough' = Lost(seenThrough, requests, 0)
      /\ window' = Lost(window, requests, <<>>)
      /\ readCount' = Lost(readCount, requests, 0)
      /\ jobPc' = Lost(jobPc, tasks, "failed")
      /\ jobSummary' = Lost(jobSummary, tasks, <<>>)
      /\ jobThrough' = Lost(jobThrough, tasks, 0)
      /\ jobEnd' = Lost(jobEnd, tasks, 0)
      /\ jobSlice' = Lost(jobSlice, tasks, <<>>)
      /\ held' = held \ {p}
      /\ UNCHANGED <<threadVars, points, deleter>>

-----------------------------------------------------------------------------
TurnStep(t) ==
  \/ ReadThread(t) \/ ThreadMissing(t) \/ LoadWindow(t)
  \/ SaveHuman(t) \/ IndexHuman(t) \/ SaveAi(t) \/ IndexAi(t)
  \/ ReadCount(t) \/ WriteCount(t) \/ SkipCount(t) \/ TurnFails(t)

JobStep(t) ==
  JobSkips(t) \/ JobReadThread(t) \/ JobReadMessages(t) \/ JobWrite(t) \/ JobFails(t)

DeleteStep == DeletePoints \/ DeleteRow \/ DeleteFails

Next == \/ \E t \in Turn : TurnStep(t) \/ JobStep(t)
        \/ DeleteStep
        \/ \E p \in Process : Crash(p)

Spec == Init /\ [][Next]_vars

\* The thread pool runs every task it was given until it returns.
FairSpec == Spec /\ \A t \in Turn : WF_vars(JobStep(t))

-----------------------------------------------------------------------------
(* Properties.                                                              *)

ThreadTypeOK ==
  /\ live \in BOOLEAN /\ msgs \in Seq(Message) /\ summary \in Seq(Message)
  /\ through \in Nat /\ count \in Nat /\ points \subseteq Message
  /\ deleter \in {"idle", "pointsGone", "done"}

TurnTypeOK ==
  /\ pc \in [Turn -> TurnPc]
  /\ began \in [Turn -> Nat] /\ seenSummary \in [Turn -> Seq(Message)]
  /\ seenThrough \in [Turn -> Nat] /\ window \in [Turn -> Seq(Message)]
  /\ readCount \in [Turn -> Nat]

JobTypeOK ==
  /\ jobPc \in [Turn -> JobPc]
  /\ jobSummary \in [Turn -> Seq(Message)] /\ jobThrough \in [Turn -> Nat]
  /\ jobEnd \in [Turn -> Nat] /\ jobSlice \in [Turn -> Seq(Message)]
  /\ held \subseteq Process

\* The rows, the handlers' locals and the jobs' locals keep their types.
TypeOK == ThreadTypeOK /\ TurnTypeOK /\ JobTypeOK

\* The rolling summary was made from exactly the first rolling_summary_through
\* messages, each once and in order, whichever jobs overlapped.
SummaryIsPrefix ==
  RawTextFits => /\ through <= Len(msgs)
                 /\ summary = SubSeq(msgs, 1, through)

\* The last MEMORY_WINDOW_SIZE turns are never folded away: they stay verbatim.
WindowStaysVerbatim == through > 0 => through + 2 * WindowTurns <= Len(msgs)

\* What a turn fetches tiles: its summary followed by its window is the thread
\* up to a moment no earlier than the turn's own start.
PromptTiles ==
  \A t \in Turn :
    RawTextFits /\ live /\ pc[t] = "loaded" =>
      \E n \in began[t] .. Len(msgs) :
        seenSummary[t] \o window[t] = SubSeq(msgs, 1, n)

\* A process's lock for the thread is taken exactly while one of its jobs is
\* running, and two jobs of one process never run at once.
OneJobPerProcess ==
  /\ held = {ProcessOf[t] : t \in {u \in Turn : JobRunning(u)}}
  /\ \A t, u \in Turn :
       JobRunning(t) /\ JobRunning(u) /\ ProcessOf[t] = ProcessOf[u] => t = u

\* A stale job's write is a no-op: rolling_summary_through never goes back
\* while the row exists.
ThroughNeverRegresses == [][live' => through' >= through]_vars

\* The job's view of the thread refines the append-only log with a moving cut.
Log == INSTANCE ConversationLog
         WITH log <- msgs, cut <- through, digest <- summary, open <- live
LogSpec == Log!Spec

\* A lock that was taken is given back, whatever became of the job.
LockIsFreed == \A p \in Process : p \in held ~> p \notin held

\* Unless it fails or dies, what a job found aged out is folded in the end, by its
\* own UPDATE or by one of another process that went at least as far.
AgedOutGetsFolded ==
  \A t \in Turn : \A n \in 1 .. 2 * Cardinality(Turn) :
    live /\ jobPc[t] = "readThread" /\ Len(msgs) = n
      ~> ~live \/ jobPc[t] = "failed" \/ through >= n - 2 * WindowTurns

-----------------------------------------------------------------------------
(* What the comments say and the code does not do.                          *)

\* "Nothing is ever dropped": an exchange whose two messages were committed
\* when the window was fetched is, message by message, folded into the turn's
\* summary or injected into its prompt.
NothingDropped ==
  \A t \in Turn : live /\ pc[t] = "loaded" =>
    LET fetched == 1 .. seenThrough[t] + Len(window[t])
    IN  \A i \in DOMAIN window[t] \ Injected(window[t]) :
          \A j \in fetched :
            msgs[j].turn = window[t][i].turn => msgs[j] = window[t][i]

\* The fallback appends the raw turn text "rather than losing it".
FallbackLosesNothing == summary = SubSeq(msgs, 1, through)
=============================================================================
