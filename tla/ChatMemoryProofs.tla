-------------------------- MODULE ChatMemoryProofs --------------------------
(***************************************************************************)
(* Theorems about ChatMemory, for any set of turns, any assignment of turns *)
(* to processes, any window size and any set of faults.                     *)
(***************************************************************************)
EXTENDS ChatMemory, SequenceTheorems, TLAPS

USE ProcessOfAssumption, WindowAssumption, RawTextAssumption

-----------------------------------------------------------------------------
(* Facts about prefixes of a sequence.                                      *)

\* A slice of a sequence is a sequence over the same set.
LEMMA SliceType ==
  ASSUME NEW S, NEW s \in Seq(S), NEW m \in Nat \ {0}, NEW n \in Int, n <= Len(s)
  PROVE  SubSeq(s, m, n) \in Seq(S)
<1>1. \A i \in m .. n : s[i] \in S
  OBVIOUS
<1>2. QED
  BY <1>1, SubSeqProperties

\* Appending a message changes no slice that was there before.
LEMMA AppendKeepsSlice ==
  ASSUME NEW S, NEW s \in Seq(S), NEW e \in S,
         NEW m \in Nat \ {0}, NEW n \in Int, n <= Len(s)
  PROVE  SubSeq(Append(s, e), m, n) = SubSeq(s, m, n)
<1> DEFINE a == Append(s, e)
<1>1. /\ a \in Seq(S) /\ Len(a) = Len(s) + 1
      /\ \A i \in 1 .. Len(s) : a[i] = s[i]
  BY AppendProperties
<1>2. /\ \A i \in m .. n : s[i] \in S
      /\ \A i \in m .. n : a[i] \in S
  BY <1>1
<1>3. /\ SubSeq(s, m, n) \in Seq(S) /\ SubSeq(a, m, n) \in Seq(S)
      /\ Len(SubSeq(s, m, n)) = IF m <= n THEN n - m + 1 ELSE 0
      /\ Len(SubSeq(a, m, n)) = IF m <= n THEN n - m + 1 ELSE 0
      /\ \A i \in 1 .. n - m + 1 : SubSeq(s, m, n)[i] = s[m + i - 1]
      /\ \A i \in 1 .. n - m + 1 : SubSeq(a, m, n)[i] = a[m + i - 1]
  BY <1>2, SubSeqProperties
<1>4. \A i \in 1 .. Len(SubSeq(s, m, n)) : SubSeq(a, m, n)[i] = SubSeq(s, m, n)[i]
  BY <1>1, <1>3
<1>5. QED
  BY <1>3, <1>4, SeqEqual

\* A prefix followed by the slice that starts where it ends is a longer prefix.
LEMMA PrefixThenSlice ==
  ASSUME NEW S, NEW s \in Seq(S), NEW k \in Nat, NEW n \in Nat,
         k <= n, n <= Len(s)
  PROVE  SubSeq(s, 1, k) \o SubSeq(s, k + 1, n) = SubSeq(s, 1, n)
BY ConcatAdjacentSubSeq

-----------------------------------------------------------------------------
(* Type correctness.                                                        *)

LEMMA MessageType ==
  ASSUME NEW t \in Turn
  PROVE  Human(t) \in Message /\ Ai(t) \in Message
BY DEF Human, Ai, Message

\* Every text _summarize_turns may return is made of messages.
LEMMA SummariesType ==
  ASSUME NEW t \in Turn, TypeOK
  PROVE  Summaries(t) \subseteq Seq(Message)
<1> DEFINE whole == jobSummary[t] \o jobSlice[t]
<1>1. whole \in Seq(Message) /\ Len(jobSummary[t]) \in Nat
  BY ConcatProperties DEF TypeOK, JobTypeOK
<1>2. ASSUME NEW n \in Len(jobSummary[t]) .. Len(whole)
      PROVE  SubSeq(whole, 1, n) \in Seq(Message)
  <2> HIDE DEF whole
  <2>1. n \in Int /\ n <= Len(whole)
    BY <1>1
  <2>2. QED
    BY <1>1, <2>1, SliceType
<1>3. QED
  BY <1>1, <1>2 DEF Summaries

LEMMA InitType == Init => TypeOK
BY DEF Init, TypeOK, ThreadTypeOK, TurnTypeOK, JobTypeOK, TurnPc, JobPc

LEMMA SameThread ==
  ThreadTypeOK /\ UNCHANGED <<threadVars, points, deleter>> => ThreadTypeOK'
BY DEF ThreadTypeOK, threadVars

LEMMA SameTurns == TurnTypeOK /\ UNCHANGED turnVars => TurnTypeOK'
BY DEF TurnTypeOK, turnVars

LEMMA SameJobs == JobTypeOK /\ UNCHANGED jobVars => JobTypeOK'
BY DEF JobTypeOK, jobVars

LEMMA DropMemoryType ==
  ASSUME NEW t \in Turn, TurnTypeOK, DropMemory(t)
  PROVE  /\ began' \in [Turn -> Nat] /\ seenSummary' \in [Turn -> Seq(Message)]
         /\ seenThrough' \in [Turn -> Nat] /\ window' \in [Turn -> Seq(Message)]
<1>1. <<>> \in Seq(Message)
  BY EmptySeq
<1>2. QED
  BY <1>1 DEF DropMemory, TurnTypeOK

LEMMA EndsType ==
  ASSUME NEW t \in Turn, NEW o \in TurnPc, TurnTypeOK, Ends(t, o)
  PROVE  TurnTypeOK'
<1>1. pc' \in [Turn -> TurnPc] /\ readCount' \in [Turn -> Nat]
  BY DEF Ends, TurnTypeOK
<1>2. QED
  BY <1>1, DropMemoryType DEF Ends, TurnTypeOK

LEMMA LeavesType ==
  ASSUME NEW t \in Turn, NEW o \in JobPc, JobTypeOK, Leaves(t, o), held' \subseteq held
  PROVE  JobTypeOK'
<1>1. <<>> \in Seq(Message)
  BY EmptySeq
<1>2. jobPc' \in [Turn -> JobPc]
  BY <1>1 DEF Leaves, JobTypeOK
<1>3. jobSummary' \in [Turn -> Seq(Message)] /\ jobThrough' \in [Turn -> Nat]
  BY <1>1 DEF Leaves, JobTypeOK
<1>4. jobEnd' \in [Turn -> Nat] /\ jobSlice' \in [Turn -> Seq(Message)]
  BY <1>1 DEF Leaves, JobTypeOK
<1>5. QED
  BY <1>2, <1>3, <1>4 DEF JobTypeOK

LEMMA TurnStepType ==
  ASSUME NEW t \in Turn, TypeOK, TurnStep(t)
  PROVE  TypeOK'
<1> USE DEF TypeOK
<1>1. CASE ReadThread(t)
  <2>1. TurnTypeOK'
    BY <1>1 DEF ReadThread, TurnTypeOK, ThreadTypeOK, TurnPc
  <2>2. QED
    BY <1>1, <2>1, SameThread, SameJobs DEF ReadThread
<1>2. CASE ThreadMissing(t)
  <2>1. TurnTypeOK'
    BY <1>2 DEF ThreadMissing, TurnTypeOK, TurnPc
  <2>2. QED
    BY <1>2, <2>1, SameThread, SameJobs DEF ThreadMissing
<1>3. CASE LoadWindow(t)
  <2>1. SubSeq(msgs, seenThrough[t] + 1, Len(msgs)) \in Seq(Message)
    BY SliceType DEF ThreadTypeOK, TurnTypeOK
  <2>2. TurnTypeOK'
    BY <1>3, <2>1 DEF LoadWindow, WindowOffset, TurnTypeOK, TurnPc
  <2>3. QED
    BY <1>3, <2>2, SameThread, SameJobs DEF LoadWindow
<1>4. CASE SaveHuman(t)
  <2>1. Append(msgs, Human(t)) \in Seq(Message)
    BY MessageType, AppendProperties DEF ThreadTypeOK
  <2>2. ThreadTypeOK'
    BY <1>4, <2>1 DEF SaveHuman, ThreadTypeOK
  <2>3. pc' \in [Turn -> TurnPc]
    BY <1>4 DEF SaveHuman, TurnTypeOK, TurnPc
  <2>4. TurnTypeOK'
    BY <1>4, <2>3, DropMemoryType DEF SaveHuman, TurnTypeOK
  <2>5. QED
    BY <1>4, <2>2, <2>4, SameJobs DEF SaveHuman
<1>5. CASE IndexHuman(t)
  <2>1. ThreadTypeOK'
    BY <1>5, MessageType DEF IndexHuman, ThreadTypeOK, threadVars
  <2>2. TurnTypeOK'
    BY <1>5 DEF IndexHuman, TurnTypeOK, TurnPc
  <2>3. QED
    BY <1>5, <2>1, <2>2, SameJobs DEF IndexHuman
<1>6. CASE SaveAi(t)
  <2>1. Append(msgs, Ai(t)) \in Seq(Message)
    BY MessageType, AppendProperties DEF ThreadTypeOK
  <2>2. ThreadTypeOK'
    BY <1>6, <2>1 DEF SaveAi, ThreadTypeOK
  <2>3. TurnTypeOK'
    BY <1>6 DEF SaveAi, TurnTypeOK, TurnPc
  <2>4. QED
    BY <1>6, <2>2, <2>3, SameJobs DEF SaveAi
<1>7. CASE IndexAi(t)
  <2>1. ThreadTypeOK'
    BY <1>7, MessageType DEF IndexAi, ThreadTypeOK, threadVars
  <2>2. TurnTypeOK'
    BY <1>7 DEF IndexAi, TurnTypeOK, TurnPc
  <2>3. QED
    BY <1>7, <2>1, <2>2, SameJobs DEF IndexAi
<1>8. CASE ReadCount(t)
  <2>1. TurnTypeOK'
    BY <1>8 DEF ReadCount, TurnTypeOK, ThreadTypeOK, TurnPc
  <2>2. QED
    BY <1>8, <2>1, SameThread, SameJobs DEF ReadCount
<1>9. CASE WriteCount(t)
  <2>1. ThreadTypeOK'
    BY <1>9 DEF WriteCount, ThreadTypeOK, TurnTypeOK
  <2>2. TurnTypeOK'
    BY <1>9, EndsType DEF WriteCount, TurnPc
  <2>3. JobTypeOK'
    BY <1>9 DEF WriteCount, JobTypeOK, JobPc
  <2>4. QED
    BY <2>1, <2>2, <2>3
<1>10. CASE SkipCount(t)
  <2>1. TurnTypeOK'
    BY <1>10, EndsType DEF SkipCount, TurnPc
  <2>2. JobTypeOK'
    BY <1>10 DEF SkipCount, JobTypeOK, JobPc
  <2>3. QED
    BY <1>10, <2>1, <2>2, SameThread DEF SkipCount
<1>11. CASE TurnFails(t)
  <2>1. TurnTypeOK'
    BY <1>11, EndsType DEF TurnFails, TurnPc
  <2>2. QED
    BY <1>11, <2>1, SameThread, SameJobs DEF TurnFails
<1>12. QED
  BY <1>1, <1>2, <1>3, <1>4, <1>5, <1>6, <1>7, <1>8, <1>9, <1>10, <1>11 DEF TurnStep

LEMMA JobStepType ==
  ASSUME NEW t \in Turn, TypeOK, JobStep(t)
  PROVE  TypeOK'
<1> USE DEF TypeOK
<1>1. CASE JobSkips(t)
  BY <1>1, SameThread, SameTurns, LeavesType DEF JobSkips, JobPc
<1>2. CASE JobReadThread(t)
  <2>1. CASE ~live
    BY <1>2, <2>1, SameThread, SameTurns, LeavesType DEF JobReadThread, TakeLock, JobPc
  <2>2. CASE live
    <3>1. jobPc' \in [Turn -> JobPc]
      BY <1>2, <2>2 DEF JobReadThread, TakeLock, JobTypeOK, JobPc
    <3>2. jobSummary' \in [Turn -> Seq(Message)] /\ jobThrough' \in [Turn -> Nat]
      BY <1>2, <2>2 DEF JobReadThread, TakeLock, JobTypeOK, ThreadTypeOK
    <3>3. held' \subseteq Process
      BY <1>2, <2>2 DEF JobReadThread, TakeLock, JobTypeOK
    <3>4. JobTypeOK'
      BY <1>2, <2>2, <3>1, <3>2, <3>3 DEF JobReadThread, TakeLock, JobTypeOK
    <3>5. QED
      BY <1>2, <3>4, SameThread, SameTurns DEF JobReadThread, TakeLock
  <2>3. QED
    BY <2>1, <2>2
<1>3. CASE JobReadMessages(t)
  <2>1. CASE ~HasAgedOut(t)
    BY <1>3, <2>1, SameThread, SameTurns, LeavesType DEF JobReadMessages, ReleaseLock, JobPc
  <2>2. CASE HasAgedOut(t)
    <3>1. AgedOutEnd \in Nat /\ AgedOutEnd <= Len(msgs)
      BY <2>2 DEF HasAgedOut, AgedOutEnd, ThreadTypeOK, JobTypeOK
    <3>2. NewSlice(t) \in Seq(Message)
      BY <3>1, SliceType DEF NewSlice, ThreadTypeOK, JobTypeOK
    <3>3. /\ jobPc' = [jobPc EXCEPT ![t] = "summarising"]
          /\ jobEnd' = [jobEnd EXCEPT ![t] = AgedOutEnd]
          /\ jobSlice' = [jobSlice EXCEPT ![t] = NewSlice(t)]
          /\ UNCHANGED <<jobSummary, jobThrough, held>>
      BY <1>3, <2>2, Zenon DEF JobReadMessages
    <3>4. jobPc' \in [Turn -> JobPc]
      BY <3>3 DEF JobTypeOK, JobPc
    <3>5. jobEnd' \in [Turn -> Nat] /\ jobSlice' \in [Turn -> Seq(Message)]
      BY <3>1, <3>2, <3>3 DEF JobTypeOK
    <3>6. JobTypeOK'
      BY <3>3, <3>4, <3>5 DEF JobTypeOK
    <3>7. QED
      BY <1>3, <3>6, SameThread, SameTurns DEF JobReadMessages
  <2>3. QED
    BY <2>1, <2>2
<1>4. CASE JobWrite(t)
  <2>1. summary' \in Seq(Message) /\ through' \in Nat
    BY <1>4, SummariesType DEF JobWrite, ThreadTypeOK, JobTypeOK
  <2>2. ThreadTypeOK'
    BY <1>4, <2>1 DEF JobWrite, ThreadTypeOK
  <2>3. JobTypeOK'
    BY <1>4, LeavesType DEF JobWrite, ReleaseLock, JobPc
  <2>4. QED
    BY <1>4, <2>2, <2>3, SameTurns DEF JobWrite
<1>5. CASE JobFails(t)
  BY <1>5, SameThread, SameTurns, LeavesType DEF JobFails, ReleaseLock, JobPc
<1>6. QED
  BY <1>1, <1>2, <1>3, <1>4, <1>5 DEF JobStep

LEMMA DeleteStepType ==
  ASSUME TypeOK, DeleteStep
  PROVE  TypeOK'
<1>1. ThreadTypeOK'
  <2>1. CASE DeletePoints
    BY <2>1 DEF DeletePoints, TypeOK, ThreadTypeOK, threadVars
  <2>2. CASE DeleteRow
    BY <2>2, EmptySeq DEF DeleteRow, TypeOK, ThreadTypeOK
  <2>3. CASE DeleteFails
    BY <2>3 DEF DeleteFails, TypeOK, ThreadTypeOK, threadVars
  <2>4. QED
    BY <2>1, <2>2, <2>3 DEF DeleteStep
<1>2. QED
  BY <1>1, SameTurns, SameJobs
     DEF DeleteStep, DeletePoints, DeleteRow, DeleteFails, TypeOK

LEMMA CrashType ==
  ASSUME NEW p \in Process, TypeOK, Crash(p)
  PROVE  TypeOK'
<1> USE DEF TypeOK, Crash
<1>1. <<>> \in Seq(Message)
  BY EmptySeq
<1>2. TurnTypeOK'
  BY <1>1 DEF TurnTypeOK, TurnPc
<1>3. JobTypeOK'
  BY <1>1 DEF JobTypeOK, JobPc
<1>4. QED
  BY <1>2, <1>3, SameThread

\* Every variable keeps its type.
THEOREM TypeCorrect == Spec => []TypeOK
<1>1. TypeOK /\ [Next]_vars => TypeOK'
  <2> SUFFICES ASSUME TypeOK, [Next]_vars
               PROVE  TypeOK'
    OBVIOUS
  <2>1. CASE UNCHANGED vars
    BY <2>1, SameThread, SameTurns, SameJobs DEF vars, TypeOK
  <2>2. CASE Next
    BY <2>2, TurnStepType, JobStepType, DeleteStepType, CrashType DEF Next
  <2>3. QED
    BY <2>1, <2>2
<1>2. QED
  BY InitType, <1>1, PTL DEF Spec

-----------------------------------------------------------------------------
(* The inductive invariant.  SummaryIsPrefix alone is not inductive: a job  *)
(* writes what it read some steps ago, so the invariant must say that what  *)
(* a running job holds is still a prefix and a slice of the thread.         *)

\* A job exists only once its turn was answered.
JobFollowsTurn == \A t \in Turn : jobPc[t] # "none" => pc[t] = "answered"

\* What a running job read of the row is a past state of it.
JobReadsRow(t) ==
  /\ jobThrough[t] <= through
  /\ RawTextFits => jobSummary[t] = SubSeq(msgs, 1, jobThrough[t])

\* What it read of the messages is still there, and still aged out.
JobReadsSlice(t) ==
  /\ jobThrough[t] < jobEnd[t]
  /\ jobEnd[t] + 2 * WindowTurns <= Len(msgs)
  /\ jobSlice[t] = SubSeq(msgs, jobThrough[t] + 1, jobEnd[t])

JobView ==
  \A t \in Turn : live => /\ JobRunning(t) => JobReadsRow(t)
                          /\ jobPc[t] = "summarising" => JobReadsSlice(t)

\* What a turn read of the row, before it fetches its window.
TurnReadsRow(t) ==
  /\ began[t] <= Len(msgs) /\ seenThrough[t] <= Len(msgs)
  /\ RawTextFits => seenSummary[t] = SubSeq(msgs, 1, seenThrough[t])

TurnView == \A t \in Turn : live /\ pc[t] = "read" => TurnReadsRow(t)

IInv == /\ TypeOK /\ JobFollowsTurn /\ OneJobPerProcess
        /\ WindowStaysVerbatim /\ SummaryIsPrefix
        /\ JobView /\ TurnView /\ PromptTiles

LEMMA InitIInv == Init => IInv
<1> SUFFICES ASSUME Init
             PROVE  IInv
  OBVIOUS
<1>1. TypeOK
  BY InitType
<1>2. /\ live = TRUE /\ msgs = <<>> /\ summary = <<>> /\ through = 0 /\ held = {}
      /\ \A t \in Turn : pc[t] = "idle" /\ jobPc[t] = "none"
  BY DEF Init
<1>3. Len(msgs) = 0 /\ SubSeq(msgs, 1, 0) = <<>>
  BY <1>2, SubSeqEmpty
<1>4. JobFollowsTurn /\ JobView /\ TurnView /\ PromptTiles
  BY <1>2 DEF JobFollowsTurn, JobView, TurnView, PromptTiles, JobRunning
<1>5. OneJobPerProcess
  BY <1>2 DEF OneJobPerProcess, JobRunning
<1>6. WindowStaysVerbatim /\ SummaryIsPrefix
  BY <1>2, <1>3 DEF WindowStaysVerbatim, SummaryIsPrefix
<1>7. QED
  BY <1>1, <1>4, <1>5, <1>6 DEF IInv

-----------------------------------------------------------------------------
(* What a step can do to the thread, to a job and to a turn.                *)

SameRow == UNCHANGED <<live, msgs, summary, through>>

Appends == /\ live /\ live'
           /\ \E m \in Message : msgs' = Append(msgs, m)
           /\ UNCHANGED <<summary, through>>

Clears == ~live' /\ msgs' = <<>> /\ summary' = <<>> /\ through' = 0

\* The row and the messages change by a commit of a message, by the UPDATE of
\* a job, by the deletion of the thread, or not at all.
LEMMA StepEffect ==
  ASSUME TypeOK,
         \/ \E t \in Turn : TurnStep(t) \/ JobStep(t)
         \/ \E p \in Process : Crash(p)
  PROVE  SameRow \/ Appends \/ (\E t \in Turn : JobWrite(t))
<1>1. ASSUME NEW t \in Turn, TurnStep(t)
      PROVE  SameRow \/ Appends
  <2>1. CASE SaveHuman(t)
    BY <2>1, MessageType DEF SaveHuman, Appends
  <2>2. CASE SaveAi(t)
    BY <2>2, MessageType DEF SaveAi, Appends
  <2>3. CASE WriteCount(t)
    BY <2>3 DEF WriteCount, SameRow
  <2>4. CASE ~(SaveHuman(t) \/ SaveAi(t) \/ WriteCount(t))
    BY <1>1, <2>4 DEF TurnStep, ReadThread, ThreadMissing, LoadWindow, IndexHuman,
       IndexAi, ReadCount, SkipCount, TurnFails, SameRow, threadVars
  <2>5. QED
    BY <2>1, <2>2, <2>3, <2>4
<1>2. ASSUME NEW t \in Turn, JobStep(t)
      PROVE  SameRow \/ JobWrite(t)
  BY <1>2 DEF JobStep, JobSkips, JobReadThread, TakeLock, JobReadMessages, JobFails,
     SameRow, threadVars
<1>3. ASSUME NEW p \in Process, Crash(p)
      PROVE  SameRow
  BY <1>3 DEF Crash, SameRow, threadVars
<1>4. QED
  BY <1>1, <1>2, <1>3

LEMMA ThreadEffect ==
  ASSUME TypeOK, Next
  PROVE  SameRow \/ Appends \/ (\E t \in Turn : JobWrite(t)) \/ Clears
<1>1. ASSUME DeleteStep
      PROVE  SameRow \/ Clears
  BY <1>1 DEF DeleteStep, DeletePoints, DeleteRow, DeleteFails, SameRow, Clears,
     threadVars
<1>2. QED
  BY <1>1, StepEffect DEF Next

SameJob(t) ==
  /\ jobPc'[t] = jobPc[t] /\ jobSummary'[t] = jobSummary[t]
  /\ jobThrough'[t] = jobThrough[t] /\ jobEnd'[t] = jobEnd[t]
  /\ jobSlice'[t] = jobSlice[t]

StartsJob(t) ==
  /\ SameRow /\ live
  /\ jobPc'[t] = "readThread"
  /\ jobSummary'[t] = summary /\ jobThrough'[t] = through

ReadsSlice(t) ==
  /\ SameRow
  /\ jobPc[t] = "readThread" /\ jobPc'[t] = "summarising"
  /\ HasAgedOut(t)
  /\ jobSummary'[t] = jobSummary[t] /\ jobThrough'[t] = jobThrough[t]
  /\ jobEnd'[t] = AgedOutEnd /\ jobSlice'[t] = NewSlice(t)

\* A job that runs after a step was started, moved on or left alone by it.
LEMMA JobEffect ==
  ASSUME NEW t \in Turn, TypeOK, Next, JobRunning(t)'
  PROVE  SameJob(t) \/ StartsJob(t) \/ ReadsSlice(t)
<1> USE DEF JobTypeOK, TypeOK
<1>1. ASSUME UNCHANGED jobVars
      PROVE  SameJob(t)
  BY <1>1 DEF SameJob, jobVars
<1>2. ASSUME NEW u \in Turn, WriteCount(u) \/ SkipCount(u)
      PROVE  SameJob(t)
  BY <1>2 DEF WriteCount, SkipCount, SameJob, JobRunning
<1>3. ASSUME NEW u \in Turn, NEW o \in {"done", "failed"}, Leaves(u, o)
      PROVE  SameJob(t)
  BY <1>3 DEF Leaves, SameJob, JobRunning
<1>4. ASSUME NEW u \in Turn, JobReadThread(u)
      PROVE  SameJob(t) \/ StartsJob(t)
  <2>1. CASE Leaves(u, "done")
    BY <1>3, <2>1
  <2>2. CASE ~Leaves(u, "done")
    BY <1>4, <2>2 DEF JobReadThread, TakeLock, SameJob, StartsJob, SameRow, threadVars
  <2>3. QED
    BY <2>1, <2>2
<1>5. ASSUME NEW u \in Turn, JobReadMessages(u)
      PROVE  SameJob(t) \/ ReadsSlice(t)
  <2>1. CASE Leaves(u, "done")
    BY <1>3, <2>1
  <2>2. CASE ~Leaves(u, "done")
    BY <1>5, <2>2 DEF JobReadMessages, SameJob, ReadsSlice, SameRow, threadVars
  <2>3. QED
    BY <2>1, <2>2
<1>6. ASSUME NEW p \in Process, Crash(p)
      PROVE  SameJob(t)
  BY <1>6 DEF Crash, SameJob, JobRunning
<1>7. ASSUME NEW u \in Turn, TurnStep(u)
      PROVE  SameJob(t)
  <2>1. \/ WriteCount(u) \/ SkipCount(u)
        \/ UNCHANGED jobVars
    BY <1>7 DEF TurnStep, ReadThread, ThreadMissing, LoadWindow, SaveHuman,
       IndexHuman, SaveAi, IndexAi, ReadCount, TurnFails
  <2>2. QED
    BY <1>1, <1>2, <2>1
<1>8. ASSUME NEW u \in Turn, JobStep(u)
      PROVE  SameJob(t) \/ StartsJob(t) \/ ReadsSlice(t)
  BY <1>3, <1>4, <1>5, <1>8 DEF JobStep, JobSkips, JobWrite, JobFails
<1>9. DeleteStep => UNCHANGED jobVars
  BY DEF DeleteStep, DeletePoints, DeleteRow, DeleteFails
<1>10. QED
  BY <1>1, <1>6, <1>7, <1>8, <1>9 DEF Next

SameLocals(t) ==
  /\ pc'[t] = pc[t] /\ began'[t] = began[t] /\ window'[t] = window[t]
  /\ seenSummary'[t] = seenSummary[t] /\ seenThrough'[t] = seenThrough[t]

Begins(t) ==
  /\ SameRow /\ live
  /\ pc'[t] = "read"
  /\ began'[t] = Len(msgs)
  /\ seenSummary'[t] = summary /\ seenThrough'[t] = through

Fetches(t) ==
  /\ SameRow
  /\ pc[t] = "read" /\ pc'[t] = "loaded"
  /\ began'[t] = began[t]
  /\ seenSummary'[t] = seenSummary[t] /\ seenThrough'[t] = seenThrough[t]
  /\ window'[t] = SubSeq(msgs, seenThrough[t] + 1, Len(msgs))

\* A turn that holds the memory after a step began, fetched its window or was
\* left alone by it.
LEMMA TurnEffect ==
  ASSUME NEW t \in Turn, TypeOK, Next, pc'[t] \in {"read", "loaded"}
  PROVE  SameLocals(t) \/ Begins(t) \/ Fetches(t)
<1> USE DEF TurnTypeOK, TypeOK
<1>1. ASSUME UNCHANGED turnVars
      PROVE  SameLocals(t)
  BY <1>1 DEF SameLocals, turnVars
<1>2. ASSUME NEW u \in Turn, DropMemory(u), NEW o,
             o \notin {"read", "loaded"}, pc' = [pc EXCEPT ![u] = o]
      PROVE  SameLocals(t)
  BY <1>2 DEF DropMemory, SameLocals
<1>3. ASSUME NEW u \in Turn, NEW o,
             o \notin {"read", "loaded"}, pc' = [pc EXCEPT ![u] = o],
             UNCHANGED <<began, seenSummary, seenThrough, window>>
      PROVE  SameLocals(t)
  BY <1>3 DEF SameLocals
<1>4. ASSUME NEW u \in Turn, TurnStep(u)
      PROVE  SameLocals(t) \/ Begins(t) \/ Fetches(t)
  <2>1. CASE ReadThread(u)
    BY <2>1 DEF ReadThread, SameLocals, Begins, SameRow, threadVars
  <2>2. CASE LoadWindow(u)
    <3>1. \/ window'[t] = IF t = u THEN SubSeq(msgs, seenThrough[u] + 1, Len(msgs))
                                   ELSE window[t]
          \/ pc'[u] = "withoutHistory" /\ window' = window
      BY <2>2 DEF LoadWindow, WindowOffset
    <3>2. CASE t = u
      BY <2>2, <3>1, <3>2 DEF LoadWindow, Fetches, SameRow, threadVars
    <3>3. CASE t # u
      BY <2>2, <3>1, <3>3 DEF LoadWindow, SameLocals
    <3>4. QED
      BY <3>2, <3>3
  <2>3. CASE SaveHuman(u)
    BY <1>2, <2>3 DEF SaveHuman
  <2>4. CASE WriteCount(u)
    BY <1>2, <2>4 DEF WriteCount, Ends
  <2>5. CASE SkipCount(u)
    BY <1>2, <2>5 DEF SkipCount, Ends
  <2>6. CASE TurnFails(u)
    BY <1>2, <2>6 DEF TurnFails, Ends
  <2>7. CASE ThreadMissing(u)
    BY <1>3, <2>7 DEF ThreadMissing
  <2>8. CASE IndexHuman(u)
    BY <1>3, <2>8 DEF IndexHuman
  <2>9. CASE SaveAi(u)
    BY <1>3, <2>9 DEF SaveAi
  <2>10. CASE IndexAi(u)
    BY <1>3, <2>10 DEF IndexAi
  <2>11. CASE ReadCount(u)
    BY <1>3, <2>11 DEF ReadCount
  <2>12. QED
    BY <1>4, <2>1, <2>2, <2>3, <2>4, <2>5, <2>6, <2>7, <2>8, <2>9, <2>10, <2>11
       DEF TurnStep
<1>5. ASSUME NEW u \in Turn, JobStep(u)
      PROVE  SameLocals(t)
  BY <1>1, <1>5 DEF JobStep, JobSkips, JobReadThread, TakeLock, JobReadMessages, JobWrite, JobFails
<1>6. ASSUME NEW p \in Process, Crash(p)
      PROVE  SameLocals(t)
  BY <1>6 DEF Crash, SameLocals
<1>7. DeleteStep => SameLocals(t)
  BY <1>1 DEF DeleteStep, DeletePoints, DeleteRow, DeleteFails
<1>8. QED
  BY <1>4, <1>5, <1>6, <1>7 DEF Next

-----------------------------------------------------------------------------
(* Each part of the invariant is preserved.                                 *)

\* An answered turn stays answered.
LEMMA JobFollowsTurnStep ==
  ASSUME TypeOK, JobFollowsTurn, Next
  PROVE  JobFollowsTurn'
<1> USE DEF TypeOK, TurnTypeOK, JobTypeOK
<1>1. ASSUME NEW t \in Turn, TurnStep(t)
      PROVE  JobFollowsTurn'
  <2>1. CASE WriteCount(t)
    BY <2>1 DEF WriteCount, Ends, JobFollowsTurn
  <2>2. CASE SkipCount(t)
    BY <2>2 DEF SkipCount, Ends, JobFollowsTurn
  <2>3. CASE ~(WriteCount(t) \/ SkipCount(t))
    <3>1. /\ jobPc' = jobPc
          /\ pc[t] # "answered"
          /\ \E o : pc' = [pc EXCEPT ![t] = o]
      BY <1>1, <2>3 DEF TurnStep, ReadThread, ThreadMissing, LoadWindow, SaveHuman,
         IndexHuman, SaveAi, IndexAi, ReadCount, TurnFails, Active, Ends, jobVars
    <3>2. QED
      BY <3>1 DEF JobFollowsTurn
  <2>4. QED
    BY <2>1, <2>2, <2>3
<1>2. ASSUME NEW t \in Turn, JobStep(t)
      PROVE  JobFollowsTurn'
  <2>1. /\ pc' = pc /\ jobPc[t] # "none"
        /\ \E o : jobPc' = [jobPc EXCEPT ![t] = o]
    BY <1>2 DEF JobStep, JobSkips, JobReadThread, TakeLock, JobReadMessages, JobWrite, JobFails,
       Leaves, JobRunning, turnVars
  <2>2. QED
    BY <2>1 DEF JobFollowsTurn
<1>3. ASSUME DeleteStep
      PROVE  JobFollowsTurn'
  BY <1>3 DEF DeleteStep, DeletePoints, DeleteRow, DeleteFails, JobFollowsTurn,
     turnVars, jobVars
<1>4. ASSUME NEW p \in Process, Crash(p)
      PROVE  JobFollowsTurn'
  BY <1>4 DEF Crash, JobFollowsTurn, Active, JobRunning
<1>5. QED
  BY <1>1, <1>2, <1>3, <1>4 DEF Next

\* held and the running jobs change together.
LEMMA OneJobPerProcessStep ==
  ASSUME TypeOK, JobFollowsTurn, OneJobPerProcess, Next
  PROVE  OneJobPerProcess'
<1> USE DEF TypeOK, TurnTypeOK, JobTypeOK
<1>1. ASSUME UNCHANGED held, \A t \in Turn : JobRunning(t)' <=> JobRunning(t)
      PROVE  OneJobPerProcess'
  BY <1>1 DEF OneJobPerProcess
<1>2. ASSUME UNCHANGED jobVars
      PROVE  OneJobPerProcess'
  BY <1>1, <1>2 DEF jobVars, JobRunning
<1>3. ASSUME NEW t \in Turn, NEW o \in {"done", "failed"}, Leaves(t, o)
      PROVE  /\ ~JobRunning(t)'
             /\ \A u \in Turn \ {t} : JobRunning(u)' <=> JobRunning(u)
  BY <1>3 DEF Leaves, JobRunning
<1>4. ASSUME NEW t \in Turn, NEW o \in {"done", "failed"}, Leaves(t, o), ~JobRunning(t), UNCHANGED held
      PROVE  OneJobPerProcess'
  BY <1>1, <1>3, <1>4
<1>5. ASSUME NEW t \in Turn, NEW o \in {"done", "failed"}, Leaves(t, o), JobRunning(t), ReleaseLock(t)
      PROVE  OneJobPerProcess'
  <2>1. {v \in Turn : JobRunning(v)'} = {v \in Turn : JobRunning(v)} \ {t}
    BY <1>3, <1>5
  <2>2. held = {ProcessOf[u] : u \in {v \in Turn : JobRunning(v)}}
    BY DEF OneJobPerProcess
  <2>3. \A u, v \in Turn :
          JobRunning(u) /\ JobRunning(v) /\ ProcessOf[u] = ProcessOf[v] => u = v
    BY DEF OneJobPerProcess
  <2>4. held' = {ProcessOf[u] : u \in {v \in Turn : JobRunning(v)'}}
    BY <1>5, <2>1, <2>2, <2>3 DEF ReleaseLock
  <2>5. QED
    BY <1>3, <1>5, <2>3, <2>4 DEF OneJobPerProcess
<1>6. ASSUME NEW t \in Turn, TurnStep(t)
      PROVE  OneJobPerProcess'
  <2>1. CASE WriteCount(t) \/ SkipCount(t)
    <3>1. jobPc[t] = "none" /\ jobPc' = [jobPc EXCEPT ![t] = "queued"] /\ held' = held
      BY <2>1 DEF WriteCount, SkipCount, JobFollowsTurn
    <3>2. QED
      BY <1>1, <3>1 DEF JobRunning
  <2>2. CASE ~(WriteCount(t) \/ SkipCount(t))
    BY <1>2, <1>6, <2>2 DEF TurnStep, ReadThread, ThreadMissing, LoadWindow, SaveHuman,
       IndexHuman, SaveAi, IndexAi, ReadCount, TurnFails
  <2>3. QED
    BY <2>1, <2>2
<1>7. ASSUME NEW t \in Turn, JobReadThread(t)
      PROVE  OneJobPerProcess'
  <2>1. CASE ~live
    BY <1>4, <1>7, <2>1 DEF JobReadThread, TakeLock, JobRunning
  <2>2. CASE live
    <3>1. /\ ProcessOf[t] \notin held /\ held' = held \cup {ProcessOf[t]}
          /\ JobRunning(t)'
          /\ \A u \in Turn \ {t} : JobRunning(u)' <=> JobRunning(u)
      BY <1>7, <2>2 DEF JobReadThread, TakeLock, JobRunning
    <3>2. ~JobRunning(t)
      BY <3>1 DEF OneJobPerProcess
    <3>3. held' = {ProcessOf[u] : u \in {v \in Turn : JobRunning(v)'}}
      <4>1. \A u \in Turn : JobRunning(u)' <=> JobRunning(u) \/ u = t
        BY <3>1
      <4>2. {v \in Turn : JobRunning(v)'} = {v \in Turn : JobRunning(v)} \cup {t}
        BY <4>1
      <4>3. QED
        BY <3>1, <4>2 DEF OneJobPerProcess
    <3>4. \A u, v \in Turn :
            JobRunning(u)' /\ JobRunning(v)' /\ ProcessOf[u] = ProcessOf[v] => u = v
      BY <3>1 DEF OneJobPerProcess
    <3>5. QED
      BY <3>3, <3>4 DEF OneJobPerProcess
  <2>3. QED
    BY <2>1, <2>2
<1>8. ASSUME NEW t \in Turn, JobReadMessages(t)
      PROVE  OneJobPerProcess'
  <2>1. CASE ~HasAgedOut(t)
    BY <1>5, <1>8, <2>1 DEF JobReadMessages, JobRunning
  <2>2. CASE HasAgedOut(t)
    <3>1. held' = held /\ jobPc' = [jobPc EXCEPT ![t] = "summarising"]
          /\ jobPc[t] = "readThread"
      BY <1>8, <2>2 DEF JobReadMessages
    <3>2. QED
      BY <1>1, <3>1 DEF JobRunning
  <2>3. QED
    BY <2>1, <2>2
<1>9. ASSUME NEW t \in Turn, JobStep(t)
      PROVE  OneJobPerProcess'
  BY <1>4, <1>5, <1>7, <1>8, <1>9 DEF JobStep, JobSkips, JobWrite, JobFails, JobRunning
<1>10. ASSUME NEW p \in Process, Crash(p)
       PROVE  OneJobPerProcess'
  <2>1. /\ held' = held \ {p}
        /\ \A t \in Turn :
             JobRunning(t)' <=> (JobRunning(t) /\ ProcessOf[t] # p)
    BY <1>10 DEF Crash, JobRunning
  <2>2. QED
    BY <2>1 DEF OneJobPerProcess
<1>11. DeleteStep => OneJobPerProcess'
  BY <1>2 DEF DeleteStep, DeletePoints, DeleteRow, DeleteFails
<1>12. QED
  BY <1>6, <1>9, <1>10, <1>11 DEF Next

Folds == /\ live /\ UNCHANGED <<live, msgs>>
         /\ through < through' /\ through' + 2 * WindowTurns <= Len(msgs)
         /\ RawTextFits => summary' = SubSeq(msgs, 1, through')

\* The UPDATE of a job folds the messages up to its cut, or is a no-op.
LEMMA JobWriteEffect ==
  ASSUME NEW t \in Turn, TypeOK, JobView, JobWrite(t)
  PROVE  SameRow \/ Folds
<1> USE DEF TypeOK, ThreadTypeOK, JobTypeOK
<1>1. CASE ~(live /\ WriteApplies(t))
  BY <1>1 DEF JobWrite, SameRow
<1>2. CASE live /\ WriteApplies(t)
  <2>1. /\ live /\ UNCHANGED <<live, msgs>>
        /\ summary' \in Summaries(t) /\ through' = jobEnd[t] /\ through < jobEnd[t]
    BY <1>2, Zenon DEF JobWrite, WriteApplies
  <2>2. JobReadsRow(t) /\ JobReadsSlice(t)
    BY <2>1 DEF JobWrite, JobView, JobRunning
  <2>3. ASSUME RawTextFits
        PROVE  summary' = SubSeq(msgs, 1, through')
    <3>1. summary' = jobSummary[t] \o jobSlice[t]
      BY <2>1, <2>3 DEF Summaries
    <3>2. /\ jobSummary[t] = SubSeq(msgs, 1, jobThrough[t])
          /\ jobSlice[t] = SubSeq(msgs, jobThrough[t] + 1, jobEnd[t])
          /\ jobThrough[t] \in Nat /\ jobEnd[t] \in Nat /\ msgs \in Seq(Message)
          /\ jobThrough[t] <= jobEnd[t] /\ jobEnd[t] <= Len(msgs)
      BY <2>2, <2>3 DEF JobReadsRow, JobReadsSlice
    <3>3. SubSeq(msgs, 1, jobThrough[t]) \o SubSeq(msgs, jobThrough[t] + 1, jobEnd[t])
            = SubSeq(msgs, 1, jobEnd[t])
      BY <3>2, PrefixThenSlice
    <3>4. QED
      BY <2>1, <3>1, <3>2, <3>3
  <2>4. jobEnd[t] + 2 * WindowTurns <= Len(msgs)
    BY <2>2 DEF JobReadsSlice
  <2>5. QED
    BY <2>1, <2>3, <2>4 DEF Folds
<1>3. QED
  BY <1>1, <1>2

\* Every step appends to the thread, folds part of it, deletes it or leaves
\* it alone.
LEMMA LogEffect ==
  ASSUME TypeOK, JobView, Next
  PROVE  SameRow \/ Appends \/ Folds \/ Clears
BY ThreadEffect, JobWriteEffect

LEMMA WindowStep ==
  ASSUME TypeOK, WindowStaysVerbatim, SameRow \/ Appends \/ Folds \/ Clears
  PROVE  WindowStaysVerbatim'
<1> USE DEF TypeOK, ThreadTypeOK, WindowStaysVerbatim
<1>1. CASE SameRow
  BY <1>1 DEF SameRow
<1>2. CASE Appends
  <2>1. Len(msgs') = Len(msgs) + 1 /\ through' = through
    BY <1>2, AppendProperties DEF Appends
  <2>2. QED
    BY <2>1
<1>3. CASE Folds
  BY <1>3 DEF Folds
<1>4. CASE Clears
  BY <1>4 DEF Clears
<1>5. QED
  BY <1>1, <1>2, <1>3, <1>4

LEMMA PrefixStep ==
  ASSUME TypeOK, SummaryIsPrefix, SameRow \/ Appends \/ Folds \/ Clears,
         through' \in Nat
  PROVE  SummaryIsPrefix'
<1> SUFFICES ASSUME RawTextFits
             PROVE  through' <= Len(msgs') /\ summary' = SubSeq(msgs', 1, through')
  BY DEF SummaryIsPrefix
<1>1. /\ through \in Nat /\ msgs \in Seq(Message) /\ Len(msgs) \in Nat
      /\ through <= Len(msgs) /\ summary = SubSeq(msgs, 1, through)
  BY DEF SummaryIsPrefix, TypeOK, ThreadTypeOK
<1>2. CASE SameRow
  BY <1>1, <1>2 DEF SameRow
<1>3. CASE Appends
  <2>1. PICK m \in Message : msgs' = Append(msgs, m)
    BY <1>3 DEF Appends
  <2>2. summary' = summary /\ through' = through
    BY <1>3 DEF Appends
  <2>3. Len(msgs') = Len(msgs) + 1
    BY <1>1, <2>1, AppendProperties
  <2>4. SubSeq(msgs', 1, through) = SubSeq(msgs, 1, through)
    BY <1>1, <2>1, AppendKeepsSlice
  <2>5. QED
    BY <1>1, <2>2, <2>3, <2>4
<1>4. CASE Folds
  <2>1. msgs' = msgs /\ summary' = SubSeq(msgs, 1, through')
    BY <1>4 DEF Folds
  <2>2. through' + 2 * WindowTurns <= Len(msgs)
    BY <1>4 DEF Folds
  <2>3. through' <= Len(msgs)
    BY <1>1, <2>2
  <2>4. QED
    BY <2>1, <2>3
<1>5. CASE Clears
  <2>1. SubSeq(msgs', 1, 0) = <<>> /\ Len(msgs') = 0
    BY <1>5, SubSeqEmpty DEF Clears
  <2>2. QED
    BY <1>5, <2>1 DEF Clears
<1>6. QED
  BY <1>2, <1>3, <1>4, <1>5

\* What was read of the thread stays true of it as the log grows.
LEMMA ReadStaysTrue ==
  ASSUME TypeOK, live', SameRow \/ Appends \/ Folds \/ Clears,
         NEW m \in Nat \ {0}, NEW n \in Nat, n <= Len(msgs)
  PROVE  /\ live /\ Len(msgs) <= Len(msgs')
         /\ SubSeq(msgs', m, n) = SubSeq(msgs, m, n)
         /\ through' \in Nat => through <= through'
<1>1. msgs \in Seq(Message) /\ Len(msgs) \in Nat /\ through \in Nat
  BY DEF TypeOK, ThreadTypeOK
<1>2. CASE SameRow
  BY <1>1, <1>2 DEF SameRow
<1>3. CASE Appends
  <2>1. PICK e \in Message : msgs' = Append(msgs, e)
    BY <1>3 DEF Appends
  <2>2. Len(msgs') = Len(msgs) + 1
    BY <1>1, <2>1, AppendProperties
  <2>3. SubSeq(msgs', m, n) = SubSeq(msgs, m, n)
    BY <1>1, <2>1, AppendKeepsSlice
  <2>4. QED
    BY <1>1, <1>3, <2>2, <2>3 DEF Appends
<1>4. CASE Folds
  <2>1. live /\ msgs' = msgs /\ through < through'
    BY <1>4 DEF Folds
  <2>2. QED
    BY <1>1, <2>1
<1>5. CASE Clears
  BY <1>5 DEF Clears
<1>6. QED
  BY <1>2, <1>3, <1>4, <1>5

LEMMA PrefixStaysTrue ==
  ASSUME TypeOK, live', SameRow \/ Appends \/ Folds \/ Clears,
         NEW n \in Nat, n <= Len(msgs)
  PROVE  SubSeq(msgs', 1, n) = SubSeq(msgs, 1, n)
<1>1. 1 \in Nat \ {0}
  OBVIOUS
<1>2. QED
  BY <1>1, ReadStaysTrue

LEMMA JobViewStep ==
  ASSUME TypeOK, TypeOK', WindowStaysVerbatim, SummaryIsPrefix, JobView, Next
  PROVE  JobView'
<1> SUFFICES ASSUME NEW t \in Turn, live', JobRunning(t)'
             PROVE  /\ JobReadsRow(t)'
                    /\ jobPc'[t] = "summarising" => JobReadsSlice(t)'
  BY DEF JobView, JobRunning
<1>1. /\ msgs \in Seq(Message) /\ Len(msgs) \in Nat
      /\ through \in Nat /\ through' \in Nat
      /\ jobThrough[t] \in Nat /\ jobEnd[t] \in Nat
  BY DEF TypeOK, ThreadTypeOK, JobTypeOK
<1>2. through <= Len(msgs)
  BY <1>1 DEF WindowStaysVerbatim
<1>3. SameRow \/ Appends \/ Folds \/ Clears
  BY LogEffect
<1>4. CASE SameJob(t)
  <2>1. live /\ JobRunning(t)
    BY <1>1, <1>2, <1>3, <1>4, ReadStaysTrue DEF SameJob, JobRunning
  <2>2. JobReadsRow(t) /\ (jobPc[t] = "summarising" => JobReadsSlice(t))
    BY <2>1 DEF JobView
  <2>3. through <= through' /\ Len(msgs) <= Len(msgs')
    BY <1>1, <1>2, <1>3, ReadStaysTrue
  <2>4. SubSeq(msgs', 1, jobThrough[t]) = SubSeq(msgs, 1, jobThrough[t])
    <3>1. jobThrough[t] \in Nat /\ jobThrough[t] <= Len(msgs)
      BY <1>1, <1>2, <2>2 DEF JobReadsRow
    <3>2. QED
      BY <1>3, <3>1, PrefixStaysTrue
  <2>5. JobReadsRow(t)'
    BY <1>1, <1>4, <2>2, <2>3, <2>4 DEF JobReadsRow, SameJob
  <2>6. ASSUME jobPc[t] = "summarising"
        PROVE  JobReadsSlice(t)'
    <3>1. /\ jobThrough[t] < jobEnd[t] /\ jobEnd[t] + 2 * WindowTurns <= Len(msgs)
          /\ jobSlice[t] = SubSeq(msgs, jobThrough[t] + 1, jobEnd[t])
      BY <2>2, <2>6 DEF JobReadsSlice
    <3>2. jobThrough[t] + 1 \in Nat \ {0} /\ jobEnd[t] <= Len(msgs)
      BY <1>1, <3>1
    <3>3. SubSeq(msgs', jobThrough[t] + 1, jobEnd[t])
            = SubSeq(msgs, jobThrough[t] + 1, jobEnd[t])
      BY <1>1, <1>3, <3>2, ReadStaysTrue
    <3>4. Len(msgs') \in Nat
      BY DEF TypeOK, ThreadTypeOK
    <3>5. QED
      <4>1. /\ jobThrough'[t] = jobThrough[t] /\ jobEnd'[t] = jobEnd[t]
            /\ jobSlice'[t] = jobSlice[t]
        BY <1>4 DEF SameJob
      <4>2. jobEnd[t] + 2 * WindowTurns <= Len(msgs')
        BY <1>1, <2>3, <3>1, <3>4
      <4>3. QED
        BY <3>1, <3>3, <4>1, <4>2 DEF JobReadsSlice
  <2>7. QED
    BY <1>4, <2>5, <2>6 DEF SameJob
<1>5. CASE StartsJob(t)
  BY <1>1, <1>5 DEF StartsJob, SameRow, JobReadsRow, SummaryIsPrefix
<1>6. CASE ReadsSlice(t)
  <2>1. /\ live /\ msgs' = msgs /\ through' = through
        /\ jobThrough'[t] = jobThrough[t] /\ jobSummary'[t] = jobSummary[t]
        /\ jobEnd'[t] = Len(msgs) - 2 * WindowTurns
        /\ jobThrough[t] < Len(msgs) - 2 * WindowTurns
        /\ jobSlice'[t] = SubSeq(msgs, jobThrough[t] + 1, Len(msgs) - 2 * WindowTurns)
    BY <1>6 DEF ReadsSlice, SameRow, HasAgedOut, AgedOutEnd, NewSlice
  <2>2. JobReadsRow(t)
    BY <1>6, <2>1 DEF ReadsSlice, JobView, JobRunning
  <2>3. JobReadsRow(t)'
    BY <2>1, <2>2 DEF JobReadsRow
  <2>4. JobReadsSlice(t)'
    BY <1>1, <2>1 DEF JobReadsSlice
  <2>5. QED
    BY <2>3, <2>4
<1>7. QED
  BY <1>4, <1>5, <1>6, JobEffect

LEMMA TurnViewStep ==
  ASSUME TypeOK, TypeOK', WindowStaysVerbatim, SummaryIsPrefix, JobView, TurnView, Next
  PROVE  TurnView'
<1> SUFFICES ASSUME NEW t \in Turn, live', pc'[t] = "read"
             PROVE  TurnReadsRow(t)'
  BY DEF TurnView
<1>1. /\ msgs \in Seq(Message) /\ Len(msgs) \in Nat /\ Len(msgs') \in Nat
      /\ through \in Nat /\ began[t] \in Nat /\ seenThrough[t] \in Nat
  BY DEF TypeOK, ThreadTypeOK, TurnTypeOK
<1>2. SameRow \/ Appends \/ Folds \/ Clears
  BY LogEffect
<1>3. CASE SameLocals(t)
  <2>1. live /\ Len(msgs) <= Len(msgs')
    BY <1>1, <1>2, ReadStaysTrue
  <2>2. TurnReadsRow(t)
    BY <1>3, <2>1 DEF TurnView, SameLocals
  <2>3. SubSeq(msgs', 1, seenThrough[t]) = SubSeq(msgs, 1, seenThrough[t])
    <3>1. seenThrough[t] \in Nat /\ seenThrough[t] <= Len(msgs)
      BY <1>1, <2>2 DEF TurnReadsRow
    <3>2. QED
      BY <1>2, <3>1, PrefixStaysTrue
  <2>4. QED
    BY <1>1, <1>3, <2>1, <2>2, <2>3 DEF TurnReadsRow, SameLocals
<1>4. CASE Begins(t)
  BY <1>1, <1>4 DEF Begins, SameRow, TurnReadsRow, SummaryIsPrefix, WindowStaysVerbatim
<1>5. QED
  BY <1>3, <1>4, TurnEffect DEF Fetches

LEMMA PromptTilesStep ==
  ASSUME TypeOK, TypeOK', JobView, TurnView, PromptTiles, Next
  PROVE  PromptTiles'
<1> SUFFICES ASSUME NEW t \in Turn, RawTextFits, live', pc'[t] = "loaded"
             PROVE  \E n \in began'[t] .. Len(msgs') :
                      seenSummary'[t] \o window'[t] = SubSeq(msgs', 1, n)
  BY DEF PromptTiles
<1>1. /\ msgs \in Seq(Message) /\ Len(msgs) \in Nat /\ Len(msgs') \in Nat
      /\ began[t] \in Nat /\ seenThrough[t] \in Nat
  BY DEF TypeOK, ThreadTypeOK, TurnTypeOK
<1>2. SameRow \/ Appends \/ Folds \/ Clears
  BY LogEffect
<1>3. live /\ Len(msgs) <= Len(msgs')
  BY <1>1, <1>2, ReadStaysTrue
<1>4. CASE SameLocals(t)
  <2>1. PICK n \in began[t] .. Len(msgs) :
          seenSummary[t] \o window[t] = SubSeq(msgs, 1, n)
    BY <1>3, <1>4 DEF PromptTiles, SameLocals
  <2>2. n \in Nat /\ n <= Len(msgs) /\ began[t] <= n
    BY <1>1, <2>1
  <2>3. SubSeq(msgs', 1, n) = SubSeq(msgs, 1, n)
    BY <1>2, <2>2, PrefixStaysTrue
  <2>4. n \in began'[t] .. Len(msgs')
    BY <1>1, <1>3, <1>4, <2>2 DEF SameLocals
  <2>5. seenSummary'[t] \o window'[t] = SubSeq(msgs', 1, n)
    BY <1>4, <2>1, <2>3 DEF SameLocals
  <2>6. QED
    BY <2>4, <2>5
<1>5. CASE Fetches(t)
  <2>1. /\ began'[t] = began[t] /\ msgs' = msgs
        /\ seenSummary'[t] = seenSummary[t]
        /\ window'[t] = SubSeq(msgs, seenThrough[t] + 1, Len(msgs))
        /\ pc[t] = "read"
    BY <1>5 DEF Fetches, SameRow
  <2>2. /\ began[t] <= Len(msgs) /\ seenThrough[t] <= Len(msgs)
        /\ seenSummary[t] = SubSeq(msgs, 1, seenThrough[t])
    BY <1>3, <2>1 DEF TurnView, TurnReadsRow
  <2>3. SubSeq(msgs, 1, seenThrough[t]) \o SubSeq(msgs, seenThrough[t] + 1, Len(msgs))
          = SubSeq(msgs, 1, Len(msgs))
    <3>1. seenThrough[t] \in Nat /\ Len(msgs) \in Nat /\ msgs \in Seq(Message)
      BY <1>1
    <3>2. seenThrough[t] <= Len(msgs) /\ Len(msgs) <= Len(msgs)
      BY <2>2, <3>1
    <3>3. QED
      BY <3>1, <3>2, PrefixThenSlice
  <2>4. Len(msgs) \in began'[t] .. Len(msgs')
    BY <1>1, <2>1, <2>2
  <2>5. QED
    BY <2>1, <2>2, <2>3, <2>4
<1>6. QED
  BY <1>4, <1>5, TurnEffect DEF Begins

-----------------------------------------------------------------------------
(* The theorems.                                                            *)

LEMMA StutterIInv == IInv /\ UNCHANGED vars => IInv'
<1> SUFFICES ASSUME IInv, UNCHANGED vars
             PROVE  IInv'
  OBVIOUS
<1> USE DEF vars, threadVars, turnVars, jobVars
<1>1. TypeOK'
  BY SameThread, SameTurns, SameJobs DEF IInv, TypeOK
<1>2. JobFollowsTurn' /\ OneJobPerProcess'
  BY DEF IInv, JobFollowsTurn, OneJobPerProcess, JobRunning
<1>3. WindowStaysVerbatim' /\ SummaryIsPrefix'
  BY DEF IInv, WindowStaysVerbatim, SummaryIsPrefix
<1>4. JobView' /\ TurnView' /\ PromptTiles'
  BY DEF IInv, JobView, JobRunning, JobReadsRow, JobReadsSlice, TurnView, TurnReadsRow,
     PromptTiles
<1>5. QED
  BY <1>1, <1>2, <1>3, <1>4 DEF IInv

LEMMA NextIInv ==
  ASSUME IInv, Next
  PROVE  IInv'
<1>1. TypeOK'
  BY TurnStepType, JobStepType, DeleteStepType, CrashType DEF IInv, Next
<1>2. JobFollowsTurn' /\ OneJobPerProcess'
  BY JobFollowsTurnStep, OneJobPerProcessStep DEF IInv
<1>3. WindowStaysVerbatim' /\ SummaryIsPrefix'
  BY <1>1, LogEffect, WindowStep, PrefixStep DEF IInv, TypeOK, ThreadTypeOK
<1>4. JobView' /\ TurnView' /\ PromptTiles'
  BY <1>1, JobViewStep, TurnViewStep, PromptTilesStep DEF IInv
<1>5. QED
  BY <1>1, <1>2, <1>3, <1>4 DEF IInv

\* The inductive invariant holds in every reachable state.
THEOREM Invariance == Spec => []IInv
<1>1. IInv /\ [Next]_vars => IInv'
  BY NextIInv, StutterIInv
<1>2. QED
  BY InitIInv, <1>1, PTL DEF Spec

\* However turns, jobs, deletions and crashes overlap, the rolling summary is
\* made from exactly the first rolling_summary_through messages.
THEOREM SummaryCorrect == Spec => []SummaryIsPrefix
<1>1. IInv => SummaryIsPrefix
  BY DEF IInv
<1>2. QED
  BY Invariance, <1>1, PTL

\* The last MEMORY_WINDOW_SIZE turns are never folded away.
THEOREM WindowCorrect == Spec => []WindowStaysVerbatim
<1>1. IInv => WindowStaysVerbatim
  BY DEF IInv
<1>2. QED
  BY Invariance, <1>1, PTL

\* A turn's summary and the window it fetched tile the thread: no message is
\* fetched twice and none between them is missing.
THEOREM PromptCorrect == Spec => []PromptTiles
<1>1. IInv => PromptTiles
  BY DEF IInv
<1>2. QED
  BY Invariance, <1>1, PTL

\* The per-thread lock of a process is held by exactly one running job.
THEOREM LockCorrect == Spec => []OneJobPerProcess
<1>1. IInv => OneJobPerProcess
  BY DEF IInv
<1>2. QED
  BY Invariance, <1>1, PTL

\* No job of any process moves rolling_summary_through back.
THEOREM MonotonicThrough == Spec => ThroughNeverRegresses
<1>1. ASSUME IInv, IInv', [Next]_vars
      PROVE  [live' => through' >= through]_vars
  <2> SUFFICES ASSUME Next, live'
               PROVE  through' >= through
    BY <1>1
  <2>1. /\ TypeOK /\ JobView /\ through \in Nat /\ through' \in Nat
        /\ Len(msgs) \in Nat
    BY <1>1 DEF IInv, TypeOK, ThreadTypeOK
  <2>2. SameRow \/ Appends \/ Folds \/ Clears
    BY <2>1, LogEffect
  <2>3. QED
    <3>1. SameRow => through' >= through
      BY <2>1 DEF SameRow
    <3>2. Appends => through' >= through
      BY <2>1 DEF Appends
    <3>3. Folds => through' >= through
      BY <2>1 DEF Folds
    <3>4. ~Clears
      BY DEF Clears
    <3>5. QED
      BY <2>2, <3>1, <3>2, <3>3, <3>4
<1>2. QED
  BY Invariance, <1>1, PTL DEF Spec, ThroughNeverRegresses

-----------------------------------------------------------------------------
(* Refinement of ConversationLog.                                           *)

\* Between the two halves of a deletion the row is there.
DeleterSeesThread == deleter = "pointsGone" => live

LEMMA DeleterStep == DeleterSeesThread /\ [Next]_vars => DeleterSeesThread'
<1> SUFFICES ASSUME DeleterSeesThread, [Next]_vars
             PROVE  DeleterSeesThread'
  OBVIOUS
<1> USE DEF DeleterSeesThread, threadVars
<1>1. ASSUME NEW t \in Turn, TurnStep(t)
      PROVE  live' = live /\ deleter' = deleter
  BY <1>1 DEF TurnStep, ReadThread, ThreadMissing, LoadWindow, SaveHuman, IndexHuman,
     SaveAi, IndexAi, ReadCount, WriteCount, SkipCount, TurnFails
<1>2. ASSUME NEW t \in Turn, JobStep(t)
      PROVE  live' = live /\ deleter' = deleter
  BY <1>2 DEF JobStep, JobSkips, JobReadThread, TakeLock, JobReadMessages, JobWrite, JobFails
<1>3. ASSUME DeleteStep
      PROVE  DeleterSeesThread'
  BY <1>3 DEF DeleteStep, DeletePoints, DeleteRow, DeleteFails
<1>4. ASSUME NEW p \in Process, Crash(p)
      PROVE  live' = live /\ deleter' = deleter
  BY <1>4 DEF Crash
<1>5. QED
  BY <1>1, <1>2, <1>3, <1>4 DEF Next, vars

\* Every step of the handlers, the jobs and the deletion is a step of the log
\* with a moving cut, or a stutter.
LEMMA LogStep ==
  ASSUME RawTextFits, IInv, IInv', DeleterSeesThread, [Next]_vars
  PROVE  [Log!Next]_(Log!vars)
<1>1. /\ TypeOK /\ JobView /\ through \in Nat /\ through' \in Nat
      /\ Len(msgs) \in Nat
  BY DEF IInv, TypeOK, ThreadTypeOK
<1>2. CASE UNCHANGED vars
  BY <1>2 DEF vars, threadVars, Log!vars
<1>3. CASE SameRow
  BY <1>3 DEF SameRow, Log!vars
<1>4. CASE Appends
  <2>1. live \in BOOLEAN /\ live' \in BOOLEAN
    BY DEF IInv, TypeOK, ThreadTypeOK
  <2>2. Log!Say
    BY <1>4, <2>1 DEF Appends, Log!Say
  <2>3. QED
    BY <2>2 DEF Log!Next
<1>5. CASE Folds
  <2>1. /\ live /\ live' = live /\ msgs' = msgs
        /\ summary' = SubSeq(msgs, 1, through')
    BY <1>5 DEF Folds
  <2>2. through < through' /\ through' + 2 * WindowTurns <= Len(msgs)
    BY <1>5 DEF Folds
  <2>3. through' \in through + 1 .. Len(msgs) - 2 * WindowTurns
    BY <1>1, <2>2
  <2>4. Log!Fold
    BY <2>1, <2>3 DEF Log!Fold
  <2>5. QED
    BY <2>4 DEF Log!Next
<1>6. CASE DeleteStep
  <2>1. CASE DeleteRow
    <3>1. Log!Close
      BY <2>1 DEF DeleteRow, DeleterSeesThread, Log!Close
    <3>2. QED
      BY <3>1 DEF Log!Next
  <2>2. CASE DeletePoints \/ DeleteFails
    BY <2>2 DEF DeletePoints, DeleteFails, threadVars, Log!vars
  <2>3. QED
    BY <1>6, <2>1, <2>2 DEF DeleteStep
<1>7. CASE Next /\ ~DeleteStep
  <2>1. SameRow \/ Appends \/ (\E t \in Turn : JobWrite(t))
    BY <1>1, <1>7, StepEffect DEF Next
  <2>2. QED
    BY <1>1, <1>3, <1>4, <1>5, <2>1, JobWriteEffect
<1>8. QED
  BY <1>2, <1>6, <1>7

\* As long as no fallback text is cut, the handlers, the jobs and the deletion
\* together implement the log that only grows and is folded from the front.
THEOREM LogRefinement == RawTextFits => (Spec => LogSpec)
<1> SUFFICES ASSUME RawTextFits
             PROVE  Spec => LogSpec
  OBVIOUS
<1>1. Init => Log!Init /\ DeleterSeesThread
  BY DEF Init, Log!Init, DeleterSeesThread
<1>2. ASSUME IInv, IInv', DeleterSeesThread, [Next]_vars
      PROVE  [Log!Next]_(Log!vars)
  BY <1>2, LogStep
<1>3. QED
  BY <1>1, <1>2, Invariance, DeleterStep, PTL DEF Spec, LogSpec, Log!Spec
=============================================================================
