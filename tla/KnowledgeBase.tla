---------------------------- MODULE KnowledgeBase ----------------------------
(***************************************************************************)
(* The KB microservice: uploads that a background task of the same process    *)
(* turns into vectors, the status of a document, and chats grounded in the     *)
(* vectors of their owner.  It shares nothing with the registry of documents   *)
(* but the database server.  All of it runs on one event loop, so a step is     *)
(* what happens between two awaits.                                          *)
(*                                                                         *)
(* A chat is one POST /kb/chat.  The vectors and the model are external: the    *)
(* store returns some K chunks of the owner, in some order.  aadd_documents     *)
(* inserts row by row, so a failure may leave some of a document's chunks.     *)
(***************************************************************************)
EXTENDS Naturals, Sequences, FiniteSets

CONSTANTS Doc, Chat, Owner, Conversation,
          DocOwner,     \* the owner_id of an upload
          Stored,       \* documents ingested before the start
          Chunks,       \* chunks of a document
          K,            \* chunks the retriever returns
          Window,       \* messages of history read, 10 in the code
          Faults        \* what may go wrong in this instance

Message == [chat : Chat, role : {"human", "ai"}, at : Nat]
Vectors == Doc \X (1 .. Chunks)

ASSUME OwnersAssumption == DocOwner \in [Doc -> Owner] /\ Stored \subseteq Doc /\ IsFiniteSet(Doc)
ASSUME SizesAssumption == {Chunks, K, Window} \subseteq Nat \ {0}
ASSUME FaultsAssumption ==
         Faults \subseteq {"writeFails", "databaseFails", "readFails", "addFails", "unlinkFails",
                           "searchFails", "modelFails", "crash"}

VARIABLES
  up,         \* the process runs
  file,       \* documents with a temporary file
  status,     \* kb_documents.status, "absent" without a row
  vectors,    \* kb_vectors: <<document, chunk>>
  job,        \* where the upload of a document, and then its task, is
  pc,         \* where a chat is
  from,       \* whose it is, and of which conversation
  seen,       \* the history it read
  hits,       \* the chunks it retrieved
  cited,      \* sources: document and the chunk quoted for it
  stamps,     \* created_at of its two messages, once it has the answer
  history,    \* kb_chat_history
  clock,      \* the time of day
  arrived,    \* when the chat came in (history)
  excused     \* what kept the task of a document from its end: it died, its outcome
              \* could not be written, its file could not be removed (history)

docVars == <<file, status, vectors, job, excused>>
chatVars == <<pc, from, seen, hits, cited, stamps, history, clock, arrived>>
vars == <<up, docVars, chatVars>>

Fault(f) == f \in Faults

Init ==
  /\ up = TRUE /\ file = {} /\ vectors = Stored \X (1 .. Chunks)
  /\ excused = [d \in Doc |-> {}]
  /\ status = [d \in Doc |-> IF d \in Stored THEN "ready" ELSE "absent"]
  /\ job = [d \in Doc |-> IF d \in Stored THEN "done" ELSE "none"]
  /\ pc = [c \in Chat |-> "none"]
  /\ from \in [Chat -> [owner : Owner, conversation : Conversation]]
  /\ seen = [c \in Chat |-> {}]
  /\ hits = [c \in Chat |-> << >>] /\ cited = [c \in Chat |-> {}]
  /\ stamps = [c \in Chat |-> <<0, 0>>] /\ arrived = [c \in Chat |-> 0]
  /\ history = {} /\ clock = 0

Excuse(d, reason) == excused' = [excused EXCEPT ![d] = @ \cup {reason}]

-----------------------------------------------------------------------------
(* Uploads.                                                                 *)

JobMoves(d, old, to) == up /\ job[d] = old /\ job' = [job EXCEPT ![d] = to]

\* The temporary file; if it cannot be written nothing else is done.
WriteFile(d) ==
  /\ \/ JobMoves(d, "none", "registering") /\ file' = file \cup {d}
     \/ Fault("writeFails") /\ JobMoves(d, "none", "done") /\ file' \in {file, file \cup {d}}
  /\ UNCHANGED <<up, status, vectors, excused, chatVars>>

\* The row is committed as processing, and the task is added; a failed commit
\* leaves the file behind.
Register(d) ==
  /\ \/ JobMoves(d, "registering", "reading") /\ status' = [status EXCEPT ![d] = "processing"]
     \/ Fault("databaseFails") /\ JobMoves(d, "registering", "done") /\ UNCHANGED status
  /\ UNCHANGED <<up, file, vectors, excused, chatVars>>

\* Loading, splitting and preparing the table.
Read(d) ==
  /\ \/ JobMoves(d, "reading", "adding")
     \/ Fault("readFails") /\ JobMoves(d, "reading", "failing")
  /\ UNCHANGED <<up, file, status, vectors, excused, chatVars>>

VectorsOf(d) == {v \in vectors : v[1] = d}

\* When ingest_document takes its vectors for complete.  (Slip: after the first.)
OneAdded(d) == VectorsOf(d) # {}
AllAdded(d) == Cardinality(VectorsOf(d)) = Chunks

Add(d) ==
  /\ \/ /\ ~AllAdded(d) /\ JobMoves(d, "adding", "adding")
        /\ vectors' = vectors \cup {<<d, Cardinality(VectorsOf(d)) + 1>>}
     \/ AllAdded(d) /\ JobMoves(d, "adding", "finishing") /\ UNCHANGED vectors
     \/ Fault("addFails") /\ JobMoves(d, "adding", "failing") /\ UNCHANGED vectors
  /\ UNCHANGED <<up, file, status, excused, chatVars>>

\* If READY cannot be written that is one more exception; when it was the commit
\* that failed, the session refuses what Fail asks of it too.
Finish(d) ==
  /\ \/ JobMoves(d, "finishing", "cleaning") /\ status' = [status EXCEPT ![d] = "ready"]
     \/ Fault("databaseFails") /\ JobMoves(d, "finishing", "failing") /\ UNCHANGED status
  /\ UNCHANGED <<up, file, vectors, excused, chatVars>>

\* What the except branch leaves in the row.  (Slips: nothing, a status
\* the row never has.)
Untouched == "processing"
OtherStatus == "error"
FailureStatus == "failed"

\* If the database refuses that, the exception leaves the except branch.
\* (Slip: and the task with it, as without a finally.)
Leaving == "done"
Finally == "cleaning"

Fail(d) ==
  /\ \/ /\ JobMoves(d, "failing", "cleaning")
        /\ status' = [status EXCEPT ![d] = FailureStatus]
        /\ UNCHANGED excused
     \/ /\ Fault("databaseFails") /\ JobMoves(d, "failing", Finally)
        /\ Excuse(d, "unwritten") /\ UNCHANGED status
  /\ UNCHANGED <<up, file, vectors, chatVars>>

\* The finally branch of bg_ingestion_wrapper, whatever became of the task.
Clean(d) ==
  /\ JobMoves(d, "cleaning", "done")
  /\ \/ file' = file \ {d} /\ UNCHANGED excused
     \/ Fault("unlinkFails") /\ Excuse(d, "unremovable") /\ UNCHANGED file
  /\ UNCHANGED <<up, status, vectors, chatVars>>

-----------------------------------------------------------------------------
(* Chats.                                                                   *)

ChatMoves(c, old, to) == up /\ pc[c] = old /\ pc' = [pc EXCEPT ![c] = to]

\* The messages of the conversation and its owner.
OfConversation(c) == {m \in history : from[m.chat].conversation = from[c].conversation}
OfOwner(c) == {m \in OfConversation(c) : from[m.chat].owner = from[c].owner}

Newest(S) == {m \in S : Cardinality({n \in S : n.at > m.at}) < Window}

\* The newest messages of the conversation.
ReadHistory(c) ==
  /\ ChatMoves(c, "none", "remembering")
  /\ seen' = [seen EXCEPT ![c] = Newest(OfOwner(c))]
  /\ clock' = clock + 1 /\ arrived' = [arrived EXCEPT ![c] = clock + 1]
  /\ UNCHANGED <<up, docVars, from, hits, cited, stamps, history>>

\* Messages are handed to a chat_memory that has no such method: with any
\* history the request ends here, with 500.
Remember(c) ==
  /\ ChatMoves(c, "remembering", IF seen[c] = {} THEN "retrieving" ELSE "failed")
  /\ UNCHANGED <<up, docVars, from, seen, hits, cited, stamps, history, clock, arrived>>

OwnVectors(c) == {v \in vectors : DocOwner[v[1]] = from[c].owner}
DocsOf(s) == {s[i][1] : i \in DOMAIN s}

\* K chunks of the owner, whatever the status of their documents; building the
\* retriever or searching may fail the request.
Retrieve(c) ==
  LET n == IF Cardinality(OwnVectors(c)) < K THEN Cardinality(OwnVectors(c)) ELSE K
  IN /\ \/ /\ ChatMoves(c, "retrieving", "citing")
           /\ \E s \in [1 .. n -> OwnVectors(c)] :
                /\ \A i, j \in 1 .. n : s[i] = s[j] => i = j
                /\ hits' = [hits EXCEPT ![c] = s]
        \/ Fault("searchFails") /\ ChatMoves(c, "retrieving", "failed") /\ UNCHANGED hits
     /\ UNCHANGED <<up, docVars, from, seen, cited, stamps, history, clock, arrived>>

\* One source for each document, quoting a chunk: the variable of the first
\* loop, which is the last chunk retrieved.  The names of the documents are looked
\* up in their rows.
Quoted(c, d) == hits[c][Len(hits[c])]

Cite(c) ==
  /\ \/ /\ ChatMoves(c, "citing", "asking")
        /\ cited' = [cited EXCEPT ![c] = {<<d, Quoted(c, d)>> : d \in DocsOf(hits[c])}]
     \/ Fault("databaseFails") /\ ChatMoves(c, "citing", "failed") /\ UNCHANGED cited
  /\ UNCHANGED <<up, docVars, from, seen, hits, stamps, history, clock, arrived>>

\* created_at of the question.  (Slip: when it was asked.)
WhenAsked(c) == arrived[c]
WhenAnswered(c) == clock + 1

\* The answer is there: both messages are stamped with no await in between.
Answer(c) ==
  /\ \/ /\ ChatMoves(c, "asking", "saving")
        /\ stamps' = [stamps EXCEPT ![c] = <<WhenAnswered(c), clock + 2>>]
        /\ clock' = clock + 2
     \/ Fault("modelFails") /\ ChatMoves(c, "asking", "failed") /\ UNCHANGED <<stamps, clock>>
  /\ UNCHANGED <<up, docVars, from, seen, hits, cited, history, arrived>>

Turn(c) == {[chat |-> c, role |-> "human", at |-> stamps[c][1]],
            [chat |-> c, role |-> "ai", at |-> stamps[c][2]]}

\* One commit for both; the request is over.
Save(c) ==
  /\ \/ ChatMoves(c, "saving", "answered") /\ history' = history \cup Turn(c)
     \/ Fault("databaseFails") /\ ChatMoves(c, "saving", "failed") /\ UNCHANGED history
  /\ hits' = [hits EXCEPT ![c] = << >>] /\ cited' = [cited EXCEPT ![c] = {}]
  /\ UNCHANGED <<up, docVars, from, seen, stamps, clock, arrived>>

-----------------------------------------------------------------------------
Running(d) == job[d] \notin {"none", "done"}
Chatting(c) == pc[c] \notin {"none", "answered", "failed"}

\* The process dies with its tasks; nothing takes them up again.
Crash ==
  /\ Fault("crash") /\ up /\ up' = FALSE
  /\ job' = [d \in Doc |-> IF Running(d) THEN "done" ELSE job[d]]
  /\ pc' = [c \in Chat |-> IF Chatting(c) THEN "failed" ELSE pc[c]]
  /\ excused' = [d \in Doc |-> IF Running(d) THEN excused[d] \cup {"died"} ELSE excused[d]]
  /\ UNCHANGED <<file, status, vectors, from, seen, hits, cited, stamps, history, clock, arrived>>

Restart == ~up /\ up' = TRUE /\ UNCHANGED <<docVars, chatVars>>

JobStep(d) == Register(d) \/ Read(d) \/ Add(d) \/ Finish(d) \/ Fail(d) \/ Clean(d)
ChatStep(c) == Remember(c) \/ Retrieve(c) \/ Cite(c) \/ Answer(c) \/ Save(c)

Next == \/ \E d \in Doc : WriteFile(d) \/ JobStep(d)
        \/ \E c \in Chat : ReadHistory(c) \/ ChatStep(c)
        \/ Crash \/ Restart

Spec == Init /\ [][Next]_vars

\* The event loop gives every task its turn.
FairSpec == Spec /\ \A d \in Doc : WF_vars(JobStep(d))

-----------------------------------------------------------------------------
(* Properties.                                                              *)

DocTypeOK ==
  /\ file \subseteq Doc /\ vectors \subseteq Vectors
  /\ excused \in [Doc -> SUBSET {"died", "unwritten", "unremovable"}]
  /\ status \in [Doc -> {"absent", "processing", "ready", "failed"}]
  /\ job \in [Doc -> {"none", "registering", "reading", "adding", "finishing", "failing",
                      "cleaning", "done"}]

ChatTypeOK ==
  /\ pc \in [Chat -> {"none", "remembering", "retrieving", "citing", "asking", "saving",
                      "answered", "failed"}]
  /\ from \in [Chat -> [owner : Owner, conversation : Conversation]]
  /\ seen \in [Chat -> SUBSET Message] /\ hits \in [Chat -> Seq(Vectors)]
  /\ cited \in [Chat -> SUBSET (Doc \X Vectors)]
  /\ stamps \in [Chat -> Nat \X Nat] /\ arrived \in [Chat -> Nat]
  /\ history \subseteq Message /\ clock \in Nat

\* Every variable has its type.
TypeOK == up \in BOOLEAN /\ DocTypeOK /\ ChatTypeOK

\* A document that is ready has every chunk in the store, whatever failed, and
\* keeps it.
ReadyIsWhole == \A d \in Doc : status[d] = "ready" => VectorsOf(d) = {d} \X (1 .. Chunks)

\* In the order of created_at every question is directly followed by its answer,
\* though the chats of a conversation overlap: no reader sees half a turn.
TurnsStayWhole ==
  \A m \in history : m.role = "human" =>
    \E n \in history : /\ n.chat = m.chat /\ n.role = "ai" /\ m.at < n.at
                       /\ \A o \in OfOwner(m.chat) : ~(m.at < o.at /\ o.at < n.at)

\* The task of an upload ends with an outcome in the row, unless it died or the
\* database refused even the failure.
Settles ==
  \A d \in Doc : (status[d] = "processing")
               ~> (status[d] \in {"ready", "failed"} \/ excused[d] \cap {"died", "unwritten"} # {})

\* Short of a crash and of a file that cannot be removed, every upload that got
\* a row gives its temporary file back: also when the exception leaves the except
\* branch because the database refuses the failure.
FilesAreReleased ==
  \A d \in Doc : job[d] = "done" /\ status[d] # "absent" /\ d \in file
                 => excused[d] \cap {"died", "unremovable"} # {}

-----------------------------------------------------------------------------
(* What the documentation says and the code does not do.                    *)

\* "To verify memory, send a follow-up in the same conversation_id ... The model
\* will reference the previous exchange": short of a fault a chat is answered.
FollowUpAnswered == \A c \in Chat : pc[c] # "failed"

\* A source quotes the document it names.
SourceQuotesItself == \A c \in Chat : \A s \in cited[c] : s[2][1] = s[1]
=============================================================================
