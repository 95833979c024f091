-------------------------- MODULE KnowledgeBaseProofs --------------------------
(***************************************************************************)
(* Proofs about KnowledgeBase, for finitely many documents and any number of *)
(* chats, owners, conversations and chunks, under every fault.              *)
(*                                                                         *)
(* Uploads and chats share no variable but up, so the invariant has two      *)
(* halves: what is known of a document at each place of its task, and what    *)
(* is known of the stamps of a chat at each place of its request.            *)
(***************************************************************************)
EXTENDS KnowledgeBase, FiniteSetTheorems, TLAPS

\* The vectors of a document are its first chunks: a task inserts them in order,
\* and nothing removes any.
Filled(d) == \E n \in 0 .. Chunks : VectorsOf(d) = {d} \X (1 .. n)

\* What the place of a task says of its row.
Staged(d) ==
  /\ job[d] \in {"none", "registering"} => status[d] = "absent"
  /\ job[d] \in {"reading", "adding", "finishing", "failing"} => status[d] = "processing"
  /\ job[d] = "finishing" => VectorsOf(d) = {d} \X (1 .. Chunks)

DocInv == DocTypeOK /\ (\A d \in Doc : Filled(d) /\ Staged(d)) /\ ReadyIsWhole /\ FilesAreReleased

\* The two messages of a chat are stamped one after the other.
Stamped(c) == stamps[c][2] = stamps[c][1] + 1

\* What is saved is a whole turn of a chat that is over.
Saved(m) == pc[m.chat] = "answered" /\ Stamped(m.chat) /\ m \in Turn(m.chat) /\ Turn(m.chat) \subseteq history

ChatInv ==
  /\ ChatTypeOK
  /\ \A c \in Chat : pc[c] = "saving" => Stamped(c)
  /\ \A m \in history : Saved(m)

IInv == up \in BOOLEAN /\ DocInv /\ ChatInv

-----------------------------------------------------------------------------
(* Sets of chunks.                                                          *)

\* The first n chunks of a document are n.
LEMMA ChunkCount ==
  ASSUME NEW d, NEW n \in Nat
  PROVE  IsFiniteSet({d} \X (1 .. n)) /\ Cardinality({d} \X (1 .. n)) = n
<1>1. IsFiniteSet({d}) /\ Cardinality({d}) = 1
  BY FS_Singleton
<1>2. IsFiniteSet(1 .. n) /\ Cardinality(1 .. n) = n
  <2>1. 1 \in Int /\ n \in Int /\ (IF 1 > n THEN 0 ELSE n - 1 + 1) = n
    OBVIOUS
  <2> QED BY <2>1, FS_Interval
<1>3. IsFiniteSet({d} \X (1 .. n)) /\ Cardinality({d} \X (1 .. n)) = Cardinality({d}) * Cardinality(1 .. n)
  BY <1>1, <1>2, FS_Product
<1> QED BY <1>1, <1>2, <1>3

\* There are finitely many vectors.
LEMMA VectorsFinite == ASSUME NEW S \in SUBSET Vectors PROVE IsFiniteSet(S) /\ Cardinality(S) \in Nat
<1>1. IsFiniteSet(Doc) /\ Chunks \in Int /\ 1 \in Int
  BY OwnersAssumption, SizesAssumption
<1>2. IsFiniteSet(1 .. Chunks)
  BY <1>1, FS_Interval
<1>3. IsFiniteSet(Vectors)
  BY <1>1, <1>2, FS_Product DEF Vectors
<1>4. IsFiniteSet(S)
  BY <1>3, FS_Subset
<1> QED BY <1>4, FS_CardinalityType

\* A document has every chunk in the store exactly when AllAdded says so.
LEMMA WholeWhenAllAdded ==
  ASSUME NEW d, NEW n \in 0 .. Chunks, VectorsOf(d) = {d} \X (1 .. n)
  PROVE  Cardinality(VectorsOf(d)) = n /\ (AllAdded(d) <=> n = Chunks)
<1>1. n \in Nat
  BY SizesAssumption
<1> QED BY <1>1, ChunkCount DEF AllAdded

-----------------------------------------------------------------------------
(* The initial states.                                                      *)

LEMMA InitDoc == Init => DocInv
<1> SUFFICES ASSUME Init PROVE DocInv
  OBVIOUS
<1> USE OwnersAssumption, SizesAssumption
<1>1. DocTypeOK
  BY DEF Init, DocTypeOK, Vectors
<1>2. ASSUME NEW d \in Doc
      PROVE  Filled(d) /\ Staged(d) /\ (status[d] = "ready" => VectorsOf(d) = {d} \X (1 .. Chunks))
  <2>1. CASE d \in Stored
    <3>1. VectorsOf(d) = {d} \X (1 .. Chunks)
      BY <2>1 DEF Init, VectorsOf
    <3> QED BY <2>1, <3>1 DEF Init, Filled, Staged
  <2>2. CASE d \notin Stored
    <3>1. VectorsOf(d) = {d} \X (1 .. 0)
      BY <2>2 DEF Init, VectorsOf
    <3> QED BY <2>2, <3>1 DEF Init, Filled, Staged
  <2> QED BY <2>1, <2>2
<1>3. FilesAreReleased
  BY DEF Init, FilesAreReleased
<1> QED BY <1>1, <1>2, <1>3 DEF DocInv, ReadyIsWhole

LEMMA InitChat == Init => ChatInv
<1> SUFFICES ASSUME Init PROVE ChatInv
  OBVIOUS
<1>1. ChatTypeOK
  BY DEF Init, ChatTypeOK, Message
<1> QED BY <1>1 DEF Init, ChatInv

-----------------------------------------------------------------------------
(* Uploads.                                                                 *)

\* A step that keeps the vectors, the row and the place of the task of a document
\* keeps what is known of it.
LEMMA DocUntouched ==
  ASSUME DocInv, NEW d \in Doc, VectorsOf(d)' = VectorsOf(d), status'[d] = status[d],
         job'[d] = job[d]
  PROVE  Filled(d)' /\ Staged(d)'
BY DEF DocInv, Filled, Staged

\* A step of an upload that inserts no vector.
LEMMA NoVectorStep ==
  ASSUME DocInv, NEW d \in Doc,
         \/ WriteFile(d) \/ Register(d) \/ Read(d) \/ Finish(d) \/ Fail(d) \/ Clean(d)
  PROVE  DocInv'
<1>1. vectors' = vectors
  BY DEF WriteFile, Register, Read, Finish, Fail, Clean
<1>2. \A x : VectorsOf(x)' = VectorsOf(x)
  BY <1>1 DEF VectorsOf
<1>3. DocTypeOK'
  BY <1>1 DEF DocInv, DocTypeOK, WriteFile, Register, Read, Finish, Fail, Clean, JobMoves, Finally, Excuse, FailureStatus
<1>4. \A x \in Doc : x # d => status'[x] = status[x] /\ job'[x] = job[x]
  BY DEF DocInv, DocTypeOK, WriteFile, Register, Read, Finish, Fail, Clean, JobMoves, Finally
<1>5. Filled(d)'
  BY <1>2, SizesAssumption DEF DocInv, Filled
<1>6. Staged(d)' /\ (status'[d] = "ready" => VectorsOf(d) = {d} \X (1 .. Chunks))
  BY <1>2 DEF DocInv, DocTypeOK, Staged, ReadyIsWhole, WriteFile, Register, Read, Finish, Fail, Clean,
              JobMoves, Finally, FailureStatus
<1>7. job'[d] = "done" /\ status'[d] # "absent" /\ d \in file' => excused'[d] \cap {"died", "unremovable"} # {}
  BY DEF DocInv, DocTypeOK, Staged, FilesAreReleased, WriteFile, Register, Read, Finish, Fail, Clean,
         JobMoves, Finally, Excuse
<1>8. \A x \in Doc : x # d => /\ x \in file' <=> x \in file
                              /\ excused'[x] = excused[x]
  BY DEF DocInv, DocTypeOK, WriteFile, Register, Read, Finish, Fail, Clean, Excuse
<1>9. \A x \in Doc : Filled(x)' /\ Staged(x)'
  BY <1>2, <1>4, <1>5, <1>6, DocUntouched
<1>10. ReadyIsWhole'
  BY <1>2, <1>4, <1>6 DEF ReadyIsWhole, DocInv
<1>11. FilesAreReleased'
  <2>1. FilesAreReleased
    BY DEF DocInv
  <2>2. ASSUME NEW x \in Doc, job'[x] = "done", status'[x] # "absent", x \in file'
        PROVE  excused'[x] \cap {"died", "unremovable"} # {}
    <3>1. CASE x = d
      BY <1>7, <2>2, <3>1
    <3>2. CASE x # d
      BY <1>4, <1>8, <2>1, <2>2, <3>2 DEF FilesAreReleased
    <3> QED BY <3>1, <3>2
  <2> QED BY <2>2 DEF FilesAreReleased
<1> QED BY <1>3, <1>9, <1>10, <1>11 DEF DocInv

\* The next chunk is inserted, or the last one was.
LEMMA AddStep ==
  ASSUME DocInv, NEW d \in Doc, Add(d)
  PROVE  DocInv'
<1> USE SizesAssumption
<1>1. PICK n \in 0 .. Chunks : VectorsOf(d) = {d} \X (1 .. n)
  BY DEF DocInv, Filled
<1>2. Cardinality(VectorsOf(d)) = n /\ (AllAdded(d) <=> n = Chunks)
  BY <1>1, WholeWhenAllAdded
<1>3. /\ job[d] = "adding" /\ status' = status /\ file' = file /\ excused' = excused
      /\ \E to \in {"adding", "finishing", "failing"} : job' = [job EXCEPT ![d] = to]
  BY DEF Add, JobMoves
<1>4. status[d] = "processing"
  BY <1>3 DEF DocInv, Staged
<1>5. \A x \in Doc : x # d => VectorsOf(x)' = VectorsOf(x) /\ job'[x] = job[x]
  <2>1. PICK v : vectors' = vectors \/ vectors' = vectors \cup {<<d, v>>}
    BY DEF Add
  <2>2. \A x : x # d => VectorsOf(x)' = VectorsOf(x)
    BY <2>1 DEF VectorsOf
  <2>3. \A x \in Doc : x # d => job'[x] = job[x]
    BY <1>3 DEF DocInv, DocTypeOK
  <2> QED BY <2>2, <2>3
<1>6. CASE vectors' = vectors /\ ~(AllAdded(d) /\ job'[d] = "finishing")
  <2>1. DocTypeOK'
    BY <1>3, <1>6 DEF DocInv, DocTypeOK
  <2>2. job'[d] # "finishing"
    BY <1>3, <1>6 DEF Add, JobMoves, DocInv, DocTypeOK
  <2>3. VectorsOf(d)' = VectorsOf(d)
    BY <1>6 DEF VectorsOf
  <2>4. Filled(d)' /\ Staged(d)'
    BY <1>1, <1>3, <1>4, <2>2, <2>3 DEF Filled, Staged, DocInv, DocTypeOK
  <2> QED BY <1>3, <1>4, <1>5, <2>1, <2>2, <2>3, <2>4, DocUntouched DEF DocInv, ReadyIsWhole, FilesAreReleased, DocTypeOK
<1>7. CASE AllAdded(d) /\ job'[d] = "finishing" /\ vectors' = vectors
  <2>1. DocTypeOK'
    BY <1>3, <1>7 DEF DocInv, DocTypeOK
  <2>2. VectorsOf(d)' = {d} \X (1 .. Chunks)
    BY <1>1, <1>2, <1>7 DEF VectorsOf
  <2>3. Filled(d)' /\ Staged(d)'
    BY <1>3, <1>4, <1>7, <2>2 DEF Filled, Staged
  <2> QED BY <1>3, <1>4, <1>5, <1>7, <2>1, <2>3, DocUntouched DEF DocInv, ReadyIsWhole, FilesAreReleased, DocTypeOK
<1>8. CASE ~AllAdded(d) /\ job' = [job EXCEPT ![d] = "adding"] /\ vectors' = vectors \cup {<<d, n + 1>>}
  <2>1. n + 1 \in 1 .. Chunks
    BY <1>2, <1>8
  <2>2. DocTypeOK'
    BY <1>3, <1>8, <2>1 DEF DocInv, DocTypeOK, Vectors
  <2>3. VectorsOf(d)' = VectorsOf(d) \cup {<<d, n + 1>>}
    BY <1>8 DEF VectorsOf
  <2>4. VectorsOf(d)' = {d} \X (1 .. n + 1)
    BY <1>1, <2>1, <2>3
  <2>5. Filled(d)' /\ Staged(d)'
    BY <1>3, <1>4, <1>8, <2>1, <2>4 DEF Filled, Staged, DocInv, DocTypeOK
  <2> QED BY <1>3, <1>4, <1>5, <1>8, <2>2, <2>5, DocUntouched DEF DocInv, ReadyIsWhole, FilesAreReleased, DocTypeOK
<1> QED BY <1>2, <1>6, <1>7, <1>8 DEF Add, JobMoves, DocInv, DocTypeOK

\* The tasks die; their files stay behind, which is on record.
LEMMA CrashDoc == ASSUME DocInv, Crash PROVE DocInv'
<1>1. \A x : VectorsOf(x)' = VectorsOf(x)
  BY DEF Crash, VectorsOf
<1>2. DocTypeOK'
  BY DEF DocInv, DocTypeOK, Crash, Running
<1>3. ASSUME NEW d \in Doc PROVE Filled(d)' /\ Staged(d)'
  BY <1>1 DEF DocInv, DocTypeOK, Filled, Staged, Crash, Running
<1>4. ReadyIsWhole'
  BY <1>1 DEF DocInv, ReadyIsWhole, Crash
<1>5. FilesAreReleased'
  BY DEF DocInv, DocTypeOK, FilesAreReleased, Crash, Running
<1> QED BY <1>2, <1>3, <1>4, <1>5 DEF DocInv

LEMMA DocUnchanged == ASSUME DocInv, UNCHANGED docVars PROVE DocInv'
<1>1. \A x : VectorsOf(x)' = VectorsOf(x)
  BY DEF docVars, VectorsOf
<1>2. DocTypeOK' /\ ReadyIsWhole' /\ FilesAreReleased'
  BY <1>1 DEF DocInv, DocTypeOK, ReadyIsWhole, FilesAreReleased, docVars
<1>3. \A d \in Doc : Filled(d)' /\ Staged(d)'
  BY <1>1, DocUntouched DEF docVars
<1> QED BY <1>2, <1>3 DEF DocInv

-----------------------------------------------------------------------------
(* Chats.                                                                   *)

\* A step of a chat that is still at work and neither stamps nor saves.
LEMMA QuietChat ==
  ASSUME ChatInv, NEW c \in Chat, pc[c] # "answered", UNCHANGED <<stamps, history>>, ChatTypeOK',
         NEW to, to \notin {"saving", "answered"}, pc' = [pc EXCEPT ![c] = to]
  PROVE  ChatInv'
<1>1. pc \in [Chat -> {"none", "remembering", "retrieving", "citing", "asking", "saving", "answered", "failed"}]
  BY DEF ChatInv, ChatTypeOK
<1>2. \A x \in Chat : Stamped(x)' <=> Stamped(x)
  BY DEF Stamped
<1>3. \A x \in Chat : pc'[x] = "saving" => pc[x] = "saving"
  BY <1>1
<1>4. ASSUME NEW m \in history PROVE Saved(m)'
  <2>1. Saved(m) /\ m.chat \in Chat
    BY DEF ChatInv, ChatTypeOK, Message
  <2>2. pc'[m.chat] = "answered"
    BY <1>1, <2>1 DEF Saved
  <2> QED BY <1>2, <2>1, <2>2 DEF Saved, Turn
<1> QED BY <1>2, <1>3, <1>4 DEF ChatInv

LEMMA ReadHistoryStep == ASSUME ChatInv, NEW c \in Chat, ReadHistory(c) PROVE ChatInv'
<1>1. Newest(OfOwner(c)) \subseteq Message
  BY DEF Newest, OfOwner, OfConversation, ChatInv, ChatTypeOK
<1>2. ChatTypeOK'
  BY <1>1 DEF ReadHistory, ChatMoves, ChatInv, ChatTypeOK
<1> QED BY <1>2, QuietChat DEF ReadHistory, ChatMoves

LEMMA RememberStep == ASSUME ChatInv, NEW c \in Chat, Remember(c) PROVE ChatInv'
<1>1. ChatTypeOK'
  BY DEF Remember, ChatMoves, ChatInv, ChatTypeOK
<1> QED BY <1>1, QuietChat DEF Remember, ChatMoves

LEMMA RetrieveStep == ASSUME ChatInv, vectors \subseteq Vectors, NEW c \in Chat, Retrieve(c) PROVE ChatInv'
<1>1. OwnVectors(c) \subseteq Vectors
  BY DEF OwnVectors
<1>2. Cardinality(OwnVectors(c)) \in Nat /\ K \in Nat
  BY <1>1, VectorsFinite, SizesAssumption
<1>3. CASE \E n \in Nat : \E s \in [1 .. n -> OwnVectors(c)] :
               hits' = [hits EXCEPT ![c] = s] /\ pc' = [pc EXCEPT ![c] = "citing"]
  <2> PICK n \in Nat : \E s \in [1 .. n -> OwnVectors(c)] :
               hits' = [hits EXCEPT ![c] = s] /\ pc' = [pc EXCEPT ![c] = "citing"]
    BY <1>3
  <2> PICK s \in [1 .. n -> OwnVectors(c)] :
               hits' = [hits EXCEPT ![c] = s] /\ pc' = [pc EXCEPT ![c] = "citing"]
    OBVIOUS
  <2>1. s \in Seq(Vectors)
    BY <1>1
  <2>2. ChatTypeOK'
    BY <2>1 DEF Retrieve, ChatInv, ChatTypeOK
  <2> QED BY <2>2, QuietChat DEF Retrieve, ChatMoves
<1>4. CASE hits' = hits /\ pc' = [pc EXCEPT ![c] = "failed"]
  <2>1. ChatTypeOK'
    BY <1>4 DEF Retrieve, ChatInv, ChatTypeOK
  <2> QED BY <1>4, <2>1, QuietChat DEF Retrieve, ChatMoves
<1> QED BY <1>2, <1>3, <1>4 DEF Retrieve, ChatMoves

LEMMA CiteStep == ASSUME ChatInv, NEW c \in Chat, Cite(c) PROVE ChatInv'
<1>1. hits[c] \in Seq(Vectors)
  BY DEF ChatInv, ChatTypeOK
<1>2. {<<d, Quoted(c, d)>> : d \in DocsOf(hits[c])} \subseteq Doc \X Vectors
  <2>1. ASSUME NEW i \in DOMAIN hits[c]
        PROVE  hits[c][i][1] \in Doc /\ hits[c][Len(hits[c])] \in Vectors
    <3>1. i \in 1 .. Len(hits[c]) /\ Len(hits[c]) \in 1 .. Len(hits[c])
      BY <1>1, <2>1
    <3>2. hits[c][i] \in Vectors /\ hits[c][Len(hits[c])] \in Vectors
      BY <1>1, <3>1
    <3> QED BY <3>2 DEF Vectors
  <2> QED BY <2>1 DEF DocsOf, Quoted
<1>3. pc[c] = "citing" /\ UNCHANGED <<from, seen, hits, stamps, history, clock, arrived>>
  BY DEF Cite, ChatMoves
<1>4. cited' \in [Chat -> SUBSET (Doc \X Vectors)]
  BY <1>2 DEF Cite, ChatInv, ChatTypeOK
<1>5. PICK to \in {"asking", "failed"} : pc' = [pc EXCEPT ![c] = to]
  BY DEF Cite, ChatMoves
<1>6. ChatTypeOK'
  BY <1>3, <1>4, <1>5 DEF ChatInv, ChatTypeOK
<1> QED BY <1>3, <1>5, <1>6, QuietChat

\* Both stamps are new, and no message of the chat is saved yet.
LEMMA AnswerStep == ASSUME ChatInv, NEW c \in Chat, Answer(c) PROVE ChatInv'
<1>1. ChatTypeOK'
  <2>1. <<clock + 1, clock + 2>> \in Nat \X Nat /\ clock + 2 \in Nat
    BY DEF ChatInv, ChatTypeOK
  <2>2. stamps' \in [Chat -> Nat \X Nat] /\ clock' \in Nat
    BY <2>1 DEF Answer, WhenAnswered, ChatInv, ChatTypeOK
  <2> QED BY <2>2 DEF Answer, ChatMoves, ChatInv, ChatTypeOK
<1>2. CASE UNCHANGED <<stamps, history>> /\ pc' = [pc EXCEPT ![c] = "failed"]
  BY <1>1, <1>2, QuietChat DEF Answer, ChatMoves
<1>3. CASE stamps' = [stamps EXCEPT ![c] = <<clock + 1, clock + 2>>] /\ pc' = [pc EXCEPT ![c] = "saving"]
  <2>1. clock \in Nat /\ stamps \in [Chat -> Nat \X Nat] /\ pc[c] = "asking" /\ history' = history
    BY <1>3 DEF Answer, ChatMoves, ChatInv, ChatTypeOK
  <2>2. Stamped(c)'
    BY <1>3, <2>1 DEF Stamped
  <2>3. \A x \in Chat : x # c => pc'[x] = pc[x] /\ stamps'[x] = stamps[x]
    BY <1>3, <2>1 DEF ChatInv, ChatTypeOK
  <2>4. ASSUME NEW m \in history PROVE Saved(m)'
    <3>1. Saved(m) /\ m.chat \in Chat
      BY DEF ChatInv, ChatTypeOK, Message
    <3>2. m.chat # c
      BY <2>1, <3>1 DEF Saved
    <3> QED BY <2>1, <2>3, <3>1, <3>2 DEF Saved, Stamped, Turn
  <2>5. \A x \in Chat : pc'[x] = "saving" => Stamped(x)'
    BY <2>2, <2>3 DEF ChatInv, Stamped
  <2> QED BY <1>1, <2>1, <2>4, <2>5 DEF ChatInv
<1> QED BY <1>2, <1>3 DEF Answer, ChatMoves, WhenAnswered

LEMMA SaveStep == ASSUME ChatInv, NEW c \in Chat, Save(c) PROVE ChatInv'
<1>1. Turn(c) \subseteq Message
  BY DEF Turn, Message, ChatInv, ChatTypeOK
<1>2. ChatTypeOK'
  <2>1. history' \subseteq Message
    BY <1>1 DEF Save, ChatInv, ChatTypeOK
  <2>2. << >> \in Seq(Vectors) /\ {} \in SUBSET (Doc \X Vectors)
    OBVIOUS
  <2>3. hits' \in [Chat -> Seq(Vectors)] /\ cited' \in [Chat -> SUBSET (Doc \X Vectors)]
    BY <2>2 DEF Save, ChatInv, ChatTypeOK
  <2> QED BY <2>1, <2>3 DEF Save, ChatMoves, ChatInv, ChatTypeOK
<1>3. CASE history' = history /\ pc' = [pc EXCEPT ![c] = "failed"]
  BY <1>2, <1>3, QuietChat DEF Save, ChatMoves
<1>4. CASE history' = history \cup Turn(c) /\ pc' = [pc EXCEPT ![c] = "answered"]
  <2>1. pc[c] = "saving" /\ stamps' = stamps
    BY DEF Save, ChatMoves
  <2>2. pc'[c] = "answered" /\ Stamped(c) /\ \A x \in Chat : x # c => pc'[x] = pc[x]
    BY <1>4, <2>1 DEF ChatInv, ChatTypeOK
  <2>3. ASSUME NEW m \in history PROVE Saved(m)'
    <3>1. Saved(m) /\ m.chat \in Chat
      BY DEF ChatInv, ChatTypeOK, Message
    <3>2. m.chat # c
      BY <2>1, <3>1 DEF Saved
    <3> QED BY <1>4, <2>1, <2>2, <3>1, <3>2 DEF Saved, Stamped, Turn
  <2>4. ASSUME NEW m \in Turn(c) PROVE Saved(m)'
    <3>1. m.chat = c
      BY DEF Turn
    <3> QED BY <1>4, <2>1, <2>2, <3>1 DEF Saved, Stamped, Turn
  <2>5. \A x \in Chat : pc'[x] = "saving" => Stamped(x)'
    BY <2>1, <2>2 DEF ChatInv, Stamped
  <2> QED BY <1>2, <1>4, <2>3, <2>4, <2>5 DEF ChatInv
<1> QED BY <1>3, <1>4 DEF Save, ChatMoves

LEMMA CrashChat == ASSUME ChatInv, Crash PROVE ChatInv'
<1>1. ChatTypeOK'
  BY DEF Crash, Chatting, ChatInv, ChatTypeOK
<1>2. stamps' = stamps /\ history' = history
  BY DEF Crash
<1>3. \A x \in Chat : pc'[x] # "saving" /\ (pc[x] = "answered" => pc'[x] = "answered")
  BY DEF Crash, Chatting, ChatInv, ChatTypeOK
<1>4. ASSUME NEW m \in history PROVE Saved(m)'
  <2>1. Saved(m) /\ m.chat \in Chat
    BY DEF ChatInv, ChatTypeOK, Message
  <2> QED BY <1>2, <1>3, <2>1 DEF Saved, Stamped, Turn
<1> QED BY <1>1, <1>2, <1>3, <1>4 DEF ChatInv

LEMMA ChatUnchanged == ASSUME ChatInv, UNCHANGED chatVars PROVE ChatInv'
BY DEF chatVars, ChatInv, ChatTypeOK, Stamped, Saved, Turn

-----------------------------------------------------------------------------
(* The theorems.                                                            *)

LEMMA Step == IInv /\ [Next]_vars => IInv'
<1> SUFFICES ASSUME IInv, [Next]_vars PROVE IInv'
  OBVIOUS
<1>1. ASSUME NEW d \in Doc, WriteFile(d) \/ JobStep(d) PROVE IInv'
  <2>1. up' \in BOOLEAN /\ UNCHANGED chatVars
    BY <1>1 DEF IInv, JobStep, WriteFile, Register, Read, Add, Finish, Fail, Clean
  <2>2. DocInv'
    BY <1>1, NoVectorStep, AddStep DEF IInv, JobStep
  <2> QED BY <2>1, <2>2, ChatUnchanged DEF IInv
<1>2. ASSUME NEW c \in Chat, ReadHistory(c) \/ ChatStep(c) PROVE IInv'
  <2>1. up' \in BOOLEAN /\ UNCHANGED docVars
    BY <1>2 DEF IInv, ChatStep, ReadHistory, Remember, Retrieve, Cite, Answer, Save
  <2>2. vectors \subseteq Vectors
    BY DEF IInv, DocInv, DocTypeOK
  <2>3. ChatInv'
    BY <1>2, <2>2, ReadHistoryStep, RememberStep, RetrieveStep, CiteStep, AnswerStep, SaveStep
       DEF IInv, ChatStep
  <2> QED BY <2>1, <2>3, DocUnchanged DEF IInv
<1>3. CASE Crash
  BY <1>3, CrashDoc, CrashChat DEF IInv, Crash
<1>4. CASE Restart
  BY <1>4, DocUnchanged, ChatUnchanged DEF IInv, Restart
<1>5. CASE UNCHANGED vars
  <2>1. up' = up /\ UNCHANGED docVars /\ UNCHANGED chatVars
    BY <1>5 DEF vars
  <2> QED BY <2>1, DocUnchanged, ChatUnchanged DEF IInv
<1> QED BY <1>1, <1>2, <1>3, <1>4, <1>5 DEF Next

\* Every reachable state satisfies the invariant of both halves.
THEOREM Invariance == Spec => []IInv
<1>1. Init => IInv
  BY InitDoc, InitChat DEF IInv, Init
<1> QED BY <1>1, Step, PTL DEF Spec

\* Every variable keeps its type: among others, no chunk is inserted behind the
\* last one.
THEOREM TypeCorrect == Spec => []TypeOK
<1>1. IInv => TypeOK
  BY DEF IInv, DocInv, ChatInv, TypeOK
<1> QED BY <1>1, Invariance, PTL

\* A document that is ready has all of its vectors, for any number of chunks,
\* whatever fails and whenever the process dies.
THEOREM ReadyCorrect == Spec => []ReadyIsWhole
<1>1. IInv => ReadyIsWhole
  BY DEF IInv, DocInv
<1> QED BY <1>1, Invariance, PTL

\* Whatever fails, the refusal of the failure itself included, an upload that got
\* a row gives its temporary file back, unless its task died with the process or
\* the file could not be removed (the finally of bg_ingestion_wrapper).
THEOREM FilesCorrect == Spec => []FilesAreReleased
<1>1. IInv => FilesAreReleased
  BY DEF IInv, DocInv
<1> QED BY <1>1, Invariance, PTL

\* However many chats of a conversation overlap, the answer directly follows its
\* question: the stamps of a turn have no room for another message.
THEOREM TurnsCorrect == Spec => []TurnsStayWhole
<1>1. ASSUME IInv PROVE TurnsStayWhole
  <2>1. SUFFICES ASSUME NEW m \in history, m.role = "human"
                 PROVE  \E n \in history : /\ n.chat = m.chat /\ n.role = "ai" /\ m.at < n.at
                                           /\ \A o \in OfOwner(m.chat) : ~(m.at < o.at /\ o.at < n.at)
    BY DEF TurnsStayWhole
  <2>2. Saved(m) /\ m.chat \in Chat /\ history \subseteq Message /\ stamps \in [Chat -> Nat \X Nat]
    BY <1>1, <2>1 DEF IInv, ChatInv, ChatTypeOK, Message
  <2> DEFINE n == [chat |-> m.chat, role |-> "ai", at |-> stamps[m.chat][2]]
  <2>3. n \in history /\ n.chat = m.chat /\ n.role = "ai" /\ n.at = stamps[m.chat][2]
    BY <2>2 DEF Saved, Turn
  <2>4. m.at = stamps[m.chat][1] /\ m.at \in Nat /\ n.at = m.at + 1
    BY <2>1, <2>2, <2>3 DEF Saved, Turn, Stamped
  <2>5. \A o \in OfOwner(m.chat) : o.at \in Nat
    BY <2>2 DEF OfOwner, OfConversation, Message
  <2>6. m.at < n.at /\ \A o \in OfOwner(m.chat) : ~(m.at < o.at /\ o.at < n.at)
    BY <2>4, <2>5
  <2> QED BY <2>3, <2>6
<1> QED BY <1>1, Invariance, PTL
=============================================================================
