----------------------------- MODULE MCRetrieval -----------------------------
(* Instances of Retrieval for TLC.                                          *)
EXTENDS Retrieval, TLC

CONSTANTS a1, a2, a3, b, t1, o1, o2

\* Two or three documents of one org unit and one of another.
MCChunk == {<<d, n>> \in Doc \X {1, 2} : n = 2 => d = a1}
MCDocOf == [c \in MCChunk |-> c[1]]
MCHome == [d \in Doc |-> [tenant |-> t1, org |-> IF d = b THEN o2 ELSE o1]]

\* The ranking in which the given chunks come first, and the others all alike.
Ranks(order) == [c \in MCChunk |-> IF \E i \in DOMAIN order : order[i] = c
                                   THEN CHOOSE i \in DOMAIN order : order[i] = c ELSE 9]
Up == Ranks(<<<<a1, 1>>, <<a2, 1>>, <<b, 1>>, <<a1, 2>>>>)
Down == Ranks(<<<<a1, 2>>, <<b, 1>>, <<a2, 1>>>>)
Aside == Ranks(<<<<b, 1>>, <<a2, 1>>>>)

\* A text shares a term with the chunks that its sparse ranking names.
Ranked(dense, sparse) == [rank |-> [l \in Legs |-> IF l = "dense" THEN dense ELSE sparse],
                          shares |-> {c \in MCChunk : sparse[c] < 9}]

Chat(only, texts, judge) ==
  [kind |-> "chat", tenant |-> t1, org |-> o1, orgs |-> {}, only |-> only, mode |-> "hybrid",
   rerank |-> TRUE, texts |-> texts, judge |-> judge]
Api(orgs, mode, rerank) ==
  [Chat({}, <<Ranked(Up, Aside)>>, Aside) EXCEPT !.kind = "search", !.orgs = orgs, !.mode = mode,
                                                 !.rerank = rerank]

MCQuestions ==
  {Chat({}, <<Ranked(Up, Down), Ranked(Aside, Up)>>, Down),
   [Chat({}, <<Ranked(Down, Down), Ranked(Up, Up)>>, Aside) EXCEPT !.kind = "image"],
   [Api({}, "semantic", TRUE) EXCEPT !.only = {a1}], Api({o1, o2}, "keyword", FALSE),
   Api({}, "keyword", TRUE)}
OneQuestion == {Chat({}, <<Ranked(Up, Aside)>>, Down)}
=============================================================================
