--------------------------- MODULE MCKnowledgeBase ---------------------------
(* Instances of KnowledgeBase for TLC.                                      *)
EXTENDS KnowledgeBase, TLC

CONSTANTS u1, u2, d1, d2

\* A document of each owner.
MCDocOwner == [d \in Doc |-> IF d = d1 THEN u1 ELSE u2]
=============================================================================
