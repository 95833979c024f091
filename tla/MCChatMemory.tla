---------------------------- MODULE MCChatMemory ----------------------------
(* Instances of ChatMemory for TLC: where the turns are served.             *)
EXTENDS ChatMemory, TLC

CONSTANTS p1, p2

\* uvicorn --workers 1: the deployment the lock is sufficient for.
OneProcess == [t \in Turn |-> p1]

\* One turn is served by a second process, where the first one's lock is not
\* seen.
Spread == LET first == CHOOSE t \in Turn : TRUE
          IN  [t \in Turn |-> IF t = first THEN p2 ELSE p1]

Symmetry == Permutations(Turn)
=============================================================================
