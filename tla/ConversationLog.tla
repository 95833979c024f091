-------------------------- MODULE ConversationLog --------------------------
(***************************************************************************)
(* What a chat thread promises about its memory, with no handler, job, lock *)
(* or SQL in sight: the messages form an append-only log, a cut moves       *)
(* forward through it, everything before the cut is folded into a digest,   *)
(* and the last WindowTurns turns (two messages each) are never folded.     *)
(***************************************************************************)
EXTENDS Integers, Sequences

CONSTANTS Message,      \* the messages that may be written
          WindowTurns   \* MEMORY_WINDOW_SIZE: turns that always stay verbatim

VARIABLES log,     \* the messages of the thread, in order
          cut,     \* how many of them the digest stands for
          digest,  \* the messages the digest was made from
          open     \* FALSE once the thread is deleted

vars == <<log, cut, digest, open>>

Init == log = <<>> /\ cut = 0 /\ digest = <<>> /\ open = TRUE

Say == /\ open
       /\ \E m \in Message : log' = Append(log, m)
       /\ UNCHANGED <<cut, digest, open>>

Fold == /\ open
        /\ \E n \in cut + 1 .. Len(log) - 2 * WindowTurns :
             cut' = n /\ digest' = SubSeq(log, 1, n)
        /\ UNCHANGED <<log, open>>

Close == /\ open
         /\ open' = FALSE /\ log' = <<>> /\ cut' = 0 /\ digest' = <<>>

Next == Say \/ Fold \/ Close

Spec == Init /\ [][Next]_vars
=============================================================================
