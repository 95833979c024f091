-------------------------- MODULE DocumentRegistry --------------------------
(***************************************************************************)
(* What the registry promises about one document, whoever ingests it: it    *)
(* is UPLOADED, then PROCESSING, then READY or FAILED, again and again       *)
(* until it is deleted.  It becomes READY only when its whole text can be    *)
(* searched; a deletion takes the text before the document, and may be given  *)
(* up in between; and what is deleted is never searched again.               *)
(***************************************************************************)
VARIABLES state,      \* where the document is in its life
          deleting,   \* a deletion is under way
          searchable  \* every chunk of its text is in the index

vars == <<state, deleting, searchable>>

\* It is not known yet, or was ingested before.
Init == <<state, deleting, searchable>> \in {<<"ABSENT", FALSE, FALSE>>, <<"READY", FALSE, TRUE>>}

Register == state = "ABSENT" /\ state' = "UPLOADED" /\ UNCHANGED <<deleting, searchable>>

Begin == /\ state \in {"UPLOADED", "READY", "FAILED"} /\ ~deleting
         /\ state' = "PROCESSING"
         /\ UNCHANGED <<deleting, searchable>>

Work == state = "PROCESSING" /\ searchable' \in BOOLEAN /\ UNCHANGED <<state, deleting>>

Finish == /\ state = "PROCESSING" /\ searchable
          /\ state' = "READY"
          /\ UNCHANGED <<deleting, searchable>>

Fail == /\ state \in {"UPLOADED", "PROCESSING"}
        /\ state' = "FAILED"
        /\ UNCHANGED <<deleting, searchable>>

BeginDeletion == /\ state \in {"READY", "FAILED"} /\ ~deleting
                 /\ deleting' = TRUE /\ searchable' = FALSE
                 /\ UNCHANGED state

GiveUpDeletion == deleting /\ deleting' = FALSE /\ UNCHANGED <<state, searchable>>

Remove == /\ deleting
          /\ state' = "DELETED" /\ deleting' = FALSE
          /\ UNCHANGED searchable

Next == Register \/ Begin \/ Work \/ Finish \/ Fail \/ BeginDeletion \/ GiveUpDeletion \/ Remove

Spec == Init /\ [][Next]_vars
=============================================================================
