--------------------------- MODULE DrawingInductive ---------------------------
(***************************************************************************)
(* The inductive invariants of DrawingIngest. IInv is behind DoneHasCard   *)
(* and DeleteIsFinal, CurrentInv behind QuietCardsAreCurrent: who still    *)
(* owes a drawing an ingestion when its card is not the one it asks for.   *)
(* (RecordHasFile has its own, FileInv of DrawingProofs.)                  *)
(***************************************************************************)
EXTENDS DrawingIngest

\* A drawing that is being created is known to the request that creates it.
NewRecordInv ==
    \A c \in Calls : calls[c].step = "store" =>
        /\ drawing[calls[c].doc].status = "new" /\ calls[c].action = "upsert"
        /\ \A b \in Calls \ {c} : calls[b] # Idle => calls[b].doc # calls[c].doc

\* A DELETE is dispatched only for a drawing whose record is gone.
DeletedInv ==
    /\ \A c \in Calls : calls[c].step \in {"doomed", "unlinked"} =>
          drawing[calls[c].doc].status # "new" /\ calls[c].action = "delete"
    /\ \A c \in Calls : calls[c].step \in {"revise", "swapped"} => calls[c].action = "upsert"
    /\ \A c \in Calls : calls[c].step = "dispatch" /\ calls[c].action = "delete" =>
          drawing[calls[c].doc].status = "gone"
    /\ \A j \in 1..Len(jobs) : jobs[j].action = "delete" => drawing[jobs[j].doc].status = "gone"

\* The steps of upsert that only a drawing found by MarkDoc lets happen.
Ingesting ==
    \/ stage \in {"embed", "insert", "doc_done"}
    \/ stage = "purge" /\ IsUpsert

\* While upsert replaces a drawing's card, the drawing does not claim to be
\* DONE and no DELETE of it is.
IngestInv ==
    Ingesting =>
        /\ drawing[Doc].status # "DONE"
        /\ \A j \in JobsOf(Doc, "delete") : jobs[j].status # "DONE"

\* The card is out between the two Milvus calls, in once after them.
CardInv ==
    /\ stage = "insert" => cards[Doc] = <<>>
    /\ stage = "doc_done" => cards[Doc] = <<read>>
    /\ stage = "job_done" => cards[Doc] = IF IsUpsert THEN <<read>> ELSE <<>>

IInv ==
    /\ TypeOK
    /\ WorkerInv
    /\ NewRecordInv
    /\ DeletedInv
    /\ IngestInv
    /\ CardInv
    /\ DoneHasCard
    /\ DeleteIsFinal

-----------------------------------------------------------------------------
\* A drawing is owed an ingestion by a request that is about to insert its job
\* or was cut off before it did, or by a job that is not DONE, the given one
\* aside.
Owed(d, but) ==
    \/ \E c \in Calls : calls[c].step = "dispatch" /\ calls[c].doc = d /\ calls[c].action = "upsert"
    \/ \E j \in JobsOf(d, "upsert") \ {but} : jobs[j].status # "DONE"
    \/ <<d, "dispatch">> \in cut

\* The job that is as good as DONE.
Finishing == IF stage = "job_done" THEN current ELSE 0

HasRead == stage \in {"mark_doc", "embed", "purge", "insert", "doc_done", "job_done"} /\ IsUpsert

CurrentInv ==
    /\ \A d \in Docs : drawing[d].status = "DONE" =>
          cards[d] = <<CardOf(d)>> \/ Owed(d, Finishing)
    /\ HasRead /\ Exists(Doc) => read = CardOf(Doc) \/ Owed(Doc, current)
=============================================================================
