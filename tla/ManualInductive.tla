--------------------------- MODULE ManualInductive ---------------------------
(***************************************************************************)
(* The inductive invariants of ManualIngest. IInv is behind DoneIsIndexed, *)
(* DeleteIsFinal and OneDeleteJob: what each stage of the worker knows of  *)
(* the record it holds, and what a dispatched DELETE says of its document. *)
(* SettledInv is behind QuietDocumentsAreSettled and OutcomeIsFinal: how   *)
(* far the topic is handled, and what became of each handled event.        *)
(***************************************************************************)
EXTENDS ManualIngest

\* The steps of upsert that only a document found by MarkDoc lets happen.
Ingesting ==
    \/ stage \in {"find", "parse", "embed", "insert", "doc_done"}
    \/ stage = "purge" /\ IsUpsert

\* An upload stores a record no other request knows of.
StoreInv ==
    \A c \in Calls : calls[c].step = "store" =>
        /\ doc[calls[c].doc] = "new"
        /\ calls[c].doc \in files
        /\ \A b \in Calls \ {c} :
              calls[b].step = "store" => calls[b].doc # calls[c].doc

\* A DELETE is dispatched only for a document whose record is gone.
DeleteInv ==
    /\ \A c \in Calls : calls[c].step = "unlinked" =>
          doc[calls[c].doc] # "new" /\ calls[c].action = "delete"
    /\ \A c \in Calls : calls[c].step = "dispatch" /\ calls[c].action = "delete" =>
          doc[calls[c].doc] = "gone"
    /\ \A c \in Calls : calls[c].step = "store" => calls[c].action = "upsert"
    /\ \A c \in Calls : calls[c] # Idle /\ calls[c].left > 0 => calls[c].action = "upsert"
    /\ \A j \in 1..Len(jobs) : jobs[j].action = "delete" => doc[jobs[j].doc] = "gone"

\* A record is deleted by one request only, which dispatches one DELETE.
Deleting(c) == calls[c].step = "dispatch" /\ calls[c].action = "delete"

DeleteOnceInv ==
    /\ \A b, c \in Calls : Deleting(b) /\ Deleting(c) /\ calls[b].doc = calls[c].doc => b = c
    /\ \A c \in Calls, j \in 1..Len(jobs) :
          Deleting(c) /\ jobs[j].action = "delete" => jobs[j].doc # calls[c].doc
    /\ OneDeleteJob

\* While upsert works on a document, the document does not claim to be DONE
\* and no DELETE of it is: the chunks may come and go.
IngestInv ==
    /\ Ingesting => doc[Doc] # "DONE"
    /\ Ingesting => \A j \in 1..Len(jobs) :
          jobs[j].doc = Doc /\ jobs[j].action = "delete" => jobs[j].status # "DONE"

\* The chunks are out between the two Milvus calls, in once after them.
ChunkInv ==
    /\ stage = "insert" => chunks[Doc] = 0
    /\ stage = "doc_done" => chunks[Doc] = 1
    /\ stage = "job_done" /\ ~IsUpsert => chunks[Doc] = 0
    /\ NoDuplicateChunks

IInv ==
    /\ TypeOK
    /\ WorkerInv
    /\ StoreInv
    /\ DeleteInv
    /\ DeleteOnceInv
    /\ IngestInv
    /\ ChunkInv
    /\ DoneIsIndexed
    /\ DeleteIsFinal

-----------------------------------------------------------------------------
\* Every job is published once, by the request that inserted it.
EventsOnce ==
    /\ \A i, k \in 1..Len(log) : log[i] = log[k] => i = k
    /\ \A c \in Calls : calls[c].step = "publish" =>
          /\ jobs[calls[c].job].doc = calls[c].doc
          /\ \A i \in 1..Len(log) : log[i] # calls[c].job
          /\ \A b \in Calls \ {c} : calls[b].step = "publish" => calls[b].job # calls[c].job

\* The worker handles the log record by record.
InOrder ==
    /\ stage = "poll" => cursor = position
    /\ Holding => current = log[cursor + 1]

\* A job nobody has worked on is PENDING, the one that is worked on is RUNNING
\* until it fails or is done.
StatusInv ==
    /\ \A i \in cursor + 1..Len(log) : ~(Holding /\ i = cursor + 1) => jobs[log[i]].status = "PENDING"
    /\ \A c \in Calls : calls[c].step = "publish" => jobs[calls[c].job].status = "PENDING"
    /\ stage = "mark_job" /\ attempt = 1 => jobs[current].status = "PENDING"
    /\ stage \in PipelineStages \ {"mark_job"} => jobs[current].status = "RUNNING"

\* An event of the document is on its way to the topic.
Due(d) == \E c \in Calls : calls[c].step \in {"dispatch", "publish"} /\ calls[c].doc = d

LastEvent(d, l) ==
    /\ jobs[log[l]].doc = d
    /\ \A k \in l + 1..Len(log) : jobs[log[k]].doc # d

Agree(d, j) ==
    \/ doc[d] = "DONE" /\ jobs[j].status = "DONE"
    \/ doc[d] = "FAILED" /\ jobs[j].status = "DEAD"

\* What the worker has achieved, stage by stage, for the record it holds.
Achieved ==
    /\ stage = "job_done" => doc[Doc] = "DONE"
    /\ stage = "fail_doc" /\ verdict # "retry" => jobs[current].status = "DEAD"
    /\ stage \in {"dlq", "commit"} => Agree(Doc, current)

\* Unless another event is due, the last event of a document says what became
\* of the document, as far as the worker has come.
Reflected(d) ==
    \E l \in 1..Len(log) :
        /\ LastEvent(d, l)
        /\ l <= cursor => Agree(d, log[l])
        /\ l = cursor + 1 => Achieved

SettledInv ==
    /\ EventsOnce
    /\ InOrder
    /\ StatusInv
    /\ \A d \in Docs : Exists(d) => Due(d) \/ Reflected(d)
=============================================================================
