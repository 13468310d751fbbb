---------------------------- MODULE ManualIngest ----------------------------
(***************************************************************************)
(* Manuals: DocumentService (upload, reingest, delete) and ManualPipeline  *)
(* (upsert, delete, fail), over the job topic and worker of IngestWorker.  *)
(* The stores see the order of the code's own calls: the request and the   *)
(* worker interleave between any two of them.                              *)
(***************************************************************************)
EXTENDS IngestWorker

CONSTANTS
    Unparsable,  \* documents whose PDF yields no text (scans)
    MaxFiles     \* bound: files in one upload request

ASSUME ManualAssumption == Unparsable \subseteq Docs /\ MaxFiles \in Nat \ {0}

VARIABLES
    doc,    \* documents: the status of each record, or "new" / "gone"
    files,  \* documents whose PDF is in the upload directory
    chunks  \* manual_chunks: how many times the chunks of a document are in

manualVars == <<doc, files, chunks>>
vars == <<ingestVars, manualVars>>

DocStatus == {"PENDING", "PROCESSING", "DONE", "FAILED"}
Exists(d) == doc[d] \in DocStatus

MaxCopies == 1 + MaxFaults   \* bound: copies the model can count

Call == [step : {"store", "unlinked", "dispatch", "publish", "published"},
         doc : Docs, action : JobAction, job : Nat, left : 0..MaxFiles]

Init ==
    /\ IngestInit
    /\ doc = [d \in Docs |-> "new"]
    /\ files = {}
    /\ chunks = [d \in Docs |-> 0]

Request(c, step, d, action, n) ==
    /\ calls[c] = Idle /\ RoomForJob
    /\ calls' = [calls EXCEPT ![c] = [step |-> step, doc |-> d, action |-> action, job |-> 0, left |-> n]]

apiUnchanged == <<jobs, log, offsetVars, workerVars, dlq, faults>>

-----------------------------------------------------------------------------
(* DocumentService.                                                        *)

\* An id that no record and no file has.
Fresh(d) == doc[d] = "new" /\ d \notin files

\* upload: the loop over the files of a request; one iteration is Upload or
\* NextFile (read, validate and save the file), Store, InsertJob, Publish.
\* A request whose first file is not a valid PDF changes nothing.
Upload(c) ==
    \E d \in Docs, n \in 1..MaxFiles :
        /\ Fresh(d)
        /\ files' = files \cup {d}
        /\ Request(c, "store", d, "upsert", n - 1)
        /\ UNCHANGED <<apiUnchanged, doc, chunks>>

Store(c) ==
    /\ calls[c].step = "store"
    /\ doc' = [doc EXCEPT ![calls[c].doc] = "PENDING"]
    /\ Goto(c, "dispatch")
    /\ UNCHANGED <<apiUnchanged, files, chunks>>

NextFile(c) ==
    /\ calls[c].step = "published" /\ calls[c].left > 0 /\ RoomForJob
    /\ \E d \in Docs :
          /\ Fresh(d)
          /\ files' = files \cup {d}
          /\ calls' = [calls EXCEPT ![c].step = "store", ![c].doc = d, ![c].left = @ - 1]
    /\ UNCHANGED <<apiUnchanged, doc, chunks>>

\* The request is answered. An upload ends early at the first file that is
\* not a valid PDF: the files before it stay dispatched.
Finish(c) ==
    /\ calls[c].step = "published"
    /\ Return(c)
    /\ UNCHANGED <<apiUnchanged, manualVars>>

\* The lookup that precedes the update is repeated by it: update_by_id raises
\* NotFound for a missing record.
Reingest(c, d) ==
    /\ Exists(d)
    /\ doc' = [doc EXCEPT ![d] = "PENDING"]
    /\ Request(c, "dispatch", d, "upsert", 0)
    /\ UNCHANGED <<apiUnchanged, files, chunks>>

\* delete_document: the file first (missing_ok), then the record.
Delete(c, d) ==
    /\ Exists(d)
    /\ files' = files \ {d}
    /\ Request(c, "unlinked", d, "delete", 0)
    /\ UNCHANGED <<apiUnchanged, doc, chunks>>

\* Faulty: a record that is already gone is deleted, and dispatched, again.
DeleteRecordAgain(c) ==
    /\ calls[c].step = "unlinked"
    /\ doc' = [doc EXCEPT ![calls[c].doc] = "gone"]
    /\ Goto(c, "dispatch")
    /\ UNCHANGED <<apiUnchanged, files, chunks>>

DeleteRecord(c) ==
    /\ calls[c].step = "unlinked"
    /\ IF Exists(calls[c].doc)
       THEN /\ doc' = [doc EXCEPT ![calls[c].doc] = "gone"]
            /\ Goto(c, "dispatch")
       ELSE Return(c) /\ UNCHANGED doc
    /\ UNCHANGED <<apiUnchanged, files, chunks>>

-----------------------------------------------------------------------------
(* ManualPipeline: each step runs on the job the worker has taken.         *)

pipelineUnchanged == <<calls, log, offsetVars, dlq>>

\* Faulty: writing to a missing record goes unnoticed.
SetDocUnchecked(status, next) ==
    /\ doc' = IF Exists(Doc) THEN [doc EXCEPT ![Doc] = status] ELSE doc
    /\ Then(next)

\* A write to the document record raises NotFound if there is none.
SetDoc(status, next) ==
    IF Exists(Doc)
    THEN doc' = [doc EXCEPT ![Doc] = status] /\ Then(next)
    ELSE Raise(FALSE) /\ UNCHANGED <<doc, faults>>

\* Faulty: a delete is marked DONE before the chunks are out.
MarkJobEarly ==
    /\ stage = "mark_job"
    /\ SetJob(IF IsUpsert THEN "RUNNING" ELSE "DONE")
    /\ Then(IF IsUpsert THEN "mark_doc" ELSE "purge")
    /\ UNCHANGED <<pipelineUnchanged, manualVars>>

\* _mark, first write.
MarkJob ==
    /\ stage = "mark_job"
    /\ SetJob("RUNNING")
    /\ Then(IF IsUpsert THEN "mark_doc" ELSE "purge")
    /\ UNCHANGED <<pipelineUnchanged, manualVars>>

\* Faulty: the document keeps its status while it is ingested.
MarkDocSilent ==
    /\ stage = "mark_doc"
    /\ IF Exists(Doc) THEN Go("find") ELSE Raise(FALSE) /\ UNCHANGED faults
    /\ UNCHANGED <<jobs, pipelineUnchanged, manualVars>>

\* _mark, second write.
MarkDoc ==
    /\ stage = "mark_doc"
    /\ SetDoc("PROCESSING", "find")
    /\ UNCHANGED <<jobs, pipelineUnchanged, files, chunks>>

Find ==
    /\ stage = "find"
    /\ IF Exists(Doc) THEN Go("parse") ELSE Raise(FALSE) /\ UNCHANGED faults
    /\ UNCHANGED <<jobs, pipelineUnchanged, manualVars>>

\* A missing file is permanent or not by the class the PDF library raises; a
\* document without text is permanent.
Parse ==
    /\ stage = "parse"
    /\ IF Doc \notin files
       THEN \E permanent \in BOOLEAN : Raise(permanent) /\ UNCHANGED faults
       ELSE IF Doc \in Unparsable
            THEN Raise(TRUE) /\ UNCHANGED faults
            ELSE Go("embed")
    /\ UNCHANGED <<jobs, pipelineUnchanged, manualVars>>

Embed ==
    /\ stage = "embed"
    /\ Go("purge")
    /\ UNCHANGED <<jobs, pipelineUnchanged, manualVars>>

\* Faulty: the old chunks stay when a document is ingested again.
PurgeOnDeleteOnly ==
    /\ stage = "purge"
    /\ chunks' = [chunks EXCEPT ![Doc] = IF IsUpsert THEN @ ELSE 0]
    /\ Then(IF IsUpsert THEN "insert" ELSE "job_done")
    /\ UNCHANGED <<jobs, pipelineUnchanged, doc, files>>

\* Faulty: the chunks stay when a document is deleted.
PurgeOnUpsertOnly ==
    /\ stage = "purge"
    /\ chunks' = [chunks EXCEPT ![Doc] = IF IsUpsert THEN 0 ELSE @]
    /\ Then(IF IsUpsert THEN "insert" ELSE "job_done")
    /\ UNCHANGED <<jobs, pipelineUnchanged, doc, files>>

\* milvus.delete of the document's chunks, in upsert and in delete.
Purge ==
    /\ stage = "purge"
    /\ chunks' = [chunks EXCEPT ![Doc] = 0]
    /\ Then(IF IsUpsert THEN "insert" ELSE "job_done")
    /\ UNCHANGED <<jobs, pipelineUnchanged, doc, files>>

Insert ==
    /\ stage = "insert"
    /\ chunks' = [chunks EXCEPT ![Doc] = IF @ < MaxCopies THEN @ + 1 ELSE @]
    /\ Then("doc_done")
    /\ UNCHANGED <<jobs, pipelineUnchanged, doc, files>>

\* The graph's DESCRIBES edges that follow are written on a best-effort basis
\* and change nothing here.
DocDone ==
    /\ stage = "doc_done"
    /\ SetDoc("DONE", "job_done")
    /\ UNCHANGED <<jobs, pipelineUnchanged, files, chunks>>

JobDone ==
    /\ stage = "job_done"
    /\ SetJob("DONE")
    /\ Then("commit")
    /\ UNCHANGED <<pipelineUnchanged, manualVars>>

\* Faulty: only the job records the failure.
FailDocSilent ==
    /\ stage = "fail_doc"
    /\ Go(AfterFail)
    /\ UNCHANGED <<jobs, pipelineUnchanged, manualVars>>

\* Second write of fail: any error is swallowed.
FailDoc ==
    /\ stage = "fail_doc"
    /\ \/ /\ doc' = IF Exists(Doc) THEN [doc EXCEPT ![Doc] = "FAILED"] ELSE doc
          /\ UNCHANGED faults
       \/ Exists(Doc) /\ Fault("swallowed") /\ UNCHANGED doc
    /\ stage' = AfterFail
    /\ UNCHANGED <<jobs, pipelineUnchanged, current, attempt, verdict, files, chunks>>

Pipeline ==
    \/ MarkJob \/ MarkDoc \/ Find \/ Parse \/ Embed \/ Purge \/ Insert
    \/ DocDone \/ JobDone \/ FailDoc

Service(c) ==
    \/ Upload(c) \/ Store(c) \/ NextFile(c) \/ Finish(c)
    \/ \E d \in Docs : Reingest(c, d) \/ Delete(c, d)
    \/ DeleteRecord(c)

\* The steps both kinds of ingestion share leave the manual's stores alone.
Shared == SharedStep /\ UNCHANGED manualVars

Next == (\E c \in Calls : Service(c)) \/ Pipeline \/ Shared

Spec == Init /\ [][Next]_vars

\* The event loop runs every request it has accepted, and the container
\* restarts the worker, whose loop never waits for anything but its stores.
Fairness ==
    /\ \A c \in Calls : WF_vars((Service(c) /\ calls[c] # Idle) \/ (Dispatch(c) /\ UNCHANGED manualVars))
    /\ WF_vars(Pipeline \/ (WorkerLoop /\ UNCHANGED manualVars))

FairSpec == Spec /\ Fairness

-----------------------------------------------------------------------------
\* Every variable keeps its shape: records of the two collections, a log of
\* existing jobs, offsets inside the log.
TypeOK ==
    /\ IngestTypeOK
    /\ calls \in [Calls -> Call \cup {Idle}]
    /\ doc \in [Docs -> DocStatus \cup {"new", "gone"}]
    /\ files \subseteq Docs
    /\ chunks \in [Docs -> 0..MaxCopies]

\* The status a user sees is true of the index: a DONE document has exactly
\* one copy of its chunks there, through re-ingestion, retries, redelivery
\* after a crash and answers lost on the way (upsert: delete, insert, DONE).
DoneIsIndexed == \A d \in Docs : doc[d] = "DONE" => chunks[d] = 1

\* The delete-before-insert of upsert keeps any retried or redelivered job
\* from storing the chunks of a document twice.
NoDuplicateChunks == \A d \in Docs : chunks[d] <= 1

\* Once the DELETE job of a document is DONE, its chunks are gone for good:
\* no upsert that was running, retried or redelivered puts them back.
DeleteIsFinal ==
    \A d \in Docs : \A j \in JobsOf(d, "delete") : jobs[j].status = "DONE" => chunks[d] = 0

\* Two overlapping delete requests of one document dispatch one DELETE job:
\* the second finds no record to delete.
OneDeleteJob ==
    \A d \in Docs : \A i, j \in JobsOf(d, "delete") : i = j

LastJob(d) == CHOOSE j \in 1..Len(jobs) :
    /\ jobs[j].doc = d
    /\ \E i \in 1..Len(log) : log[i] = j /\ \A k \in i + 1..Len(log) : jobs[log[k]].doc # d

\* With all requests answered and all records handled, what the user sees of
\* a document is what became of its last event: DONE, or FAILED for a DEAD
\* job; no status left behind by a request or a retry that lost a race.
QuietDocumentsAreSettled ==
    Quiet => \A d \in Docs : Exists(d) =>
        \/ doc[d] = "DONE" /\ jobs[LastJob(d)].status = "DONE"
        \/ doc[d] = "FAILED" /\ jobs[LastJob(d)].status = "DEAD"

\* A job that reached DONE or DEAD is only reopened when the answer to that
\* write got lost: by the failure that follows, or by the retry after it.
OutcomeIsFinal ==
    [][\A j \in 1..Len(jobs) : jobs[j].status \in {"DONE", "DEAD"} =>
           jobs'[j].status = jobs[j].status
           \/ (current = j /\ (stage = "fail_job" \/ attempt > 1))]_vars

\* A deleted document's chunks are eventually cleaned (delete_document: the
\* chunks are cleaned asynchronously by the event).
DeletedIsCleaned == \A d \in Docs : (doc[d] = "gone") ~> (chunks[d] = 0 /\ doc[d] = "gone")

\* A document that waits for ingestion does not wait forever.
DocumentsSettle == \A d \in Docs :
    doc[d] \in {"PENDING", "PROCESSING"} ~> doc[d] \in {"DONE", "FAILED", "gone"}

\* A job marked DEAD (JobStatus: retries used up, on its way to the DLQ) reaches the dead letter topic, or is tried again.
IsDead(j) == j \in 1..Len(jobs) /\ jobs[j].status = "DEAD"
DeadReachesDlq == \A j \in 1..MaxJobs : IsDead(j) ~> (j \in dlq \/ ~IsDead(j))
=============================================================================
