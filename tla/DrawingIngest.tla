---------------------------- MODULE DrawingIngest ----------------------------
(***************************************************************************)
(* Drawings: DrawingService (create, update, add_revision, delete) and     *)
(* DrawingPipeline (upsert, delete, fail), over the job topic and worker   *)
(* of IngestWorker. Unlike a manual, a drawing changes while it exists: its *)
(* metadata, its revision number and the file behind it.                   *)
(***************************************************************************)
EXTENDS IngestWorker

CONSTANT Texts  \* what title, equipment, line and description can say

VARIABLES
    drawing,  \* drawings: [status, revision, text, file] of each record
    saved,    \* files saved so far: a file's name is its number (uuid prefix)
    files,    \* the files in the upload directory
    cards,    \* drawing_cards: the cards of each drawing
    read,     \* the record the worker has read and works from
    cut       \* history: the drawings a request was cut off on, and where

drawingVars == <<drawing, saved, files, cards, read>>
vars == <<ingestVars, drawingVars, cut>>

DrawingStatus == {"PENDING", "PROCESSING", "DONE", "FAILED"}
Card == [revision : Nat, text : Texts]
Exists(d) == drawing[d].status \in DrawingStatus
CardOf(d) == [revision |-> drawing[d].revision, text |-> drawing[d].text]

FileSteps == {"swapped", "unlinked"}
CutSteps == FileSteps \cup {"dispatch"}

Call == [step : {"store", "doomed", "unlinked", "revise", "swapped", "dispatch", "publish", "published"},
         doc : Docs, action : JobAction, job : Nat, file : Nat, revision : Nat, text : Texts]

Init ==
    /\ IngestInit
    /\ drawing \in [Docs -> [status : {"new"}, revision : {0}, text : Texts, file : {0}]]
    /\ saved = 0 /\ files = {}
    /\ cards = [d \in Docs |-> <<>>]
    /\ read \in [revision : {0}, text : Texts]
    /\ cut = {}

storesUnchanged == <<jobs, log, offsetVars, workerVars, dlq, cards, read>>
apiUnchanged == <<storesUnchanged, faults, cut>>

\* A request begins with what it has read of the drawing's record.
Request(c, step, d, action, record) ==
    /\ calls[c] = Idle /\ RoomForJob
    /\ calls' = [calls EXCEPT ![c] =
          [step |-> step, doc |-> d, action |-> action, job |-> 0,
           file |-> record.file, revision |-> record.revision, text |-> record.text]]

-----------------------------------------------------------------------------
(* DrawingService.                                                         *)

\* create: the file is saved under a new name, then the record is stored.
Create(c) ==
    \E d \in Docs, t \in Texts :
        /\ drawing[d].status = "new" /\ \A b \in Calls : calls[b] # Idle => calls[b].doc # d
        /\ saved' = saved + 1 /\ files' = files \cup {saved + 1}
        /\ Request(c, "store", d, "upsert", [file |-> saved + 1, revision |-> 1, text |-> t])
        /\ UNCHANGED <<apiUnchanged, drawing>>

Store(c) ==
    /\ calls[c].step = "store"
    /\ drawing' = [drawing EXCEPT ![calls[c].doc] =
          [status |-> "PENDING", revision |-> 1, text |-> calls[c].text, file |-> calls[c].file]]
    /\ Goto(c, "dispatch")
    /\ UNCHANGED <<apiUnchanged, saved, files>>

\* update: the lookup only checks what update_by_id checks again.
Update(c, d) ==
    /\ Exists(d)
    /\ \E t \in Texts : drawing' = [drawing EXCEPT ![d].text = t, ![d].status = "PENDING"]
    /\ Request(c, "dispatch", d, "upsert", drawing[d])
    /\ UNCHANGED <<apiUnchanged, saved, files>>

\* add_revision and delete read the record; awaits follow.
Lookup(c, d) ==
    /\ Exists(d)
    /\ \/ Request(c, "revise", d, "upsert", drawing[d])
       \/ Request(c, "doomed", d, "delete", drawing[d])
    /\ UNCHANGED <<apiUnchanged, drawing, saved, files>>

\* The old file goes, the new one is saved under a new name. If it cannot be
\* saved the request ends there, with the old one gone.
SwapFile(c) ==
    /\ calls[c].step = "revise"
    /\ \/ /\ saved' = saved + 1
          /\ files' = (files \ {calls[c].file}) \cup {saved + 1}
          /\ calls' = [calls EXCEPT ![c].step = "swapped", ![c].file = saved + 1]
          /\ UNCHANGED <<faults, cut>>
       \/ /\ Fault("request")
          /\ files' = files \ {calls[c].file}
          /\ Return(c)
          /\ cut' = cut \cup {<<calls[c].doc, "swapped">>}
          /\ UNCHANGED saved
    /\ UNCHANGED <<storesUnchanged, drawing>>

\* Faulty: a new revision is recorded and not ingested.
SetRevisionOnly(c) ==
    /\ calls[c].step = "swapped"
    /\ drawing' = IF Exists(calls[c].doc)
                  THEN [drawing EXCEPT ![calls[c].doc].file = calls[c].file,
                                       ![calls[c].doc].revision = calls[c].revision + 1]
                  ELSE drawing
    /\ Return(c)
    /\ UNCHANGED <<apiUnchanged, saved, files>>

\* Faulty: the record keeps the path of the file that is gone.
SetRevisionKeepsPath(c) ==
    /\ calls[c].step = "swapped"
    /\ IF Exists(calls[c].doc)
       THEN /\ drawing' = [drawing EXCEPT ![calls[c].doc].revision = calls[c].revision + 1,
                                          ![calls[c].doc].status = "PENDING"]
            /\ Goto(c, "dispatch")
       ELSE Return(c) /\ UNCHANGED drawing
    /\ UNCHANGED <<apiUnchanged, saved, files>>

\* The revision is the one that was read, plus one. A record that lost its
\* file has one again.
SetRevision(c) ==
    /\ calls[c].step = "swapped"
    /\ IF Exists(calls[c].doc)
       THEN /\ drawing' = [drawing EXCEPT ![calls[c].doc].file = calls[c].file,
                                          ![calls[c].doc].revision = calls[c].revision + 1,
                                          ![calls[c].doc].status = "PENDING"]
            /\ cut' = cut \ ({calls[c].doc} \X FileSteps)
            /\ Goto(c, "dispatch")
       ELSE Return(c) /\ UNCHANGED <<drawing, cut>>
    /\ UNCHANGED <<storesUnchanged, faults, saved, files>>

Unlink(c) ==
    /\ calls[c].step = "doomed"
    /\ files' = files \ {calls[c].file}
    /\ Goto(c, "unlinked")
    /\ UNCHANGED <<apiUnchanged, drawing, saved>>

DeleteRecord(c) ==
    /\ calls[c].step = "unlinked"
    /\ IF Exists(calls[c].doc)
       THEN /\ drawing' = [drawing EXCEPT ![calls[c].doc].status = "gone"]
            /\ Goto(c, "dispatch")
       ELSE Return(c) /\ UNCHANGED drawing
    /\ UNCHANGED <<apiUnchanged, saved, files>>

Finish(c) ==
    /\ calls[c].step = "published"
    /\ Return(c)
    /\ UNCHANGED <<apiUnchanged, drawing, saved, files>>

-----------------------------------------------------------------------------
(* DrawingPipeline: each step runs on the job the worker has taken.        *)

pipelineUnchanged == <<calls, log, offsetVars, dlq, saved, files, cut>>

\* A write to the record raises NotFound if there is none.
SetDrawing(status, next) ==
    IF Exists(Doc)
    THEN drawing' = [drawing EXCEPT ![Doc].status = status] /\ Then(next)
    ELSE Raise(FALSE) /\ UNCHANGED <<drawing, faults>>

\* Faulty: a delete is marked DONE before the card is out.
MarkJobEarly ==
    /\ stage = "mark_job"
    /\ SetJob(IF IsUpsert THEN "RUNNING" ELSE "DONE")
    /\ Then(IF IsUpsert THEN "find" ELSE "purge")
    /\ UNCHANGED <<pipelineUnchanged, drawing, cards, read>>

MarkJob ==
    /\ stage = "mark_job"
    /\ SetJob("RUNNING")
    /\ Then(IF IsUpsert THEN "find" ELSE "purge")
    /\ UNCHANGED <<pipelineUnchanged, drawing, cards, read>>

Find ==
    /\ stage = "find"
    /\ IF Exists(Doc)
       THEN read' = CardOf(Doc) /\ Go("mark_doc")
       ELSE Raise(FALSE) /\ UNCHANGED <<read, faults>>
    /\ UNCHANGED <<jobs, pipelineUnchanged, drawing, cards>>

\* Faulty: the drawing keeps its status while its card is replaced.
MarkDocSilent ==
    /\ stage = "mark_doc"
    /\ IF Exists(Doc) THEN Go("embed") ELSE Raise(FALSE) /\ UNCHANGED faults
    /\ UNCHANGED <<jobs, pipelineUnchanged, drawing, cards, read>>

MarkDoc ==
    /\ stage = "mark_doc"
    /\ SetDrawing("PROCESSING", "embed")
    /\ UNCHANGED <<jobs, pipelineUnchanged, cards, read>>

Embed ==
    /\ stage = "embed"
    /\ Go("purge")
    /\ UNCHANGED <<jobs, pipelineUnchanged, drawing, cards, read>>

\* delete_drawing_cards, in upsert and in delete.
Purge ==
    /\ stage = "purge"
    /\ cards' = [cards EXCEPT ![Doc] = <<>>]
    /\ Then(IF IsUpsert THEN "insert" ELSE "job_done")
    /\ UNCHANGED <<jobs, pipelineUnchanged, drawing, read>>

\* The card says what the record said when it was read.
Insert ==
    /\ stage = "insert"
    /\ cards' = [cards EXCEPT ![Doc] = Append(@, read)]
    /\ Then("doc_done")
    /\ UNCHANGED <<jobs, pipelineUnchanged, drawing, read>>

DocDone ==
    /\ stage = "doc_done"
    /\ SetDrawing("DONE", "job_done")
    /\ UNCHANGED <<jobs, pipelineUnchanged, cards, read>>

JobDone ==
    /\ stage = "job_done"
    /\ SetJob("DONE")
    /\ Then("commit")
    /\ UNCHANGED <<pipelineUnchanged, drawing, cards, read>>

\* Second write of fail: any error is swallowed.
FailDoc ==
    /\ stage = "fail_doc"
    /\ \/ /\ drawing' = IF Exists(Doc) THEN [drawing EXCEPT ![Doc].status = "FAILED"] ELSE drawing
          /\ UNCHANGED faults
       \/ Exists(Doc) /\ Fault("swallowed") /\ UNCHANGED drawing
    /\ stage' = AfterFail
    /\ UNCHANGED <<jobs, pipelineUnchanged, current, attempt, verdict, cards, read>>

Pipeline ==
    \/ MarkJob \/ Find \/ MarkDoc \/ Embed \/ Purge \/ Insert
    \/ DocDone \/ JobDone \/ FailDoc

Service(c) ==
    \/ Create(c) \/ Store(c) \/ SwapFile(c) \/ SetRevision(c)
    \/ Unlink(c) \/ DeleteRecord(c) \/ Finish(c)
    \/ \E d \in Docs : Update(c, d) \/ Lookup(c, d)

\* The shared steps cut requests off (an error, a restart), at steps after
\* which the record or the card is not right: the file is gone and the record
\* is still there, or the record has changed and its job is not inserted.
\* Inserting a job makes up for those that were not.
CutOff ==
    {<<calls[c].doc, calls[c].step>> :
        c \in {b \in Calls : calls[b].step \in CutSteps /\ calls'[b] = Idle}}
MadeUp ==
    {<<calls[c].doc, "dispatch">> :
        c \in {b \in Calls : /\ calls[b].step = "dispatch" /\ calls[b].action = "upsert"
                             /\ calls'[b].step = "publish"}}

Shared ==
    /\ SharedStep
    /\ cut' = (cut \ MadeUp) \cup CutOff
    /\ UNCHANGED drawingVars

Next == (\E c \in Calls : Service(c)) \/ Pipeline \/ Shared

Spec == Init /\ [][Next]_vars

-----------------------------------------------------------------------------
\* Every variable keeps its shape, and only saved files are on disk.
TypeOK ==
    /\ IngestTypeOK
    /\ calls \in [Calls -> Call \cup {Idle}]
    /\ drawing \in [Docs -> [status : DrawingStatus \cup {"new", "gone"},
                             revision : Nat, text : Texts, file : Nat]]
    /\ saved \in Nat
    /\ files \subseteq 1..saved
    /\ cards \in [Docs -> Seq(Card)]
    /\ read \in Card
    /\ cut \subseteq Docs \X CutSteps

\* The status a user sees is true of the index: a DONE drawing has its card.
DoneHasCard == \A d \in Docs : drawing[d].status = "DONE" => Len(cards[d]) = 1

\* Once the DELETE job of a drawing is DONE its card is gone for good, also
\* from an upsert that had read the record before it was deleted.
DeleteIsFinal ==
    \A d \in Docs : \A j \in JobsOf(d, "delete") : jobs[j].status = "DONE" => cards[d] = <<>>

\* A request on the drawing was cut off after it had removed the file.
FileLost(d) == \E step \in FileSteps : <<d, step>> \in cut

\* However revisions and deletions overlap, each working from the path it has
\* read, and whatever fails or restarts, a record names a file that is not
\* there only while the request that removed it is about to replace or delete
\* the record, or after such a request was cut off before it did; the next
\* revision that is stored makes up for that.
RecordHasFile ==
    \A d \in Docs : Exists(d) =>
        \/ drawing[d].file \in files
        \/ \E c \in Calls : calls[c].step \in FileSteps /\ calls[c].doc = d
        \/ FileLost(d)

\* Once everything is handled the search cites the latest revision and
\* metadata ("the chatbot then cites the latest revision", WORKPLAN.md), although
\* the worker builds cards from a record that changes behind its back. A DONE
\* drawing with an old card has a job that tells of its lost event, or had a
\* request cut off between the record and the job, with no job since.
QuietCardsAreCurrent ==
    Quiet => \A d \in Docs : drawing[d].status = "DONE" =>
        \/ cards[d] = <<CardOf(d)>>
        \/ \E j \in JobsOf(d, "upsert") : jobs[j].status # "DONE"
        \/ <<d, "dispatch">> \in cut

\* "A new revision file: revision + 1" (add_revision): a record that gets a new
\* file gets a higher revision number.
RevisionGrows ==
    [][\A d \in Docs : Exists(d) /\ Exists(d)' /\ drawing'[d].file # drawing[d].file =>
           drawing'[d].revision > drawing[d].revision]_vars
=============================================================================
