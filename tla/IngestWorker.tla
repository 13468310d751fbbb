---------------------------- MODULE IngestWorker ----------------------------
(***************************************************************************)
(* What the manual and the drawing ingestion share: the ingestion_jobs     *)
(* collection, the topic ingest.jobs, the dispatch half of an API request  *)
(* (job record, then event) and the worker's loop: fetch a batch, handle   *)
(* each record with retries, commit.                                       *)
(*                                                                         *)
(* The topic has one partition (the broker creates it with its default)    *)
(* and one worker consumes it. An event carries the fields of its job      *)
(* record, so the log holds job ids. A job id is its position in jobs.     *)
(***************************************************************************)
EXTENDS Naturals, Sequences, FiniteSets

CONSTANTS
    Docs,         \* ids of documents (or drawings); an id is never reused
    Calls,        \* API requests that can be in progress at the same time
    MaxJobs,      \* bound: job records created
    BatchSize,    \* getmany(max_records=...)
    MaxAttempts,  \* MAX_ATTEMPTS
    Faults,       \* the kinds of fault that may happen, a subset of FaultKinds
    MaxFaults     \* bound: faults that happen

FaultKinds == {"api", "request", "worker", "publish", "duplicate", "transient", "ambiguous",
               "permanent", "swallowed"}

ASSUME IngestAssumption ==
    /\ MaxJobs \in Nat
    /\ BatchSize \in Nat \ {0}
    /\ MaxAttempts \in Nat \ {0}
    /\ Faults \subseteq FaultKinds
    /\ MaxFaults \in Nat

VARIABLES
    jobs,       \* ingestion_jobs: a sequence of [doc, action, status]
    calls,      \* the API requests in progress
    log,        \* the topic ingest.jobs: a sequence of job ids
    committed,  \* the group's committed offset
    position,   \* the consumer's position: records up to here were fetched
    cursor,     \* records up to here were handled
    stage,      \* what the worker does next
    current,    \* the job being handled, 0 between two records
    attempt,    \* the loop variable of handle_with_retry
    verdict,    \* how the last failure is treated
    dlq,        \* the jobs in the topic ingest.jobs.dlq
    faults      \* faults so far

workerVars == <<stage, current, attempt, verdict>>
offsetVars == <<committed, position, cursor>>
ingestVars == <<jobs, calls, log, committed, position, cursor,
                stage, current, attempt, verdict, dlq, faults>>

JobStatus == {"PENDING", "RUNNING", "DONE", "FAILED", "DEAD"}
JobAction == {"upsert", "delete"}
Job == [doc : Docs, action : JobAction, status : JobStatus]

\* Stages of handle_with_retry and of the pipelines it calls.
PipelineStages == {"mark_job", "mark_doc", "find", "parse", "embed",
                   "purge", "insert", "doc_done", "job_done"}
Stages == PipelineStages \cup {"poll", "next", "fail_job", "fail_doc", "backoff", "dlq", "commit"}

Idle == [step |-> "idle"]

IngestInit ==
    /\ jobs = <<>>
    /\ calls = [c \in Calls |-> Idle]
    /\ log = <<>>
    /\ committed = 0 /\ position = 0 /\ cursor = 0
    /\ stage = "poll" /\ current = 0 /\ attempt = 1 /\ verdict = "none"
    /\ dlq = {}
    /\ faults = 0

Fault(kind) == kind \in Faults /\ faults < MaxFaults /\ faults' = faults + 1

\* The end of a handler step: the request goes on at the given step.
Goto(c, step) == calls' = [calls EXCEPT ![c].step = step]
Return(c) == calls' = [calls EXCEPT ![c] = Idle]

\* The bound MaxJobs: a request starts only if its job will have room.
RoomForJob ==
    Len(jobs) + Cardinality({c \in Calls : calls[c] # Idle /\ calls[c].step \notin {"publish", "published"}})
        < MaxJobs

-----------------------------------------------------------------------------
(* The dispatch of an API request: job record first, event second.         *)

InsertJob(c) ==
    /\ calls[c].step = "dispatch"
    /\ jobs' = Append(jobs, [doc |-> calls[c].doc, action |-> calls[c].action, status |-> "PENDING"])
    /\ calls' = [calls EXCEPT ![c].step = "publish", ![c].job = Len(jobs) + 1]
    /\ UNCHANGED <<log, offsetVars, workerVars, dlq, faults>>

\* The producer is not idempotent: a resent batch can appear twice.
Publish(c) ==
    /\ calls[c].step = "publish"
    /\ \/ log' = Append(log, calls[c].job) /\ UNCHANGED faults
       \/ log' = log \o <<calls[c].job, calls[c].job>> /\ Fault("duplicate")
    /\ Goto(c, "published")
    /\ UNCHANGED <<jobs, offsetVars, workerVars, dlq>>

\* send_and_wait raises: the request ends with an error, nothing is undone.
PublishFails(c) ==
    /\ calls[c].step = "publish"
    /\ Fault("publish")
    /\ Return(c)
    /\ UNCHANGED <<jobs, log, offsetVars, workerVars, dlq>>

\* A store call of a request raises: the request ends with an error and what
\* its earlier calls did stays. An error after the call took effect is that
\* effect followed by this step.
RequestFails(c) ==
    /\ calls[c].step \notin {"idle", "publish", "published"}
    /\ Fault("request")
    /\ Return(c)
    /\ UNCHANGED <<jobs, log, offsetVars, workerVars, dlq>>

\* The API process restarts: every request in progress is gone.
ApiCrash ==
    /\ \E c \in Calls : calls[c] # Idle
    /\ Fault("api")
    /\ calls' = [c \in Calls |-> Idle]
    /\ UNCHANGED <<jobs, log, offsetVars, workerVars, dlq>>

-----------------------------------------------------------------------------
(* The worker's loop.                                                      *)

Fetch ==
    /\ stage = "poll"
    /\ \E n \in 1..BatchSize :
          /\ position + n <= Len(log)
          /\ position' = position + n
    /\ stage' = "next"
    /\ UNCHANGED <<jobs, calls, log, committed, cursor, current, attempt, verdict, dlq, faults>>

Take ==
    /\ stage = "next"
    /\ current' = log[cursor + 1]
    /\ stage' = "mark_job"
    /\ UNCHANGED <<jobs, calls, log, offsetVars, attempt, verdict, dlq, faults>>

\* Faulty: the record just handled is fetched again.
CommitBehind ==
    /\ stage = "commit"
    /\ UNCHANGED <<committed, cursor, position>>
    /\ stage' = "next"
    /\ current' = 0 /\ attempt' = 1 /\ verdict' = "none"
    /\ UNCHANGED <<jobs, calls, log, dlq, faults>>

\* commit() without arguments commits the position: the end of the fetched
\* batch, whichever record of it was just handled.
Commit ==
    /\ stage = "commit"
    /\ committed' = position
    /\ cursor' = cursor + 1
    /\ stage' = IF cursor + 1 < position THEN "next" ELSE "poll"
    /\ current' = 0 /\ attempt' = 1 /\ verdict' = "none"
    /\ UNCHANGED <<jobs, calls, log, position, dlq, faults>>

\* The process ends (kill, or an exception out of handle_with_retry) and is
\* restarted: it resumes at the committed offset.
WorkerCrash ==
    /\ stage # "poll"
    /\ Fault("worker")
    /\ position' = committed /\ cursor' = committed
    /\ stage' = "poll" /\ current' = 0 /\ attempt' = 1 /\ verdict' = "none"
    /\ UNCHANGED <<jobs, calls, log, committed, dlq>>

-----------------------------------------------------------------------------
(* Failure of an attempt, and the two ways out of it.                      *)

Verdict(permanent) ==
    IF permanent THEN "permanent" ELSE IF attempt < MaxAttempts THEN "retry" ELSE "exhausted"

Raise(permanent) ==
    /\ verdict' = Verdict(permanent)
    /\ stage' = "fail_job"
    /\ UNCHANGED <<current, attempt>>

Go(next) == stage' = next /\ UNCHANGED <<current, attempt, verdict, faults>>

\* A write succeeded, or took effect and its answer was lost.
Then(next) ==
    \/ Go(next)
    \/ Fault("ambiguous") /\ Raise(FALSE)

\* A store, the cache or the model server refuses or times out: no effect.
StepFails ==
    /\ stage \in PipelineStages
    /\ \/ Fault("transient") /\ Raise(FALSE)
       \/ stage \in {"parse", "embed"} /\ Fault("permanent") /\ Raise(TRUE)
    /\ UNCHANGED <<jobs, calls, log, offsetVars, dlq>>

\* The job the worker has taken: the document it is about, and what to do.
Doc == jobs[current].doc
IsUpsert == jobs[current].action = "upsert"

SetJob(status) == jobs' = [jobs EXCEPT ![current].status = status]

\* First write of pipeline.fail; the second one is the pipeline's own.
FailJob ==
    /\ stage = "fail_job"
    /\ SetJob(IF verdict = "retry" THEN "FAILED" ELSE "DEAD")
    /\ Go("fail_doc")
    /\ UNCHANGED <<calls, log, offsetVars, dlq>>

\* Faulty: a permanent failure returns before the dead letter is published.
AfterFailEarlyReturn ==
    IF verdict = "retry" THEN "backoff" ELSE IF verdict = "permanent" THEN "commit" ELSE "dlq"

AfterFail == IF verdict = "retry" THEN "backoff" ELSE "dlq"

Backoff ==
    /\ stage = "backoff"
    /\ attempt' = attempt + 1
    /\ verdict' = "none"
    /\ stage' = "mark_job"
    /\ UNCHANGED <<jobs, calls, log, offsetVars, current, dlq, faults>>

PublishDlq ==
    /\ stage = "dlq"
    /\ dlq' = dlq \cup {current}
    /\ Go("commit")
    /\ UNCHANGED <<jobs, calls, log, offsetVars>>

Dispatch(c) == InsertJob(c) \/ Publish(c) \/ PublishFails(c) \/ RequestFails(c)
WorkerLoop == Fetch \/ Take \/ Commit \/ FailJob \/ Backoff \/ PublishDlq

\* What both kinds of ingestion share.
SharedStep ==
    \/ \E c \in Calls : Dispatch(c)
    \/ ApiCrash \/ WorkerLoop \/ WorkerCrash \/ StepFails

IngestTypeOK ==
    /\ jobs \in Seq(Job)
    /\ log \in Seq(1..Len(jobs))
    /\ position \in 0..Len(log)
    /\ committed \in 0..position
    /\ cursor \in 0..position
    /\ stage \in Stages
    /\ current \in 0..Len(jobs)
    /\ attempt \in 1..MaxAttempts
    /\ verdict \in {"none", "retry", "exhausted", "permanent"}
    /\ dlq \subseteq 1..Len(jobs)
    /\ faults \in 0..MaxFaults

JobsOf(d, action) == {j \in 1..Len(jobs) : jobs[j].doc = d /\ jobs[j].action = action}

\* Every request is answered and every record is handled.
Quiet == (\A c \in Calls : calls[c] = Idle) /\ stage = "poll" /\ position = Len(log)

Holding == stage \notin {"poll", "next"}

\* An event is only published for a job that exists; the record being handled
\* is one of the batch; a retry is only scheduled while attempts are left.
WorkerInv ==
    /\ \A c \in Calls : calls[c].step = "publish" => calls[c].job \in 1..Len(jobs)
    /\ stage # "poll" => cursor < position
    /\ Holding => current \in 1..Len(jobs)
    /\ verdict = "retry" => attempt < MaxAttempts
    /\ stage = "backoff" => verdict = "retry"
    /\ stage \in {"mark_doc", "find", "parse", "embed", "insert", "doc_done"} => IsUpsert
=============================================================================
