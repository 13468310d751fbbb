----------------------------- MODULE IngestProofs -----------------------------
(***************************************************************************)
(* What the proofs about manuals and about drawings share: the job records *)
(* and the shape of topic, offsets and worker, through dispatch, the       *)
(* worker's loop, failures and restarts.                                   *)
(***************************************************************************)
EXTENDS IngestWorker, SequenceTheorems, TLAPS

\* Writing the status of a job keeps the collection one of job records.
LEMMA SetJobType ==
    ASSUME NEW js \in Seq(Job), NEW k \in 1..Len(js), NEW s \in JobStatus
    PROVE  LET new == [js EXCEPT ![k].status = s]
           IN /\ new \in Seq(Job)
              /\ Len(new) = Len(js)
              /\ \A j \in 1..Len(js) : /\ new[j].doc = js[j].doc
                                       /\ new[j].action = js[j].action
                                       /\ j # k => new[j].status = js[j].status
              /\ new[k].status = s
<1>1. js[k] \in Job
  BY ElementOfSeq
<1>2. [js[k] EXCEPT !.status = s] \in Job
  BY <1>1 DEF Job
<1>3. [js EXCEPT ![k].status = s] = [js EXCEPT ![k] = [js[k] EXCEPT !.status = s]]
  OBVIOUS
<1>4. /\ [js EXCEPT ![k] = [js[k] EXCEPT !.status = s]] \in Seq(Job)
      /\ Len([js EXCEPT ![k] = [js[k] EXCEPT !.status = s]]) = Len(js)
  BY <1>2, ExceptSeq
<1>5. \A j \in 1..Len(js) : js[j] \in Job
  BY ElementOfSeq
<1> QED
  BY <1>1, <1>3, <1>4, <1>5 DEF Job

\* Inserting a job keeps the ones before it.
LEMMA InsertJobType ==
    ASSUME NEW js \in Seq(Job), NEW e \in Job
    PROVE  /\ Append(js, e) \in Seq(Job)
           /\ Len(Append(js, e)) = Len(js) + 1
           /\ \A j \in 1..Len(js) : Append(js, e)[j] = js[j]
           /\ Append(js, e)[Len(js) + 1] = e
  BY AppendProperties, LenProperties

-----------------------------------------------------------------------------
IsRecord(r) == r = [x \in DOMAIN r |-> r[x]]

\* What dispatching expects of the requests.
RequestsOK ==
    /\ IsRecord(calls) /\ DOMAIN calls = Calls
    /\ \A c \in Calls : calls[c].step # "idle" =>
          IsRecord(calls[c]) /\ {"step", "job"} \subseteq DOMAIN calls[c]
    /\ \A c \in Calls : calls[c].step = "dispatch" =>
          calls[c].doc \in Docs /\ calls[c].action \in JobAction

LoopInv == IngestTypeOK /\ WorkerInv /\ RequestsOK

LEMMA WorkerFields ==
    ASSUME LoopInv
    PROVE  /\ \A j \in 1..Len(jobs) : /\ jobs[j] \in Job
                                       /\ jobs[j].doc \in Docs
                                       /\ jobs[j].action \in JobAction
                                       /\ jobs[j].status \in JobStatus
           /\ Len(jobs) \in Nat /\ Len(log) \in Nat
           /\ \A i \in 1..Len(log) : log[i] \in 1..Len(jobs)
           /\ Holding => current \in 1..Len(jobs) /\ Doc \in Docs
<1>1. jobs \in Seq(Job) /\ log \in Seq(1..Len(jobs))
  BY DEF LoopInv, IngestTypeOK
<1>2. \A j \in 1..Len(jobs) : jobs[j] \in Job
  BY <1>1, ElementOfSeq
<1>3. \A i \in 1..Len(log) : log[i] \in 1..Len(jobs)
  BY <1>1, ElementOfSeq
<1>4. Holding => current \in 1..Len(jobs)
  BY DEF LoopInv, WorkerInv
<1> QED
  BY <1>1, <1>2, <1>3, <1>4, LenProperties DEF Job, Doc

\* The steps both kinds of ingestion share keep the shape of what they share.
LEMMA SharedKeepsType ==
    ASSUME LoopInv, SharedStep
    PROVE  IngestTypeOK' /\ WorkerInv'
<1> USE IngestAssumption
<1>0. IngestTypeOK /\ RequestsOK /\ WorkerInv
  BY DEF LoopInv
<1>j. /\ \A i \in 1..Len(log) : log[i] \in 1..Len(jobs)
      /\ Len(jobs) \in Nat /\ Len(log) \in Nat
      /\ jobs \in Seq(Job) /\ log \in Seq(1..Len(jobs))
  BY WorkerFields, <1>0 DEF IngestTypeOK
<1>1. ASSUME NEW c \in Calls, InsertJob(c)
      PROVE  IngestTypeOK' /\ WorkerInv'
  <2>1. /\ calls'[c].job = Len(jobs) + 1
        /\ \A b \in Calls \ {c} : calls'[b] = calls[b]
    BY <1>0, <1>1 DEF InsertJob, RequestsOK, IsRecord
  <2>2. [doc |-> calls[c].doc, action |-> calls[c].action, status |-> "PENDING"] \in Job
    BY <1>0, <1>1 DEF RequestsOK, InsertJob, Job, JobStatus
  <2>3. jobs' \in Seq(Job) /\ Len(jobs') = Len(jobs) + 1 /\ \A j \in 1..Len(jobs) : jobs'[j] = jobs[j]
    BY <2>2, <1>1, <1>j, InsertJobType DEF InsertJob
  <2>4. log' \in Seq(1..Len(jobs'))
    <3>1. 1..Len(jobs) \subseteq 1..Len(jobs')
      BY <2>3, <1>j
    <3> QED
      BY <3>1, <1>1, <1>j DEF InsertJob
  <2>6. IngestTypeOK'
    BY <1>0, <1>1, <1>j, <2>3, <2>4 DEF InsertJob, IngestTypeOK, offsetVars, workerVars
  <2>7. WorkerInv'
    <3>1. Holding' <=> Holding
      BY <1>1 DEF InsertJob, workerVars, Holding
    <3>2. Holding => IsUpsert' = IsUpsert
      BY <1>0, <1>1, <2>3, <1>j DEF WorkerInv, InsertJob, workerVars, IsUpsert
    <3>3. \A b \in Calls : calls'[b].step = "publish" => calls'[b].job \in 1..Len(jobs')
      BY <1>0, <1>j, <2>1, <2>3 DEF WorkerInv
    <3>4. UNCHANGED <<offsetVars, workerVars>>
      BY <1>1 DEF InsertJob
    <3> QED
      BY <1>0, <1>j, <2>3, <3>1, <3>2, <3>3, <3>4 DEF WorkerInv, workerVars, offsetVars, Holding
  <2> QED
    BY <2>6, <2>7
<1>2. ASSUME NEW c \in Calls, Publish(c)
      PROVE  IngestTypeOK' /\ WorkerInv'
  <2>1. /\ calls[c].job \in 1..Len(jobs)
        /\ calls'[c].step = "published"
        /\ \A b \in Calls \ {c} : calls'[b] = calls[b]
    BY <1>0, <1>2 DEF Publish, Goto, WorkerInv, RequestsOK, IsRecord
  <2>2. log' \in Seq(1..Len(jobs)) /\ Len(log') >= Len(log)
    <3>1. CASE log' = Append(log, calls[c].job)
      BY <2>1, <3>1, <1>j, AppendProperties
    <3>2. CASE log' = log \o <<calls[c].job, calls[c].job>>
      BY <2>1, <3>2, <1>j, ConcatProperties, Len(<<calls[c].job, calls[c].job>>) = 2
    <3> QED
      BY <1>2, <3>1, <3>2 DEF Publish
  <2>3. faults' \in 0..MaxFaults
    BY <1>0, <1>2 DEF Publish, Fault, IngestTypeOK
  <2>4. Len(log') \in Nat
    BY <2>2, LenProperties
  <2>5. IngestTypeOK'
    <3>1. UNCHANGED <<jobs, offsetVars, workerVars, dlq>>
      BY <1>2 DEF Publish
    <3> QED
      BY <1>0, <1>j, <2>2, <2>3, <2>4, <3>1 DEF IngestTypeOK, offsetVars, workerVars
  <2>7. WorkerInv'
    BY <1>0, <1>2, <1>j, <2>1, <2>2, <2>4 DEF Publish, WorkerInv, offsetVars, workerVars, Holding, IsUpsert
  <2> QED
    BY <2>5, <2>7
<1>3. ASSUME NEW c \in Calls, PublishFails(c) \/ RequestFails(c)
      PROVE  IngestTypeOK' /\ WorkerInv'
  <2>1. /\ calls' = [calls EXCEPT ![c] = Idle]
        /\ UNCHANGED <<jobs, log, offsetVars, workerVars, dlq>>
        /\ faults' = faults + 1 /\ faults < MaxFaults
    BY <1>3 DEF PublishFails, RequestFails, Return, Fault
  <2>2. IngestTypeOK'
    BY <1>0, <1>j, <2>1 DEF IngestTypeOK, offsetVars, workerVars
  <2>3. WorkerInv'
    BY <1>0, <1>j, <2>1 DEF RequestsOK, WorkerInv, offsetVars, workerVars, Holding, IsUpsert, Idle
  <2> QED
    BY <2>2, <2>3
<1>4. ASSUME ApiCrash
      PROVE  IngestTypeOK' /\ WorkerInv'
  BY <1>0, <1>4, <1>j DEF ApiCrash, Fault, RequestsOK, IngestTypeOK, WorkerInv, offsetVars, workerVars, Holding, IsUpsert, Idle
<1>5. ASSUME Fetch
      PROVE  IngestTypeOK' /\ WorkerInv'
  BY <1>0, <1>5, <1>j DEF Fetch, IngestTypeOK, WorkerInv, offsetVars, workerVars, Holding, IsUpsert, Stages, PipelineStages
<1>6. ASSUME Take
      PROVE  IngestTypeOK' /\ WorkerInv'
  BY <1>0, <1>6, <1>j DEF Take, IngestTypeOK, WorkerInv, offsetVars, workerVars, Holding, IsUpsert, Stages, PipelineStages
<1>7. ASSUME Commit
      PROVE  IngestTypeOK' /\ WorkerInv'
  BY <1>0, <1>7, <1>j DEF Commit, IngestTypeOK, WorkerInv, offsetVars, workerVars, Holding, IsUpsert, Stages, PipelineStages
<1>8. ASSUME FailJob
      PROVE  IngestTypeOK' /\ WorkerInv'
  <2>1. /\ jobs' \in Seq(Job)
        /\ Len(jobs') = Len(jobs)
    <3> DEFINE s == IF verdict = "retry" THEN "FAILED" ELSE "DEAD"
    <3>1. current \in 1..Len(jobs) /\ s \in JobStatus
      BY <1>0, <1>8 DEF FailJob, WorkerInv, Holding, JobStatus
    <3>2. jobs' = [jobs EXCEPT ![current].status = s]
      BY <1>8 DEF FailJob, SetJob
    <3> HIDE DEF s
    <3> QED
      BY <1>j, <3>1, <3>2, SetJobType
  <2> QED
    BY <1>0, <1>8, <1>j, <2>1 DEF FailJob, Go, IngestTypeOK, WorkerInv, offsetVars, workerVars, Holding, Stages, PipelineStages
<1>9. ASSUME Backoff
      PROVE  IngestTypeOK' /\ WorkerInv'
  BY <1>0, <1>9, <1>j DEF Backoff, IngestTypeOK, WorkerInv, offsetVars, workerVars, Holding, IsUpsert, Stages, PipelineStages
<1>10. ASSUME PublishDlq
      PROVE  IngestTypeOK' /\ WorkerInv'
  BY <1>0, <1>10, <1>j DEF PublishDlq, Go, IngestTypeOK, WorkerInv, offsetVars, workerVars, Holding, IsUpsert, Stages, PipelineStages
<1>11. ASSUME WorkerCrash
      PROVE  IngestTypeOK' /\ WorkerInv'
  BY <1>0, <1>11, <1>j DEF WorkerCrash, Fault, IngestTypeOK, WorkerInv, offsetVars, workerVars, Holding, IsUpsert, Stages, PipelineStages
<1>12. ASSUME StepFails
      PROVE  IngestTypeOK' /\ WorkerInv'
  <2>1. /\ stage \in PipelineStages /\ stage' = "fail_job"
        /\ verdict' \in {"retry", "exhausted", "permanent"}
        /\ verdict' = "retry" => attempt < MaxAttempts
        /\ faults' = faults + 1 /\ faults < MaxFaults
        /\ UNCHANGED <<current, attempt, jobs, calls, log, offsetVars, dlq>>
    BY <1>12 DEF StepFails, Raise, Verdict, Fault
  <2>2. "fail_job" \in Stages /\ Holding
    BY <2>1 DEF Stages, PipelineStages, Holding
  <2>3. IngestTypeOK'
    BY <1>0, <2>1, <2>2 DEF IngestTypeOK, offsetVars
  <2>4. WorkerInv'
    BY <1>0, <2>1, <2>2 DEF WorkerInv, offsetVars, Holding, PipelineStages
  <2> QED
    BY <2>3, <2>4
<1> QED
  BY <1>1, <1>2, <1>3, <1>4, <1>5, <1>6, <1>7, <1>8, <1>9, <1>10, <1>11, <1>12
     DEF SharedStep, Dispatch, WorkerLoop
===============================================================================
