---------------------------- MODULE ManualProofs ----------------------------
(* Proofs about ManualIngest, for every set of documents and requests, every  *)
(* batch size, number of attempts and set of faults.                          *)
EXTENDS ManualInductive, IngestProofs

\* A request in progress keeps its shape when it moves on.
LEMMA GotoType ==
    ASSUME NEW cs \in [Calls -> Call \cup {Idle}], NEW c \in Calls, cs[c] # Idle,
           NEW st \in {"store", "unlinked", "dispatch", "publish", "published"}
    PROVE  [cs EXCEPT ![c].step = st] \in [Calls -> Call \cup {Idle}]
<1>1. [cs[c] EXCEPT !.step = st] \in Call
  BY DEF Call
<1>2. [cs EXCEPT ![c].step = st] = [cs EXCEPT ![c] = [cs[c] EXCEPT !.step = st]]
  OBVIOUS
<1> QED
  BY <1>1, <1>2

\* The same for a request that has inserted its job.
LEMMA JobCallType ==
    ASSUME NEW cs \in [Calls -> Call \cup {Idle}], NEW c \in Calls, cs[c] # Idle, NEW n \in Nat
    PROVE  [cs EXCEPT ![c].step = "publish", ![c].job = n] \in [Calls -> Call \cup {Idle}]
<1>1. [cs[c] EXCEPT !.step = "publish", !.job = n] \in Call
  BY DEF Call
<1>2. [cs EXCEPT ![c].step = "publish", ![c].job = n]
        = [cs EXCEPT ![c] = [cs[c] EXCEPT !.step = "publish", !.job = n]]
  OBVIOUS
<1> QED
  BY <1>1, <1>2

\* The same for an upload that goes on to its next file.
LEMMA FileCallType ==
    ASSUME NEW cs \in [Calls -> Call \cup {Idle}], NEW c \in Calls, cs[c] # Idle,
           NEW d \in Docs, NEW l \in 0..MaxFiles
    PROVE  [cs EXCEPT ![c].step = "store", ![c].doc = d, ![c].left = l]
             \in [Calls -> Call \cup {Idle}]
<1>1. [cs[c] EXCEPT !.step = "store", !.doc = d, !.left = l] \in Call
  BY DEF Call
<1>2. [cs EXCEPT ![c].step = "store", ![c].doc = d, ![c].left = l]
        = [cs EXCEPT ![c] = [cs[c] EXCEPT !.step = "store", !.doc = d, !.left = l]]
  OBVIOUS
<1> QED
  BY <1>1, <1>2

-----------------------------------------------------------------------------
TypeInv == TypeOK /\ WorkerInv

LEMMA TypeInit == Init => TypeInv
  BY IngestAssumption, ManualAssumption, EmptySeq
     DEF Init, IngestInit, TypeInv, TypeOK, WorkerInv, IngestTypeOK, Holding, Stages, PipelineStages,
         MaxCopies, Idle

\* What the type invariant says of the worker, the topic and the jobs.
LEMMA JobFields ==
    ASSUME TypeInv
    PROVE  /\ LoopInv
           /\ \A j \in 1..Len(jobs) : /\ jobs[j] \in Job
                                       /\ jobs[j].doc \in Docs
                                       /\ jobs[j].action \in JobAction
                                       /\ jobs[j].status \in JobStatus
           /\ Len(jobs) \in Nat /\ Len(log) \in Nat
           /\ \A i \in 1..Len(log) : log[i] \in 1..Len(jobs)
           /\ Holding => current \in 1..Len(jobs) /\ Doc \in Docs
<1>1. /\ IngestTypeOK /\ WorkerInv
      /\ calls \in [Calls -> Call \cup {Idle}]
  BY DEF TypeInv, TypeOK
<1>2. RequestsOK
  <2>1. IsRecord(calls) /\ DOMAIN calls = Calls
    BY <1>1 DEF IsRecord
  <2>2. ASSUME NEW c \in Calls, calls[c].step # "idle"
        PROVE  /\ IsRecord(calls[c]) /\ {"step", "job"} \subseteq DOMAIN calls[c]
               /\ calls[c].doc \in Docs /\ calls[c].action \in JobAction
    <3>1. calls[c] \in Call
      BY <1>1, <2>2 DEF Idle
    <3> QED
      BY <3>1 DEF Call, IsRecord
  <2> QED
    BY <2>1, <2>2 DEF RequestsOK
<1>3. LoopInv
  BY <1>1, <1>2 DEF LoopInv
<1> QED
  BY <1>3, WorkerFields

\* The steps of the shared module keep the type invariant.
LEMMA SharedType ==
    ASSUME TypeInv, Shared
    PROVE  TypeInv'
<1>0. /\ TypeOK /\ UNCHANGED manualVars /\ SharedStep
      /\ calls \in [Calls -> Call \cup {Idle}]
  BY DEF TypeInv, TypeOK, Shared
<1>1. IngestTypeOK' /\ WorkerInv'
  BY <1>0, JobFields, SharedKeepsType
<1>2. calls' \in [Calls -> Call \cup {Idle}]
  <2>1. ASSUME NEW c \in Calls, InsertJob(c) PROVE <1>2
    <3>1. calls[c] # Idle /\ Len(jobs) + 1 \in Nat
      BY <2>1, JobFields DEF InsertJob, Idle
    <3> QED
      BY <1>0, <2>1, <3>1, JobCallType DEF InsertJob
  <2>2. ASSUME NEW c \in Calls, Publish(c) PROVE <1>2
    <3>1. calls[c] # Idle
      BY <2>2 DEF Publish, Idle
    <3> QED
      BY <1>0, <2>2, <3>1, GotoType DEF Publish, Goto
  <2>3. ASSUME NEW c \in Calls, PublishFails(c) \/ RequestFails(c) PROVE <1>2
    BY <1>0, <2>3 DEF PublishFails, RequestFails, Return
  <2>4. CASE ApiCrash
    BY <2>4 DEF ApiCrash
  <2>5. CASE WorkerLoop \/ WorkerCrash \/ StepFails
    <3>1. calls' = calls
      BY <2>5 DEF WorkerLoop, Fetch, Take, Commit, FailJob, Backoff, PublishDlq, WorkerCrash, StepFails
    <3> QED
      BY <1>0, <3>1
  <2> QED
    BY <1>0, <2>1, <2>2, <2>3, <2>4, <2>5 DEF SharedStep, Dispatch
<1> QED
  BY <1>0, <1>1, <1>2 DEF TypeInv, TypeOK, manualVars

\* The requests of DocumentService keep the type invariant.
LEMMA ServiceType ==
    ASSUME TypeInv, NEW c \in Calls, Service(c)
    PROVE  TypeInv'
<1> USE IngestAssumption, ManualAssumption
<1>0. /\ IngestTypeOK
      /\ calls \in [Calls -> Call \cup {Idle}]
      /\ WorkerInv
      /\ doc \in [Docs -> DocStatus \cup {"new", "gone"}]
      /\ files \subseteq Docs
      /\ chunks \in [Docs -> 0..MaxCopies]
  BY DEF TypeInv, TypeOK
<1>1. /\ UNCHANGED apiUnchanged
      /\ chunks' = chunks
  BY DEF Service, Upload, Store, NextFile, Finish, Reingest, Delete, DeleteRecord, manualVars
<1>2. /\ calls' \in [Calls -> Call \cup {Idle}]
      /\ \A b \in Calls : calls'[b].step = "publish" => calls[b].step = "publish" /\ calls'[b].job = calls[b].job
      /\ doc' \in [Docs -> DocStatus \cup {"new", "gone"}]
      /\ files' \subseteq Docs
  <2>r. ASSUME NEW st \in {"store", "unlinked", "dispatch"}, NEW d \in Docs, NEW a \in JobAction,
               NEW n \in 0..MaxFiles, Request(c, st, d, a, n)
        PROVE  /\ calls' \in [Calls -> Call \cup {Idle}]
               /\ \A b \in Calls : calls'[b].step = "publish" => calls[b].step = "publish" /\ calls'[b].job = calls[b].job
    <3>1. [step |-> st, doc |-> d, action |-> a, job |-> 0, left |-> n] \in Call
      BY DEF Call
    <3> QED
      BY <1>0, <2>r, <3>1 DEF Request
  <2>1. ASSUME Upload(c)
        PROVE  <1>2!1 /\ <1>2!2 /\ <1>2!3 /\ <1>2!4
    <3>1. PICK d \in Docs, n \in 1..MaxFiles :
             files' = files \cup {d} /\ Request(c, "store", d, "upsert", n - 1) /\ doc' = doc
      BY <2>1 DEF Upload
    <3>2. n - 1 \in 0..MaxFiles /\ "upsert" \in JobAction
      BY DEF JobAction
    <3> QED
      BY <1>0, <2>r, <3>1, <3>2
  <2>2. ASSUME Store(c)
        PROVE  <1>2!1 /\ <1>2!2 /\ <1>2!3 /\ <1>2!4
    <3>1. calls[c] # Idle /\ calls[c] \in Call
      BY <1>0, <2>2 DEF Store, Idle
    <3>2. calls' \in [Calls -> Call \cup {Idle}]
      BY <1>0, <2>2, <3>1, GotoType DEF Store, Goto
    <3> QED
      BY <1>0, <2>2, <3>1, <3>2 DEF Store, Goto, Call, DocStatus
  <2>3. ASSUME NextFile(c)
        PROVE  <1>2!1 /\ <1>2!2 /\ <1>2!3 /\ <1>2!4
    <3>1. calls[c] # Idle /\ calls[c] \in Call
      BY <1>0, <2>3 DEF NextFile, Idle
    <3>2. PICK d \in Docs :
            /\ files' = files \cup {d}
            /\ calls' = [calls EXCEPT ![c].step = "store", ![c].doc = d, ![c].left = calls[c].left - 1]
            /\ doc' = doc
      BY <2>3 DEF NextFile
    <3>3. calls[c].left - 1 \in 0..MaxFiles
      BY <2>3, <3>1 DEF NextFile, Call
    <3>4. calls' \in [Calls -> Call \cup {Idle}]
      BY <1>0, <3>1, <3>2, <3>3, FileCallType
    <3> QED
      BY <1>0, <3>1, <3>2, <3>4
  <2>4. ASSUME Finish(c)
        PROVE  <1>2!1 /\ <1>2!2 /\ <1>2!3 /\ <1>2!4
    BY <1>0, <2>4 DEF Finish, Return, manualVars, Idle
  <2>5. ASSUME NEW d \in Docs, Reingest(c, d)
        PROVE  <1>2!1 /\ <1>2!2 /\ <1>2!3 /\ <1>2!4
    BY <1>0, <2>5, <2>r DEF Reingest, DocStatus, JobAction
  <2>6. ASSUME NEW d \in Docs, Delete(c, d)
        PROVE  <1>2!1 /\ <1>2!2 /\ <1>2!3 /\ <1>2!4
    BY <1>0, <2>6, <2>r DEF Delete, JobAction
  <2>7. ASSUME DeleteRecord(c)
        PROVE  <1>2!1 /\ <1>2!2 /\ <1>2!3 /\ <1>2!4
    <3>1. calls[c] # Idle /\ calls[c] \in Call
      BY <1>0, <2>7 DEF DeleteRecord, Idle
    <3>2. CASE Exists(calls[c].doc)
      <4>1. /\ doc' = [doc EXCEPT ![calls[c].doc] = "gone"]
            /\ calls' = [calls EXCEPT ![c].step = "dispatch"]
            /\ files' = files
        BY <2>7, <3>2 DEF DeleteRecord, Goto
      <4>2. calls' \in [Calls -> Call \cup {Idle}]
        BY <1>0, <3>1, <4>1, GotoType
      <4> QED
        BY <1>0, <3>1, <4>1, <4>2 DEF Call
    <3>3. CASE ~Exists(calls[c].doc)
      BY <1>0, <2>7, <3>3 DEF DeleteRecord, Return, Idle
    <3> QED
      BY <3>2, <3>3
  <2> QED
    BY <2>1, <2>2, <2>3, <2>4, <2>5, <2>6, <2>7 DEF Service
<1>3. IngestTypeOK' /\ WorkerInv'
  BY <1>0, <1>1, <1>2 DEF apiUnchanged, IngestTypeOK, WorkerInv, offsetVars, workerVars, Holding, IsUpsert
<1> QED
  BY <1>0, <1>1, <1>2, <1>3 DEF TypeInv, TypeOK

\* A pipeline step writes at most the status of the job in hand.
LEMMA PipelineJobs ==
    ASSUME TypeInv, Pipeline
    PROVE  /\ jobs' \in Seq(Job) /\ Len(jobs') = Len(jobs)
           /\ \A j \in 1..Len(jobs) : /\ jobs'[j].doc = jobs[j].doc
                                      /\ jobs'[j].action = jobs[j].action
                                      /\ j # current => jobs'[j].status = jobs[j].status
           /\ UNCHANGED <<calls, log, offsetVars, dlq, files, current, attempt>>
           /\ Holding /\ current \in 1..Len(jobs) /\ Doc \in Docs
           /\ Doc' = Doc /\ IsUpsert' = IsUpsert
<1>1. Holding /\ current \in 1..Len(jobs) /\ Doc \in Docs /\ jobs \in Seq(Job)
  <2>1. Holding
    BY DEF Pipeline, MarkJob, MarkDoc, Find, Parse, Embed, Purge, Insert, DocDone, JobDone, FailDoc, Holding
  <2> QED
    BY <2>1, JobFields DEF TypeInv, TypeOK, IngestTypeOK
<1>2. UNCHANGED <<calls, log, offsetVars, dlq, files, current, attempt>>
  BY DEF Pipeline, MarkJob, MarkDoc, Find, Parse, Embed, Purge, Insert, DocDone, JobDone, FailDoc,
         SetDoc, Then, Go, Raise, pipelineUnchanged, manualVars
<1>3. ASSUME NEW s \in JobStatus, SetJob(s)
      PROVE  /\ jobs' \in Seq(Job) /\ Len(jobs') = Len(jobs)
             /\ \A j \in 1..Len(jobs) : /\ jobs'[j].doc = jobs[j].doc
                                        /\ jobs'[j].action = jobs[j].action
                                        /\ j # current => jobs'[j].status = jobs[j].status
  BY <1>1, <1>3, SetJobType DEF SetJob
<1>4. jobs' = jobs \/ SetJob("RUNNING") \/ SetJob("DONE")
  BY DEF Pipeline, MarkJob, MarkDoc, Find, Parse, Embed, Purge, Insert, DocDone, JobDone, FailDoc
<1>5. /\ jobs' \in Seq(Job) /\ Len(jobs') = Len(jobs)
      /\ \A j \in 1..Len(jobs) : /\ jobs'[j].doc = jobs[j].doc
                                 /\ jobs'[j].action = jobs[j].action
                                 /\ j # current => jobs'[j].status = jobs[j].status
  BY <1>1, <1>3, <1>4 DEF JobStatus
<1> QED
  BY <1>1, <1>2, <1>5 DEF Doc, IsUpsert

\* The pipeline keeps the type invariant.
LEMMA PipelineType ==
    ASSUME TypeInv, Pipeline
    PROVE  TypeInv'
<1> USE IngestAssumption, ManualAssumption
<1>0. /\ IngestTypeOK
      /\ calls \in [Calls -> Call \cup {Idle}]
      /\ WorkerInv
      /\ doc \in [Docs -> DocStatus \cup {"new", "gone"}]
      /\ files \subseteq Docs
      /\ chunks \in [Docs -> 0..MaxCopies]
  BY DEF TypeInv, TypeOK
<1>1. /\ jobs' \in Seq(Job) /\ Len(jobs') = Len(jobs)
      /\ UNCHANGED <<calls, log, offsetVars, dlq, files, current, attempt>>
      /\ Holding /\ Doc \in Docs
      /\ IsUpsert' = IsUpsert
  BY PipelineJobs
<1>2. doc' \in [Docs -> DocStatus \cup {"new", "gone"}]
  <2>1. doc' = doc \/ \E s \in DocStatus : doc' = [doc EXCEPT ![Doc] = s]
    BY DEF Pipeline, MarkJob, MarkDoc, Find, Parse, Embed, Purge, Insert, DocDone, JobDone, FailDoc,
           SetDoc, manualVars, DocStatus
  <2> QED
    BY <1>0, <1>1, <2>1
<1>7. chunks' \in [Docs -> 0..MaxCopies]
  <2>1. CASE chunks' = chunks
    BY <1>0, <2>1
  <2>2. CASE Purge
    BY <1>0, <1>1, <2>2 DEF Purge, MaxCopies
  <2>3. CASE Insert
    BY <1>0, <1>1, <2>3 DEF Insert, MaxCopies
  <2> QED
    BY <2>1, <2>2, <2>3
       DEF Pipeline, MarkJob, MarkDoc, Find, Parse, Embed, DocDone, JobDone, FailDoc, manualVars
<1>3. /\ faults' \in 0..MaxFaults
      /\ \/ verdict' = verdict
         \/ verdict' \in {"retry", "exhausted", "permanent"} /\ stage' = "fail_job"
      /\ verdict' = "retry" => attempt < MaxAttempts
  <2>1. verdict' = verdict \/ Raise(TRUE) \/ Raise(FALSE)
    BY DEF Pipeline, MarkJob, MarkDoc, Find, Parse, Embed, Purge, Insert, DocDone, JobDone, FailDoc,
           SetDoc, Then, Go
  <2>2. faults' = faults \/ \E kind \in FaultKinds : Fault(kind)
    BY DEF Pipeline, MarkJob, MarkDoc, Find, Parse, Embed, Purge, Insert, DocDone, JobDone, FailDoc,
           SetDoc, Then, Go, FaultKinds
  <2>3. faults' \in 0..MaxFaults
    BY <1>0, <2>2 DEF Fault, IngestTypeOK
  <2>4. verdict = "retry" => attempt < MaxAttempts
    BY <1>0 DEF WorkerInv
  <2> QED
    BY <2>1, <2>3, <2>4 DEF Raise, Verdict
<1>4. /\ stage' \in {"mark_doc", "find", "parse", "embed", "insert", "doc_done"} => IsUpsert
      /\ stage' \in Stages \ {"poll", "next"}
      /\ stage' = "backoff" => verdict' = "retry"
  BY <1>0
     DEF Pipeline, MarkJob, MarkDoc, Find, Parse, Embed, Purge, Insert, DocDone, JobDone, FailDoc,
         SetDoc, Then, Go, Raise, AfterFail, WorkerInv, Stages, PipelineStages
<1>5. IngestTypeOK'
  BY <1>0, <1>1, <1>3, <1>4 DEF IngestTypeOK, offsetVars
<1>6. WorkerInv'
  BY <1>0, <1>1, <1>3, <1>4 DEF WorkerInv, Holding, offsetVars
<1> QED
  BY <1>0, <1>1, <1>2, <1>5, <1>6, <1>7 DEF TypeInv, TypeOK

\* Every variable keeps its shape: the type invariant of the specification.
THEOREM TypeCorrect == Spec => []TypeOK
<1>1. TypeInv /\ [Next]_vars => TypeInv'
  <2> SUFFICES ASSUME TypeInv, [Next]_vars
               PROVE  TypeInv'
    OBVIOUS
  <2>1. CASE Next
    BY <2>1, SharedType, ServiceType, PipelineType DEF Next
  <2>2. CASE UNCHANGED vars
    BY <2>2 DEF TypeInv, TypeOK, IngestTypeOK, WorkerInv, Holding, IsUpsert, vars, ingestVars, manualVars
  <2> QED
    BY <2>1, <2>2
<1>2. TypeInv => TypeOK
  BY DEF TypeInv
<1> QED
  BY TypeInit, <1>1, <1>2, PTL DEF Spec

-----------------------------------------------------------------------------
LEMMA SafeInit == Init => IInv
  BY TypeInit, IngestAssumption, ManualAssumption
     DEF DeleteOnceInv, Deleting, OneDeleteJob, Init, IngestInit, TypeInv, IInv, StoreInv, DeleteInv, IngestInv, ChunkInv, DoneIsIndexed,
         NoDuplicateChunks, DeleteIsFinal, JobsOf, Ingesting, IsUpsert, Idle

\* Dispatching, the worker's loop and failures keep the invariant.
LEMMA SharedSafe ==
    ASSUME IInv, Shared
    PROVE  StoreInv' /\ DeleteInv' /\ IngestInv' /\ ChunkInv' /\ DoneIsIndexed' /\ DeleteIsFinal'
<1>0. /\ TypeInv /\ StoreInv /\ DeleteInv /\ IngestInv /\ ChunkInv /\ DoneIsIndexed /\ DeleteIsFinal
      /\ doc' = doc /\ files' = files /\ chunks' = chunks
  BY DEF IInv, TypeInv, Shared, manualVars
<1>j. /\ \A j \in 1..Len(jobs) : /\ jobs[j].doc \in Docs
                                 /\ jobs[j].action \in JobAction
      /\ Len(jobs) \in Nat
      /\ Holding => current \in 1..Len(jobs) /\ Doc \in Docs
  BY <1>0, JobFields
<1>s. DoneIsIndexed' /\ NoDuplicateChunks'
  BY <1>0 DEF ChunkInv, DoneIsIndexed, NoDuplicateChunks
<1>1. ASSUME NEW c \in Calls, InsertJob(c)
      PROVE  StoreInv' /\ DeleteInv' /\ IngestInv' /\ ChunkInv' /\ DoneIsIndexed' /\ DeleteIsFinal'
  <2>1. calls[c] \in Call /\ calls[c] # Idle
    BY <1>0, <1>1 DEF TypeInv, TypeOK, InsertJob, Idle
  <2>2. [doc |-> calls[c].doc, action |-> calls[c].action, status |-> "PENDING"] \in Job
    BY <2>1 DEF Call, Job, JobStatus
  <2>3. /\ Len(jobs') = Len(jobs) + 1
        /\ \A j \in 1..Len(jobs) : jobs'[j] = jobs[j]
        /\ jobs'[Len(jobs) + 1] = [doc |-> calls[c].doc, action |-> calls[c].action, status |-> "PENDING"]
    BY <2>2, <1>0, <1>1, InsertJobType DEF InsertJob, TypeInv, TypeOK, IngestTypeOK
  <2>4. /\ calls \in [Calls -> Call \cup {Idle}]
        /\ \A b \in Calls \ {c} : calls'[b] = calls[b]
        /\ calls'[c].step = "publish" /\ calls'[c].action = calls[c].action /\ calls'[c].left = calls[c].left
    BY <1>0, <1>1, <2>1 DEF InsertJob, Call, TypeInv, TypeOK
  <2>5. StoreInv'
    BY <1>0, <2>4 DEF StoreInv
  <2>6. calls[c].action = "delete" => doc[calls[c].doc] = "gone"
    BY <1>0, <1>1 DEF DeleteInv, InsertJob
  <2>7. DeleteInv'
    <3>1. \A j \in 1..Len(jobs') : jobs'[j].action = "delete" => doc[jobs'[j].doc] = "gone"
      <4> SUFFICES ASSUME NEW j \in 1..Len(jobs'), jobs'[j].action = "delete"
                   PROVE  doc[jobs'[j].doc] = "gone"
        OBVIOUS
      <4>1. CASE j = Len(jobs) + 1
        BY <2>3, <2>6, <4>1
      <4>2. CASE j \in 1..Len(jobs)
        BY <1>0, <2>3, <4>2 DEF DeleteInv
      <4> QED
        BY <1>j, <2>3, <4>1, <4>2
    <3> QED
      BY <1>0, <2>1, <2>4, <3>1 DEF DeleteInv
  <2>8. Holding => Doc' = Doc /\ IsUpsert' = IsUpsert
    BY <1>j, <1>1, <2>3 DEF InsertJob, workerVars, Doc, IsUpsert
  <2>9. IngestInv' /\ ChunkInv'
    BY <1>0, <1>s, <1>j, <1>1, <2>3, <2>8 DEF IngestInv, ChunkInv, Ingesting, InsertJob, workerVars, Holding
  <2>10. DeleteIsFinal'
    BY <1>0, <1>j, <2>3 DEF DeleteIsFinal, JobsOf
  <2> QED
    BY <1>s, <2>5, <2>7, <2>9, <2>10
<1>2. ASSUME NEW c \in Calls, Publish(c) \/ PublishFails(c) \/ RequestFails(c)
      PROVE  StoreInv' /\ DeleteInv' /\ IngestInv' /\ ChunkInv' /\ DoneIsIndexed' /\ DeleteIsFinal'
  <2>1. /\ calls \in [Calls -> Call \cup {Idle}]
        /\ \A b \in Calls \ {c} : calls'[b] = calls[b]
        /\ \/ calls'[c] = Idle
           \/ /\ calls'[c].step = "published"
              /\ calls'[c].action = calls[c].action
              /\ calls'[c].left = calls[c].left
        /\ calls[c] # Idle /\ calls[c] \in Call
        /\ UNCHANGED <<jobs, stage, current>>
    <3>1. calls \in [Calls -> Call \cup {Idle}] /\ UNCHANGED <<jobs, stage, current>>
      BY <1>0, <1>2 DEF Publish, PublishFails, RequestFails, TypeInv, TypeOK, workerVars
    <3>2. calls[c] # Idle /\ calls[c] \in Call
      BY <1>2, <3>1 DEF Publish, PublishFails, RequestFails, Idle
    <3>3. CASE Publish(c)
      <4>1. calls' = [calls EXCEPT ![c].step = "published"]
        BY <3>3 DEF Publish, Goto
      <4>2. /\ calls'[c].step = "published"
            /\ calls'[c].action = calls[c].action
            /\ calls'[c].left = calls[c].left
            /\ \A b \in Calls \ {c} : calls'[b] = calls[b]
        BY <3>1, <3>2, <4>1 DEF Call
      <4> QED
        BY <3>1, <3>2, <4>2
    <3>4. CASE PublishFails(c) \/ RequestFails(c)
      <4>1. calls' = [calls EXCEPT ![c] = Idle]
        BY <3>4 DEF PublishFails, RequestFails, Return
      <4>2. calls'[c] = Idle
        BY <3>1, <4>1
      <4>3. \A b \in Calls \ {c} : calls'[b] = calls[b]
        BY <3>1, <4>1
      <4> QED
        BY <3>1, <3>2, <4>2, <4>3
    <3> QED
      BY <1>2, <3>1, <3>2, <3>3, <3>4
  <2>2. StoreInv' /\ DeleteInv'
    BY <1>0, <2>1 DEF StoreInv, DeleteInv, Idle
  <2> QED
    BY <1>0, <1>s, <2>1, <2>2 DEF IngestInv, ChunkInv, Ingesting, IsUpsert, Doc, DeleteIsFinal, JobsOf
<1>3. ASSUME ApiCrash
      PROVE  StoreInv' /\ DeleteInv' /\ IngestInv' /\ ChunkInv' /\ DoneIsIndexed' /\ DeleteIsFinal'
  BY <1>0, <1>s, <1>3 DEF ApiCrash, StoreInv, DeleteInv, Idle, workerVars,
     IngestInv, ChunkInv, Ingesting, IsUpsert, Doc, DeleteIsFinal, JobsOf
<1>4. ASSUME Fetch \/ Take \/ Commit \/ Backoff \/ PublishDlq \/ WorkerCrash \/ StepFails
      PROVE  StoreInv' /\ DeleteInv' /\ IngestInv' /\ ChunkInv' /\ DoneIsIndexed' /\ DeleteIsFinal'
  <2>1. /\ UNCHANGED <<calls, jobs>>
        /\ stage' \notin {"find", "parse", "embed", "insert", "doc_done", "purge", "job_done"}
    BY <1>4 DEF Fetch, Take, Commit, Backoff, PublishDlq, WorkerCrash, StepFails, Raise, Go
  <2> QED
    BY <1>0, <1>s, <2>1 DEF StoreInv, DeleteInv, IngestInv, ChunkInv, Ingesting, DeleteIsFinal, JobsOf
<1>5. ASSUME FailJob
      PROVE  StoreInv' /\ DeleteInv' /\ IngestInv' /\ ChunkInv' /\ DoneIsIndexed' /\ DeleteIsFinal'
  <2>1. /\ calls' = calls
        /\ stage' = "fail_doc"
        /\ Holding
    BY <1>5 DEF FailJob, Go, Holding
  <2>2. PICK s \in {"FAILED", "DEAD"} : jobs' = [jobs EXCEPT ![current].status = s]
    BY <1>5 DEF FailJob, SetJob
  <2>3. /\ Len(jobs') = Len(jobs)
        /\ \A j \in 1..Len(jobs) : /\ jobs'[j].doc = jobs[j].doc
                                   /\ jobs'[j].action = jobs[j].action
                                   /\ j # current => jobs'[j].status = jobs[j].status
        /\ jobs'[current].status = s
    <3>1. jobs \in Seq(Job) /\ current \in 1..Len(jobs) /\ s \in JobStatus
      BY <1>0, <1>j, <2>1 DEF TypeInv, TypeOK, IngestTypeOK, JobStatus
    <3> QED
      BY <2>2, <3>1, SetJobType
  <2>4. DeleteIsFinal'
    BY <1>0, <2>3 DEF DeleteIsFinal, JobsOf
  <2>5. StoreInv' /\ DeleteInv'
    BY <1>0, <2>1, <2>3 DEF StoreInv, DeleteInv
  <2> QED
    BY <1>s, <2>1, <2>4, <2>5 DEF IngestInv, ChunkInv, Ingesting
<1> QED
  BY <1>1, <1>2, <1>3, <1>4, <1>5 DEF Shared, SharedStep, Dispatch, WorkerLoop

\* Requests keep the invariant: a record only appears where there was none,
\* never turns DONE, and once gone stays gone.
LEMMA ServiceSafe ==
    ASSUME IInv, NEW c \in Calls, Service(c)
    PROVE  StoreInv' /\ DeleteInv' /\ IngestInv' /\ ChunkInv' /\ DoneIsIndexed' /\ DeleteIsFinal'
<1>0. /\ TypeInv /\ StoreInv /\ DeleteInv /\ IngestInv /\ ChunkInv /\ DoneIsIndexed /\ DeleteIsFinal
      /\ calls \in [Calls -> Call \cup {Idle}]
      /\ doc \in [Docs -> DocStatus \cup {"new", "gone"}]
      /\ UNCHANGED <<jobs, stage, current, chunks>>
      /\ \A j \in 1..Len(jobs) : jobs[j].doc \in Docs
      /\ Holding => Doc \in Docs
  <2>1. UNCHANGED <<jobs, stage, current, chunks>>
    BY DEF Service, Upload, Store, NextFile, Finish, Reingest, Delete, DeleteRecord, manualVars,
           apiUnchanged, workerVars
  <2> QED
    BY <2>1, JobFields DEF IInv, TypeInv, TypeOK
<1>r. ASSUME NEW st \in {"store", "unlinked", "dispatch"}, NEW d \in Docs, NEW a \in JobAction,
             NEW n \in 0..MaxFiles, Request(c, st, d, a, n)
      PROVE  /\ \A b \in Calls \ {c} : calls'[b] = calls[b]
             /\ calls'[c] = [step |-> st, doc |-> d, action |-> a, job |-> 0, left |-> n]
  BY <1>0, <1>r DEF Request
<1>1. ASSUME Upload(c)
      PROVE  StoreInv' /\ DeleteInv' /\ (\A e \in Docs : doc'[e] = "DONE" => doc[e] = "DONE")
  <2>1. PICK d \in Docs, n \in 1..MaxFiles :
           Fresh(d) /\ files' = files \cup {d} /\ Request(c, "store", d, "upsert", n - 1) /\ doc' = doc
    BY <1>1 DEF Upload
  <2>2. n - 1 \in 0..MaxFiles /\ "upsert" \in JobAction
    BY ManualAssumption DEF JobAction
  <2>3. /\ \A b \in Calls \ {c} : calls'[b] = calls[b]
        /\ calls'[c] = [step |-> "store", doc |-> d, action |-> "upsert", job |-> 0, left |-> n - 1]
    BY <1>r, <2>1, <2>2
  <2> QED
    BY <1>0, <2>1, <2>3 DEF StoreInv, DeleteInv, Fresh
<1>2. ASSUME Store(c)
      PROVE  StoreInv' /\ DeleteInv' /\ (\A e \in Docs : doc'[e] = "DONE" => doc[e] = "DONE")
  <2>1. /\ calls[c].step = "store" /\ calls[c] # Idle /\ calls[c] \in Call
        /\ doc[calls[c].doc] = "new" /\ calls[c].action = "upsert"
    BY <1>0, <1>2 DEF Store, StoreInv, DeleteInv, Idle
  <2>2. /\ \A b \in Calls \ {c} : calls'[b] = calls[b]
        /\ calls'[c].step = "dispatch" /\ calls'[c].action = "upsert"
    <3>1. calls' = [calls EXCEPT ![c].step = "dispatch"]
      BY <1>2 DEF Store, Goto
    <3> QED
      BY <1>0, <2>1, <3>1 DEF Call
  <2>3. /\ doc' = [doc EXCEPT ![calls[c].doc] = "PENDING"]
        /\ files' = files
    BY <1>2 DEF Store
  <2>4. calls[c].doc \in Docs
    BY <2>1 DEF Call
  <2>5. StoreInv'
    BY <1>0, <2>1, <2>2, <2>3, <2>4 DEF StoreInv
  <2>6. DeleteInv'
    BY <1>0, <2>1, <2>2, <2>3, <2>4 DEF DeleteInv
  <2> QED
    BY <1>0, <2>3, <2>4, <2>5, <2>6
<1>3. ASSUME NextFile(c)
      PROVE  StoreInv' /\ DeleteInv' /\ (\A e \in Docs : doc'[e] = "DONE" => doc[e] = "DONE")
  <2>1. PICK d \in Docs :
          /\ Fresh(d)
          /\ files' = files \cup {d}
          /\ calls' = [calls EXCEPT ![c].step = "store", ![c].doc = d, ![c].left = calls[c].left - 1]
          /\ doc' = doc
    BY <1>3 DEF NextFile
  <2>2. /\ calls[c] # Idle /\ calls[c] \in Call /\ calls[c].action = "upsert"
    BY <1>0, <1>3 DEF NextFile, Idle, DeleteInv
  <2>3. /\ \A b \in Calls \ {c} : calls'[b] = calls[b]
        /\ calls'[c].step = "store" /\ calls'[c].doc = d /\ calls'[c].action = "upsert"
    BY <1>0, <2>1, <2>2 DEF Call
  <2> QED
    BY <1>0, <2>1, <2>3 DEF StoreInv, DeleteInv, Fresh
<1>4. ASSUME Finish(c)
      PROVE  StoreInv' /\ DeleteInv' /\ (\A e \in Docs : doc'[e] = "DONE" => doc[e] = "DONE")
  <2>1. /\ \A b \in Calls \ {c} : calls'[b] = calls[b]
        /\ calls'[c] = Idle /\ doc' = doc /\ files' = files
    BY <1>0, <1>4 DEF Finish, Return, manualVars
  <2> QED
    BY <1>0, <2>1 DEF StoreInv, DeleteInv, Idle
<1>5. ASSUME NEW d \in Docs, Reingest(c, d)
      PROVE  StoreInv' /\ DeleteInv' /\ (\A e \in Docs : doc'[e] = "DONE" => doc[e] = "DONE")
  <2>1. /\ \A b \in Calls \ {c} : calls'[b] = calls[b]
        /\ calls'[c] = [step |-> "dispatch", doc |-> d, action |-> "upsert", job |-> 0, left |-> 0]
    BY <1>r, <1>5, ManualAssumption DEF Reingest, JobAction
  <2>2. /\ doc[d] \in DocStatus
        /\ doc' = [doc EXCEPT ![d] = "PENDING"] /\ files' = files
    BY <1>5 DEF Reingest, Exists
  <2>3. doc[d] # "new" /\ doc[d] # "gone"
    BY <2>2 DEF DocStatus
  <2> QED
    BY <1>0, <2>1, <2>2, <2>3 DEF StoreInv, DeleteInv
<1>6. ASSUME NEW d \in Docs, Delete(c, d)
      PROVE  StoreInv' /\ DeleteInv' /\ (\A e \in Docs : doc'[e] = "DONE" => doc[e] = "DONE")
  <2>1. /\ \A b \in Calls \ {c} : calls'[b] = calls[b]
        /\ calls'[c] = [step |-> "unlinked", doc |-> d, action |-> "delete", job |-> 0, left |-> 0]
    BY <1>r, <1>6, ManualAssumption DEF Delete, JobAction
  <2>2. doc[d] # "new" /\ doc' = doc /\ files' = files \ {d}
    BY <1>6 DEF Delete, Exists, DocStatus
  <2> QED
    BY <1>0, <2>1, <2>2 DEF StoreInv, DeleteInv
<1>7. ASSUME DeleteRecord(c)
      PROVE  StoreInv' /\ DeleteInv' /\ (\A e \in Docs : doc'[e] = "DONE" => doc[e] = "DONE")
  <2>1. calls[c].step = "unlinked" /\ calls[c] # Idle /\ calls[c] \in Call /\ files' = files
    BY <1>0, <1>7 DEF DeleteRecord, Idle
  <2>2. CASE Exists(calls[c].doc)
    <3>1. /\ doc' = [doc EXCEPT ![calls[c].doc] = "gone"]
          /\ calls' = [calls EXCEPT ![c].step = "dispatch"]
      BY <1>7, <2>2 DEF DeleteRecord, Goto
    <3>2. /\ \A b \in Calls \ {c} : calls'[b] = calls[b]
          /\ calls'[c].step = "dispatch" /\ calls'[c].doc = calls[c].doc
          /\ calls'[c].action = calls[c].action /\ calls'[c].left = calls[c].left
          /\ calls[c].doc \in Docs
      BY <1>0, <2>1, <3>1 DEF Call
    <3>3. doc[calls[c].doc] # "new"
      BY <2>2 DEF Exists, DocStatus
    <3>4. StoreInv'
      BY <1>0, <2>1, <3>1, <3>2, <3>3 DEF StoreInv
    <3>5. DeleteInv'
      BY <1>0, <2>1, <3>1, <3>2, <3>3 DEF DeleteInv
    <3> QED
      BY <1>0, <3>1, <3>2, <3>4, <3>5
  <2>3. CASE ~Exists(calls[c].doc)
    <3>1. doc' = doc /\ calls' = [calls EXCEPT ![c] = Idle]
      BY <1>7, <2>3 DEF DeleteRecord, Return
    <3>2. \A b \in Calls \ {c} : calls'[b] = calls[b]
      BY <1>0, <3>1
    <3>3. calls'[c] = Idle
      BY <1>0, <3>1
    <3> QED
      BY <1>0, <2>1, <3>1, <3>2, <3>3 DEF StoreInv, DeleteInv, Idle
  <2> QED
    BY <2>2, <2>3
<1>8. StoreInv' /\ DeleteInv' /\ (\A e \in Docs : doc'[e] = "DONE" => doc[e] = "DONE")
  BY <1>1, <1>2, <1>3, <1>4, <1>5, <1>6, <1>7 DEF Service
<1> QED
  BY <1>0, <1>8 DEF IngestInv, ChunkInv, DoneIsIndexed, NoDuplicateChunks, DeleteIsFinal, JobsOf,
                    Ingesting, IsUpsert, Doc, Holding

\* The pipeline keeps the invariant: the chunks of a document come and go only
\* while the document does not say DONE and no DELETE of it is done.
LEMMA PipelineSafe ==
    ASSUME IInv, Pipeline
    PROVE  StoreInv' /\ DeleteInv' /\ IngestInv' /\ ChunkInv' /\ DoneIsIndexed' /\ DeleteIsFinal'
<1>0. /\ TypeInv /\ StoreInv /\ DeleteInv /\ IngestInv /\ ChunkInv /\ DoneIsIndexed /\ DeleteIsFinal
      /\ doc \in [Docs -> DocStatus \cup {"new", "gone"}]
      /\ chunks \in [Docs -> 0..MaxCopies]
      /\ \A j \in 1..Len(jobs) : jobs[j].doc \in Docs
      /\ \A j \in 1..Len(jobs) : jobs[j].action \in JobAction
      /\ WorkerInv
  BY JobFields DEF IInv, TypeInv, TypeOK
<1>j. /\ Len(jobs') = Len(jobs)
      /\ \A j \in 1..Len(jobs) : /\ jobs'[j].doc = jobs[j].doc
                                 /\ jobs'[j].action = jobs[j].action
                                 /\ j # current => jobs'[j].status = jobs[j].status
      /\ jobs \in Seq(Job)
      /\ UNCHANGED <<calls, files, current>>
      /\ current \in 1..Len(jobs) /\ Doc \in Docs /\ Doc' = Doc /\ IsUpsert' = IsUpsert
  BY <1>0, PipelineJobs DEF TypeInv, TypeOK, IngestTypeOK
<1>c. \A c \in Calls : calls[c] # Idle => calls[c].doc \in Docs
  BY <1>0 DEF TypeInv, TypeOK, Call
<1>d. ASSUME NEW s \in DocStatus, Exists(Doc), doc' = [doc EXCEPT ![Doc] = s]
      PROVE  StoreInv' /\ DeleteInv'
  <2>1. doc[Doc] # "new" /\ doc[Doc] # "gone"
    BY <1>d DEF Exists, DocStatus
  <2>2. StoreInv'
    BY <1>0, <1>j, <1>d, <2>1 DEF StoreInv
  <2>3. DeleteInv'
    <3>1. \A c \in Calls : calls[c].step \in {"unlinked", "dispatch"} => calls[c].doc \in Docs
      BY <1>c DEF Idle
    <3>2. \A e \in Docs : doc[e] = "gone" => doc'[e] = "gone"
      BY <1>0, <1>d, <2>1
    <3>3. \A e \in Docs : doc[e] # "new" => doc'[e] # "new"
      BY <1>0, <1>d DEF DocStatus
    <3> QED
      BY <1>0, <1>j, <3>1, <3>2, <3>3 DEF DeleteInv
  <2> QED
    BY <2>2, <2>3
<1>e. doc' = doc => StoreInv' /\ DeleteInv'
  BY <1>0, <1>j DEF StoreInv, DeleteInv
<1>f. ASSUME NEW s \in JobStatus, SetJob(s)
      PROVE  jobs'[current].status = s
  BY <1>j, <1>f, SetJobType DEF SetJob
<1>1. ASSUME MarkJob
      PROVE  StoreInv' /\ DeleteInv' /\ IngestInv' /\ ChunkInv' /\ DoneIsIndexed' /\ DeleteIsFinal'
  <2>1. jobs'[current].status = "RUNNING"
    BY <1>1, <1>f DEF MarkJob, JobStatus
  <2>2. /\ \/ stage' = "fail_job"
           \/ stage' = "mark_doc" /\ IsUpsert
           \/ stage' = "purge" /\ ~IsUpsert
        /\ doc' = doc /\ chunks' = chunks
    BY <1>1 DEF MarkJob, Then, Go, Raise, manualVars
  <2>3. DeleteIsFinal'
    BY <1>0, <1>j, <2>1, <2>2 DEF DeleteIsFinal, JobsOf
  <2> QED
    BY <1>0, <1>j, <1>e, <2>2, <2>3
       DEF IngestInv, ChunkInv, Ingesting, DoneIsIndexed, NoDuplicateChunks
<1>2. ASSUME MarkDoc
      PROVE  StoreInv' /\ DeleteInv' /\ IngestInv' /\ ChunkInv' /\ DoneIsIndexed' /\ DeleteIsFinal'
  <2>1. jobs' = jobs /\ chunks' = chunks
    BY <1>2 DEF MarkDoc
  <2>2. CASE Exists(Doc)
    <3>1. /\ doc' = [doc EXCEPT ![Doc] = "PROCESSING"]
          /\ stage' \in {"find", "fail_job"}
      BY <1>2, <2>2 DEF MarkDoc, SetDoc, Then, Go, Raise
    <3>2. \A j \in 1..Len(jobs) : jobs[j].doc = Doc => jobs[j].action # "delete"
      BY <1>0, <2>2 DEF DeleteInv, Exists, DocStatus
    <3>3. StoreInv' /\ DeleteInv'
      BY <1>d, <2>2, <3>1 DEF DocStatus
    <3> QED
      BY <1>0, <1>j, <2>1, <3>1, <3>2, <3>3
         DEF IngestInv, ChunkInv, Ingesting, DoneIsIndexed, NoDuplicateChunks, DeleteIsFinal, JobsOf
  <2>3. CASE ~Exists(Doc)
    <3>1. doc' = doc /\ stage' = "fail_job"
      BY <1>2, <2>3 DEF MarkDoc, SetDoc, Raise
    <3> QED
      BY <1>0, <1>j, <1>e, <2>1, <3>1
         DEF IngestInv, ChunkInv, Ingesting, DoneIsIndexed, NoDuplicateChunks, DeleteIsFinal, JobsOf
  <2> QED
    BY <2>2, <2>3
<1>3. ASSUME Find \/ Parse \/ Embed
      PROVE  StoreInv' /\ DeleteInv' /\ IngestInv' /\ ChunkInv' /\ DoneIsIndexed' /\ DeleteIsFinal'
  <2>1. /\ jobs' = jobs /\ doc' = doc /\ chunks' = chunks
        /\ Ingesting
        /\ stage' \in {"parse", "embed", "purge", "fail_job"}
        /\ IsUpsert
    BY <1>0, <1>3 DEF Find, Parse, Embed, Go, Raise, manualVars, Ingesting, WorkerInv
  <2> QED
    BY <1>0, <1>j, <1>e, <2>1
       DEF IngestInv, ChunkInv, Ingesting, DoneIsIndexed, NoDuplicateChunks, DeleteIsFinal, JobsOf
<1>4. ASSUME Purge
      PROVE  StoreInv' /\ DeleteInv' /\ IngestInv' /\ ChunkInv' /\ DoneIsIndexed' /\ DeleteIsFinal'
  <2>1. /\ jobs' = jobs /\ doc' = doc /\ chunks' = [chunks EXCEPT ![Doc] = 0]
        /\ stage = "purge"
        /\ \/ stage' = "fail_job"
           \/ stage' = "insert" /\ IsUpsert
           \/ stage' = "job_done" /\ ~IsUpsert
    BY <1>4 DEF Purge, Then, Go, Raise
  <2>2. doc[Doc] # "DONE"
    <3>1. CASE IsUpsert
      BY <1>0, <2>1, <3>1 DEF IngestInv, Ingesting
    <3>2. CASE ~IsUpsert
      BY <1>0, <1>j, <3>2 DEF DeleteInv, IsUpsert, Doc, JobAction
    <3> QED
      BY <3>1, <3>2
  <2>3. DoneIsIndexed' /\ DeleteIsFinal' /\ NoDuplicateChunks'
    BY <1>0, <1>j, <2>1, <2>2 DEF DoneIsIndexed, DeleteIsFinal, JobsOf, NoDuplicateChunks, ChunkInv
  <2> QED
    BY <1>0, <1>j, <1>e, <2>1, <2>3 DEF IngestInv, ChunkInv, Ingesting
<1>5. ASSUME Insert
      PROVE  StoreInv' /\ DeleteInv' /\ IngestInv' /\ ChunkInv' /\ DoneIsIndexed' /\ DeleteIsFinal'
  <2>1. /\ jobs' = jobs /\ doc' = doc
        /\ stage = "insert"
        /\ stage' \in {"doc_done", "fail_job"}
    BY <1>5 DEF Insert, Then, Go, Raise
  <2>2. chunks' = [chunks EXCEPT ![Doc] = 1]
    <3>1. chunks[Doc] = 0 /\ chunks[Doc] < MaxCopies
      BY <1>0, <1>5, IngestAssumption DEF Insert, ChunkInv, MaxCopies
    <3>2. chunks' = [chunks EXCEPT ![Doc] = IF chunks[Doc] < MaxCopies THEN chunks[Doc] + 1 ELSE chunks[Doc]]
      BY <1>5 DEF Insert
    <3> QED
      BY <3>1, <3>2
  <2>3. /\ doc[Doc] # "DONE"
        /\ \A j \in 1..Len(jobs) : jobs[j].doc = Doc /\ jobs[j].action = "delete" => jobs[j].status # "DONE"
    BY <1>0, <2>1 DEF IngestInv, Ingesting
  <2>4. DoneIsIndexed' /\ DeleteIsFinal' /\ NoDuplicateChunks'
    BY <1>0, <1>j, <2>1, <2>2, <2>3 DEF DoneIsIndexed, DeleteIsFinal, JobsOf, NoDuplicateChunks, ChunkInv
  <2> QED
    BY <1>0, <1>j, <1>e, <2>1, <2>2, <2>3, <2>4 DEF IngestInv, ChunkInv, Ingesting
<1>6. ASSUME DocDone
      PROVE  StoreInv' /\ DeleteInv' /\ IngestInv' /\ ChunkInv' /\ DoneIsIndexed' /\ DeleteIsFinal'
  <2>1. /\ jobs' = jobs /\ chunks' = chunks
        /\ stage = "doc_done" /\ IsUpsert /\ chunks[Doc] = 1
    BY <1>0, <1>6 DEF DocDone, WorkerInv, ChunkInv
  <2>2. CASE Exists(Doc)
    <3>1. /\ doc' = [doc EXCEPT ![Doc] = "DONE"]
          /\ stage' \in {"job_done", "fail_job"}
      BY <1>6, <2>2 DEF DocDone, SetDoc, Then, Go, Raise
    <3>2. StoreInv' /\ DeleteInv'
      BY <1>d, <2>2, <3>1 DEF DocStatus
    <3> QED
      BY <1>0, <1>j, <2>1, <3>1, <3>2
         DEF IngestInv, ChunkInv, Ingesting, DoneIsIndexed, NoDuplicateChunks, DeleteIsFinal, JobsOf
  <2>3. CASE ~Exists(Doc)
    <3>1. doc' = doc /\ stage' = "fail_job"
      BY <1>6, <2>3 DEF DocDone, SetDoc, Raise
    <3> QED
      BY <1>0, <1>j, <1>e, <2>1, <3>1
         DEF IngestInv, ChunkInv, Ingesting, DoneIsIndexed, NoDuplicateChunks, DeleteIsFinal, JobsOf
  <2> QED
    BY <2>2, <2>3
<1>7. ASSUME JobDone
      PROVE  StoreInv' /\ DeleteInv' /\ IngestInv' /\ ChunkInv' /\ DoneIsIndexed' /\ DeleteIsFinal'
  <2>1. /\ doc' = doc /\ chunks' = chunks
        /\ stage' \in {"commit", "fail_job"}
        /\ ~IsUpsert => chunks[Doc] = 0
    BY <1>0, <1>7 DEF JobDone, Then, Go, Raise, manualVars, ChunkInv
  <2>2. jobs[current].action = "delete" => chunks[jobs[current].doc] = 0
    BY <2>1 DEF IsUpsert, Doc
  <2>3. DeleteIsFinal'
    BY <1>0, <1>j, <2>1, <2>2 DEF DeleteIsFinal, JobsOf
  <2> QED
    BY <1>0, <1>j, <1>e, <2>1, <2>3
       DEF IngestInv, ChunkInv, Ingesting, DoneIsIndexed, NoDuplicateChunks
<1>8. ASSUME FailDoc
      PROVE  StoreInv' /\ DeleteInv' /\ IngestInv' /\ ChunkInv' /\ DoneIsIndexed' /\ DeleteIsFinal'
  <2>1. /\ jobs' = jobs /\ chunks' = chunks
        /\ stage' \in {"backoff", "dlq"}
    BY <1>8 DEF FailDoc, AfterFail
  <2>2. \/ doc' = doc
        \/ Exists(Doc) /\ doc' = [doc EXCEPT ![Doc] = "FAILED"]
    <3>1. CASE Exists(Doc)
      BY <1>8, <3>1 DEF FailDoc
    <3>2. CASE ~Exists(Doc)
      BY <1>8, <3>2 DEF FailDoc
    <3> QED
      BY <3>1, <3>2
  <2>3. StoreInv' /\ DeleteInv'
    BY <1>d, <1>e, <2>2 DEF DocStatus
  <2> QED
    BY <1>0, <1>j, <2>1, <2>2, <2>3, SMTT(30)
       DEF IngestInv, ChunkInv, Ingesting, DoneIsIndexed, NoDuplicateChunks, DeleteIsFinal, JobsOf
<1> QED
  BY <1>1, <1>2, <1>3, <1>4, <1>5, <1>6, <1>7, <1>8 DEF Pipeline

\* No request comes to dispatch a DELETE, and no job is added.
LEMMA NoNewDelete ==
    ASSUME DeleteOnceInv, Len(jobs') = Len(jobs),
           \A j \in 1..Len(jobs) : jobs'[j].doc = jobs[j].doc /\ jobs'[j].action = jobs[j].action,
           \A c \in Calls : Deleting(c)' => Deleting(c) /\ calls'[c].doc = calls[c].doc
    PROVE  DeleteOnceInv'
<1>1. OneDeleteJob'
  BY DEF DeleteOnceInv, OneDeleteJob, JobsOf
<1> QED
  BY <1>1 DEF DeleteOnceInv

\* Whoever finds the record deletes it and dispatches; the next one finds none.
LEMMA OnceKept ==
    ASSUME IInv, Next
    PROVE  DeleteOnceInv'
<1>0. /\ TypeInv /\ DeleteInv /\ DeleteOnceInv
      /\ calls \in [Calls -> Call \cup {Idle}]
      /\ jobs \in Seq(Job) /\ Len(jobs) \in Nat
      /\ doc \in [Docs -> DocStatus \cup {"new", "gone"}]
  BY JobFields DEF IInv, TypeInv, TypeOK, IngestTypeOK
<1>1. ASSUME NEW c \in Calls, Service(c) PROVE DeleteOnceInv'
  <2>1. jobs' = jobs
    BY <1>1 DEF Service, Upload, Store, NextFile, Finish, Reingest, Delete, DeleteRecord, apiUnchanged
  <2>2. ASSUME NEW st \in {"store", "unlinked", "dispatch"}, NEW d \in Docs, NEW a \in JobAction, NEW n \in Nat,
               Request(c, st, d, a, n), st = "dispatch" => a = "upsert"
        PROVE  DeleteOnceInv'
    <3>1. /\ calls'[c] = [step |-> st, doc |-> d, action |-> a, job |-> 0, left |-> n]
          /\ \A b \in Calls \ {c} : calls'[b] = calls[b]
      BY <1>0, <2>2 DEF Request
    <3> QED
      BY <1>0, <2>1, <2>2, <3>1, NoNewDelete DEF Deleting
  <2>3. CASE Upload(c)
    <3>1. PICK d \in Docs, n \in 1..MaxFiles : Request(c, "store", d, "upsert", n - 1)
      BY <2>3 DEF Upload
    <3>2. n - 1 \in Nat /\ "upsert" \in JobAction
      BY ManualAssumption DEF JobAction
    <3> QED
      BY <2>2, <3>1, <3>2
  <2>4. CASE Store(c)
    <3>1. /\ calls[c] \in Call /\ calls[c].action = "upsert"
          /\ calls' = [calls EXCEPT ![c].step = "dispatch"]
      BY <1>0, <2>4 DEF Store, Goto, DeleteInv, Idle
    <3>2. /\ calls'[c].action = "upsert"
          /\ \A b \in Calls \ {c} : calls'[b] = calls[b]
      BY <1>0, <3>1 DEF Call
    <3> QED
      BY <1>0, <2>1, <3>2, NoNewDelete DEF Deleting
  <2>5. CASE NextFile(c)
    <3>1. PICK d \in Docs :
            calls' = [calls EXCEPT ![c].step = "store", ![c].doc = d, ![c].left = calls[c].left - 1]
      BY <2>5 DEF NextFile
    <3>2. calls[c] \in Call
      BY <1>0, <2>5 DEF NextFile, Idle
    <3>3. /\ calls'[c].step = "store"
          /\ \A b \in Calls \ {c} : calls'[b] = calls[b]
      BY <1>0, <3>1, <3>2 DEF Call
    <3> QED
      BY <1>0, <2>1, <3>3, NoNewDelete DEF Deleting
  <2>6. CASE Finish(c)
    <3>1. /\ calls'[c] = Idle
          /\ \A b \in Calls \ {c} : calls'[b] = calls[b]
      BY <1>0, <2>6 DEF Finish, Return
    <3> QED
      BY <1>0, <2>1, <3>1, NoNewDelete DEF Deleting, Idle
  <2>7. ASSUME NEW d \in Docs, Reingest(c, d) PROVE DeleteOnceInv'
    BY <2>2, <2>7 DEF Reingest, JobAction
  <2>8. ASSUME NEW d \in Docs, Delete(c, d) PROVE DeleteOnceInv'
    BY <2>2, <2>8 DEF Delete, JobAction
  <2>9. CASE DeleteRecord(c) /\ Exists(calls[c].doc)
    <3>1. calls[c] \in Call /\ calls[c].step = "unlinked"
      BY <1>0, <2>9 DEF DeleteRecord, Idle
    <3>2. /\ calls'[c].doc = calls[c].doc
          /\ \A b \in Calls \ {c} : calls'[b] = calls[b]
      BY <1>0, <2>9, <3>1 DEF DeleteRecord, Goto, Call
    <3>3. doc[calls[c].doc] # "gone"
      BY <2>9 DEF Exists, DocStatus
    <3>4. \A b \in Calls : Deleting(b) => calls[b].doc # calls[c].doc
      BY <1>0, <3>3 DEF DeleteInv, Deleting
    <3>5. \A j \in 1..Len(jobs) : jobs[j].action = "delete" => jobs[j].doc # calls[c].doc
      BY <1>0, <3>3 DEF DeleteInv
    <3>6. OneDeleteJob'
      BY <1>0, <2>1 DEF DeleteOnceInv, OneDeleteJob, JobsOf
    <3>7. \A b \in Calls : Deleting(b)' => calls'[b].doc = calls[b].doc /\ (b = c \/ Deleting(b))
      BY <3>2 DEF Deleting
    <3> QED
      BY <1>0, <2>1, <3>4, <3>5, <3>6, <3>7 DEF DeleteOnceInv
  <2>10. CASE DeleteRecord(c) /\ ~Exists(calls[c].doc)
    <3>1. /\ calls'[c] = Idle
          /\ \A b \in Calls \ {c} : calls'[b] = calls[b]
      BY <1>0, <2>10 DEF DeleteRecord, Return
    <3> QED
      BY <1>0, <2>1, <3>1, NoNewDelete DEF Deleting, Idle
  <2> QED
    BY <1>1, <2>3, <2>4, <2>5, <2>6, <2>7, <2>8, <2>9, <2>10 DEF Service
<1>2. CASE Pipeline
  <2>1. /\ calls' = calls /\ Len(jobs') = Len(jobs)
        /\ \A j \in 1..Len(jobs) : jobs'[j].doc = jobs[j].doc /\ jobs'[j].action = jobs[j].action
    BY <1>0, <1>2, PipelineJobs
  <2> QED
    BY <1>0, <2>1, NoNewDelete DEF Deleting
<1>3. ASSUME NEW c \in Calls, InsertJob(c) PROVE DeleteOnceInv'
  <2>1. calls[c] \in Call /\ calls[c].step = "dispatch"
    BY <1>0, <1>3 DEF InsertJob, Idle
  <2>2. /\ calls'[c].step = "publish"
        /\ \A b \in Calls \ {c} : calls'[b] = calls[b]
    BY <1>0, <1>3, <2>1 DEF InsertJob, Call
  <2> DEFINE job == [doc |-> calls[c].doc, action |-> calls[c].action, status |-> "PENDING"]
  <2>3. job \in Job /\ job.doc = calls[c].doc /\ job.action = calls[c].action
    BY <2>1 DEF Call, Job, JobStatus
  <2>4. jobs' = Append(jobs, job)
    BY <1>3 DEF InsertJob
  <2> HIDE DEF job
  <2>5. /\ Len(jobs') = Len(jobs) + 1 /\ jobs'[Len(jobs) + 1] = job
        /\ \A j \in 1..Len(jobs) : jobs'[j] = jobs[j]
    BY <1>0, <2>3, <2>4, InsertJobType
  <2>6. \A b \in Calls : Deleting(b)' => b # c /\ Deleting(b) /\ calls'[b].doc = calls[b].doc
    BY <2>2 DEF Deleting
  <2>7. \A j \in 1..Len(jobs') : j = Len(jobs) + 1 \/ (j \in 1..Len(jobs) /\ jobs'[j] = jobs[j])
    BY <1>0, <2>5
  <2>8. jobs'[Len(jobs) + 1].action = "delete" => Deleting(c)
    BY <2>1, <2>3, <2>5 DEF Deleting
  <2>9. OneDeleteJob'
    BY <1>0, <2>3, <2>5, <2>7, <2>8 DEF DeleteOnceInv, OneDeleteJob, JobsOf
  <2>10. \A b \in Calls, j \in 1..Len(jobs') :
            Deleting(b)' /\ jobs'[j].action = "delete" => jobs'[j].doc # calls'[b].doc
    BY <1>0, <2>3, <2>5, <2>6, <2>7, <2>8 DEF DeleteOnceInv
  <2> QED
    BY <1>0, <2>6, <2>9, <2>10 DEF DeleteOnceInv
<1>4. ASSUME NEW c \in Calls, Publish(c) \/ PublishFails(c) \/ RequestFails(c) PROVE DeleteOnceInv'
  <2>1. calls[c] \in Call /\ jobs' = jobs
    BY <1>0, <1>4 DEF Publish, PublishFails, RequestFails, Idle
  <2>2. /\ calls'[c].step \in {"published", "idle"}
        /\ \A b \in Calls \ {c} : calls'[b] = calls[b]
    BY <1>0, <1>4, <2>1 DEF Publish, PublishFails, RequestFails, Goto, Return, Call, Idle
  <2> QED
    BY <1>0, <2>1, <2>2, NoNewDelete DEF Deleting
<1>5. CASE ApiCrash
  BY <1>0, <1>5, NoNewDelete DEF ApiCrash, Deleting, Idle
<1>6. CASE Fetch \/ Take \/ Commit \/ Backoff \/ PublishDlq \/ WorkerCrash \/ StepFails
  <2>1. UNCHANGED <<calls, jobs>>
    BY <1>6 DEF Fetch, Take, Commit, Backoff, PublishDlq, WorkerCrash, StepFails, Go
  <2> QED
    BY <1>0, <2>1, NoNewDelete DEF Deleting
<1>7. CASE FailJob
  <2>1. current \in 1..Len(jobs) /\ calls' = calls
    BY <1>0, <1>7, JobFields DEF FailJob, Holding
  <2>2. PICK s \in JobStatus : jobs' = [jobs EXCEPT ![current].status = s]
    BY <1>7 DEF FailJob, SetJob, JobStatus
  <2>3. /\ Len(jobs') = Len(jobs)
        /\ \A j \in 1..Len(jobs) : jobs'[j].doc = jobs[j].doc /\ jobs'[j].action = jobs[j].action
    BY <1>0, <2>1, <2>2, SetJobType
  <2> QED
    BY <1>0, <2>1, <2>3, NoNewDelete DEF Deleting
<1> QED
  BY <1>1, <1>2, <1>3, <1>4, <1>5, <1>6, <1>7 DEF Next, Shared, SharedStep, Dispatch, WorkerLoop

\* IInv is inductive.
THEOREM Inductive == Spec => []IInv
<1>1. IInv /\ [Next]_vars => IInv'
  <2> SUFFICES ASSUME IInv, [Next]_vars
               PROVE  IInv'
    OBVIOUS
  <2>1. CASE Next
    <3>1. TypeInv'
      BY <2>1, SharedType, ServiceType, PipelineType DEF Next, IInv, TypeInv
    <3> QED
      BY <2>1, <3>1, SharedSafe, ServiceSafe, PipelineSafe, OnceKept DEF Next, IInv, TypeInv
  <2>2. CASE UNCHANGED vars
    BY <2>2 DEF IInv, TypeOK, IngestTypeOK, WorkerInv, DeleteOnceInv, Deleting, OneDeleteJob, StoreInv, DeleteInv, IngestInv, ChunkInv,
       DoneIsIndexed, NoDuplicateChunks, DeleteIsFinal, JobsOf, Holding, Ingesting, IsUpsert, Doc,
       vars, ingestVars, manualVars
  <2> QED
    BY <2>1, <2>2
<1> QED
  BY SafeInit, <1>1, PTL DEF Spec

\* A DONE document has exactly one copy of its chunks in the index, whatever
\* requests, retries, lost answers and restarts happened (upsert, worker loop).
THEOREM DoneIsIndexedAlways == Spec => []DoneIsIndexed
<1>1. IInv => DoneIsIndexed
  BY DEF IInv
<1> QED
  BY Inductive, <1>1, PTL

\* No chunk is stored twice (delete before insert in upsert).
THEOREM NoDuplicatesAlways == Spec => []NoDuplicateChunks
<1>1. IInv => NoDuplicateChunks
  BY DEF IInv, ChunkInv
<1> QED
  BY Inductive, <1>1, PTL

\* Once a DELETE job is DONE, no chunk of its document is in the index again.
THEOREM DeleteIsFinalAlways == Spec => []DeleteIsFinal
<1>1. IInv => DeleteIsFinal
  BY DEF IInv
<1> QED
  BY Inductive, <1>1, PTL

\* Overlapping delete requests of one document dispatch one DELETE job.
THEOREM OneDeleteJobAlways == Spec => []OneDeleteJob
<1>1. IInv => OneDeleteJob
  BY DEF IInv, DeleteOnceInv
<1> QED
  BY Inductive, <1>1, PTL

-----------------------------------------------------------------------------
(* When everything is handled, documents and jobs agree: SettledInv.       *)

\* Without restarts, failed or doubled publications and swallowed errors.
NoLoss == Faults \subseteq {"transient", "permanent", "ambiguous"}

\* What SettledInv and IInv say of the worker's place in the topic.
LEMMA Place ==
    ASSUME IInv, SettledInv
    PROVE  /\ TypeInv /\ EventsOnce /\ InOrder /\ StatusInv
           /\ cursor \in Nat /\ position \in Nat /\ Len(log) \in Nat /\ Len(jobs) \in Nat
           /\ cursor <= position /\ position <= Len(log)
           /\ stage # "poll" => cursor + 1 \in 1..Len(log)
           /\ \A i \in 1..Len(log) : log[i] \in 1..Len(jobs)
           /\ Holding => /\ current \in 1..Len(jobs) /\ current = log[cursor + 1]
                         /\ Doc \in Docs
           /\ \A c \in Calls : calls[c].step = "publish" => calls[c].job \in 1..Len(jobs)
           /\ calls \in [Calls -> Call \cup {Idle}]
           /\ jobs \in Seq(Job) /\ log \in Seq(1..Len(jobs))
           /\ \A c \in Calls : calls[c].step # "idle" => calls[c] \in Call
           /\ \A d \in Docs : Exists(d) => Due(d) \/ Reflected(d)
<1>1. TypeInv /\ TypeOK /\ WorkerInv /\ IngestTypeOK
  BY DEF IInv, TypeInv, TypeOK
<1>2. /\ Len(log) \in Nat /\ Len(jobs) \in Nat
      /\ \A i \in 1..Len(log) : log[i] \in 1..Len(jobs)
      /\ Holding => current \in 1..Len(jobs) /\ Doc \in Docs
  BY <1>1, JobFields
<1>3. /\ cursor \in Nat /\ position \in Nat
      /\ cursor <= position /\ position <= Len(log)
  BY <1>1, <1>2 DEF IngestTypeOK
<1>4. stage # "poll" => cursor + 1 \in 1..Len(log)
  BY <1>1, <1>2, <1>3 DEF WorkerInv
<1>5. EventsOnce /\ InOrder /\ StatusInv /\ \A d \in Docs : Exists(d) => Due(d) \/ Reflected(d)
  BY DEF SettledInv
<1>6. \A c \in Calls : calls[c].step # "idle" => calls[c] \in Call
  BY <1>1 DEF TypeOK, Idle
<1>7. Holding => current = log[cursor + 1]
  BY <1>5 DEF InOrder
<1>8. \A c \in Calls : calls[c].step = "publish" => calls[c].job \in 1..Len(jobs)
  BY <1>1 DEF WorkerInv
<1>9. /\ calls \in [Calls -> Call \cup {Idle}]
      /\ jobs \in Seq(Job) /\ log \in Seq(1..Len(jobs))
  BY <1>1 DEF TypeOK, IngestTypeOK
<1> QED
  BY <1>1, <1>2, <1>3, <1>4, <1>5, <1>6, <1>7, <1>8, <1>9

\* A step of the worker on the record it holds.
Works ==
    /\ UNCHANGED <<calls, log, cursor, position, current>>
    /\ Holding /\ Holding'
    /\ Len(jobs') = Len(jobs)
    /\ \A j \in 1..Len(jobs) : /\ jobs'[j].doc = jobs[j].doc
                               /\ j # current => jobs'[j].status = jobs[j].status
    /\ \A d \in Docs \ {Doc} : doc'[d] = doc[d]
    /\ Exists(Doc)' => Exists(Doc)
    /\ stage' = "mark_job" /\ attempt' = 1 => jobs'[current].status = "PENDING"
    /\ stage' \in PipelineStages \ {"mark_job"} => jobs'[current].status = "RUNNING"
    /\ Exists(Doc)' /\ Achieved => Achieved'

LEMMA WorksSettled ==
    ASSUME IInv, SettledInv, Works
    PROVE  SettledInv'
<1>0. /\ EventsOnce /\ InOrder /\ StatusInv
      /\ cursor \in Nat /\ Len(log) \in Nat
      /\ cursor + 1 \in 1..Len(log)
      /\ \A i \in 1..Len(log) : log[i] \in 1..Len(jobs)
      /\ current \in 1..Len(jobs) /\ current = log[cursor + 1] /\ Doc \in Docs
      /\ \A c \in Calls : calls[c].step = "publish" => calls[c].job \in 1..Len(jobs)
      /\ \A d \in Docs : Exists(d) => Due(d) \/ Reflected(d)
  BY Place DEF Works, Holding
<1>1. \A i \in 1..Len(log) : i # cursor + 1 => log[i] # current
  BY <1>0 DEF EventsOnce
<1>2. EventsOnce'
  BY <1>0 DEF EventsOnce, Works
<1>3. InOrder'
  BY <1>0 DEF InOrder, Works, Holding
<1>4. StatusInv'
  <2>1. \A i \in cursor + 1..Len(log) : i # cursor + 1 => jobs'[log[i]].status = "PENDING"
    BY <1>0, <1>1 DEF StatusInv, Works
  <2>2. \A c \in Calls : calls[c].step = "publish" => jobs'[calls[c].job].status = "PENDING"
    BY <1>0 DEF StatusInv, EventsOnce, Works
  <2> QED
    BY <2>1, <2>2 DEF StatusInv, Works
<1>8. Doc' = Doc
  BY <1>0 DEF Works, Doc
<1>5. ASSUME NEW d \in Docs, Exists(d)', Reflected(d)
      PROVE  Reflected(d)'
  <2>1. PICK l \in 1..Len(log) :
            /\ LastEvent(d, l)
            /\ l <= cursor => Agree(d, log[l])
            /\ l = cursor + 1 => Achieved
    BY <1>5 DEF Reflected
  <2>2. LastEvent(d, l)'
    <3>1. log' = log /\ \A i \in 1..Len(log) : jobs'[log[i]].doc = jobs[log[i]].doc
      BY <1>0 DEF Works
    <3>2. \A k \in l + 1..Len(log) : k \in 1..Len(log)
      BY <1>0
    <3> QED
      BY <2>1, <3>1, <3>2 DEF LastEvent
  <2>3. CASE d = Doc
    <3>1. l >= cursor + 1
      <4>1. jobs[log[cursor + 1]].doc = d
        BY <1>0, <2>3 DEF Doc
      <4>2. cursor + 1 \notin l + 1..Len(log)
        BY <2>1, <4>1 DEF LastEvent
      <4> QED
        BY <1>0, <4>2
    <3>2. l = cursor + 1 => Achieved'
      BY <1>5, <1>8, <2>1, <2>3 DEF Works
    <3> QED
      BY <1>0, <2>2, <3>1, <3>2 DEF Reflected, Works
  <2>4. CASE d # Doc
    <3>1. l # cursor + 1
      BY <1>0, <2>1, <2>4 DEF LastEvent, Doc
    <3>2. jobs'[log[l]].status = jobs[log[l]].status /\ doc'[d] = doc[d]
      BY <1>0, <1>1, <2>4, <3>1 DEF Works
    <3>3. l <= cursor => Agree(d, log[l])'
      BY <2>1, <3>2 DEF Agree, Works
    <3> QED
      BY <2>2, <3>1, <3>3 DEF Reflected, Works
  <2> QED
    BY <2>3, <2>4
<1>6. ASSUME NEW d \in Docs, Exists(d)'
      PROVE  Exists(d)
  <2>1. CASE d = Doc
    BY <1>6, <1>8, <2>1 DEF Works
  <2>2. CASE d # Doc
    BY <1>6, <2>2 DEF Works, Exists
  <2> QED
    BY <2>1, <2>2
<1>7. \A d \in Docs : Due(d) => Due(d)'
  BY DEF Due, Works
<1> QED
  BY <1>0, <1>2, <1>3, <1>4, <1>5, <1>6, <1>7 DEF SettledInv

\* A request that changes a record has an event of it to dispatch, or the
\* record is gone.
LEMMA ServiceSettled ==
    ASSUME IInv, SettledInv, NEW c \in Calls, Service(c)
    PROVE  SettledInv'
<1>0. UNCHANGED <<jobs, log, cursor, position, stage, current, attempt, verdict>>
  <2>1. UNCHANGED apiUnchanged /\ chunks' = chunks
    BY DEF Service, Upload, Store, NextFile, Finish, Reingest, Delete, DeleteRecord, manualVars
  <2> QED
    BY <2>1 DEF apiUnchanged, offsetVars, workerVars
<1>t. /\ calls \in [Calls -> Call \cup {Idle}]
      /\ \A b \in Calls : calls[b].step # "idle" => calls[b] \in Call
      /\ EventsOnce /\ InOrder /\ StatusInv
      /\ cursor + 1 \in 1..Len(log) \/ stage = "poll"
      /\ \A i \in 1..Len(log) : log[i] \in 1..Len(jobs)
      /\ Holding => current = log[cursor + 1]
      /\ \A d \in Docs : Exists(d) => Due(d) \/ Reflected(d)
      /\ doc \in [Docs -> DocStatus \cup {"new", "gone"}]
  BY Place DEF TypeInv, TypeOK
<1> DEFINE Quietly ==
        /\ \A b \in Calls \ {c} : calls'[b] = calls[b]
        /\ calls[c].step \notin {"dispatch", "publish"} /\ calls'[c].step # "publish"
        /\ \A d \in Docs : doc'[d] = doc[d] \/ Due(d)' \/ ~Exists(d)'
<1>r. ASSUME NEW st \in {"store", "unlinked", "dispatch"}, NEW d \in Docs, NEW a \in JobAction, NEW n \in Nat,
             Request(c, st, d, a, n)
      PROVE  /\ \A b \in Calls \ {c} : calls'[b] = calls[b]
             /\ calls[c].step \notin {"dispatch", "publish"} /\ calls'[c].step # "publish"
             /\ st = "dispatch" => Due(d)'
  <2>1. /\ calls[c] = Idle
        /\ calls'[c] = [step |-> st, doc |-> d, action |-> a, job |-> 0, left |-> n]
        /\ \A b \in Calls \ {c} : calls'[b] = calls[b]
    BY <1>t, <1>r DEF Request
  <2>2. calls'[c].step = st /\ calls'[c].doc = d
    BY <2>1
  <2> QED
    BY <2>1, <2>2 DEF Due, Idle
<1>1. Quietly
  <2>1. CASE Upload(c)
    <3>1. PICK d \in Docs, n \in 1..MaxFiles : Request(c, "store", d, "upsert", n - 1)
      BY <2>1 DEF Upload
    <3>2. n - 1 \in Nat /\ "upsert" \in JobAction /\ doc' = doc
      BY <2>1, ManualAssumption DEF JobAction, Upload
    <3> QED
      BY <1>r, <3>1, <3>2
  <2>2. CASE Store(c)
    <3>1. /\ calls[c] \in Call /\ calls[c].step = "store" /\ calls[c].doc \in Docs
          /\ calls' = [calls EXCEPT ![c].step = "dispatch"]
          /\ doc' = [doc EXCEPT ![calls[c].doc] = "PENDING"]
      BY <1>t, <2>2 DEF Store, Goto, Call
    <3>2. /\ calls'[c].step = "dispatch" /\ calls'[c].doc = calls[c].doc
          /\ \A b \in Calls \ {c} : calls'[b] = calls[b]
      BY <1>t, <3>1 DEF Call
    <3> QED
      BY <1>t, <3>1, <3>2 DEF Due
  <2>3. CASE NextFile(c)
    <3>1. PICK d \in Docs :
            /\ Fresh(d)
            /\ files' = files \cup {d}
            /\ calls' = [calls EXCEPT ![c].step = "store", ![c].doc = d, ![c].left = calls[c].left - 1]
      BY <2>3, Zenon DEF NextFile
    <3>2. calls[c] \in Call /\ calls[c].step = "published" /\ doc' = doc
      BY <1>t, <2>3 DEF NextFile
    <3>3. /\ calls'[c].step = "store"
          /\ \A b \in Calls \ {c} : calls'[b] = calls[b]
      BY <1>t, <3>1, <3>2 DEF Call
    <3> QED
      BY <3>2, <3>3
  <2>4. CASE Finish(c)
    BY <1>t, <2>4 DEF Finish, Return, Idle, manualVars
  <2>5. ASSUME NEW d \in Docs, Reingest(c, d) PROVE Quietly
    BY <1>t, <1>r, <2>5 DEF Reingest, JobAction
  <2>6. ASSUME NEW d \in Docs, Delete(c, d) PROVE Quietly
    BY <1>t, <1>r, <2>6 DEF Delete, JobAction
  <2>7. CASE DeleteRecord(c) /\ Exists(calls[c].doc)
    <3>1. /\ calls[c] \in Call /\ calls[c].step = "unlinked" /\ calls[c].doc \in Docs
          /\ calls' = [calls EXCEPT ![c].step = "dispatch"]
          /\ doc' = [doc EXCEPT ![calls[c].doc] = "gone"]
      BY <1>t, <2>7 DEF DeleteRecord, Goto, Call
    <3>2. /\ calls'[c].step = "dispatch"
          /\ \A b \in Calls \ {c} : calls'[b] = calls[b]
      BY <1>t, <3>1 DEF Call
    <3>3. ~Exists(calls[c].doc)'
      BY <1>t, <3>1, <1>0 DEF Exists, DocStatus
    <3>4. \A d \in Docs : doc'[d] = doc[d] \/ ~Exists(d)'
      BY <1>t, <3>1, <3>3 DEF Exists, DocStatus
    <3> QED
      BY <3>1, <3>2, <3>4
  <2>8. CASE DeleteRecord(c) /\ ~Exists(calls[c].doc)
    BY <1>t, <2>8 DEF DeleteRecord, Return, Idle
  <2> QED
    BY <2>1, <2>2, <2>3, <2>4, <2>5, <2>6, <2>7, <2>8 DEF Service
<1>2. EventsOnce' /\ InOrder' /\ StatusInv'
  <2>1. \A b \in Calls : calls'[b].step = "publish" => calls'[b] = calls[b] /\ calls[b].step = "publish"
    BY <1>1
  <2> QED
    BY <1>0, <1>t, <2>1 DEF EventsOnce, InOrder, StatusInv, Holding
<1>3. ASSUME NEW d \in Docs, Exists(d)'
      PROVE  Due(d)' \/ Reflected(d)'
  <2>1. CASE Due(d)
    <3>1. \A b \in Calls : calls[b].step \in {"dispatch", "publish"} => calls'[b] = calls[b]
      BY <1>1
    <3> QED
      BY <2>1, <3>1 DEF Due
  <2>2. CASE doc'[d] = doc[d] /\ ~Due(d)
    <3>1. PICK l \in 1..Len(log) :
              /\ LastEvent(d, l)
              /\ l <= cursor => Agree(d, log[l])
              /\ l = cursor + 1 => Achieved
      BY <1>t, <1>3, <2>2 DEF Reflected, Exists
    <3>2. LastEvent(d, l)' /\ (l <= cursor => Agree(d, log[l])')
      BY <1>0, <2>2, <3>1 DEF LastEvent, Agree
    <3>3. l = cursor + 1 => Achieved'
      <4>1. Holding /\ l = cursor + 1 => Doc = d
        BY <1>t, <3>1 DEF LastEvent, Doc
      <4> QED
        BY <1>0, <2>2, <3>1, <4>1 DEF Achieved, Agree, Holding, Doc
    <3> QED
      BY <1>0, <3>2, <3>3 DEF Reflected
  <2> QED
    BY <1>1, <1>3, <2>1, <2>2
<1> QED
  BY <1>2, <1>3 DEF SettledInv

\* The job record comes first, its event second: in between the document's
\* event is due, and then the job's is the last one of its document.
LEMMA DispatchSettled ==
    ASSUME IInv, SettledInv, NoLoss, NEW c \in Calls, Dispatch(c), UNCHANGED manualVars
    PROVE  SettledInv'
<1>t. /\ TypeInv /\ EventsOnce /\ InOrder /\ StatusInv
      /\ calls \in [Calls -> Call \cup {Idle}]
      /\ jobs \in Seq(Job) /\ log \in Seq(1..Len(jobs))
      /\ Len(log) \in Nat /\ Len(jobs) \in Nat /\ cursor \in Nat
      /\ cursor <= Len(log)
      /\ stage # "poll" => cursor + 1 \in 1..Len(log)
      /\ \A i \in 1..Len(log) : log[i] \in 1..Len(jobs)
      /\ Holding => current \in 1..Len(jobs) /\ current = log[cursor + 1] /\ Doc \in Docs
      /\ \A b \in Calls : calls[b].step = "publish" => calls[b].job \in 1..Len(jobs)
      /\ \A b \in Calls : calls[b].step # "idle" => calls[b] \in Call
      /\ \A d \in Docs : Exists(d) => Due(d) \/ Reflected(d)
      /\ doc' = doc
  BY Place DEF manualVars
<1>1. CASE InsertJob(c)
  <2>1. /\ calls[c] \in Call /\ calls[c].step = "dispatch"
        /\ UNCHANGED <<log, cursor, position, stage, current, attempt, verdict>>
    BY <1>t, <1>1 DEF InsertJob, offsetVars, workerVars
  <2>2. /\ calls'[c].step = "publish" /\ calls'[c].doc = calls[c].doc
        /\ calls'[c].job = Len(jobs) + 1
        /\ \A b \in Calls \ {c} : calls'[b] = calls[b]
    BY <1>t, <1>1, <2>1 DEF InsertJob, Call
  <2> DEFINE job == [doc |-> calls[c].doc, action |-> calls[c].action, status |-> "PENDING"]
  <2>3. job \in Job /\ job.doc = calls[c].doc /\ job.status = "PENDING"
    BY <2>1 DEF Call, Job, JobStatus
  <2>4. jobs' = Append(jobs, job)
    BY <1>1 DEF InsertJob
  <2> HIDE DEF job
  <2>5. /\ Len(jobs') = Len(jobs) + 1 /\ jobs'[Len(jobs) + 1] = job
        /\ \A j \in 1..Len(jobs) : jobs'[j] = jobs[j]
    BY <1>t, <2>3, <2>4, InsertJobType
  <2>6. EventsOnce'
    <3>1. \A i, k \in 1..Len(log) : log[i] = log[k] => i = k
      BY <1>t DEF EventsOnce
    <3>2. ASSUME NEW b \in Calls, calls'[b].step = "publish"
          PROVE  /\ jobs'[calls'[b].job].doc = calls'[b].doc
                 /\ \A i \in 1..Len(log) : log[i] # calls'[b].job
                 /\ \A a \in Calls \ {b} : calls'[a].step = "publish" => calls'[a].job # calls'[b].job
      <4>1. CASE b = c
        BY <1>t, <2>2, <2>3, <2>5, <4>1
      <4>2. CASE b # c
        <5>1. calls'[b] = calls[b] /\ calls[b].step = "publish" /\ calls[b].job \in 1..Len(jobs)
          BY <1>t, <2>2, <3>2, <4>2
        <5>2. /\ jobs[calls[b].job].doc = calls[b].doc
              /\ \A i \in 1..Len(log) : log[i] # calls[b].job
              /\ \A a \in Calls \ {b} : calls[a].step = "publish" => calls[a].job # calls[b].job
          BY <1>t, <5>1 DEF EventsOnce
        <5>3. \A a \in Calls \ {b} : calls'[a].step = "publish" => calls'[a].job # calls[b].job
          <6>1. Len(jobs) + 1 # calls[b].job
            BY <1>t, <5>1
          <6> QED
            BY <2>2, <5>2, <6>1
        <5> QED
          BY <2>5, <5>1, <5>2, <5>3
      <4> QED
        BY <4>1, <4>2
    <3> QED
      BY <2>1, <3>1, <3>2 DEF EventsOnce
  <2>7. InOrder'
    BY <1>t, <2>1 DEF InOrder, Holding
  <2>8. StatusInv'
    <3>1. ASSUME NEW b \in Calls, calls'[b].step = "publish"
          PROVE  jobs'[calls'[b].job].status = "PENDING"
      <4>1. CASE b = c
        BY <2>2, <2>3, <2>5, <4>1
      <4>2. CASE b # c
        <5>1. calls'[b] = calls[b] /\ calls[b].step = "publish"
          BY <2>2, <3>1, <4>2
        <5>2. jobs[calls[b].job].status = "PENDING" /\ calls[b].job \in 1..Len(jobs)
          BY <1>t, <5>1 DEF StatusInv
        <5> QED
          BY <2>5, <5>1, <5>2
      <4> QED
        BY <4>1, <4>2
    <3>2. \A i \in cursor + 1..Len(log) : jobs'[log[i]] = jobs[log[i]]
      <4>1. \A i \in cursor + 1..Len(log) : i \in 1..Len(log)
        BY <1>t
      <4> QED
        BY <1>t, <2>5, <4>1
    <3>3. stage \in PipelineStages => jobs'[current] = jobs[current]
      BY <1>t, <2>5 DEF Holding, PipelineStages
    <3>4. "mark_job" \in PipelineStages
      BY DEF PipelineStages
    <3> QED
      BY <1>t, <2>1, <3>1, <3>2, <3>3, <3>4 DEF StatusInv, Holding
  <2>9. ASSUME NEW d \in Docs, Exists(d)' PROVE Due(d)' \/ Reflected(d)'
    <3>1. CASE Due(d)
      BY <2>1, <2>2, <3>1 DEF Due
    <3>2. CASE ~Due(d)
      <4>1. PICK l \in 1..Len(log) :
                /\ LastEvent(d, l)
                /\ l <= cursor => Agree(d, log[l])
                /\ l = cursor + 1 => Achieved
        BY <1>t, <2>9, <3>2 DEF Reflected, Exists
      <4>2. \A i \in 1..Len(log) : jobs'[log[i]] = jobs[log[i]]
        BY <1>t, <2>5
      <4>3. LastEvent(d, l)' /\ (l <= cursor => Agree(d, log[l])')
        BY <1>t, <2>1, <4>1, <4>2 DEF LastEvent, Agree
      <4>4. Holding => jobs'[current] = jobs[current] /\ Doc' = Doc
        BY <1>t, <2>1, <2>5 DEF Doc
      <4>5. Achieved => Achieved'
        BY <1>t, <2>1, <4>4 DEF Achieved, Agree, Holding
      <4> QED
        BY <2>1, <4>1, <4>3, <4>5 DEF Reflected
    <3> QED
      BY <3>1, <3>2
  <2> QED
    BY <2>6, <2>7, <2>8, <2>9 DEF SettledInv
<1>2. CASE Publish(c)
  <2>1. /\ calls[c] \in Call /\ calls[c].step = "publish"
        /\ UNCHANGED <<jobs, cursor, position, stage, current, attempt, verdict>>
    BY <1>t, <1>2 DEF Publish, offsetVars, workerVars
  <2>2. /\ calls'[c].step = "published"
        /\ \A b \in Calls \ {c} : calls'[b] = calls[b]
    BY <1>t, <1>2, <2>1 DEF Publish, Goto, Call
  <2>3. log' = Append(log, calls[c].job) /\ calls[c].job \in 1..Len(jobs)
    BY <1>t, <1>2, <2>1 DEF Publish, Fault, NoLoss
  <2>4. /\ Len(log') = Len(log) + 1 /\ log'[Len(log) + 1] = calls[c].job
        /\ \A i \in 1..Len(log) : log'[i] = log[i]
    BY <1>t, <2>3, AppendProperties
  <2>5. EventsOnce'
    <3>0. \A i \in 1..Len(log') : i = Len(log) + 1 \/ (i \in 1..Len(log) /\ log'[i] = log[i])
      BY <1>t, <2>4
    <3>1. \A i, k \in 1..Len(log') : log'[i] = log'[k] => i = k
      <4>1. \A i \in 1..Len(log) : log[i] # calls[c].job
        BY <1>t, <2>1 DEF EventsOnce
      <4>2. \A i, k \in 1..Len(log) : log[i] = log[k] => i = k
        BY <1>t DEF EventsOnce
      <4> QED
        BY <2>4, <3>0, <4>1, <4>2
    <3>2. ASSUME NEW b \in Calls, calls'[b].step = "publish"
          PROVE  /\ b # c /\ calls'[b] = calls[b]
                 /\ \A i \in 1..Len(log') : log'[i] # calls[b].job
      <4>1. b # c /\ calls'[b] = calls[b]
        BY <2>2, <3>2
      <4>2. calls[b].job # calls[c].job /\ \A i \in 1..Len(log) : log[i] # calls[b].job
        BY <1>t, <2>1, <3>2, <4>1 DEF EventsOnce
      <4> QED
        BY <2>4, <3>0, <4>1, <4>2
    <3> QED
      BY <1>t, <2>1, <3>1, <3>2 DEF EventsOnce
  <2>6. InOrder'
    BY <1>t, <2>1, <2>4 DEF InOrder, Holding
  <2>7. StatusInv'
    <3>1. ASSUME NEW i \in cursor + 1..Len(log'), ~(Holding /\ i = cursor + 1)
          PROVE  jobs[log'[i]].status = "PENDING"
      <4>1. CASE i = Len(log) + 1
        BY <1>t, <2>1, <2>4, <4>1 DEF StatusInv
      <4>2. CASE i # Len(log) + 1
        BY <1>t, <2>4, <3>1, <4>2 DEF StatusInv
      <4> QED
        BY <4>1, <4>2
    <3>2. \A b \in Calls : calls'[b].step = "publish" => calls'[b] = calls[b]
      BY <2>2
    <3> QED
      BY <1>t, <2>1, <3>1, <3>2 DEF StatusInv, Holding
  <2>8. ASSUME NEW d \in Docs, Exists(d)' PROVE Due(d)' \/ Reflected(d)'
    <3>1. CASE d = calls[c].doc
      <4>1. jobs[calls[c].job].doc = d
        BY <1>t, <2>1, <3>1 DEF EventsOnce
      <4>0. PICK l \in Nat : l = Len(log) + 1 /\ Len(log') = l /\ log'[l] = calls[c].job /\ l > cursor
        BY <1>t, <2>4
      <4>2. LastEvent(d, l)'
        <5>1. l + 1..Len(log') = {}
          BY <4>0
        <5> QED
          BY <2>1, <4>0, <4>1, <5>1 DEF LastEvent
      <4>3. l = cursor + 1 => stage = "poll"
        BY <1>t, <4>0
      <4>4. l = cursor + 1 => Achieved'
        BY <1>t, <2>1, <4>3 DEF Achieved
      <4>5. l \in 1..Len(log') /\ ~(l <= cursor)
        BY <1>t, <2>1, <4>0
      <4> QED
        BY <2>1, <4>2, <4>4, <4>5 DEF Reflected
    <3>2. CASE d # calls[c].doc /\ Due(d)
      BY <2>2, <3>2 DEF Due
    <3>3. CASE d # calls[c].doc /\ ~Due(d)
      <4>1. PICK l \in 1..Len(log) :
                /\ LastEvent(d, l)
                /\ l <= cursor => Agree(d, log[l])
                /\ l = cursor + 1 => Achieved
        BY <1>t, <2>8, <3>3 DEF Reflected, Exists
      <4>2. jobs[calls[c].job].doc # d
        BY <1>t, <2>1, <3>3 DEF EventsOnce
      <4>3. log'[l] = log[l]
        BY <2>4
      <4>5. LastEvent(d, l)'
        <5>1. \A k \in l + 1..Len(log') : log'[k] = calls[c].job \/ (k \in l + 1..Len(log) /\ log'[k] = log[k])
          <6>1. l \in Nat /\ l >= 1 /\ Len(log) \in Nat /\ Len(log') = Len(log) + 1
            BY <1>t, <2>4
          <6>2. \A k \in l + 1..Len(log) + 1 : k = Len(log) + 1 \/ (k \in l + 1..Len(log) /\ k \in 1..Len(log))
            BY <6>1
          <6> QED
            BY <2>4, <6>1, <6>2
        <5> QED
          BY <2>1, <4>1, <4>2, <4>3, <5>1 DEF LastEvent
      <4>6. l <= cursor => Agree(d, log[l])'
        BY <1>t, <2>1, <4>1, <4>3 DEF Agree
      <4>4. Achieved => Achieved'
        BY <1>t, <2>1 DEF Achieved, Agree, Doc
      <4> QED
        BY <1>t, <2>1, <2>4, <4>1, <4>4, <4>5, <4>6 DEF Reflected
    <3> QED
      BY <3>1, <3>2, <3>3
  <2> QED
    BY <2>5, <2>6, <2>7, <2>8 DEF SettledInv
<1>3. ~PublishFails(c) /\ ~RequestFails(c)
  BY DEF PublishFails, RequestFails, Fault, NoLoss
<1> QED
  BY <1>1, <1>2, <1>3 DEF Dispatch

\* The pipeline: the document's status is written before the job's.
LEMMA PipelineSettled ==
    ASSUME IInv, SettledInv, NoLoss, Pipeline
    PROVE  SettledInv'
<1>t. /\ TypeInv /\ StatusInv /\ DeleteInv
      /\ jobs \in Seq(Job)
      /\ doc \in [Docs -> DocStatus \cup {"new", "gone"}]
      /\ \A j \in 1..Len(jobs) : jobs[j].action \in JobAction
  BY Place, JobFields DEF IInv, TypeInv, TypeOK
<1>j. /\ Len(jobs') = Len(jobs)
      /\ \A j \in 1..Len(jobs) : /\ jobs'[j].doc = jobs[j].doc
                                 /\ j # current => jobs'[j].status = jobs[j].status
      /\ UNCHANGED <<calls, log, offsetVars, current, attempt>>
      /\ Holding /\ current \in 1..Len(jobs) /\ Doc \in Docs /\ Doc' = Doc
  BY <1>t, PipelineJobs
<1>s. \A s \in JobStatus : SetJob(s) => jobs'[current].status = s
  BY <1>t, <1>j, SetJobType DEF SetJob
<1>d. \/ doc' = doc
      \/ Exists(Doc) /\ \E s \in DocStatus : doc' = [doc EXCEPT ![Doc] = s]
  BY DEF Pipeline, MarkJob, MarkDoc, Find, Parse, Embed, Purge, Insert, DocDone, JobDone, FailDoc,
         SetDoc, manualVars, DocStatus
<1>e. /\ \A d \in Docs \ {Doc} : doc'[d] = doc[d]
      /\ Exists(Doc)' => Exists(Doc)
  BY <1>t, <1>d, <1>j DEF Exists
<1>w. ASSUME Holding', stage' # "mark_job",
             stage' \in PipelineStages => jobs'[current].status = "RUNNING",
             Exists(Doc)' /\ Achieved => Achieved'
      PROVE  SettledInv'
  <2>1. Works
    BY <1>w, <1>j, <1>e DEF Works, offsetVars
  <2> QED
    BY <2>1, WorksSettled
<1>1. CASE MarkJob
  <2>1. jobs'[current].status = "RUNNING" /\ stage' \in {"mark_doc", "purge", "fail_job"}
    BY <1>1, <1>s DEF MarkJob, Then, Go, Raise, JobStatus
  <2> QED
    BY <1>w, <2>1 DEF Achieved, Holding
<1>2. CASE MarkDoc \/ Find \/ Parse \/ Embed \/ Purge \/ Insert
  <2>1. /\ stage \in PipelineStages \ {"mark_job"} /\ jobs' = jobs
        /\ stage' \in {"find", "parse", "embed", "purge", "insert", "doc_done", "job_done", "fail_job"}
        /\ stage' = "job_done" => ~IsUpsert /\ doc' = doc
    BY <1>2 DEF MarkDoc, Find, Parse, Embed, Purge, Insert, SetDoc, Then, Go, Raise, PipelineStages
  <2>2. jobs'[current].status = "RUNNING"
    BY <1>t, <2>1 DEF StatusInv
  <2>3. stage' = "job_done" => ~Exists(Doc)'
    <3>1. ~IsUpsert => doc[Doc] = "gone"
      BY <1>t, <1>j DEF DeleteInv, IsUpsert, Doc, JobAction
    <3> QED
      BY <2>1, <3>1, <1>j DEF Exists, DocStatus
  <2> QED
    BY <1>w, <2>1, <2>2, <2>3 DEF Achieved, Holding
<1>3. CASE DocDone
  <2>1. /\ jobs' = jobs /\ stage = "doc_done"
        /\ stage' \in {"job_done", "fail_job"}
        /\ stage' = "job_done" => Exists(Doc) /\ doc' = [doc EXCEPT ![Doc] = "DONE"]
    BY <1>3 DEF DocDone, SetDoc, Then, Go, Raise
  <2>2. jobs'[current].status = "RUNNING"
    BY <1>t, <2>1 DEF StatusInv, PipelineStages
  <2>3. stage' = "job_done" => doc'[Doc'] = "DONE"
    BY <1>t, <1>j, <2>1
  <2> QED
    BY <1>w, <2>1, <2>2, <2>3 DEF Achieved, Holding
<1>4. CASE JobDone
  <2>1. /\ doc' = doc /\ stage = "job_done"
        /\ stage' \in {"commit", "fail_job"}
        /\ jobs'[current].status = "DONE"
    BY <1>4, <1>s DEF JobDone, Then, Go, Raise, manualVars, JobStatus
  <2>2. Achieved => Achieved'
    BY <1>j, <2>1 DEF Achieved, Agree
  <2> QED
    BY <1>w, <2>1, <2>2 DEF Holding, PipelineStages
<1>5. CASE FailDoc
  <2>1. /\ jobs' = jobs /\ stage = "fail_doc" /\ verdict' = verdict
        /\ stage' \in {"backoff", "dlq"}
        /\ stage' = "dlq" => verdict # "retry"
    BY <1>5 DEF FailDoc, AfterFail
  <2>2. Exists(Doc) => doc' = [doc EXCEPT ![Doc] = "FAILED"]
    BY <1>5 DEF FailDoc, Fault, NoLoss
  <2>3. Exists(Doc) /\ Achieved => Achieved'
    BY <1>t, <1>j, <2>1, <2>2 DEF Achieved, Agree
  <2> QED
    BY <1>w, <1>e, <2>1, <2>3 DEF Holding, PipelineStages
<1> QED
  BY <1>1, <1>2, <1>3, <1>4, <1>5 DEF Pipeline

\* The worker's loop: a record is taken as the next of the log, left behind as
\* what became of its document, or tried again.
LEMMA LoopSettled ==
    ASSUME IInv, SettledInv, NoLoss, WorkerLoop \/ StepFails, UNCHANGED manualVars
    PROVE  SettledInv'
<1>t. /\ EventsOnce /\ InOrder /\ StatusInv /\ TypeOK
      /\ jobs \in Seq(Job)
      /\ cursor \in Nat /\ position \in Nat /\ Len(log) \in Nat
      /\ cursor <= position /\ position <= Len(log)
      /\ stage # "poll" => cursor + 1 \in 1..Len(log) /\ cursor < position
      /\ \A i \in 1..Len(log) : log[i] \in 1..Len(jobs)
      /\ Holding => current \in 1..Len(jobs) /\ current = log[cursor + 1] /\ Doc \in Docs
      /\ \A d \in Docs : Exists(d) => Due(d) \/ Reflected(d)
      /\ doc' = doc
      /\ \A d \in Docs : Exists(d)' = Exists(d)
  BY Place DEF manualVars, IInv, WorkerInv, Exists
<1>1. CASE Fetch
  <2>1. /\ UNCHANGED <<jobs, calls, log, cursor, current, attempt, verdict>>
        /\ stage = "poll" /\ stage' = "next"
    BY <1>1 DEF Fetch
  <2>2. EventsOnce' /\ InOrder' /\ StatusInv'
    BY <1>t, <2>1 DEF EventsOnce, InOrder, StatusInv, Holding, PipelineStages
  <2>3. \A d \in Docs : (Due(d) => Due(d)') /\ (Reflected(d) => Reflected(d)')
    BY <1>t, <2>1 DEF Due, Reflected, LastEvent, Agree, Achieved
  <2> QED
    BY <1>t, <2>2, <2>3 DEF SettledInv
<1>2. CASE Take
  <2>1. /\ UNCHANGED <<jobs, calls, log, cursor, position, attempt, verdict>>
        /\ stage = "next" /\ stage' = "mark_job" /\ current' = log[cursor + 1]
    BY <1>2 DEF Take, offsetVars
  <2>2. jobs[log[cursor + 1]].status = "PENDING"
    BY <1>t, <2>1 DEF StatusInv, Holding
  <2>3. EventsOnce' /\ InOrder' /\ StatusInv'
    BY <1>t, <2>1, <2>2 DEF EventsOnce, InOrder, StatusInv, Holding
  <2>4. \A d \in Docs : (Due(d) => Due(d)') /\ (Reflected(d) => Reflected(d)')
    BY <1>t, <2>1 DEF Due, Reflected, LastEvent, Agree, Achieved
  <2> QED
    BY <1>t, <2>3, <2>4 DEF SettledInv
<1>3. CASE Commit
  <2>1. /\ UNCHANGED <<jobs, calls, log, position>>
        /\ stage = "commit" /\ cursor' = cursor + 1
        /\ stage' = IF cursor + 1 < position THEN "next" ELSE "poll"
    BY <1>3 DEF Commit
  <2>2. stage' = "poll" => cursor' = position'
    BY <1>t, <2>1
  <2>3. stage' \in {"poll", "next"} /\ Holding /\ ~Holding'
    BY <2>1 DEF Holding
  <2>4. EventsOnce' /\ InOrder'
    BY <1>t, <2>1, <2>2, <2>3 DEF EventsOnce, InOrder
  <2>5. StatusInv'
    <3>1. \A i \in cursor + 1 + 1..Len(log) : i \in cursor + 1..Len(log) /\ i # cursor + 1
      BY <1>t
    <3>2. \A i \in cursor + 1 + 1..Len(log) : jobs[log[i]].status = "PENDING"
      BY <1>t, <3>1 DEF StatusInv
    <3> QED
      BY <1>t, <2>1, <2>3, <3>2 DEF StatusInv, PipelineStages
  <2>6. ASSUME NEW d \in Docs, Reflected(d) PROVE Reflected(d)'
    <3>1. PICK l \in 1..Len(log) :
              /\ LastEvent(d, l)
              /\ l <= cursor => Agree(d, log[l])
              /\ l = cursor + 1 => Achieved
      BY <2>6 DEF Reflected
    <3>2. LastEvent(d, l)'
      BY <2>1, <3>1 DEF LastEvent
    <3>3. l <= cursor + 1 => Agree(d, log[l])
      <4>1. CASE l = cursor + 1
        <5>1. Doc = d /\ current = log[l]
          BY <1>t, <2>3, <3>1, <4>1 DEF LastEvent, Doc
        <5> QED
          BY <2>1, <3>1, <4>1, <5>1 DEF Achieved
      <4>2. CASE l # cursor + 1
        BY <1>t, <3>1, <4>2
      <4> QED
        BY <4>1, <4>2
    <3>4. Achieved'
      BY <2>3 DEF Achieved
    <3>5. l <= cursor' => Agree(d, log[l])'
      BY <1>t, <2>1, <3>3 DEF Agree
    <3> QED
      BY <2>1, <3>2, <3>4, <3>5 DEF Reflected
  <2>7. \A d \in Docs : Due(d) => Due(d)'
    BY <2>1 DEF Due
  <2> QED
    BY <1>t, <2>4, <2>5, <2>6, <2>7 DEF SettledInv
<1>4. CASE FailJob
  <2> DEFINE s == IF verdict = "retry" THEN "FAILED" ELSE "DEAD"
  <2>1. /\ UNCHANGED <<calls, log, cursor, position, current, attempt, verdict>>
        /\ stage = "fail_job" /\ stage' = "fail_doc" /\ SetJob(s)
    BY <1>4 DEF FailJob, Go, offsetVars
  <2>2. Holding /\ Holding' /\ s \in JobStatus /\ (verdict # "retry" => s = "DEAD")
    BY <2>1 DEF Holding, JobStatus
  <2> HIDE DEF s
  <2>3. /\ Len(jobs') = Len(jobs)
        /\ \A j \in 1..Len(jobs) : /\ jobs'[j].doc = jobs[j].doc
                                   /\ j # current => jobs'[j].status = jobs[j].status
        /\ jobs'[current].status = s
    BY <1>t, <2>1, <2>2, SetJobType DEF SetJob
  <2>4. Achieved'
    BY <2>1, <2>2, <2>3 DEF Achieved
  <2>5. Doc' = Doc
    BY <1>t, <2>1, <2>2, <2>3 DEF Doc
  <2>6. Works
    BY <1>t, <2>1, <2>2, <2>3, <2>4, <2>5 DEF Works, PipelineStages
  <2> QED
    BY <2>6, WorksSettled
<1>5. CASE Backoff \/ PublishDlq \/ StepFails
  <2>1. /\ UNCHANGED <<jobs, calls, log, cursor, position, current>>
        /\ Holding /\ Holding'
        /\ \/ stage' = "mark_job" /\ attempt' = attempt + 1
           \/ stage' = "fail_job"
           \/ stage' = "commit" /\ stage = "dlq"
    BY <1>5 DEF Backoff, PublishDlq, StepFails, Go, Raise, Holding, offsetVars, PipelineStages
  <2>2. attempt' = attempt + 1 => attempt' # 1
    BY <1>t DEF TypeOK, IngestTypeOK
  <2>3. Achieved => Achieved'
    BY <1>t, <2>1 DEF Achieved, Agree, Doc
  <2>4. Doc' = Doc
    BY <2>1 DEF Doc
  <2>5. Works
    BY <1>t, <2>1, <2>2, <2>3, <2>4 DEF Works, PipelineStages
  <2> QED
    BY <2>5, WorksSettled
<1> QED
  BY <1>1, <1>2, <1>3, <1>4, <1>5 DEF WorkerLoop

LEMMA SettledInit == Init => SettledInv
<1> SUFFICES ASSUME Init PROVE SettledInv
  OBVIOUS
<1>1. /\ calls = [c \in Calls |-> Idle] /\ jobs = <<>> /\ log = <<>> /\ Len(log) = 0
      /\ cursor = 0 /\ position = 0 /\ stage = "poll"
      /\ \A d \in Docs : ~Exists(d)
  BY DEF Init, IngestInit, Exists, DocStatus
<1>2. EventsOnce /\ InOrder
  BY <1>1 DEF EventsOnce, InOrder, Holding, Idle
<1>3. StatusInv
  BY <1>1 DEF StatusInv, Holding, Idle, PipelineStages
<1> QED
  BY <1>1, <1>2, <1>3 DEF SettledInv

LEMMA SettledStep == NoLoss /\ IInv /\ SettledInv /\ [Next]_vars => SettledInv'
<1> SUFFICES ASSUME NoLoss, IInv, SettledInv, [Next]_vars PROVE SettledInv'
  OBVIOUS
<1>1. CASE UNCHANGED vars
  BY <1>1 DEF SettledInv, EventsOnce, InOrder, StatusInv, Due, Reflected, LastEvent, Agree, Achieved,
              Exists, Holding, Doc, vars, ingestVars, manualVars
<1>2. CASE Shared
  <2>1. ~ApiCrash /\ ~WorkerCrash
    BY DEF ApiCrash, WorkerCrash, Fault, NoLoss
  <2> QED
    BY <1>2, <2>1, DispatchSettled, LoopSettled DEF Shared, SharedStep
<1> QED
  BY <1>1, <1>2, ServiceSettled, PipelineSettled DEF Next

\* With nothing left to handle, a document says DONE or FAILED, and the job of
\* its last event says the same: no status is left over from a request or a
\* retry that lost a race. Proved for any errors of the stores, lost answers
\* included, but without restarts, lost or doubled publications and swallowed
\* errors, for which it does not hold.
THEOREM QuietDocumentsSettled == ASSUME NoLoss PROVE Spec => []QuietDocumentsAreSettled
<1>1. IInv /\ SettledInv => QuietDocumentsAreSettled
  <2> SUFFICES ASSUME IInv, SettledInv, Quiet, NEW d \in Docs, Exists(d)
               PROVE  Agree(d, LastJob(d))
    BY DEF QuietDocumentsAreSettled, Agree
  <2>1. /\ Len(log) \in Nat /\ cursor = Len(log)
        /\ \A i \in 1..Len(log) : log[i] \in 1..Len(jobs)
    BY Place DEF Quiet, InOrder
  <2>2. ~Due(d)
    BY DEF Quiet, Due, Idle
  <2>3. PICK l \in 1..Len(log) : LastEvent(d, l) /\ (l <= cursor => Agree(d, log[l]))
    BY <2>2 DEF SettledInv, Reflected
  <2>4. Agree(d, log[l])
    BY <2>1, <2>3
  <2>5. ASSUME NEW i \in 1..Len(log), jobs[log[i]].doc = d, \A k \in i + 1..Len(log) : jobs[log[k]].doc # d
        PROVE  i = l
    <3>1. ~(i < l) /\ ~(l < i)
      BY <2>1, <2>3, <2>5 DEF LastEvent
    <3> QED
      BY <2>1, <3>1
  <2>6. \A j \in 1..Len(jobs) :
            (/\ jobs[j].doc = d
             /\ \E i \in 1..Len(log) : log[i] = j /\ \A k \in i + 1..Len(log) : jobs[log[k]].doc # d)
            <=> j = log[l]
    BY <2>1, <2>3, <2>5 DEF LastEvent
  <2>7. LastJob(d) = log[l]
    BY <2>1, <2>6 DEF LastJob
  <2> QED
    BY <2>4, <2>7
<1> QED
  BY Inductive, SettledInit, SettledStep, <1>1, PTL DEF Spec

\* A job that is DONE or DEAD is written again only by the attempt that made it
\* so, or a retry of it: a record is handled once, and found PENDING.
THEOREM OutcomeIsFinalAlways == ASSUME NoLoss PROVE Spec => OutcomeIsFinal
<1> DEFINE Final == \A j \in 1..Len(jobs) : jobs[j].status \in {"DONE", "DEAD"} =>
                        jobs'[j].status = jobs[j].status
                        \/ (current = j /\ (stage = "fail_job" \/ attempt > 1))
<1>1. IInv /\ SettledInv /\ [Next]_vars => [Final]_vars
  <2> SUFFICES ASSUME IInv, SettledInv, [Next]_vars PROVE Final \/ UNCHANGED vars
    OBVIOUS
  <2>t. /\ TypeInv /\ StatusInv /\ jobs \in Seq(Job) /\ Len(jobs) \in Nat
        /\ Holding => current \in 1..Len(jobs)
        /\ attempt = 1 \/ attempt > 1
        /\ calls \in [Calls -> Call \cup {Idle}]
    BY Place DEF TypeInv, TypeOK, IngestTypeOK
  <2>1. CASE Pipeline
    <3>1. \A j \in 1..Len(jobs) : j # current => jobs'[j].status = jobs[j].status
      BY <2>t, <2>1, PipelineJobs
    <3>2. CASE MarkJob
      BY <2>t, <3>1, <3>2 DEF MarkJob, StatusInv
    <3>3. CASE JobDone
      <4>1. jobs[current].status = "RUNNING"
        BY <2>t, <3>3 DEF JobDone, StatusInv, PipelineStages
      <4> QED
        BY <3>1, <4>1
    <3>4. CASE MarkDoc \/ Find \/ Parse \/ Embed \/ Purge \/ Insert \/ DocDone \/ FailDoc
      BY <3>4 DEF MarkDoc, Find, Parse, Embed, Purge, Insert, DocDone, FailDoc
    <3> QED
      BY <2>1, <3>2, <3>3, <3>4 DEF Pipeline
  <2>2. ASSUME NEW c \in Calls, Service(c) PROVE Final
    <3>1. jobs' = jobs
      BY <2>2 DEF Service, Upload, Store, NextFile, Finish, Reingest, Delete, DeleteRecord, apiUnchanged
    <3> QED
      BY <3>1
  <2>3. ASSUME NEW c \in Calls, InsertJob(c) PROVE Final
    <3>1. calls[c] \in Call
      BY <2>t, <2>3 DEF InsertJob, Idle
    <3>2. [doc |-> calls[c].doc, action |-> calls[c].action, status |-> "PENDING"] \in Job
      BY <3>1 DEF Call, Job, JobStatus
    <3>3. \A j \in 1..Len(jobs) : jobs'[j] = jobs[j]
      BY <2>t, <2>3, <3>2, InsertJobType DEF InsertJob
    <3> QED
      BY <3>3
  <2>4. CASE FailJob
    <3>1. stage = "fail_job" /\ current \in 1..Len(jobs) /\ \E s \in JobStatus : SetJob(s)
      BY <2>t, <2>4 DEF FailJob, Holding, JobStatus
    <3>2. \A j \in 1..Len(jobs) : j # current => jobs'[j].status = jobs[j].status
      BY <2>t, <3>1, SetJobType DEF SetJob
    <3> QED
      BY <3>1, <3>2
  <2>5. CASE \/ \E c \in Calls : Publish(c) \/ PublishFails(c) \/ RequestFails(c)
             \/ ApiCrash \/ Fetch \/ Take \/ Commit \/ Backoff \/ PublishDlq \/ WorkerCrash \/ StepFails
    <3>1. jobs' = jobs
      BY <2>5 DEF Publish, PublishFails, RequestFails, ApiCrash, Fetch, Take, Commit, Backoff, PublishDlq, WorkerCrash, StepFails
    <3> QED
      BY <3>1
  <2> QED
    BY <2>1, <2>2, <2>3, <2>4, <2>5 DEF Next, Shared, SharedStep, Dispatch, WorkerLoop
<1> QED
  BY Inductive, SettledInit, SettledStep, <1>1, PTL DEF Spec, OutcomeIsFinal
=============================================================================
