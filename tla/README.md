# Physical AI Lab: verification project

TLA+ models, TLC runs and TLAPS proofs for the backend of Physical AI Lab
(`backend/app`, the FastAPI process, and `backend/worker`, the ingestion
worker). Paths below are relative to the repository.

## 1. Inventory

| Part | State it keeps | Operations | Talks to |
|---|---|---|---|
| Manual documents (`app/services/document_service.py`) | `documents` and `ingestion_jobs` in MongoDB, PDFs on a shared volume | upload (several files), reingest, delete, reads | publishes to Kafka `ingest.jobs` |
| Drawings (`app/services/drawing_service.py`) | `drawings`, `ingestion_jobs`, image files | create, update, add_revision, delete, reads | publishes to `ingest.jobs` |
| Worker loop (`worker/main.py`) | consumer position and committed offset | fetch a batch, handle with retries, dead letter, commit | calls the pipelines |
| Manual pipeline (`worker/pipelines/manual_pipeline.py`) | `manual_chunks` in Milvus, document and job status | upsert, delete, fail | parser, chunker, embeddings, Milvus, Neo4j |
| Drawing pipeline (`worker/pipelines/drawing_pipeline.py`) | `drawing_cards` in Milvus, drawing and job status | upsert, delete, fail | embeddings, Milvus |
| Chunker, PDF parser (`worker/pipelines/chunker.py`, `worker/parser/pdf_parser.py`) | none (pure) | split a document into sections and chunks | called by the manual pipeline |
| Anomaly detector (`app/services/anomaly_detector.py`) | breakers per equipment, sample windows, recent alerts, SSE subscriber queues | sample, reload_registry, reset_circuit_breaker, subscribe | consumes Kafka telemetry, registry, graph, MongoDB |
| Monitor registry (`app/services/monitor_registry.py`) | profiles, set of auto-registered equipment | load, get_or_auto_register | Neo4j |
| Telemetry generator (`app/services/telemetry_service.py`) | run flag, task, scenario, drift | start, stop, set_scenario | publishes telemetry |
| Chat (`app/services/chat_service.py`) | sessions and messages in MongoDB | create, delete, ask (a stream) | retriever, graph, LLM |
| Retriever (`app/services/retriever_service.py`) | none | retrieve, neighbour expansion, budget, sources | Milvus, embeddings |
| Embedding cache (`app/services/embedding_service.py`) | Redis keys | embed_texts | Redis, Ollama |
| Graph (`app/repositories/neo4j/graph_repository.py`, `app/services/impact_service.py`) | nodes and edges | CRUD, impact, reseed | Neo4j |
| Milvus schema (`app/infrastructure/milvus.py`) | collections | ensure, query, delete | Milvus |
| Health, statistics, routes, config | none | reads and wiring | everything |
| Frontend (`frontend/src`) | component state | chat stream, polling, SSE charts | the API |

### What is hard here

* Two processes, the API and the worker, write the same MongoDB records and the
  same index with no transactions: every service call is a step of its own and
  the other process runs between any two of them.
* The job record, the event and the document record are separate writes; a
  restart between two of them leaves them disagreeing.
* At-least-once delivery, in-process retries, a non-idempotent producer: the
  same job may run several times, wholly or in part.
* The detector is a single event loop, but awaits between reading and writing a
  breaker: resets, reloads and samples interleave there.
* Subscriber queues, sample windows and alert lists are bounded.
* Tasks are cancelled and restarted (generator, detector).

### What makes each part correct

* *Ingestion*: the status shown is true of the index; a deleted document leaves
  the index for good; nothing is stored twice; every job ends DONE or DEAD, and
  DEAD is what the dead letter topic holds.
* *Drawings*: what the index shows is the latest revision once quiet; a revision
  number is never given to two files.
* *Detector*: TRIP stays until it is reset; an alert is raised once per change
  to WARNING or TRIP; what a subscriber sees is the breaker's state; a monitored
  equipment is never silently dropped.
* *Generator*: at most one loop runs; the flag tells the truth.
* *Chat*: a stream that is listened to ends with done or an error; an answer and
  its question are kept together; the prompt holds the latest turns.
* *Chunker, retriever, graph*: the pure algorithms keep all text, stay in budget
  and report the shortest paths.

## 2. Plan and status

| Step | Modules | Subject | Abstract specification | Theorems | Status |
|---|---|---|---|---|---|
| 1 | `IngestWorker`, `ManualIngest` | manual ingestion end to end | | types, status, deletion, duplicates, outcomes, quiet states | done |
| 2 | `DrawingIngest` over `IngestWorker` | drawing service and pipeline, revisions, files | | types, cards, deletion, latest card, records keep their files | done |
| 3 | `Detector` with its registry, `Dashboard` on top | breakers, awaits, reset and reload, subscribers, the page's cards | `Breaker`: the latch each machine promises | types, refinement, alerts, history | done |
| 4 | `Generator` | start, stop and the task behind them | | one loop, true flag | done |
| 5 | `Chat` | sessions, messages, streams, deletions | | turns, done event, title, every end told | done |
| 6 | `Parser`, `Chunker`, `Embedding`, `Retrieval`, `Impact`, composed by `Knowledge` | from a manual to an answer | reference definitions (`NoLineLost`, `Reached`, ...) | no line and no text lost, chunk limits, reading on, vectors, least depths | done |
| 7 | `Ordering` | what retrieval keeps and cites: sorting, selecting and summing | | neighbours follow their hits, a top hit is quoted | done |
| 8 | | window arithmetic of the detector, migration of Milvus collections | | | left, see section 6 |

## 3. Modules

### IngestWorker

The state and steps the two kinds of ingestion share.

| TLA+ | Code |
|---|---|
| `jobs` | `ingestion_jobs`; a job id is its position |
| `log`, `position`, `committed` | topic `ingest.jobs` (one partition), the consumer's position, the group's offset |
| `cursor` | how far the records of the fetched batch are handled |
| `stage`, `current`, `attempt`, `verdict` | program counter and locals of `handle_with_retry` and the pipeline under it |
| `dlq` | jobs in `ingest.jobs.dlq` |
| `calls` | API requests in progress, with their step |
| `InsertJob`, `Publish`, `PublishFails` | `_dispatch` / `dispatch_ingest_job`: job record, then event |
| `Fetch`, `Take`, `Commit`, `WorkerCrash` | the loop of `main`, ended and restarted by the container |
| `Raise`, `FailJob`, `Backoff`, `PublishDlq` | the `except` branch, `pipeline.fail`, the delay, the dead letter |
| `RequestFails` | a store call of a request that raises: the request ends there |
| `Then`, `StepFails` | a store call that works, works without its answer arriving, or fails |

`commit()` without arguments commits the *position*, i.e. the end of the batch
`getmany` returned; that is what `Commit` does. A SIGTERM is only looked at
between batches, where a restart changes nothing, so it needs no action. An
exception out of `pipeline.fail` or the dead letter's publication leaves
`handle_with_retry` and ends the process: `WorkerCrash`.

Faults are a budget: `Faults` names the kinds a run allows, `MaxFaults` how many
happen. `transient` and `permanent` are errors without effect (the exception
classes of `is_non_retryable`), `ambiguous` an error after the effect,
`swallowed` an error in the second write of `fail`, `publish` and `duplicate`
concern the producer, `request` is an error of a store call of an API request
before its effect (one after it is the effect and then `request`, `publish` or
`api`), `api` and `worker` restart a process.

The invariants that the proofs need are in modules of their own, without proofs,
so that TLC can check them: `ManualInductive`, `DrawingInductive` and
`KnowledgeInductive`. `IngestProofs` has the lemmas on the shared steps,
`KnowledgeLemmas` those on the operators of `Knowledge`.

### ManualIngest

Adds `doc` (status of each record, `new` before, `gone` after), `files` and
`chunks` (how many copies of a document's chunks Milvus holds), the requests of
`DocumentService` and the stages of `ManualPipeline`. Each awaited store call is
one action. Merged into one action are only a lookup with the write that
repeats its check (`reingest`), and a lookup with the synchronous unlink that
follows (`delete_document`; the path of a document never changes). The content
of a document does not change either, so a copy of its chunks is just counted.
A missing file is a permanent or a transient error: the class the PDF library
raises for it is not in the repository. The graph edges written after DONE are
best effort and have no reader here: left out.

### Breaker

What the early warning system promises of its breakers, without registry, awaits
or streams: `level` and the one alert that is `due`. A TRIP is left by a reset,
by leaving the watch list (`Rewatch`) or by a restart, and each rise raises one
alert, dealt with before the next sample is judged. An alert is `named` or not: one
whose sensor has no metric name or unit cannot be built, and its breaker joins
`untold` until it rises with names.

### Detector

`AnomalyDetector` with its `MonitorRegistry`, the graph they read, the alert
history and the SSE streams. Everything runs on one event loop, so an action is
the code between two awaits.

| TLA+ | Code |
|---|---|
| `graph` | which equipment has a sensor in Neo4j: with thresholds (`limits`), without (`stat`), or without metric name or unit (`bare`), as the graph page makes them |
| `profiles`, `auto` | `MonitorRegistry._profiles`, `_auto_registered` |
| `breaker`, `mode` | `_circuit_breakers`: the state, and what the profile it was built from has |
| `task` | where in `_process_sample` the consumer is suspended, and its locals |
| `reloads` | reload requests that have read the graph and not yet applied it |
| `recent`, `stored` | the deque of alerts, and `early_warning_alerts` as far as a restart reads it |
| `missed` | history: the breakers whose last rise raised no alert |
| `streams` | `_subscribers`, their queues and the responses that drain them |
| `Sample`, `UnknownSample`, `RegisterInGraph`, `Registered`, `Guide`, `GuideRaises`, `Persist`, `Report` | `_process_sample` from await to await |
| `ReloadRead`, `ReloadApply`, `Reset` | `reload_registry`, `reset_circuit_breaker` |
| `AddSensor`, `RemoveNode` | edits of the graph |
| `Subscribe` ... `Unsubscribe` | `/telemetry/stream` |

What value, window and thresholds make of a sample is the choice of a verdict:
the properties here hold whatever the arithmetic yields. The guard `task = Idle`
is the consumer's `await self._process_sample(...)`. Impact analysis and guide of
an alert are best effort and read only, so their awaits are one step. A consumer
that loses its connection, or whose sample raised, reconnects at the latest record
and goes on: it changes no state here, so it has no action. One sensor for an
equipment is assumed.

A sensor that the graph page creates has neither metric name nor unit
(`frontend/src/pages/Graph.tsx:568`), and a key with a null value bypasses the
defaults of `MonitorRegistry.load`. Then `EarlyWarningAlert` raises after the
breaker has its new state: `GuideRaises`. What counts are the names of the breaker
the consumer holds (`Held`), which a reload may fill in during the awaits, or take
out of the table. The list of breakers cannot be built either (`Listable`): a
stream that opens then ends. `Dashboard` leaves such sensors out: its requests
would fail.

Faults: `graph_read` (a load falls back to the defaults), `graph_write` (the
registration stays in memory), `mongo` (alerts are not stored or not read),
`restart`. They may happen any number of times.

### Dashboard

The early warning page on top of `Detector`: `view` (the cards) and `fetches`
(requests for the list in flight, answered with the breakers of that moment and
shown at a later one). Stream events and answers overtake each other.

### DrawingIngest

Over `IngestWorker` again, with what drawings have and manuals have not: the
record changes while it exists. `drawing` is its status, revision, metadata
(`text`) and file; `files` are the files on disk, named in the order they are
saved (the code gives each a uuid); `cards` are the cards in Milvus; `read` is
the record the worker has read and builds the card from.

A request keeps what it has read (`Request`) and acts on it after its awaits:
`Lookup`, then `SwapFile` and `SetRevision` (`add_revision`) or `Unlink` and
`DeleteRecord` (`delete`). `cut` is a history: the drawings a request on which was
cut off (an error, a restart) after it had removed the file, or after it had
changed the record and before it inserted the job; a later revision that is stored,
or a later job, makes up for it. `Update` merges a lookup with the write that repeats
its check.

### Generator

`TelemetryGenerator`: requests (`Start`, `SetScenario`, `Stop`, the reload in two
halves around its await) and the asyncio task each start creates. A cancelled
task gets `CancelledError` at the await it is at (`created`, `load`, `send`,
`sleep`), so a stopped loop and its successor exist side by side for a moment.
Errors: the graph (`graph`) and the broker (`publish`); a spike of a sensor
without a trip threshold raises a `TypeError`. Of a sample only the drift offset
is kept.

### Chat

`ChatService`: sessions, messages, streams and deletions over MongoDB. `stream`
is where each `ask_stream` waits, with its locals (`history`, the time of its
question `turn`, the time of the message it writes next `at`); the order of
messages is that of the clock. `call` is a store or service that raises, with or
without its effect, those of a deletion included; `llm` a model that fails half way;
`disconnect` a client that goes away, which cancels the generator at whatever await
it is; `restart` ends every stream and deletion where it is. A deletion that ended
between its two calls leaves a session that is open, has its title and no messages,
and can be asked again. `emptied` is a history: when the messages of a session were
last deleted.

### Knowledge and its parts

`Knowledge` composes what `ManualIngest` leaves abstract: `Parse`, `Chunk`,
`ToEmbed`, `EmbedStep`, `Retry` and `Insert` are the steps of one ingestion,
`Retrieve` and `Analyze` what a question makes of the index and the graph.

* `Parser` (`parse_pdf`): a document is the sequence of its lines, a line its font
  size, its length and whether it has a letter or digit. `BodySize`,
  `HeadingMin`, `TitleLine` and `IsHeading` are the layout rules, `Sections` what
  they make of it.
* `Chunker` (`chunk_document`): a section is the length of its prefix and where
  each line of its text `ends`; a character is its number, the characters between
  paragraphs are 0. `Combine`, `Begin`, `HardSplit` and `EndSection` are the
  branches of the loop. `HasRoom`: the title path leaves more room than the
  overlap; a longer path lets the hard split loop for ever or skip text
  (section 6).
* `Embedding` (`embed_texts`): `MGet`, one `StoreBatch` per batch, failures with
  and without effect; other calls and expiry change the cache at any moment. A
  vector is named by its text.
* `Retrieval` (`RetrieverService`): expansion with neighbours, order, budget,
  drawing cards, sources and the prompt's context. Which hits a search finds is a
  choice: any rows, with scores that fall (`ByRank`, the hybrid search) or rise
  (`ByDistance`, the dense search it falls back to; see the disagreements).
* `Ordering`: sets put in order and sequences picked from, as `sorted` and list
  comprehensions do; used by `Parser` and `Retrieval`.
* `Impact` (`GraphRepository.impact`): paths without a repeated relation, up to
  three, and the loop that keeps the least depth of each node. `SeedGraph` is the
  graph of `SEED_STATEMENTS`; `Reached` tells the depths by steps, without paths.

## 4. Runs

### Ingestion

`MCManual` instantiates `ManualIngest` (model values for documents and requests;
requests are symmetric where only safety is checked). `CHECK_DEADLOCK FALSE`
everywhere: an instance stops when its bounded requests are used up and all
records are handled.

| Run | Instance | Shows |
|---|---|---|
| `manual_faults` | 2 documents (one a scan), 2 requests, uploads of 2 files, 3 jobs, batches of 2, 2 attempts, one fault of any kind | `IInv`, the invariant the proofs use, with `DoneIsIndexed`, `NoDuplicateChunks`, `DeleteIsFinal`, `OneDeleteJob` |
| `manual_live` | 1 document, 3 jobs, one error or lost answer, no restarts, fairness | `QuietDocumentsAreSettled`, `OutcomeIsFinal` and the liveness properties |
| `manual_lost_batch` | one worker restart, fairness | violated: `DeadReachesDlq` |
| `drawing` | `MCDrawing`: 1 drawing, 2 requests, 3 jobs, one fault of any kind | `DoneHasCard`, `DeleteIsFinal`, `RecordHasFile`, `QuietCardsAreCurrent` |
| `drawing_revision` | two revisions at the same time, no faults | violated: `RevisionGrows` |

Bounds. Three jobs are an upload, a reingest and a delete of one document, the
longest chain whose members interact: a fourth job repeats one of them. Two
requests give every overlap of two handlers. Two attempts reach both ways out of
a failure (retry, give up); three only repeat the first. Batches of two have a
record after the one that commits.

Fairness. `FairSpec` asks weak fairness of each accepted request (the event loop
runs it) and of the worker (its container is `restart: unless-stopped` and its
loop waits for nothing but stores). Faults are never required. `manual_live`
allows fewer errors than attempts: with as many, a DELETE job goes DEAD and its
chunks stay, which is what a dead letter means.

One fault is a fault at every place of every interleaving. Its combinations are
what the proofs are for: `ManualProofs` allows any number.

`RecordHasFile` and `QuietCardsAreCurrent` hold through faults of every kind, and say
what is left of them after a fault. `add_revision` and `delete` remove the file
before they write the record, so a request that is cut off in between leaves a
record without its file; one that is cut off between record and job leaves an old
card. Both follow from the order of the lines; `cut` names these drawings, and the
properties say that no other drawing, no overlap and no later request has the same
result.

`OutcomeIsFinal` and the "quiet" properties are properties of runs without
restarts: redelivery reopens DONE jobs, and a restart that loses a record leaves
statuses behind (`manual_lost_batch`).

### Early warning

`MCDetector` and `MCDashboard` instantiate `Detector` and `Dashboard`.
`CHECK_DEADLOCK FALSE`: an instance in which all machines were registered once
and removed has nothing left to do, and requests are optional.

| Run | Instance | Shows |
|---|---|---|
| `detector_core` | 1 machine, 1 reload in progress, 1 stream with a queue of 1, histories of 2, all edits, all faults but `mongo` | `TypeOK`, `RegistryAgrees`, `RegisterIsFresh`, `AlertsTellTheState`, `HistorySurvives`, and `ImplementsBreaker`, the refinement of `Breaker` |
| `detector_trip` | 2 machines, graph outages | violated: `TripHeldUntilReset` |
| `dashboard_trip` | 1 machine, 1 page, 2 list requests in flight, resets, fairness | `TripIsShown` |
| `generator` | 2 sensors (one a default, one without a trip threshold), 3 starts, drift of 2 steps, failures of graph and broker | `OneLoop`, `FlagIsTrue`, and under fairness `SamplesKeepComing` |

Bounds. A single reload in progress suffices for the safety runs, as a second one
only repeats it with another reading of the graph, and every reading of every
moment is covered by the faults and edits; the proofs cover any number of
machines and reloads. A queue of one is filled by one event, the longest burst
(alert and sample) overruns it; the page's queue of two takes the burst and no more; histories of two (one) overflow. Three
starts are a loop that is being cancelled, its successor, and that one's
successor; two drift steps reach the limit.

Fairness. Telemetry of every machine keeps coming (`SF`, as the consumer may be
busy with another machine whenever a sample arrives), the consumer's awaits end,
an accepted reload is carried out, and for the page the network delivers. Edits,
resets, visits and faults are never required. For the generator the event loop
runs every task and broker and graph answer or fail.

### Chat and knowledge

| Run | Instance | Shows |
|---|---|---|
| `chat` | 1 session, 2 streams, 2 deletions, a history of 2, 6 messages, every fault any number of times | `AnswersHaveQuestions`, `DoneIsStored`, `TitleIsAnswered`, `EndIsTold` |
| `chat_history` | the same without faults | violated: `HistoryIsRecent` |
| `knowledge` | every document of up to 4 lines of 5 kinds, chunks of 18 with an overlap of 2, batches of 2, one failure or change of the cache, a context of 40, 2 hits expanded; every root of the seed graph | nothing is lost or too long on the way (`ParsedTextIsWhole`, `ParsedTextIsThere`, `ChunksFit`, `NothingLost`, `ChunksFollow`, `ChunkingEnds`), `CacheIsTrue`, `VectorsMatch`, `NeighbourHasHit`, `TopIsQuoted`, `DepthIsShortest` |

Bounds. Six messages are three turns, one more than a history of two holds; two
streams and two deletions give every overlap of their awaits, also that of a
session emptied twice. Five kinds of lines are
a title, a heading, a bullet in a heading's size (no letter), a short and a long
line of text; four of them make every order of title, heading and text, and a
long line is cut up to four times by the room that two prefixes leave. Up to
twelve texts in batches of two need several batches, and one text may occur twice
in the list, in one batch or in two.

The chat's three invariants speak of turns begun since the session was last emptied
(`Kept`): a deletion that came to no end takes older turns with it and leaves the
session, and a stream that was at work meanwhile stores its answer all the same.
That is the order of the two calls in `delete_session`.

Fairness. Only the chunker has one: it is plain Python that runs until it ends. Of a
stream's end nothing is assumed: the clients of MongoDB, Redis and Neo4j are created
without timeouts for their calls, so `EndIsTold` says how a stream ends, not that it
does.

### Disagreements

The violated properties and what they quote are listed in `PROJECT.json` under
"findings". Smaller disagreements met on the way have no run:

* `MAX_ATTEMPTS = 3` counts the first attempt, so the third of the delays that
  `worker/main.py:5` lists is never waited.
* A subscriber dropped for its full queue keeps an open stream that is only
  pinged (`anomaly_detector.py:222`); a breaker reset during the awaits of its
  alert is announced once more with the state it had before
  (`anomaly_detector.py:348`).
* A job record whose event was never published (an API restart between the two)
  stays PENDING and so does its document: there is no outbox.
* The generator's reload never reads the graph again once its registry is filled
  (`graph_repository.py:240`, `reload` promises "즉시 반영"); a critical spike of a
  sensor without a trip threshold ends the loop with a `TypeError`.
* docs/EARLY_WARNING_SYSTEM.md:95 draws WARNING to NORMAL only after ten normal
  samples in a row ("정상 범위 10개 연속 회복"); the code returns after the first
  (`anomaly_detector.py:388`), and so does `Breaker`.
* A sensor without metric name or unit: its rise changes the state and raises before
  the alert is built (`anomaly_detector.py:429`), although the same document promises
  an early warning for every WARNING (line 102); while it is watched, the list of
  breakers and every new stream fail for all equipment (`get_circuit_breakers`),
  although a reload is said to take a new sensor over at once (line 186).
* A blank question ends a stream without any event; `get_messages` shows the
  oldest 200 messages.
* A title path that leaves no more room than the overlap makes the hard split
  loop for ever (`chunker.py`), and with room for just one character more than the
  overlap a piece may only repeat the tail before it; docs/INGESTION_STRATEGY.md
  §3.2 says 800/100 and a hard split for a single paragraph, the code has 900/150
  and also splits a tail with the paragraph that follows.
* The headings of sections without own text reach the index only as prefixes;
  the fallback that merges all lines (`pdf_parser.py:104`) cannot be reached by a
  document with lines.
* `context_block` counts headers that the budget did not: the last sources listed
  may be missing from the prompt (`TopIsQuoted` is about the first).
* `milvus.py:91` says that `1 - distance` turns the distance of COSINE into a
  similarity; what Milvus returns for COSINE is the similarity already. After the
  fallback to the dense search scores therefore rise from the best hit to the worst:
  the first source is the hit that Milvus found last. `TopIsQuoted` speaks of scores,
  so it holds for both searches; that the highest score is the nearest text holds for
  the hybrid one. `search_drawing_cards` (`milvus.py:229`) does the same, so the
  least similarity of `retriever_service.py:25` keeps the dissimilar cards.
* `impact` of a leaf or an unknown root raises an `IndexError` before the empty
  result is looked at; `max_depth` is ignored; a root on a cycle is listed as
  impacted by itself.

## 5. Proofs

All theorems hold for every value of the constants: any number of documents,
requests, jobs, faults, machines, streams, any batch size and limit. The
invariants of the `...Inductive` modules were checked by TLC before they were
proved; `manual_faults` checks `IInv` on every run.

`ManualProofs` proves about `ManualIngest`, for all constants satisfying
`IngestAssumption` and `ManualAssumption`:

* `TypeCorrect`: `Spec => []TypeOK`
* `Inductive`: `Spec => []IInv`, with `IInv` from `ManualInductive`
* `DoneIsIndexedAlways`, `NoDuplicatesAlways`, `DeleteIsFinalAlways`,
  `OneDeleteJobAlways`
* from `NoLoss` (errors of the stores with and without effect, but no restarts, no
  failed or doubled publications, no swallowed errors): `QuietDocumentsSettled`
  and the action property `OutcomeIsFinalAlways`

Why an inductive invariant. `DoneIsIndexed` alone is not inductive: the step that
deletes a document's chunks must know the document does not say DONE. That is
`IngestInv`: between `MarkDoc` and the end of an upsert the status is anything
but DONE, and no DELETE of the document is DONE. The second half holds because
`MarkDoc` found a record, while a DELETE job exists only for a record that is
gone (`DeleteInv`), and a record that is gone never comes back (`StoreInv`: an
upload stores under an id nobody has). `ChunkInv` ties the stage to the index.
`DeleteOnceInv` says that the request which deleted a record is the only one that
dispatches a DELETE for it. Each lemma (`SharedSafe`, `ServiceSafe`,
`PipelineSafe`) takes one family of actions; the type part is proved first and
separately.

`SettledInv` is about the topic. Every job is published once and handled in order
(`EventsOnce`, `InOrder`); what nobody has worked on is PENDING, what is worked on
RUNNING (`StatusInv`), so a job that is DONE or DEAD is met again only by the
attempt that made it so or its retry: that is `OutcomeIsFinal`. For a document
either an event is due, or its last event says what became of it (`Reflected`): if
the worker is past it, document and job agree; if the worker is at it, `Achieved`
tells stage by stage what has been written. The weak place is a request that sets
PENDING while an older event of the document is being handled: then its own event
is due, so nothing need agree. `NoLoss` is what the argument needs and what
`manual_live` assumes: a restart reopens or loses records, a failed publication
leaves a document waiting, a swallowed error leaves its status behind.

`DrawingProofs` proves about `DrawingIngest`, for all constants satisfying
`IngestAssumption`:

* `TypeCorrect`, `CardsInductive` (`IInv` from `DrawingInductive`),
  `DoneHasCardAlways`, `DeleteIsFinalAlways`, whatever fails
* `QuietCardsCurrent`, `RecordHasFileAlways`, also whatever fails: `cut` says which
  drawings a fault has hit

`IInv` follows that of manuals; what is new is `CardInv`, which says that the card
in the index is the one built from the record the worker has `read`. `CurrentInv`
relates it to the record as it is now: a DONE drawing has the card of its latest
text and revision, or is owed an ingestion (`Owed`) by a request that has changed
the record and is about to insert its job, or by a job that is not DONE. While the
worker holds a record it has read, the same is said of what it has read, its own
job aside; so when that job becomes DONE and the record was changed meanwhile,
another one is still owed. An error or a restart between the write of a record and
the insertion of its job breaks exactly this, and leaves the drawing in `cut`.
`FileInv` is about ownership: a file in hand that is not in a record yet is known
to nobody else (`NewFileInv`), and a request that is about to remove the file it
read of can only hurt the drawing it is about (`OwnerInv`), which it then replaces
or deletes, or leaves in `cut`.

`DetectorProofs` proves about `Detector`, for all constants
satisfying `DetectorAssumption`:

* `TypeCorrect`: `Spec => []TypeOK`. Inductive by itself; the lemmas about
  `Push`, `Put` and `Broadcast` carry the bounds of histories and queues.
* `RegistryAgreesAlways`, `RegisterIsFreshAlways`: inductive together with the
  types. `RegisterIsFresh` is what lets the consumer overwrite a breaker after
  its await: only the consumer judges, so nobody raised it meanwhile.
* `Refinement`: `Spec => ImplementsBreaker`. `InitBreaker` maps the initial
  states, `StepBreaker` every step: `Sample` and `Registered` to `Judge` (the
  latter by `RegisterIsFresh`), `Guide` to `Announce`, `GuideRaises` to `Miss`,
  `ReloadApply` to `Rewatch` (it may change whether the pending alert is named), `Reset` and `Restart` to themselves, the rest to stuttering.
* `AlertsTellTheStateAlways`: `AlertsTellTheState` chooses a latest alert, and
  says nothing of the alert being prepared once its breaker was reset. Breakers in
  `missed` are excepted, until they rise with names.
  `AlertInv` names the witness (`Told`) and adds `GuideIsCurrent`: while an
  alert is prepared its breaker shows its severity or was lowered.
* `HistorySurvivesAlways`, from the assumption that MongoDB answers:
  `HistoryInv` adds that the alert being stored is the last one shown, so that
  the two bounded histories shift together.

`GeneratorProofs` proves about `Generator`, for all constants satisfying
`GeneratorAssumption`: `TypeCorrect`, `OneLoopAlways`, `FlagIsTrueAlways`. The
invariant says of every task whether it can still go on: only the latest can, and
it can exactly while the flag is up. `Start` relies on it (nobody is left when the
flag is down), `Stop` and every way a task ends re-establish it.

`ChatProofs` proves about `Chat`, for all constants satisfying `ChatAssumption`:
`TypeCorrect`, `AnswersHaveQuestionsAlways`, `DoneIsStoredAlways`,
`TitleIsAnsweredAlways`, `EndIsToldAlways`. `StreamInv` says what a stream may rely
on at each await while its turn is kept: its question is stored from the model's
turn on, its answer from the title on. A step of a stream is one of three (`Silent`,
`Writes`, `Titles`), whatever the await; whoever empties a session, a deletion that
goes on or one that raises, sets `emptied` to the clock, and every turn there is has
an earlier time (`EmptiedSurvives`), so nothing is claimed of it any more. A failing
call is one of the steps and its end (`FailsInv`).

`KnowledgeProofs` proves about `Knowledge`, for all constants satisfying its
assumptions. `KnowledgeAssumption`: documents are sequences of lines, and their
title paths leave room; that parsing them yields sections whose lines end one
after the other is proved (`ParsedIs`). `SearchAssumption`: the rows that are in
the index already have places of their own and keep the limit, a chunk and its
header fit the context, and scores are positive (rank fusion adds reciprocals; the
neighbour of a hit without a score would tie with it; the dense search's score is 0
only for a chunk whose vector is that of the question). The settings of the code
satisfy all of it: chunks of 900, a context of 4000.

* `ParsedTextIsWholeAlways`. The openers are numbers in order (`IncreasingIs`), and
  the parts between an opener and the next cover all lines that are no title
  (`PartsCover`); each part has its heading first and its text in order (`OwnIs`),
  and one part's lines come before the next one's (`PartsKeepAll`). The fallback
  that merges all headings is a case of its own (`OneSection`).
* `ParsedTextIsThereAlways`. The body size is that of some line
  (`MostCommonIs`), headings are larger than the body by a margin, and so is the
  title by a second one (`TitleIsLarge`): a line of the body size is text.
* `ChunksFitAlways`. `PiecesFit` says of the loop that all pieces are within the
  budget and that the piece under way is longer only while it is being cut.
* `NothingLostAlways`. `Placed`: the piece under way ends where the paragraphs so
  far end. `Covered`: what has been read of the section is in its pieces or in the
  one under way; a cut keeps it because its two parts overlap.
* `ChunksFollowAlways`, from `AmpleRoom` (prefix and overlap leave room for two
  characters). `Run`: within a piece numbers go up one by one, with single joiners
  in between. `Continues`: the piece under way begins no later than where the last
  one ends, and what it has beyond an overlap is new. Without `AmpleRoom` it is
  false, as TLC shows with a `MaxChars` of 16: a tail, a joiner and nothing else
  can fill a piece.
* `CacheIsTrueAlways`, `VectorsMatchAlways`. `EmbedInv` says that a result found so
  far is that of its text.
* `NeighbourHasHitAlways`, `TopIsQuotedAlways`, for any number of hits, in whatever
  order their scores are.
  `IndexInv`: rows of the index have places of their own. What is found is
  `Gathered`: hits, and neighbours of hits with 0.98 of their score; so a hit is
  sorted before its neighbours (`SortedIs`), and a list that is cut keeps it with
  them. The best entry is a hit with the best score; being within the limit it
  is kept by the budget (`TrimmedIs`), is the first manual of the list, thus the
  first source, and the first part of the prompt.
* `DepthIsShortestAlways`, for any graph. A node that n steps reach and fewer do
  not has a path of n relations, as a walk that uses a relation twice could be
  shortened (`NewHasPath`); so each depth adds the rows of the nodes that are new
  there (`KeepsFirst`). The three steps of the query are unfolded: no induction.

What these need of induction is derived from well-foundedness: a set of numbers
has a least and, if bounded, a greatest member, and a least counterexample refutes
itself. That gives sums over sets (`SumExists`, `TotalAdds`: prefixes and the ends
of lines), ranks (`RankIsOnto`: a finite set in order has every place taken, by the
pigeonhole principle) and the recursion over hits (`FindsExists`).

Only model-checked:

* Everything under fairness (`DeletedIsCleaned`, `DocumentsSettle`,
  `DeadReachesDlq`, `TripIsShown`, `SamplesKeepComing`,
  `ChunkingEnds`): the prover does neither liveness nor ENABLED.

## 6. Not modelled

* The arithmetic of the detector's windows (z-score, slope): a verdict is a
  choice. A window's z-score is bounded by (n-1)/sqrt(n) with the new value in it,
  so the smallest window never reaches the threshold 2.5; this is a fact about
  real numbers, not about steps. That windows are kept under the sensor's id and
  cleared under the breaker's is left out with them, and so are two sensors of one
  machine.
* A machine that registered itself by telemetry, was removed and reloaded is not
  watched again (`monitor_registry.py:185`), and a machine added without an event
  has no card on an open page: both follow from single lines.
* The migration of an old Milvus collection at start (drop and create), which
  leaves DONE documents without chunks: the only state it touches is the index, at
  a moment when nothing else runs.
* The ranking of a search, the wording of prompts, the random part of samples, how
  the PDF library finds lines.
* Start-up and shutdown, health, statistics, reads, configuration: wiring and
  reads without state of their own. The rest of the frontend: layout and forms.
  Sample data and scripts run outside the system.

`PROJECT.json` gives the reason for each component and hazard that no property
covers.
