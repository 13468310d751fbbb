------------------------------- MODULE Embedding -------------------------------
(***************************************************************************)
(* embed_texts: vectors for a list of texts, from the cache in Redis or,   *)
(* in batches, from the embedding service. Other calls use the same cache, *)
(* entries expire, and any call to Redis or to the service can fail. A     *)
(* vector is named by the text that it is the vector of.                   *)
(***************************************************************************)
EXTENDS Integers, Sequences, FiniteSets

CONSTANTS
    Texts,      \* the texts, none of which is NoVector
    NoVector,
    MaxBatch,   \* embedding_batch_size
    MaxTrouble  \* bound: failures, expiries and entries made by other calls

ASSUME EmbeddingAssumption ==
    /\ NoVector \notin Texts
    /\ MaxBatch \in Nat \ {0}
    /\ MaxTrouble \in Nat

VARIABLES
    cache,    \* Redis: the vector kept for each text, or NoVector
    texts,    \* the list to embed
    at,       \* what the call waits for
    result,   \* the vectors found so far
    trouble   \* counts toward MaxTrouble

embeddingVars == <<cache, texts, at, result, trouble>>

EmbeddingInit ==
    /\ cache = [t \in Texts |-> NoVector]
    /\ texts = <<>> /\ result = <<>>
    /\ at = "idle"
    /\ trouble = 0

Trouble == trouble < MaxTrouble /\ trouble' = trouble + 1

Embed(list) ==
    /\ texts' = list /\ result' = <<>>
    /\ at' = IF list = <<>> THEN "done" ELSE "mget"
    /\ UNCHANGED <<cache, trouble>>

MGet ==
    /\ at = "mget"
    /\ result' = [i \in DOMAIN texts |-> cache[texts[i]]]
    /\ at' = IF \E i \in DOMAIN result' : result'[i] = NoVector THEN "batch" ELSE "done"
    /\ UNCHANGED <<cache, texts, trouble>>

Missing == {i \in DOMAIN result : result[i] = NoVector}
Place(i) == Cardinality({j \in Missing : j <= i})
Batch == {i \in Missing : Place(i) <= MaxBatch}

AfterBatch == IF Missing = Batch THEN "done" ELSE "batch"

\* Faulty: the texts at the head of the list are sent, not the missing ones.
StoreBatchOfHead ==
    /\ at = "batch"
    /\ result' = [i \in DOMAIN texts |-> IF i \in Batch THEN texts[Place(i)] ELSE result[i]]
    /\ cache' = [t \in Texts |-> IF \E i \in Batch : texts[i] = t
                                THEN texts[Place(CHOOSE i \in Batch : texts[i] = t)] ELSE cache[t]]
    /\ at' = AfterBatch
    /\ UNCHANGED <<texts, trouble>>

\* The vectors of a batch are set in the cache in one transaction.
Cached == [t \in Texts |-> IF \E i \in Batch : texts[i] = t THEN t ELSE cache[t]]

\* The service answers with a vector for each text of the batch, in order.
StoreBatch ==
    /\ at = "batch"
    /\ result' = [i \in DOMAIN texts |-> IF i \in Batch THEN texts[i] ELSE result[i]]
    /\ cache' = Cached
    /\ at' = AfterBatch
    /\ UNCHANGED <<texts, trouble>>

\* A call fails, or the service's answer is of the wrong shape: what earlier
\* batches, or this one, have stored stays.
EmbedFails ==
    /\ at \in {"mget", "batch"} /\ Trouble
    /\ \/ UNCHANGED cache
       \/ at = "batch" /\ cache' = Cached
    /\ at' = "failed"
    /\ UNCHANGED <<texts, result>>

\* An entry expires, or another call sets it.
CacheChanges ==
    /\ Trouble
    /\ \E t \in Texts : cache' = [cache EXCEPT ![t] = IF @ = NoVector THEN t ELSE NoVector]
    /\ UNCHANGED <<texts, at, result>>

EmbeddingNext == MGet \/ StoreBatch

-----------------------------------------------------------------------------
\* No entry of the cache, kept for a week, is the vector of another text.
CacheIsTrue == \A t \in Texts : cache[t] \in {NoVector, t}

\* Hits, batches, equal texts and changes of the cache between them
\* notwithstanding, each text gets its own vector.
VectorsMatch == at = "done" => result = texts
=============================================================================
