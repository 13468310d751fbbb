------------------------------- MODULE Knowledge -------------------------------
(***************************************************************************)
(* From a manual to an answer: the steps of ManualPipeline.upsert that     *)
(* ManualIngest leaves abstract (parse, chunk, embed, insert), and what    *)
(* retrieve and impact make of a question over the index that results.     *)
(***************************************************************************)
EXTENDS Parser, Chunker, Embedding, Retrieval, Impact

CONSTANTS
    Documents, \* manuals: sequences of lines
    Shelf,     \* the chunks of another manual that is in the index
    TopK,      \* retrieval_top_k: how many chunks a search finds at most
    Scores,    \* scores of hits
    Cards      \* what a search for drawings can find: sequences of cards

\* What parse_pdf has read, with titles and headings that leave room for a text.
ASSUME KnowledgeAssumption ==
    \A d \in Documents : d \in Seq(Line) /\ \A k \in DOMAIN Parsed(d) : HasRoom(Parsed(d)[k])

\* The other manual was cut to the same limits. A hit has a score, and a chunk
\* with its header fits the context.
ASSUME SearchAssumption ==
    /\ Shelf \subseteq Entry
    /\ \A a, b \in Shelf : Key(a) = Key(b) => a = b
    /\ \A a \in Shelf : a.doc # 1 /\ a.type = "manual" /\ a.len <= MaxChars
    /\ TopK \in Nat /\ Scores \subseteq Nat \ {0}
    /\ \A cards \in Cards :
          cards \in Seq(Entry) /\ \A n \in DOMAIN cards : cards[n].type = "drawing"
    /\ MaxChars + HeaderLen <= MaxContext

VARIABLES
    doc,    \* the manual
    phase,  \* "new", "chunk", "embed", "stored", or "scan" if it has no text
    index,  \* manual_chunks
    answer  \* what the last question led to

vars == <<chunkerVars, embeddingVars, doc, phase, index, answer>>

NoAnswer == [hits |-> <<>>, list |-> <<>>, root |-> "none", rows |-> {}]

Init ==
    /\ ChunkerInit
    /\ EmbeddingInit
    /\ doc = <<>>
    /\ phase = "new"
    /\ index = Shelf
    /\ answer = NoAnswer

\* parse_pdf
Parse ==
    /\ phase = "new" /\ answer = NoAnswer
    /\ doc' \in Documents
    /\ ChunkerStart(Parsed(doc'))
    /\ phase' = "chunk"
    /\ UNCHANGED <<embeddingVars, index, answer>>

Chunk ==
    /\ phase = "chunk"
    /\ ChunkerNext
    /\ UNCHANGED <<embeddingVars, doc, phase, index, answer>>

\* Chunks with the same text are one text for the cache. Which those are is left
\* open: none, or two neighbours, in one batch or in two.
TextsOf(n) == {[i \in 1..n |-> IF i = b THEN b + 1 ELSE i] : b \in 1..(n - 1)} \cup {[i \in 1..n |-> i]}

ToEmbed ==
    /\ phase = "chunk" /\ Split
    /\ 1..Len(chunks) \subseteq Texts   \* bound: no more chunks than texts
    /\ IF chunks = <<>>
       THEN phase' = "scan" /\ UNCHANGED embeddingVars
       ELSE phase' = "embed" /\ \E list \in TextsOf(Len(chunks)) : Embed(list)
    /\ doc' = <<>>
    /\ UNCHANGED <<chunkerVars, index, answer>>

EmbedStep ==
    /\ phase = "embed"
    /\ EmbeddingNext \/ EmbedFails \/ CacheChanges
    /\ UNCHANGED <<chunkerVars, doc, phase, index, answer>>

\* The worker runs the job again; parsing gives the same chunks.
Retry ==
    /\ phase = "embed" /\ at = "failed"
    /\ Embed(texts)
    /\ UNCHANGED <<chunkerVars, doc, phase, index, answer>>

\* The rows are stored and the pipeline's own data is gone.
Insert ==
    /\ phase = "embed" /\ at = "done"
    /\ index' = index \cup
          {[doc |-> 1, seq |-> i - 1, len |-> ChunkLen(chunks[i]), score |-> 0, type |-> "manual"] :
              i \in DOMAIN chunks}
    /\ phase' = "stored"
    /\ ChunkerStart(<<>>)
    /\ at' = "idle" /\ texts' = <<>> /\ result' = <<>> /\ trouble' = 0
    /\ cache' = [t \in Texts |-> NoVector]
    /\ UNCHANGED <<doc, answer>>

\* A search names rows and scores them.
Scored(rows, scores) == [n \in DOMAIN rows |-> [rows[n] EXCEPT !.score = scores[n]]]

\* The hybrid search scores by rank: what it finds first has the highest score.
ByRank(scores) == \A m, n \in DOMAIN scores : m < n => scores[m] >= scores[n]

\* The dense search that takes its place when it raises scores 1 - distance, and
\* the distance of COSINE is the similarity: what it finds first has the lowest.
ByDistance(scores) == \A m, n \in DOMAIN scores : m < n => scores[m] <= scores[n]

\* A question finds chunks and some cards.
Retrieve ==
    /\ phase \in {"stored", "scan"} /\ answer = NoAnswer
    /\ \E k \in 1..TopK, cards \in Cards :
          \E rows \in [1..k -> index], scores \in [1..k -> Scores] :
             /\ IsInjective(rows)
             /\ ByRank(scores) \/ ByDistance(scores)
             /\ LET hits == Scored(rows, scores)
                IN answer' = [NoAnswer EXCEPT !.hits = hits, !.list = Retrieved(index, hits, cards)]
    /\ UNCHANGED <<chunkerVars, embeddingVars, doc, phase, index>>

\* A question about consequences; for a root without any the analysis raises.
\* The graph does not depend on the manual.
Analyze ==
    /\ phase = "new" /\ answer = NoAnswer
    /\ \E root \in Nodes :
          answer' = [NoAnswer EXCEPT !.root = root, !.rows = Impacted(root)]
    /\ UNCHANGED <<chunkerVars, embeddingVars, doc, phase, index>>

Answered ==
    /\ answer # NoAnswer
    /\ answer' = NoAnswer
    /\ UNCHANGED <<chunkerVars, embeddingVars, doc, phase, index>>

Next == Parse \/ Chunk \/ ToEmbed \/ EmbedStep \/ Retry \/ Insert \/ Retrieve \/ Analyze \/ Answered

Spec == Init /\ [][Next]_vars

\* The loop is plain Python: it runs until it ends.
FairSpec == Spec /\ WF_vars(Chunk)

-----------------------------------------------------------------------------
\* The chunking of every document ends: the cut of a long paragraph always
\* advances past the overlap.
ChunkingEnds == phase = "chunk" ~> Split

\* What has just been parsed has kept every line, and has text.
JustParsed == phase = "chunk" /\ section = 1 /\ para = 1 /\ pieces = <<>>
ParsedTextIsWhole == JustParsed => NoLineLost(doc)
ParsedTextIsThere == JustParsed => BodyIsText(doc)

Manuals == OfType(answer.list, "manual")

\* Context is not cited for itself: if the budget leaves a neighbour in, the hit
\* that it belongs to is in as well, and before it.
NeighbourHasHit ==
    \A j \in DOMAIN Manuals :
        LET isHit(c) == \E h \in Range(answer.hits) : Key(h) = Key(c)
        IN isHit(Manuals[j]) \/
           \E i \in 1..(j - 1) :
              /\ isHit(Manuals[i]) /\ Manuals[i].doc = Manuals[j].doc
              /\ Manuals[i].seq \in {Manuals[j].seq - 1, Manuals[j].seq + 1}

\* Whatever is expanded, appended and cut, the first source that the user is
\* shown is a hit, never a neighbour or a drawing; no hit has a higher score, in
\* whichever order the search scored them; and the prompt has all of its text.
TopIsQuoted ==
    answer.hits # <<>> =>
        LET first == Head(Sources(answer.list)) IN
        /\ first \in Range(answer.hits)
        /\ \A h \in Range(answer.hits) : h.score <= first.score
        /\ \E n \in Quoted(answer.list) : answer.list[n] = first

\* The depth that is shown for a node is the number of steps to it: several paths,
\* cycles through the root and sensors of two machines notwithstanding.
DepthIsShortest == answer.root # "none" => answer.rows = Reached(answer.root)
=============================================================================
