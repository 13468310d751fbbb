------------------------------- MODULE Retrieval -------------------------------
(***************************************************************************)
(* RetrieverService: what becomes of the hits of a search. Neighbours of   *)
(* the best hits join them, the list is cut at a budget, drawing cards are *)
(* appended; from the list come the prompt's context and the sources that  *)
(* the user sees. A hit or an entry of the list is                         *)
(* [doc, seq, len, score, type]; scores are in hundredths, and so small    *)
(* that the factor of a neighbour's score is exact.                        *)
(***************************************************************************)
EXTENDS Integers, Sequences, FiniteSets, FiniteSetsExt, SequencesExt, Ordering

CONSTANTS
    MaxContext, \* MAX_CONTEXT_CHARS
    ExpandTop,  \* NEIGHBOR_EXPAND_TOP
    MinScore,   \* DRAWING_SCORE_THRESHOLD
    HeaderLen   \* external: the length of "[1] title p.1 section" and line break

ASSUME RetrievalAssumption ==
    MaxContext \in Nat /\ ExpandTop \in Nat /\ MinScore \in Nat /\ HeaderLen \in Nat

Entry == [doc : Nat, seq : Nat, len : Nat, score : Nat, type : {"manual", "drawing"}]

Key(c) == <<c.doc, c.seq>>

\* Faulty: a neighbour is as good as its hit.
NeighbourScoreOfHit(hit) == hit.score

\* score * 0.98
NeighbourScore(hit) == (hit.score * 98) \div 100

\* query_manual_chunks for the place before or after a hit.
Neighbours(index, hit, seq) ==
    {[row EXCEPT !.score = NeighbourScore(hit)] : row \in {r \in index : Key(r) = <<hit.doc, seq>>}}

\* _expand_neighbors: what is there already, as a hit or as an earlier hit's
\* neighbour, stays as it is.
Join(index, found, hit, seq) ==
    IF \E c \in found : Key(c) = <<hit.doc, seq>> THEN found
    ELSE found \cup Neighbours(index, hit, seq)

\* The order: by score, the best first, then by document and place.
Precedes(a, b) ==
    \/ a.score > b.score
    \/ a.score = b.score /\ a.doc < b.doc
    \/ a.score = b.score /\ a.doc = b.doc /\ a.seq < b.seq

Sorted(S) == OrderedBy(S, Precedes)

JoinBoth(index, found, hit) == Join(index, Join(index, found, hit, hit.seq - 1), hit, hit.seq + 1)

Found(index, hits) ==
    LET top == Min({ExpandTop, Len(hits)})
        found[n \in 0..top] ==
            IF n = 0 THEN Range(hits) ELSE JoinBoth(index, found[n - 1], hits[n])
    IN found[top]

Expanded(index, hits) == Sorted(Found(index, hits))

TotalLen(list) == FoldLeft(LAMBDA sum, c : sum + c.len, 0, list)

\* _trim_to_budget: up to the first that does not fit.
Trimmed(list) ==
    LET fits == {n \in 0..Len(list) : TotalLen(SubSeq(list, 1, n)) <= MaxContext}
    IN SubSeq(list, 1, Max(fits))

\* _search_drawings, of the cards in the order of the search.
Drawings(cards) == Picked(cards, {n \in DOMAIN cards : cards[n].score >= MinScore})

\* Faulty: the drawings come first.
RetrievedDrawingsFirst(index, hits, cards) == Drawings(cards) \o Trimmed(Expanded(index, hits))

\* retrieve: the manuals' chunks, then the drawings.
Retrieved(index, hits, cards) == Trimmed(Expanded(index, hits)) \o Drawings(cards)

OfType(list, type) == Picked(list, {n \in DOMAIN list : list[n].type = type})
UpTo(list, n) == SubSeq(list, 1, Min({n, Len(list)}))
Sources(list) == UpTo(OfType(list, "manual"), 4) \o UpTo(OfType(list, "drawing"), 2)

\* context_block: parts joined by an empty line and cut at the limit. The entries
\* that are in the prompt with all their text.
PartsLen(list, n) == TotalLen(SubSeq(list, 1, n)) + n * HeaderLen + (n - 1) * 2
Quoted(list) == {n \in DOMAIN list : PartsLen(list, n) <= MaxContext}
=============================================================================
