--------------------------- MODULE KnowledgeInductive ---------------------------
(***************************************************************************)
(* What stays true from step to step while a manual is cut into chunks and *)
(* its chunks are embedded: the invariants that KnowledgeProofs proves.    *)
(***************************************************************************)
EXTENDS Knowledge

Chunks == [section : Nat, piece : Seq(Nat)]

ChunkTypes ==
    /\ sections \in Seq(Section)
    /\ section \in Nat \ {0} /\ para \in Nat \ {0}
    /\ pieces \in Seq(Seq(Nat))
    /\ current \in Seq(Nat)
    /\ cutting \in BOOLEAN
    /\ chunks \in Seq(Chunks)

Fits(some) == \A k \in DOMAIN some : Len(some[k]) <= Room

\* The pieces of a section are within its budget; the piece under way is longer
\* only while it is being cut.
PiecesFit == ~Split => Fits(pieces) /\ (cutting <=> Len(current) > Room)

ChunkInv ==
    /\ ChunkTypes
    /\ \A k \in DOMAIN sections : HasRoom(sections[k]) /\ Rising(sections[k])
    /\ PiecesFit
    /\ \A i \in DOMAIN chunks :
          /\ chunks[i].section \in 1..(section - 1) /\ chunks[i].section \in DOMAIN sections
          /\ Len(chunks[i].piece) <= Budget(sections[chunks[i].section])

\* What has been found so far belongs to the text it was found for.
EmbedInv ==
    /\ cache \in [Texts -> Texts \cup {NoVector}]
    /\ CacheIsTrue
    /\ texts \in Seq(Texts)
    /\ at = "batch" =>
          /\ result \in [DOMAIN texts -> Texts \cup {NoVector}]
          /\ \A i \in DOMAIN texts : result[i] \in {NoVector, texts[i]}
    /\ VectorsMatch

IInv == ChunkInv /\ EmbedInv

-----------------------------------------------------------------------------
(* Nothing is lost.                                                        *)

\* The piece under way ends where the paragraphs so far end. There is none only
\* before the first paragraph.
EndsAt(s, end) == IF s = <<>> THEN end = 0 /\ pieces = <<>> ELSE Last(s) = end /\ end # 0
Placed == para <= Len(Here.ends) + 1 /\ EndsAt(current, StartOf(para))

InPieces(some, c) == \E j \in DOMAIN some : c \in Range(some[j])

\* What has been read of the section is in its pieces or in the one under way.
Covered == \A c \in 1..StartOf(para) : c \in Range(current) \/ InPieces(pieces, c)

TextInv ==
    /\ ChunkInv
    /\ ~Split => Placed /\ Covered
    /\ NothingLost

-----------------------------------------------------------------------------
(* Each chunk follows the one before.                                      *)

\* Increasing; no joiner next to another; neighbours and what a joiner separates
\* follow each other.
Run(s) ==
    /\ \A k, l \in DOMAIN s : k < l /\ s[k] # 0 /\ s[l] # 0 => s[k] < s[l]
    /\ \A k \in 2..Len(s) : IF s[k] = 0 THEN s[k - 1] # 0 ELSE s[k - 1] = 0 \/ s[k] = s[k - 1] + 1
    /\ \A k \in 3..Len(s) : s[k - 1] = 0 => s[k] = s[k - 2] + 1

\* The piece under way begins no later than where the last piece ends, and what
\* it has beyond an overlap is new.
Continues(s, last) ==
    /\ \E k \in {1, 2} \cap DOMAIN s : s[k] # 0 /\ \E d \in TextOf(last) : s[k] <= d + 1
    /\ \A d \in TextOf(last) :
          /\ d < Last(s)
          /\ \A k \in (Overlap + 1)..Len(s) : s[k] # 0 => d < s[k]

InSequence(some) ==
    \A k \in DOMAIN some :
        /\ Run(some[k]) /\ TextOf(some[k]) # {}
        /\ k > 1 => Follows(some[k], some[k - 1])

ReadsOn ==
    /\ Run(current)
    /\ InSequence(pieces)
    /\ pieces # <<>> => Continues(current, Last(pieces))

\* The limits leave room for a joiner and a character after prefix and overlap.
AmpleRoom ==
    \A d \in Documents : \A k \in DOMAIN Parsed(d) : Budget(Parsed(d)[k]) > Overlap + 1

FollowInv ==
    /\ TextInv
    /\ \A k \in DOMAIN sections : Budget(sections[k]) > Overlap + 1
    /\ ~Split => ReadsOn
    /\ ChunksFollow

-----------------------------------------------------------------------------
(* What a search can find.                                                 *)

\* The rows of manual_chunks have places of their own and keep the limit; those of
\* the manual under way come last.
IndexInv ==
    /\ index \subseteq Entry
    /\ \A a, b \in index : Key(a) = Key(b) => a = b
    /\ \A a \in index : a.type = "manual" /\ a.len <= MaxChars
    /\ phase # "stored" => index = Shelf

-----------------------------------------------------------------------------
\* While a manual is cut, it is one of the documents.
Underway == phase = "chunk" => doc \in Documents

-----------------------------------------------------------------------------
(* What the analysis has seen of the rows of up to so many steps.          *)

NewAt(root, n) == Steps(root)[n] \ UNION {Steps(root)[k] : k \in 1..(n - 1)}
FirstRows(root, n) ==
    UNION {{[impacted |-> x, depth |-> m] : x \in NewAt(root, m)} : m \in 1..n}
=============================================================================
