-------------------------------- MODULE Chunker --------------------------------
(***************************************************************************)
(* chunk_document: the loop that cuts the text of each section into pieces *)
(* of limited length that overlap. A character of a section's text is its  *)
(* number, 1, 2, ...; the characters put between two paragraphs are 0.     *)
(***************************************************************************)
EXTENDS Integers, Sequences, FiniteSetsExt, SequencesExt

CONSTANTS
    MaxChars, \* chunk_max_chars
    Overlap   \* chunk_overlap_chars

VARIABLES
    sections, \* the sections: length of the prefix, and where each line of the text ends
    section,  \* the section it is at
    para,     \* the paragraph that is next, in the text of the section
    pieces,   \* the pieces of the section so far
    current,  \* the piece under way
    cutting,  \* in the loop of the hard split
    chunks    \* the chunks so far: their section and their piece

chunkerVars == <<sections, section, para, pieces, current, cutting, chunks>>

Section == [prefix : Nat, ends : Seq(Nat \ {0})]

Budget(s) == MaxChars - s.prefix

ASSUME ChunkerAssumption == MaxChars \in Nat /\ Overlap \in Nat

\* The path of title and heading leaves room for more than the overlap. Without
\* that the hard split does not advance.
HasRoom(s) == Budget(s) > Overlap

\* Lines are not empty: each ends after the one before it.
Rising(s) == \A p \in 2..Len(s.ends) : s.ends[p - 1] < s.ends[p]
TextEnd(s) == IF s.ends = <<>> THEN 0 ELSE Last(s.ends)

Joiner == <<0>>
Here == sections[section]
Room == Budget(Here)

\* The paragraphs of a section's text are its lines.
StartOf(p) == IF p = 1 THEN 0 ELSE Here.ends[p - 1]
Paragraph(p) == [k \in 1..(Here.ends[p] - StartOf(p)) |-> StartOf(p) + k]

\* str.strip: pieces of text begin and end with a character of the text.
Strip(s) ==
    LET text == {i \in DOMAIN s : s[i] # 0}
    IN IF text = {} THEN <<>> ELSE SubSeq(s, Min(text), Max(text))

Flushed == IF Strip(current) = <<>> THEN pieces ELSE Append(pieces, Strip(current))

LastOf(s, n) == SubSeq(s, IF Len(s) < n THEN 1 ELSE Len(s) - n + 1, Len(s))

\* chunk_document is called with the sections of a document.
ChunkerStart(parsed) ==
    /\ sections' = parsed
    /\ section' = 1 /\ para' = 1
    /\ pieces' = <<>> /\ current' = <<>> /\ chunks' = <<>>
    /\ cutting' = FALSE

ChunkerInit ==
    /\ sections = <<>>
    /\ section = 1 /\ para = 1
    /\ pieces = <<>> /\ current = <<>> /\ chunks = <<>>
    /\ cutting = FALSE

Split == section > Len(sections)
Paragraphs == ~Split /\ ~cutting /\ para <= Len(Here.ends)

\* Faulty: the line break that joins two paragraphs is not counted.
CombineUncounted ==
    /\ Paragraphs
    /\ Len(current) + Len(Paragraph(para)) <= Room
    /\ current' = IF current = <<>> THEN Paragraph(para) ELSE current \o Joiner \o Paragraph(para)
    /\ para' = para + 1
    /\ UNCHANGED <<sections, section, pieces, cutting, chunks>>

Combine ==
    /\ Paragraphs
    /\ Len(current) + Len(Paragraph(para)) + 1 <= Room
    /\ current' = IF current = <<>> THEN Paragraph(para) ELSE current \o Joiner \o Paragraph(para)
    /\ para' = para + 1
    /\ UNCHANGED <<sections, section, pieces, cutting, chunks>>

\* Faulty: the next piece is told the beginning of the last one.
BeginWithHead ==
    /\ Paragraphs
    /\ Len(current) + Len(Paragraph(para)) + 1 > Room
    /\ pieces' = Flushed
    /\ current' = IF pieces' = <<>> \/ Overlap = 0 THEN Paragraph(para)
                  ELSE Strip(SubSeq(Last(pieces'), 1, Min({Overlap, Len(Last(pieces'))}))
                             \o Joiner \o Paragraph(para))
    /\ cutting' = (Len(current') > Room)
    /\ para' = para + 1
    /\ UNCHANGED <<sections, section, chunks>>

\* The paragraph does not fit: it begins a piece, after the last piece's tail.
Begin ==
    /\ Paragraphs
    /\ Len(current) + Len(Paragraph(para)) + 1 > Room
    /\ pieces' = Flushed
    /\ current' = IF pieces' = <<>> \/ Overlap = 0 THEN Paragraph(para)
                  ELSE Strip(LastOf(Last(pieces'), Overlap) \o Joiner \o Paragraph(para))
    /\ cutting' = (Len(current') > Room)
    /\ para' = para + 1
    /\ UNCHANGED <<sections, section, chunks>>

\* Faulty: the overlap is skipped instead of repeated.
HardSplitSkips ==
    /\ ~Split /\ cutting
    /\ pieces' = Append(pieces, SubSeq(current, 1, Room))
    /\ current' = SubSeq(current, Room + Overlap + 1, Len(current))
    /\ cutting' = (Len(current') > Room)
    /\ UNCHANGED <<sections, section, para, chunks>>

\* Faulty: the tail goes before a rest that keeps as many characters as it had,
\* and pieces that are there already are dropped.
HardSplitStays ==
    /\ ~Split /\ cutting
    /\ LET piece == SubSeq(current, 1, Room)
       IN pieces' = IF piece \in Range(pieces) THEN pieces ELSE Append(pieces, piece)
    /\ current' = SubSeq(current, Room - Overlap + 1, Room) \o SubSeq(current, Overlap + 1, Len(current))
    /\ cutting' = (Len(current') > Room)
    /\ UNCHANGED <<sections, section, para, chunks>>

HardSplit ==
    /\ ~Split /\ cutting
    /\ pieces' = Append(pieces, SubSeq(current, 1, Room))
    /\ current' = SubSeq(current, Room - Overlap + 1, Len(current))
    /\ cutting' = (Len(current') > Room)
    /\ UNCHANGED <<sections, section, para, chunks>>

\* The last flush; the section's pieces become chunks.
EndSection ==
    /\ ~Split /\ ~cutting /\ para > Len(Here.ends)
    /\ chunks' = chunks \o [k \in DOMAIN Flushed |-> [section |-> section, piece |-> Flushed[k]]]
    /\ section' = section + 1
    /\ para' = 1 /\ pieces' = <<>> /\ current' = <<>>
    /\ UNCHANGED <<sections, cutting>>

ChunkerNext == Combine \/ Begin \/ HardSplit \/ EndSection

ChunkLen(c) == sections[c.section].prefix + Len(c.piece)

-----------------------------------------------------------------------------
\* "Every chunk is within the budget, prefix included" (test_chunker.py): through
\* joins, tails and cuts no chunk is longer than chunk_max_chars.
ChunksFit == \A i \in DOMAIN chunks : ChunkLen(chunks[i]) <= MaxChars

\* The characters of the text in a piece.
TextOf(piece) == Range(piece) \ {0}

\* Of the text of the sections that are done every character is in a chunk.
NothingLost ==
    \A s \in 1..(section - 1) : \A c \in 1..TextEnd(sections[s]) :
        \E i \in DOMAIN chunks : chunks[i].section = s /\ c \in TextOf(chunks[i].piece)

\* After a character of the text comes the next one, joiners or not.
Gapless(piece) ==
    \A k, l \in DOMAIN piece :
        /\ k < l /\ piece[k] # 0 /\ piece[l] # 0
        /\ \A m \in (k + 1)..(l - 1) : piece[m] = 0
        => piece[l] = piece[k] + 1

\* One piece begins no later than where the other ends, and ends later.
Follows(piece, last) ==
    /\ \E c \in TextOf(piece), d \in TextOf(last) : c <= d + 1
    /\ \E c \in TextOf(piece) : \A d \in TextOf(last) : c > d

\* A chunk is a run of its section's text without gaps, and follows the chunk
\* before: they can be read one after the other, and none only repeats what
\* others say.
ChunksFollow ==
    \A i \in DOMAIN chunks :
        /\ TextOf(chunks[i].piece) # {}
        /\ Gapless(chunks[i].piece)
        /\ i > 1 /\ chunks[i - 1].section = chunks[i].section =>
               Follows(chunks[i].piece, chunks[i - 1].piece)
=============================================================================
