-------------------------------- MODULE Parser --------------------------------
(***************************************************************************)
(* parse_pdf: which lines of a PDF are its title, its headings and its     *)
(* text, told from the distribution of font sizes. A document is the       *)
(* sequence of its lines; sizes are in tenths of a point, and of a line's  *)
(* text only the length and whether it has a letter or a digit are kept.   *)
(***************************************************************************)
EXTENDS Integers, Sequences, FiniteSets, FiniteSetsExt, SequencesExt, Ordering

Line == [size : Nat, len : Nat \ {0}, worded : BOOLEAN]

MaxHeadingLen == 80
MinHeadingLen == 2
HeadingMargin == 15  \* HEADING_MARGIN_PT
TitleMargin == 20

\* The size that most characters have; of two, the one that comes first.
Weights(lines) ==
    [size \in {lines[i].size : i \in DOMAIN lines} |->
        MapThenSumSet(LAMBDA i : lines[i].len, {i \in DOMAIN lines : lines[i].size = size})]

MostCommon(lines, weights) ==
    LET heavier(i, j) == weights[lines[i].size] > weights[lines[j].size]
        first == CHOOSE i \in DOMAIN lines : \A j \in DOMAIN lines :
                     heavier(i, j) \/ (~heavier(j, i) /\ i <= j)
    IN IF lines = <<>> THEN 105 ELSE lines[first].size

BodySize(lines) == MostCommon(lines, Weights(lines))

\* Faulty: headings are what is larger than 12 points, whatever the body is.
FixedHeadingMin(lines) == 120

HeadingMin(lines) == BodySize(lines) + HeadingMargin

IsHeading(line, min) ==
    /\ line.size >= min
    /\ line.len \in MinHeadingLen..MaxHeadingLen
    /\ line.worded

\* The first line of about the largest size, if that is well above the body; 0
\* if there is no title.
TitleLine(lines, min) ==
    LET largest == Max({lines[i].size : i \in DOMAIN lines} \cup {0})
    IN IF largest >= min + TitleMargin
       THEN Min({i \in DOMAIN lines : lines[i].size >= largest - 1})
       ELSE 0

\* What each line is taken for.
RolesFor(lines, min, title) ==
    [i \in DOMAIN lines |->
        IF i = title THEN "title" ELSE IF IsHeading(lines[i], min) THEN "heading" ELSE "text"]

RolesAbove(lines, min) == RolesFor(lines, min, TitleLine(lines, min))
Roles(lines) == RolesAbove(lines, HeadingMin(lines))
Taken(roles, role) == {i \in DOMAIN roles : roles[i] = role}

\* Faulty: what precedes the first heading belongs to no section.
OpenersAreHeadings(roles) == Taken(roles, "heading")

\* Where a section begins: at a heading, or at text that no heading precedes.
Openers(roles) ==
    {i \in DOMAIN roles :
        \/ roles[i] = "heading"
        \/ roles[i] = "text" /\ \A j \in 1..(i - 1) : roles[j] = "title"}

\* A section that is not opened by a heading (0) has a name of its own.
SectionsFrom(roles, opened) ==
    LET ends(k) == IF k = Len(opened) THEN Len(roles) + 1 ELSE opened[k + 1]
    IN [k \in DOMAIN opened |->
           [heading |-> IF roles[opened[k]] = "heading" THEN opened[k] ELSE 0,
            text |-> Increasing({i \in Taken(roles, "text") : opened[k] <= i /\ i < ends(k)})]]

\* Headings without any text become the text of one section; a document without
\* sections has an empty one.
Whole(sections) ==
    CASE sections = <<>> -> <<[heading |-> 0, text |-> <<>>]>>
      [] \A k \in DOMAIN sections : sections[k].text = <<>> ->
             <<[heading |-> 0, text |-> [k \in DOMAIN sections |-> sections[k].heading]]>>
      [] OTHER -> sections

Sections(roles) == Whole(SectionsFrom(roles, Increasing(Openers(roles))))

\* The length of "[title > heading] ".
UnnamedLen == 5
Separator == 3
Brackets == 3
LenAt(lines, i) == IF i = 0 THEN UnnamedLen ELSE lines[i].len
PrefixLen(lines, roles, section) ==
    Brackets + LenAt(lines, section.heading)
             + MapThenSumSet(LAMBDA i : lines[i].len + Separator, Taken(roles, "title"))

\* What the chunker gets of each section: the length of its prefix, and where each
\* line of its text ends.
EndsOf(lines, text) ==
    [p \in DOMAIN text |-> MapThenSumSet(LAMBDA q : lines[text[q]].len, 1..p)]

ToChunk(lines, roles, sections) ==
    [k \in DOMAIN sections |->
        [prefix |-> PrefixLen(lines, roles, sections[k]),
         ends |-> EndsOf(lines, sections[k].text)]]

ParsedAs(lines, roles) == ToChunk(lines, roles, Sections(roles))
Parsed(lines) == ParsedAs(lines, Roles(lines))

-----------------------------------------------------------------------------
\* Whatever the sizes of its lines, a document with lines has text: the lines of
\* the body size are never all taken for titles or headings, in which case the
\* manual would be refused as a scan.
BodyIsText(lines) ==
    lines # <<>> => \E i \in Taken(Roles(lines), "text") : lines[i].size = BodySize(lines)

\* Headings and texts of the sections are the lines that are not the title, each
\* of them once and in their order: no line of a manual disappears before it is
\* cut.
Own(s) == (IF s.heading = 0 THEN <<>> ELSE <<s.heading>>) \o s.text

AllIn(roles, sections) ==
    /\ UNION {Range(Own(sections[k])) : k \in DOMAIN sections}
           = DOMAIN roles \ Taken(roles, "title")
    /\ \A k \in DOMAIN sections :
          \A m, n \in DOMAIN Own(sections[k]) : m < n => Own(sections[k])[m] < Own(sections[k])[n]
    /\ \A k, l \in DOMAIN sections : k < l =>
          \A i \in Range(Own(sections[k])), j \in Range(Own(sections[l])) : i < j

KeepsAll(roles) == AllIn(roles, Sections(roles))
NoLineLost(lines) == KeepsAll(Roles(lines))
=============================================================================
