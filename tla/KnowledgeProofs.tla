------------------------------ MODULE KnowledgeProofs ------------------------------
(***************************************************************************)
(* From a manual to an answer: no line and no character is lost, chunks    *)
(* keep within the limit and follow each other, vectors belong to their    *)
(* texts, what is cited is justified, depths are least. Proved for any     *)
(* documents, limits, batches, failures, indexes and graphs.               *)
(***************************************************************************)
EXTENDS KnowledgeLemmas

-----------------------------------------------------------------------------
\* Stripping keeps what is between the first and the last character of the text.
LEMMA StripIs ==
    ASSUME NEW S, NEW s \in Seq(S), NEW j \in DOMAIN s, s[j] # 0
    PROVE  \E a \in DOMAIN s, b \in DOMAIN s :
              /\ a <= b /\ s[a] # 0 /\ s[b] # 0
              /\ \A k \in DOMAIN s : s[k] # 0 => k \in a..b
              /\ Strip(s) = SubSeq(s, a, b)
<1> DEFINE T == {i \in DOMAIN s : s[i] # 0}
<1>1. Len(s) \in Nat /\ DOMAIN s = 1..Len(s)
  BY LenProperties
<1>2. /\ T \in SUBSET (0..Len(s)) /\ T \in SUBSET Nat /\ j \in T
      /\ \A k \in T : k \in DOMAIN s /\ s[k] # 0
      /\ \A k \in DOMAIN s : s[k] # 0 => k \in T
      /\ Strip(s) = IF T = {} THEN <<>> ELSE SubSeq(s, Min(T), Max(T))
  BY <1>1 DEF Strip
<1> HIDE DEF T
<1>3. T # {}
  BY <1>2
<1>4. \E m \in T : \A k \in T : m <= k
  BY <1>2, <1>3, HasLeast
<1>5. \E m \in T : \A k \in T : m >= k
  BY <1>1, <1>2, <1>3, HasGreatest
<1>6. Min(T) \in T /\ \A k \in T : Min(T) <= k
  BY <1>4 DEF Min
<1>7. Max(T) \in T /\ \A k \in T : Max(T) >= k
  BY <1>5 DEF Max
<1>8. \A k \in T : k \in Min(T)..Max(T)
  BY <1>2, <1>6, <1>7
<1>9. Strip(s) = SubSeq(s, Min(T), Max(T))
  BY <1>2, <1>3
<1> QED
  BY <1>2, <1>6, <1>7, <1>8, <1>9

\* Stripping a piece takes characters away and adds none.
LEMMA Stripped ==
    ASSUME NEW S, NEW s \in Seq(S)
    PROVE  Strip(s) \in Seq(S) /\ Len(Strip(s)) <= Len(s)
<1>0. Len(s) \in Nat /\ DOMAIN s = 1..Len(s)
  BY LenProperties
<1>1. CASE \A j \in DOMAIN s : s[j] = 0
  <2>1. {i \in DOMAIN s : s[i] # 0} = {}
    BY <1>1
  <2> QED
    BY <1>0, <2>1, EmptySeq DEF Strip
<1>2. CASE \E j \in DOMAIN s : s[j] # 0
  <2>1. PICK a \in DOMAIN s, b \in DOMAIN s : a <= b /\ Strip(s) = SubSeq(s, a, b)
    BY <1>2, StripIs
  <2>2. a \in Int /\ b \in Int /\ \A i \in a..b : s[i] \in S
    BY <1>0, <2>1, ElementOfSeq
  <2>3. SubSeq(s, a, b) \in Seq(S) /\ Len(SubSeq(s, a, b)) = b - a + 1
    BY <2>1, <2>2, SubSeqProperties
  <2> QED
    BY <1>0, <2>1, <2>3
<1> QED
  BY <1>1, <1>2

\* Where the last character is one of the text, stripping takes some joiners from
\* the front and nothing else.
LEMMA StripsFront ==
    ASSUME NEW s \in Seq(Nat), s # <<>>, Last(s) # 0
    PROVE  \E a \in 1..Len(s) :
              /\ s[a] # 0 /\ \A k \in 1..(a - 1) : s[k] = 0
              /\ Strip(s) \in Seq(Nat) /\ Len(Strip(s)) = Len(s) - a + 1
              /\ \A i \in 1..(Len(s) - a + 1) : Strip(s)[i] = s[a + i - 1]
<1>1. Len(s) \in Nat \ {0} /\ DOMAIN s = 1..Len(s) /\ Len(s) \in DOMAIN s /\ s[Len(s)] # 0
  BY LenProperties, EmptySeq DEF Last
<1>2. PICK a \in DOMAIN s, b \in DOMAIN s :
              /\ a <= b /\ s[a] # 0 /\ s[b] # 0
              /\ \A k \in DOMAIN s : s[k] # 0 => k \in a..b
              /\ Strip(s) = SubSeq(s, a, b)
  BY <1>1, StripIs
<1>3. b = Len(s) /\ a \in 1..Len(s) /\ a \in Int /\ b \in Int
  <2>1. a \in 1..Len(s) /\ b \in 1..Len(s)
    BY <1>1
  <2>2. Len(s) \in a..b
    BY <1>1, <1>2
  <2> QED
    BY <1>1, <2>1, <2>2
<1>4. \A i \in a..b : s[i] \in Nat
  BY <1>1, <1>3, ElementOfSeq
<1>5. /\ Strip(s) \in Seq(Nat) /\ Len(Strip(s)) = Len(s) - a + 1
      /\ \A i \in 1..(Len(s) - a + 1) : Strip(s)[i] = s[a + i - 1]
  <2>1. /\ SubSeq(s, a, b) \in Seq(Nat)
        /\ Len(SubSeq(s, a, b)) = IF a <= b THEN b - a + 1 ELSE 0
        /\ \A i \in 1..(b - a + 1) : SubSeq(s, a, b)[i] = s[a + i - 1]
    BY <1>3, <1>4, SubSeqProperties, SMTT(30)
  <2> QED
    BY <1>2, <1>3, <2>1
<1>6. \A k \in 1..(a - 1) : s[k] = 0
  <2> SUFFICES ASSUME NEW k \in 1..(a - 1) PROVE s[k] = 0
    OBVIOUS
  <2>1. k \in DOMAIN s /\ ~(k \in a..b)
    BY <1>1, <1>3
  <2> QED
    BY <1>2, <2>1
<1> QED
  BY <1>2, <1>3, <1>5, <1>6

\* Two pieces with a joiner between them.
LEMMA Joined ==
    ASSUME NEW s \in Seq(Nat), NEW t \in Seq(Nat)
    PROVE  LET u == s \o Joiner \o t IN
           /\ u \in Seq(Nat) /\ Len(u) = Len(s) + 1 + Len(t)
           /\ \A k \in 1..Len(s) : u[k] = s[k]
           /\ u[Len(s) + 1] = 0
           /\ \A k \in 1..Len(t) : u[Len(s) + 1 + k] = t[k]
<1> DEFINE v == s \o Joiner
           u == v \o t
<1>1. Len(s) \in Nat /\ Len(t) \in Nat /\ Joiner \in Seq(Nat) /\ Len(Joiner) = 1 /\ Joiner[1] = 0
  BY LenProperties DEF Joiner
<1>2. /\ v \in Seq(Nat) /\ Len(v) = Len(s) + 1
      /\ \A i \in 1..(Len(s) + 1) : v[i] = IF i <= Len(s) THEN s[i] ELSE Joiner[i - Len(s)]
  <2>1. /\ v \in Seq(Nat) /\ Len(v) = Len(s) + Len(Joiner)
        /\ \A i \in 1..(Len(s) + Len(Joiner)) :
              v[i] = IF i <= Len(s) THEN s[i] ELSE Joiner[i - Len(s)]
    BY <1>1, ConcatProperties
  <2> HIDE DEF v
  <2> QED
    BY <1>1, <2>1
<1> HIDE DEF v
<1>3. /\ u \in Seq(Nat) /\ Len(u) = Len(s) + 1 + Len(t)
      /\ \A i \in 1..(Len(s) + 1 + Len(t)) :
            u[i] = IF i <= Len(s) + 1 THEN v[i] ELSE t[i - (Len(s) + 1)]
  <2>0. v \in Seq(Nat) /\ t \in Seq(Nat)
    BY <1>2
  <2>1. /\ u \in Seq(Nat) /\ Len(u) = Len(v) + Len(t)
        /\ \A i \in 1..(Len(v) + Len(t)) :
              u[i] = IF i <= Len(v) THEN v[i] ELSE t[i - Len(v)]
    BY <2>0, ConcatProperties
  <2> HIDE DEF u
  <2> QED
    BY <1>1, <1>2, <2>1
<1> HIDE DEF u
<1>4. \A k \in 1..Len(s) : u[k] = s[k]
  <2> SUFFICES ASSUME NEW k \in 1..Len(s) PROVE u[k] = s[k]
    OBVIOUS
  <2>1. k \in 1..(Len(s) + 1 + Len(t)) /\ k \in 1..(Len(s) + 1) /\ k <= Len(s) /\ k <= Len(s) + 1
    BY <1>1
  <2> QED
    BY <1>2, <1>3, <2>1
<1>5. u[Len(s) + 1] = 0
  <2>1. /\ Len(s) + 1 \in 1..(Len(s) + 1 + Len(t)) /\ Len(s) + 1 \in 1..(Len(s) + 1)
        /\ ~(Len(s) + 1 <= Len(s)) /\ Len(s) + 1 <= Len(s) + 1 /\ Len(s) + 1 - Len(s) = 1
    BY <1>1
  <2>2. u[Len(s) + 1] = v[Len(s) + 1]
    BY <1>3, <2>1
  <2>3. v[Len(s) + 1] = Joiner[1]
    BY <1>2, <2>1
  <2> QED
    BY <1>1, <2>2, <2>3
<1>6. \A k \in 1..Len(t) : u[Len(s) + 1 + k] = t[k]
  <2> SUFFICES ASSUME NEW k \in 1..Len(t) PROVE u[Len(s) + 1 + k] = t[k]
    OBVIOUS
  <2>1. /\ Len(s) + 1 + k \in 1..(Len(s) + 1 + Len(t))
        /\ ~(Len(s) + 1 + k <= Len(s) + 1) /\ Len(s) + 1 + k - (Len(s) + 1) = k
    BY <1>1
  <2> QED
    BY <1>3, <2>1, SMTT(30)
<1> QED
  BY <1>3, <1>4, <1>5, <1>6 DEF u, v

\* The tail of a piece is made of its characters.
LEMMA Tails ==
    ASSUME NEW S, NEW s \in Seq(S), NEW n \in Nat
    PROVE  LastOf(s, n) \in Seq(S)
<1>0. Len(s) \in Nat /\ DOMAIN s = 1..Len(s)
  BY LenProperties
<1> DEFINE first == IF Len(s) < n THEN 1 ELSE Len(s) - n + 1
<1>1. first \in Int /\ first >= 1
  BY <1>0
<1> HIDE DEF first
<1>2. \A i \in first..Len(s) : s[i] \in S
  BY <1>0, <1>1, ElementOfSeq
<1>3. SubSeq(s, first, Len(s)) \in Seq(S)
  BY <1>0, <1>1, <1>2, SubSeqProperties
<1> QED
  BY <1>3 DEF LastOf, first

-----------------------------------------------------------------------------
(* The loop of chunk_document.                                             *)

\* What holds at a section that is not done.
LEMMA AtSection ==
    ASSUME ChunkInv, ~Split
    PROVE  /\ section \in DOMAIN sections /\ Here \in Section
           /\ Rising(Here)
           /\ Room \in Int /\ Room > Overlap /\ Overlap \in Nat
<1> USE DEF ChunkInv, ChunkTypes
<1>1. Len(sections) \in Nat /\ DOMAIN sections = 1..Len(sections)
  BY LenProperties
<1>2. section \in 1..Len(sections)
  BY <1>1 DEF Split
<1>3. Here \in Section /\ HasRoom(Here) /\ Rising(Here)
  BY <1>1, <1>2, ElementOfSeq DEF Here
<1>4. MaxChars \in Nat /\ Overlap \in Nat
  BY ChunkerAssumption
<1> QED
  BY <1>1, <1>2, <1>3, <1>4 DEF Room, Budget, HasRoom, Section

LEMMA ParagraphIsSeq ==
    ASSUME ChunkInv, Paragraphs
    PROVE  /\ Here.ends[para] \in Nat /\ StartOf(para) \in Nat
           /\ StartOf(para) < Here.ends[para]
           /\ Paragraph(para) \in Seq(Nat)
           /\ Len(Paragraph(para)) = Here.ends[para] - StartOf(para)
           /\ \A k \in 1..Len(Paragraph(para)) : Paragraph(para)[k] = StartOf(para) + k
<1> USE DEF ChunkInv, ChunkTypes
<1>1. Here \in Section /\ Rising(Here)
  BY AtSection DEF Paragraphs
<1>2. Len(Here.ends) \in Nat /\ DOMAIN Here.ends = 1..Len(Here.ends)
  BY <1>1, LenProperties DEF Section
<1>3. para \in 1..Len(Here.ends)
  BY <1>2 DEF Paragraphs
<1> DEFINE end == Here.ends[para]
           start == StartOf(para)
<1>4. end \in Nat \ {0}
  BY <1>1, <1>3, ElementOfSeq DEF Section
<1>5. start \in Nat /\ start < end
  <2>1. CASE para = 1
    BY <1>4, <2>1 DEF StartOf
  <2>2. CASE para # 1
    <3>1. para - 1 \in 1..Len(Here.ends) /\ para \in 2..Len(Here.ends)
      BY <1>2, <1>3, <2>2
    <3>2. Here.ends[para - 1] \in Nat
      BY <1>1, <3>1, ElementOfSeq DEF Section
    <3> QED
      BY <1>1, <2>2, <3>1, <3>2 DEF StartOf, Rising
  <2> QED
    BY <2>1, <2>2
<1>6. Paragraph(para) = [k \in 1..(end - start) |-> start + k]
  BY DEF Paragraph
<1> HIDE DEF end, start
<1>7. end - start \in Nat /\ \A k \in 1..(end - start) : start + k \in Nat
  BY <1>4, <1>5
<1>8. /\ Paragraph(para) \in Seq(Nat) /\ Len(Paragraph(para)) = end - start
      /\ \A k \in 1..(end - start) : Paragraph(para)[k] = start + k
  <2> DEFINE n == end - start
             g(k) == start + k
  <2>1. n \in Nat /\ \A k \in 1..n : g(k) \in Nat
    BY <1>7
  <2>2. Paragraph(para) = [k \in 1..n |-> g(k)]
    BY <1>6
  <2> HIDE DEF n, g
  <2>3. /\ Paragraph(para) \in Seq(Nat) /\ Len(Paragraph(para)) = n
        /\ \A k \in 1..n : Paragraph(para)[k] = g(k)
    BY <2>1, <2>2
  <2> QED
    BY <2>3 DEF n, g
<1> QED
  BY <1>4, <1>5, <1>8 DEF end, start

LEMMA JoinerIsSeq == Joiner \in Seq(Nat) /\ Len(Joiner) = 1
BY DEF Joiner

\* A flush leaves pieces that fit.
LEMMA FlushFits ==
    ASSUME ChunkInv, ~Split, ~cutting
    PROVE  Flushed \in Seq(Seq(Nat)) /\ Fits(Flushed)
<1> USE DEF ChunkInv, ChunkTypes
<1>1. Room \in Int /\ Len(current) \in Nat /\ Len(current) <= Room /\ Fits(pieces)
  BY AtSection, LenProperties DEF PiecesFit
<1>2. Strip(current) \in Seq(Nat) /\ Len(Strip(current)) <= Len(current)
  BY Stripped
<1>3. Len(Strip(current)) \in Nat /\ Len(Strip(current)) <= Room
  BY <1>1, <1>2, LenProperties
<1>4. CASE Strip(current) = <<>>
  BY <1>1, <1>4 DEF Flushed
<1>5. CASE Strip(current) # <<>>
  <2> DEFINE f == Append(pieces, Strip(current))
  <2>1. /\ f \in Seq(Seq(Nat))
        /\ Len(f) = Len(pieces) + 1
        /\ \A i \in 1..Len(pieces) : f[i] = pieces[i]
        /\ f[Len(pieces) + 1] = Strip(current)
    BY <1>2, AppendProperties
  <2>2. Len(pieces) \in Nat /\ DOMAIN pieces = 1..Len(pieces) /\ DOMAIN f = 1..Len(f)
    BY <2>1, LenProperties
  <2>3. Flushed = f
    BY <1>5 DEF Flushed
  <2> HIDE DEF f
  <2>4. \A i \in DOMAIN f : Len(f[i]) <= Room
    <3> SUFFICES ASSUME NEW i \in DOMAIN f PROVE Len(f[i]) <= Room
      OBVIOUS
    <3>1. CASE i \in 1..Len(pieces)
      BY <1>1, <2>1, <2>2, <3>1 DEF Fits
    <3>2. CASE i = Len(pieces) + 1
      BY <1>3, <2>1, <3>2
    <3> QED
      BY <2>1, <2>2, <3>1, <3>2
  <2> QED
    BY <2>1, <2>3, <2>4 DEF Fits
<1> QED
  BY <1>4, <1>5

\* The section stays the same, and so does what it allows.
LEMMA SameSection ==
    ASSUME ChunkInv, ~Split, UNCHANGED <<sections, section, chunks>>,
           para' \in Nat \ {0},
           pieces' \in Seq(Seq(Nat)), current' \in Seq(Nat), cutting' \in BOOLEAN,
           Fits(pieces'), cutting' <=> Len(current') > Room
    PROVE  ChunkInv'
<1> USE DEF ChunkInv
<1>1. Room' = Room
  BY DEF Room, Here
<1>2. ChunkTypes'
  BY <1>1 DEF ChunkTypes
<1>3. PiecesFit'
  BY <1>1 DEF PiecesFit, Fits
<1> QED
  BY <1>2, <1>3

LEMMA CombineInv == ASSUME ChunkInv, Combine PROVE ChunkInv'
<1> USE DEF ChunkInv, ChunkTypes
<1> DEFINE p == Paragraph(para)
<1>1. ~Split /\ ~cutting
  BY DEF Combine, Paragraphs
<1>2. p \in Seq(Nat) /\ Len(p) \in Nat
  BY ParagraphIsSeq DEF Combine
<1>3. Len(current) \in Nat /\ Len(current) + Len(p) + 1 <= Room /\ Room \in Int
  BY <1>1, AtSection, LenProperties DEF Combine
<1> HIDE DEF p
<1>4. current' \in Seq(Nat) /\ Len(current') <= Room
  <2>1. CASE current = <<>>
    BY <1>2, <1>3, <2>1 DEF Combine, p
  <2>2. CASE current # <<>>
    <3>1. current \o Joiner \in Seq(Nat) /\ Len(current \o Joiner) = Len(current) + 1
      BY JoinerIsSeq, ConcatProperties
    <3>2. /\ (current \o Joiner) \o p \in Seq(Nat)
          /\ Len((current \o Joiner) \o p) = Len(current) + 1 + Len(p)
      BY <1>2, <3>1, ConcatProperties
    <3>3. current' = (current \o Joiner) \o p
      BY <2>2 DEF Combine, p
    <3> QED
      BY <1>2, <1>3, <3>2, <3>3
  <2> QED
    BY <2>1, <2>2
<1>5. Fits(pieces') /\ pieces' \in Seq(Seq(Nat)) /\ cutting' = FALSE /\ cutting' \in BOOLEAN
  BY <1>1 DEF PiecesFit, Combine, Fits
<1>6. UNCHANGED <<sections, section, chunks>> /\ para' \in Nat \ {0}
  BY DEF Combine
<1>7. Len(current') \in Nat
  BY <1>4, LenProperties
<1>8. cutting' <=> Len(current') > Room
  BY <1>3, <1>4, <1>5, <1>7
<1> QED
  BY <1>1, <1>4, <1>5, <1>6, <1>8, SameSection

LEMMA BeginInv == ASSUME ChunkInv, Begin PROVE ChunkInv'
<1> USE DEF ChunkInv, ChunkTypes
<1> DEFINE p == Paragraph(para)
<1>1. ~Split /\ ~cutting
  BY DEF Begin, Paragraphs
<1>2. p \in Seq(Nat)
  BY ParagraphIsSeq DEF Begin
<1>3. Room \in Int /\ Overlap \in Nat
  BY <1>1, AtSection
<1>4. pieces' \in Seq(Seq(Nat)) /\ Fits(pieces')
  BY <1>1, FlushFits DEF Begin, Fits, Room, Here
<1> HIDE DEF p
<1>5. current' \in Seq(Nat)
  <2>1. CASE pieces' = <<>> \/ Overlap = 0
    BY <1>2, <2>1 DEF Begin, p
  <2>2. CASE ~(pieces' = <<>> \/ Overlap = 0)
    <3> DEFINE tail == LastOf(Last(pieces'), Overlap)
    <3>1. Last(pieces') \in Seq(Nat)
      <4>1. Len(pieces') \in Nat /\ DOMAIN pieces' = 1..Len(pieces') /\ Len(pieces') # 0
        BY <1>4, <2>2, LenProperties, EmptySeq
      <4> QED
        BY <1>4, <4>1, ElementOfSeq DEF Last
    <3>2. tail \in Seq(Nat)
      BY <1>3, <3>1, Tails
    <3> HIDE DEF tail
    <3>3. (tail \o Joiner) \o p \in Seq(Nat)
      BY <1>2, <3>2, JoinerIsSeq, ConcatProperties
    <3>4. Strip((tail \o Joiner) \o p) \in Seq(Nat)
      BY <3>3, Stripped
    <3>5. current' = Strip((tail \o Joiner) \o p)
      BY <2>2 DEF Begin, p, tail
    <3> QED
      BY <3>4, <3>5
  <2> QED
    BY <2>1, <2>2
<1>6. cutting' = (Len(current') > Room) /\ cutting' \in BOOLEAN
  BY <1>3 DEF Begin
<1>7. UNCHANGED <<sections, section, chunks>> /\ para' \in Nat \ {0}
  BY DEF Begin
<1> QED
  BY <1>1, <1>4, <1>5, <1>6, <1>7, SameSection

LEMMA HardSplitInv == ASSUME ChunkInv, HardSplit PROVE ChunkInv'
<1> USE DEF ChunkInv, ChunkTypes
<1>1. ~Split /\ cutting
  BY DEF HardSplit
<1>2. Room \in Int /\ Overlap \in Nat /\ Room > Overlap
  BY <1>1, AtSection
<1>3. Len(current) \in Nat /\ Len(current) > Room /\ Fits(pieces)
  BY <1>1, LenProperties DEF PiecesFit
<1> DEFINE piece == SubSeq(current, 1, Room)
           rest == SubSeq(current, Room - Overlap + 1, Len(current))
<1>4. piece \in Seq(Nat) /\ Len(piece) = Room
  <2>1. \A i \in 1..Room : current[i] \in Nat
    BY <1>2, <1>3, ElementOfSeq
  <2> QED
    BY <1>2, <2>1, SubSeqProperties
<1>5. rest \in Seq(Nat)
  <2>1. \A i \in (Room - Overlap + 1)..Len(current) : current[i] \in Nat
    BY <1>2, <1>3, ElementOfSeq
  <2>2. Room - Overlap + 1 \in Int
    BY <1>2
  <2> QED
    BY <1>3, <2>1, <2>2, SubSeqProperties
<1> HIDE DEF piece, rest
<1>6. /\ Append(pieces, piece) \in Seq(Seq(Nat))
      /\ Len(Append(pieces, piece)) = Len(pieces) + 1
      /\ \A i \in 1..Len(pieces) : Append(pieces, piece)[i] = pieces[i]
      /\ Append(pieces, piece)[Len(pieces) + 1] = piece
  BY <1>4, AppendProperties
<1>7. /\ Len(pieces) \in Nat /\ DOMAIN pieces = 1..Len(pieces)
      /\ DOMAIN Append(pieces, piece) = 1..Len(Append(pieces, piece))
  BY <1>6, LenProperties
<1>8. pieces' = Append(pieces, piece) /\ current' = rest
  BY DEF HardSplit, piece, rest
<1>9. Fits(pieces')
  <2>1. \A i \in DOMAIN Append(pieces, piece) : Len(Append(pieces, piece)[i]) <= Room
    BY <1>2, <1>3, <1>4, <1>6, <1>7 DEF Fits
  <2> QED
    BY <1>8, <2>1 DEF Fits
<1>10. cutting' = (Len(current') > Room) /\ cutting' \in BOOLEAN
  BY <1>2 DEF HardSplit
<1>11. UNCHANGED <<sections, section, chunks>> /\ para' \in Nat \ {0}
  BY DEF HardSplit
<1>12. pieces' \in Seq(Seq(Nat)) /\ current' \in Seq(Nat)
  BY <1>5, <1>6, <1>8
<1> QED
  BY <1>1, <1>9, <1>10, <1>11, <1>12, SameSection


LEMMA EndSectionInv == ASSUME ChunkInv, EndSection PROVE ChunkInv'
<1> USE DEF ChunkInv, ChunkTypes
<1>1. ~Split /\ ~cutting
  BY DEF EndSection
<1>2. Flushed \in Seq(Seq(Nat)) /\ Fits(Flushed) /\ section \in DOMAIN sections
  BY <1>1, FlushFits, AtSection
<1> DEFINE new == [k \in DOMAIN Flushed |-> [section |-> section, piece |-> Flushed[k]]]
<1>3. Len(Flushed) \in Nat /\ DOMAIN Flushed = 1..Len(Flushed)
  BY <1>2, LenProperties
<1>4. new \in Seq(Chunks) /\ Len(new) = Len(Flushed)
      /\ \A k \in DOMAIN Flushed : new[k].section = section /\ new[k].piece = Flushed[k]
  <2>1. \A k \in 1..Len(Flushed) : [section |-> section, piece |-> Flushed[k]] \in Chunks
    BY <1>2, <1>3, ElementOfSeq DEF Chunks
  <2> QED
    BY <1>3, <2>1
<1>5. chunks' = chunks \o new
  BY DEF EndSection
<1> HIDE DEF new
<1>6. /\ chunks' \in Seq(Chunks)
      /\ Len(chunks') = Len(chunks) + Len(new)
      /\ \A i \in 1..(Len(chunks) + Len(new)) :
            chunks'[i] = IF i <= Len(chunks) THEN chunks[i] ELSE new[i - Len(chunks)]
  BY <1>4, <1>5, ConcatProperties, ZenonT(30)
<1>7. /\ Len(chunks) \in Nat /\ DOMAIN chunks = 1..Len(chunks)
      /\ DOMAIN chunks' = 1..Len(chunks')
  BY <1>6, LenProperties
<1>8. \A i \in DOMAIN chunks' :
          /\ chunks'[i].section \in 1..section /\ chunks'[i].section \in DOMAIN sections
          /\ Len(chunks'[i].piece) <= Budget(sections[chunks'[i].section])
  <2> SUFFICES ASSUME NEW i \in DOMAIN chunks'
               PROVE  /\ chunks'[i].section \in 1..section
                      /\ chunks'[i].section \in DOMAIN sections
                      /\ Len(chunks'[i].piece) <= Budget(sections[chunks'[i].section])
    OBVIOUS
  <2>1. CASE i <= Len(chunks)
    <3>1. i \in DOMAIN chunks /\ chunks'[i] = chunks[i]
      BY <1>6, <1>7, <1>4, <1>3, <2>1
    <3> QED
      BY <3>1
  <2>2. CASE i > Len(chunks)
    <3>1. i - Len(chunks) \in DOMAIN Flushed /\ chunks'[i] = new[i - Len(chunks)]
      BY <1>3, <1>4, <1>6, <1>7, <2>2
    <3>2. chunks'[i].section = section /\ chunks'[i].piece = Flushed[i - Len(chunks)]
      BY <1>4, <3>1
    <3> QED
      BY <1>2, <3>1, <3>2 DEF Fits, Room, Here
  <2> QED
    BY <1>7, <1>6, <1>4, <1>3, <2>1, <2>2
<1>9. /\ sections' = sections /\ section' = section + 1 /\ para' = 1
      /\ pieces' = <<>> /\ current' = <<>> /\ cutting' = FALSE
  BY <1>1 DEF EndSection
<1>11. ChunkTypes'
  <2>1. <<>> \in Seq(Nat) /\ <<>> \in Seq(Seq(Nat))
    BY Empty
  <2>2. section' \in Nat \ {0} /\ para' \in Nat \ {0}
    BY <1>9
  <2> QED
    BY <1>6, <1>9, <2>1, <2>2
<1>12. PiecesFit'
  <2> SUFFICES ASSUME ~Split' PROVE Room' >= 0 /\ Room' \in Int
    <3>1. Len(<<>>) = 0 /\ DOMAIN <<>> = {}
      BY Empty
    <3> QED
      BY <1>9, <3>1 DEF PiecesFit, Fits
  <2>1. section' \in DOMAIN sections'
    BY <1>9, LenProperties DEF Split
  <2>2. Here' \in Section /\ HasRoom(Here)'
    BY <1>9, <2>1, ElementOfSeq, LenProperties DEF Here, HasRoom, Budget
  <2> QED
    BY <2>2, ChunkerAssumption DEF Room, Budget, HasRoom, Section
<1> QED
  BY <1>8, <1>9, <1>11, <1>12 DEF Budget

\* chunk_document begins with any sections that have room.
LEMMA StartInv ==
    ASSUME NEW parsed \in Seq(Section), \A k \in DOMAIN parsed : HasRoom(parsed[k]) /\ Rising(parsed[k]),
           ChunkerStart(parsed)
    PROVE  ChunkInv'
<1> USE DEF ChunkerStart
<1>1. ChunkTypes'
  <2>1. /\ <<>> \in Seq(Section) /\ <<>> \in Seq(Nat)
        /\ <<>> \in Seq(Seq(Nat)) /\ <<>> \in Seq(Chunks)
    BY Empty
  <2>2. 1 \in Nat \ {0}
    OBVIOUS
  <2> QED
    BY <2>1, <2>2 DEF ChunkTypes
<1>2. (\A k \in DOMAIN sections : HasRoom(sections[k]) /\ Rising(sections[k]))'
  BY DEF HasRoom, Budget, Rising
<1>3. PiecesFit'
  <2> SUFFICES ASSUME ~Split' PROVE Room' >= 0 /\ Room' \in Int
    <3>1. Len(<<>>) = 0 /\ DOMAIN <<>> = {}
      BY Empty
    <3> QED
      BY <3>1 DEF PiecesFit, Fits
  <2>1. 1 \in DOMAIN parsed
    BY LenProperties DEF Split
  <2>2. parsed[1] \in Section /\ HasRoom(parsed[1])
    BY <2>1, ElementOfSeq, LenProperties
  <2>3. Here' = parsed[1]
    BY DEF Here
  <2> QED
    BY <2>2, <2>3, ChunkerAssumption DEF Room, Budget, HasRoom, Section
<1> QED
  BY <1>1, <1>2, <1>3 DEF ChunkInv

LEMMA ChunkerStep == ASSUME ChunkInv, ChunkerNext PROVE ChunkInv'
BY CombineInv, BeginInv, HardSplitInv, EndSectionInv DEF ChunkerNext

LEMMA ChunkerStutter == ASSUME ChunkInv, UNCHANGED chunkerVars PROVE ChunkInv'
BY DEF ChunkInv, ChunkTypes, PiecesFit, Fits, Split, Room, Here, chunkerVars

-----------------------------------------------------------------------------
(* Nothing is lost.                                                        *)

\* The piece under way is empty only before the first paragraph; else it ends
\* where the paragraphs so far end.
LEMMA Position ==
    ASSUME TextInv, ~Split
    PROVE  /\ StartOf(para) \in Nat /\ Len(current) \in Nat /\ DOMAIN current = 1..Len(current)
           /\ current = <<>> => StartOf(para) = 0 /\ pieces = <<>>
           /\ current # <<>> => /\ Len(current) >= 1
                                /\ current[Len(current)] = StartOf(para)
                                /\ Last(current) # 0
<1> USE DEF TextInv, ChunkInv, ChunkTypes
<1>1. Here \in Section /\ Placed
  BY AtSection
<1>2. Len(Here.ends) \in Nat /\ DOMAIN Here.ends = 1..Len(Here.ends)
  BY <1>1, LenProperties DEF Section
<1>3. StartOf(para) \in Nat
  <2>1. CASE para = 1
    BY <2>1 DEF StartOf
  <2>2. CASE para # 1
    <3>1. para - 1 \in 1..Len(Here.ends)
      BY <1>1, <1>2, <2>2 DEF Placed
    <3>2. Here.ends[para - 1] \in Nat
      BY <1>1, <3>1, ElementOfSeq DEF Section
    <3> QED
      BY <2>2, <3>2 DEF StartOf
  <2> QED
    BY <2>1, <2>2
<1>4. Len(current) \in Nat /\ DOMAIN current = 1..Len(current)
      /\ (current # <<>> => Len(current) # 0)
  BY LenProperties, EmptySeq
<1>5. EndsAt(current, StartOf(para))
  BY <1>1 DEF Placed
<1> QED
  BY <1>3, <1>4, <1>5 DEF EndsAt, Last

\* After the paragraph that is next comes the one after it.
LEMMA NextStart ==
    ASSUME ChunkInv, Paragraphs, UNCHANGED <<sections, section>>, para' = para + 1
    PROVE  /\ StartOf(para)' = Here.ends[para] /\ StartOf(para)' \in Nat \ {0}
           /\ StartOf(para)' = StartOf(para) + Len(Paragraph(para))
           /\ para' <= Len(Here'.ends) + 1
<1> USE DEF ChunkInv, ChunkTypes
<1>1. /\ Here.ends[para] \in Nat /\ StartOf(para) \in Nat /\ StartOf(para) < Here.ends[para]
      /\ Len(Paragraph(para)) = Here.ends[para] - StartOf(para)
  BY ParagraphIsSeq
<1>2. Here' = Here /\ para' # 1 /\ para' - 1 = para
  BY DEF Here
<1>3. StartOf(para)' = Here.ends[para]
  BY <1>2 DEF StartOf
<1>4. Here \in Section
  BY AtSection DEF Paragraphs
<1>5. Len(Here.ends) \in Nat
  BY <1>4, LenProperties DEF Section
<1>6. para' <= Len(Here'.ends) + 1
  BY <1>2, <1>5 DEF Paragraphs
<1>7. StartOf(para) + Len(Paragraph(para)) = Here.ends[para] /\ Here.ends[para] \in Nat \ {0}
  <2> DEFINE e == Here.ends[para]
             b == StartOf(para)
             n == Len(Paragraph(para))
  <2>1. e \in Nat /\ b \in Nat /\ b < e /\ n = e - b
    BY <1>1
  <2> HIDE DEF e, b, n
  <2>2. b + n = e /\ e \in Nat \ {0}
    BY <2>1
  <2> QED
    BY <2>2 DEF e, b, n
<1> QED
  BY <1>3, <1>6, <1>7

\* A flush appends the stripped piece under way, if there is any.
LEMMA FlushIs ==
    ASSUME TextInv, ~Split
    PROVE  /\ current = <<>> => Flushed = <<>> /\ pieces = <<>>
           /\ current # <<>> =>
                 /\ Strip(current) \in Seq(Nat) /\ Flushed = Append(pieces, Strip(current))
                 /\ \E a \in 1..Len(current) :
                       /\ current[a] # 0 /\ \A k \in 1..(a - 1) : current[k] = 0
                       /\ Len(Strip(current)) = Len(current) - a + 1
                       /\ \A i \in 1..(Len(current) - a + 1) :
                             Strip(current)[i] = current[a + i - 1]
<1> USE DEF TextInv, ChunkInv, ChunkTypes
<1>1. CASE current = <<>>
  <2>1. pieces = <<>>
    BY <1>1, Position
  <2>2. Strip(current) = <<>>
    <3>1. DOMAIN current = {}
      BY <1>1
    <3>2. {i \in DOMAIN current : current[i] # 0} = {}
      BY <3>1
    <3> QED
      BY <3>2 DEF Strip
  <2> QED
    BY <1>1, <2>1, <2>2 DEF Flushed
<1>2. CASE current # <<>>
  <2>1. Len(current) \in Nat /\ Last(current) # 0
    BY <1>2, Position
  <2>2. PICK a \in 1..Len(current) :
              /\ current[a] # 0 /\ \A k \in 1..(a - 1) : current[k] = 0
              /\ Strip(current) \in Seq(Nat) /\ Len(Strip(current)) = Len(current) - a + 1
              /\ \A i \in 1..(Len(current) - a + 1) : Strip(current)[i] = current[a + i - 1]
    BY <1>2, <2>1, StripsFront
  <2>3. Len(Strip(current)) # 0
    BY <2>1, <2>2
  <2>4. Flushed = Append(pieces, Strip(current))
    BY <2>3, Empty DEF Flushed
  <2> QED
    BY <1>2, <2>2, <2>4
<1> QED
  BY <1>1, <1>2

\* What a flush adds has every character of the piece under way.
LEMMA FlushKeeps ==
    ASSUME TextInv, ~Split, NEW c \in Nat \ {0},
           c \in Range(current) \/ InPieces(pieces, c)
    PROVE  InPieces(Flushed, c)
<1> USE DEF TextInv, ChunkInv, ChunkTypes
<1>1. Len(current) \in Nat /\ DOMAIN current = 1..Len(current)
  BY Position
<1>2. CASE current = <<>>
  <2>1. Flushed = pieces /\ DOMAIN current = {}
    BY <1>2, FlushIs
  <2> QED
    BY <2>1 DEF Range
<1>3. CASE current # <<>>
  <2> DEFINE piece == Strip(current)
  <2>1. piece \in Seq(Nat) /\ Flushed = Append(pieces, piece)
    BY <1>3, FlushIs
  <2>2. PICK a \in 1..Len(current) :
              /\ current[a] # 0 /\ \A k \in 1..(a - 1) : current[k] = 0
              /\ Len(piece) = Len(current) - a + 1
              /\ \A i \in 1..(Len(current) - a + 1) : piece[i] = current[a + i - 1]
    BY <1>3, FlushIs
  <2> HIDE DEF piece
  <2>3. /\ Flushed \in Seq(Seq(Nat)) /\ Len(Flushed) = Len(pieces) + 1
        /\ \A i \in 1..Len(pieces) : Flushed[i] = pieces[i]
        /\ Flushed[Len(pieces) + 1] = piece
    BY <2>1, AppendProperties
  <2>4. /\ Len(pieces) \in Nat /\ DOMAIN pieces = 1..Len(pieces)
        /\ DOMAIN Flushed = 1..Len(Flushed) /\ DOMAIN piece = 1..Len(piece)
    BY <2>1, <2>3, LenProperties
  <2>5. CASE c \in Range(current)
    <3>1. PICK k \in DOMAIN current : current[k] = c
      BY <2>5 DEF Range
    <3>2. k \in 1..Len(current) /\ ~(k \in 1..(a - 1))
      BY <1>1, <2>2, <3>1
    <3>3. k - a + 1 \in 1..(Len(current) - a + 1) /\ a + (k - a + 1) - 1 = k
      BY <1>1, <2>2, <3>2, SMTT(30)
    <3>4. piece[k - a + 1] = c /\ k - a + 1 \in DOMAIN piece
      BY <2>2, <2>4, <3>1, <3>3
    <3>5. c \in Range(piece)
      BY <3>4 DEF Range
    <3>6. Len(pieces) + 1 \in DOMAIN Flushed
      BY <2>3, <2>4
    <3> QED
      BY <2>3, <3>5, <3>6 DEF InPieces
  <2>6. CASE InPieces(pieces, c)
    <3>1. PICK j \in DOMAIN pieces : c \in Range(pieces[j])
      BY <2>6 DEF InPieces
    <3>2. j \in DOMAIN Flushed /\ Flushed[j] = pieces[j]
      BY <2>3, <2>4
    <3> QED
      BY <3>1, <3>2 DEF InPieces
  <2> QED
    BY <2>5, <2>6
<1> QED
  BY <1>2, <1>3

\* The paragraph that fits comes after a joiner.
LEMMA CombineShape ==
    ASSUME TextInv, Combine
    PROVE  /\ current = <<>> => current' = Paragraph(para)
           /\ current # <<>> =>
                 /\ current' \in Seq(Nat)
                 /\ Len(current') = Len(current) + 1 + Len(Paragraph(para))
                 /\ \A k \in 1..Len(current) : current'[k] = current[k]
                 /\ current'[Len(current) + 1] = 0
                 /\ \A k \in 1..Len(Paragraph(para)) :
                       current'[Len(current) + 1 + k] = Paragraph(para)[k]
<1>1. current \in Seq(Nat) /\ Paragraph(para) \in Seq(Nat)
  BY ParagraphIsSeq DEF TextInv, ChunkInv, ChunkTypes, Combine
<1>2. CASE current = <<>>
  BY <1>2 DEF Combine
<1>3. CASE current # <<>>
  <2>1. current' = current \o Joiner \o Paragraph(para)
    BY <1>3 DEF Combine
  <2> QED
    BY <1>1, <1>3, <2>1, Joined
<1> QED
  BY <1>2, <1>3

\* The tail of a piece.
LEMMA TailIs ==
    ASSUME NEW s \in Seq(Nat), NEW n \in Nat
    PROVE  \E m \in Nat :
              /\ m = IF Len(s) < n THEN Len(s) ELSE n
              /\ LastOf(s, n) \in Seq(Nat) /\ Len(LastOf(s, n)) = m
              /\ \A i \in 1..m : LastOf(s, n)[i] = s[Len(s) - m + i]
<1> DEFINE m == IF Len(s) < n THEN Len(s) ELSE n
           first == IF Len(s) < n THEN 1 ELSE Len(s) - n + 1
<1>1. Len(s) \in Nat /\ DOMAIN s = 1..Len(s)
  BY LenProperties
<1>2. m \in Nat /\ first \in Int /\ first >= 1 /\ first = Len(s) - m + 1
  BY <1>1
<1>3. LastOf(s, n) = SubSeq(s, first, Len(s))
  BY DEF LastOf
<1> HIDE DEF m, first
<1>4. \A i \in first..Len(s) : s[i] \in Nat
  BY <1>1, <1>2, ElementOfSeq
<1>5. /\ SubSeq(s, first, Len(s)) \in Seq(Nat)
      /\ Len(SubSeq(s, first, Len(s))) = IF first <= Len(s) THEN Len(s) - first + 1 ELSE 0
      /\ \A i \in 1..(Len(s) - first + 1) : SubSeq(s, first, Len(s))[i] = s[first + i - 1]
  <2> DEFINE last == Len(s)
  <2> DEFINE t == SubSeq(s, first, last)
  <2>1. last \in Int /\ first \in Int /\ \A i \in first..last : s[i] \in Nat
    BY <1>1, <1>2, <1>4
  <2> HIDE DEF last
  <2>2. /\ t \in Seq(Nat)
        /\ Len(t) = IF first <= last THEN last - first + 1 ELSE 0
        /\ \A i \in 1..(last - first + 1) : t[i] = s[first + i - 1]
    BY <2>1, SubSeqProperties
  <2> QED
    BY <2>2 DEF last
<1>6. Len(s) - first + 1 = m
  BY <1>1, <1>2
<1>7. Len(LastOf(s, n)) = m
  BY <1>1, <1>2, <1>3, <1>5, <1>6
<1>8. \A i \in 1..m : LastOf(s, n)[i] = s[Len(s) - m + i]
  <2> SUFFICES ASSUME NEW i \in 1..m PROVE LastOf(s, n)[i] = s[Len(s) - m + i]
    OBVIOUS
  <2>1. first + i - 1 = Len(s) - m + i
    BY <1>1, <1>2
  <2> QED
    BY <1>3, <1>5, <1>6, <2>1
<1>9. m = IF Len(s) < n THEN Len(s) ELSE n
  BY DEF m
<1>10. LastOf(s, n) \in Seq(Nat)
  BY <1>3, <1>5
<1> QED
  BY <1>2, <1>7, <1>8, <1>9, <1>10

\* The paragraph that does not fit begins the piece, or comes after a joiner and
\* some characters of the last piece's end.
LEMMA BeginShape ==
    ASSUME TextInv, Begin
    PROVE  \/ (pieces' = <<>> \/ Overlap = 0) /\ current' = Paragraph(para)
           \/ /\ pieces' # <<>> /\ current # <<>>
              /\ \E n \in 1..Overlap :
                    /\ n <= Len(Last(pieces'))
                    /\ current' \in Seq(Nat)
                    /\ Len(current') = n + 1 + Len(Paragraph(para))
                    /\ \A k \in 1..n :
                          current'[k] = Last(pieces')[Len(Last(pieces')) - n + k]
                    /\ current'[1] # 0
                    /\ current'[n + 1] = 0
                    /\ \A k \in 1..Len(Paragraph(para)) :
                          current'[n + 1 + k] = Paragraph(para)[k]
<1> DEFINE p == Paragraph(para)
           last == Strip(current)
<1>1. /\ ~Split /\ current \in Seq(Nat) /\ pieces \in Seq(Seq(Nat))
      /\ p \in Seq(Nat) /\ Len(p) \in Nat \ {0}
      /\ \A k \in 1..Len(p) : p[k] = StartOf(para) + k
      /\ StartOf(para) \in Nat
  <2>1. ~Split /\ current \in Seq(Nat) /\ pieces \in Seq(Seq(Nat))
    BY DEF TextInv, ChunkInv, ChunkTypes, Begin, Paragraphs
  <2>2. /\ Here.ends[para] \in Nat /\ StartOf(para) \in Nat /\ StartOf(para) < Here.ends[para]
        /\ p \in Seq(Nat) /\ Len(p) = Here.ends[para] - StartOf(para)
        /\ \A k \in 1..Len(p) : p[k] = StartOf(para) + k
    BY ParagraphIsSeq DEF TextInv, Begin
  <2> QED
    BY <2>1, <2>2
<1>2. CASE pieces' = <<>> \/ Overlap = 0
  BY <1>2 DEF Begin
<1>3. CASE ~(pieces' = <<>> \/ Overlap = 0)
  <2>1. pieces' = Flushed /\ Overlap \in Nat \ {0}
    BY <1>3, ChunkerAssumption DEF Begin
  <2>2. current # <<>>
    BY <1>1, <1>3, <2>1, FlushIs
  <2>3. last \in Seq(Nat) /\ pieces' = Append(pieces, last)
    BY <1>1, <2>1, <2>2, FlushIs
  <2>4. PICK a \in 1..Len(current) :
              /\ current[a] # 0 /\ \A k \in 1..(a - 1) : current[k] = 0
              /\ Len(last) = Len(current) - a + 1
              /\ \A i \in 1..(Len(current) - a + 1) : last[i] = current[a + i - 1]
    BY <1>1, <2>2, FlushIs
  <2>5. Last(pieces') = last
    <3> HIDE DEF last
    <3>1. /\ Len(Append(pieces, last)) = Len(pieces) + 1
          /\ Append(pieces, last)[Len(pieces) + 1] = last
      BY <1>1, <2>3, AppendProperties
    <3> QED
      BY <2>3, <3>1 DEF Last
  <2>6. /\ Len(current) \in Nat \ {0} /\ current[Len(current)] # 0
    BY <1>1, <2>2, Position DEF Last
  <2> HIDE DEF last, p
  <2>7. Len(last) \in Nat \ {0} /\ last[Len(last)] # 0
    <3>1. /\ Len(last) \in 1..(Len(current) - a + 1)
          /\ a + Len(last) - 1 = Len(current) /\ Len(last) \in Nat \ {0}
      BY <2>4, <2>6
    <3> QED
      BY <2>4, <2>6, <3>1
  <2> DEFINE tail == LastOf(last, Overlap)
             whole == tail \o Joiner \o p
  <2>8. PICK m \in Nat :
              /\ m = IF Len(last) < Overlap THEN Len(last) ELSE Overlap
              /\ tail \in Seq(Nat) /\ Len(tail) = m
              /\ \A i \in 1..m : tail[i] = last[Len(last) - m + i]
    BY <2>1, <2>3, TailIs
  <2>9. m \in 1..Overlap /\ m <= Len(last)
    BY <2>1, <2>7, <2>8
  <2>10. tail[m] # 0
    <3>1. Len(last) - m + m = Len(last) /\ m \in 1..m
      BY <2>7, <2>9
    <3> QED
      BY <2>7, <2>8, <3>1
  <2> HIDE DEF tail
  <2>11. /\ whole \in Seq(Nat) /\ Len(whole) = m + 1 + Len(p)
         /\ \A k \in 1..m : whole[k] = tail[k]
         /\ whole[m + 1] = 0
         /\ \A k \in 1..Len(p) : whole[m + 1 + k] = p[k]
    <3>1. tail \in Seq(Nat) /\ p \in Seq(Nat) /\ Len(tail) = m
      BY <1>1, <2>8
    <3> QED
      BY <3>1, Joined
  <2>12. current' = Strip(whole)
    BY <1>3, <2>5 DEF Begin, tail, p
  <2> HIDE DEF whole
  <2>13. whole # <<>> /\ Last(whole) # 0
    <3>1. Len(whole) # 0
      BY <1>1, <2>11
    <3>2. Len(p) \in 1..Len(p)
      BY <1>1
    <3>3. p[Len(p)] = StartOf(para) + Len(p)
      BY <1>1, <3>2
    <3>4. whole[m + 1 + Len(p)] # 0
      <4> DEFINE l == Len(p)
                 start == StartOf(para)
      <4>1. l \in Nat \ {0} /\ start \in Nat /\ p[l] = start + l /\ l \in 1..l
        BY <1>1, <3>2, <3>3
      <4>2. \A k \in 1..l : whole[m + 1 + k] = p[k]
        BY <2>11
      <4> HIDE DEF l, start
      <4>3. whole[m + 1 + l] = p[l]
        BY <4>1, <4>2
      <4> QED
        BY <4>1, <4>3 DEF l
    <3> QED
      BY <2>11, <3>1, <3>4, Empty DEF Last
  <2>14. PICK b \in 1..Len(whole) :
              /\ whole[b] # 0 /\ \A k \in 1..(b - 1) : whole[k] = 0
              /\ Strip(whole) \in Seq(Nat) /\ Len(Strip(whole)) = Len(whole) - b + 1
              /\ \A i \in 1..(Len(whole) - b + 1) : Strip(whole)[i] = whole[b + i - 1]
    BY <2>11, <2>13, StripsFront
  <2>15. b \in 1..m
    <3>1. m \in 1..m /\ whole[m] # 0
      BY <2>9, <2>10, <2>11
    <3>2. ~(m \in 1..(b - 1))
      BY <2>14, <3>1
    <3> QED
      BY <2>9, <2>11, <2>14, <3>2
  <2>0. /\ Len(p) \in Nat /\ Len(last) \in Nat /\ m \in Nat /\ m <= Len(last) /\ b \in 1..m
        /\ Len(whole) = m + 1 + Len(p)
    BY <1>1, <2>7, <2>9, <2>11, <2>15
  <2> DEFINE n == m - b + 1
  <2>16. n \in 1..Overlap /\ n <= Len(last) /\ Len(whole) - b + 1 = n + 1 + Len(p)
    BY <2>0, <2>1, <2>9
  <2>17. \A k \in 1..n : current'[k] = last[Len(last) - n + k]
    <3> SUFFICES ASSUME NEW k \in 1..n PROVE current'[k] = last[Len(last) - n + k]
      OBVIOUS
    <3>1. /\ k \in 1..(Len(whole) - b + 1) /\ b + k - 1 \in 1..m
          /\ Len(last) - m + (b + k - 1) = Len(last) - n + k
      BY <2>0
    <3> HIDE DEF n
    <3>2. current'[k] = whole[b + k - 1]
      BY <2>12, <2>14, <3>1
    <3>3. whole[b + k - 1] = last[Len(last) - m + (b + k - 1)]
      BY <2>8, <2>11, <3>1
    <3> QED
      BY <3>1, <3>2, <3>3
  <2>18. current'[1] # 0
    <3>1. 1 \in 1..(Len(whole) - b + 1) /\ b + 1 - 1 = b
      BY <2>14, <2>11, <1>1
    <3> QED
      BY <2>12, <2>14, <3>1
  <2>19. current'[n + 1] = 0
    <3>1. n + 1 \in 1..(Len(whole) - b + 1) /\ b + (n + 1) - 1 = m + 1
      BY <2>0
    <3> HIDE DEF n
    <3> QED
      BY <2>11, <2>12, <2>14, <3>1
  <2>20. \A k \in 1..Len(p) : current'[n + 1 + k] = p[k]
    <3> SUFFICES ASSUME NEW k \in 1..Len(p) PROVE current'[n + 1 + k] = p[k]
      OBVIOUS
    <3>1. n + 1 + k \in 1..(Len(whole) - b + 1) /\ b + (n + 1 + k) - 1 = m + 1 + k
      BY <2>0
    <3> HIDE DEF n
    <3> QED
      BY <2>11, <2>12, <2>14, <3>1
  <2>21. current' \in Seq(Nat) /\ Len(current') = n + 1 + Len(p)
    BY <2>12, <2>14, <2>16
  <2>22. pieces' # <<>>
    BY <1>3
  <2> HIDE DEF n
  <2> QED
    BY <2>2, <2>5, <2>16, <2>17, <2>18, <2>19, <2>20, <2>21, <2>22 DEF p
<1> QED
  BY <1>2, <1>3

\* A cut leaves a piece of all that is allowed and a rest that repeats its end.
LEMMA HardSplitShape ==
    ASSUME ChunkInv, HardSplit
    PROVE  /\ ~Split /\ Room \in Int /\ Overlap \in Nat /\ Room > Overlap
           /\ Len(current) \in Nat /\ Len(current) > Room /\ DOMAIN current = 1..Len(current)
           /\ \E piece \in Seq(Nat) :
                 /\ Len(piece) = Room /\ DOMAIN piece = 1..Room
                 /\ \A k \in 1..Room : piece[k] = current[k]
                 /\ pieces' = Append(pieces, piece)
           /\ Len(current') = Len(current) - Room + Overlap
           /\ DOMAIN current' = 1..Len(current')
           /\ \A k \in 1..(Len(current) - Room + Overlap) :
                 current'[k] = current[Room - Overlap + k]
<1> USE DEF ChunkInv, ChunkTypes
<1>1. ~Split /\ cutting
  BY DEF HardSplit
<1>2. Room \in Int /\ Overlap \in Nat /\ Room > Overlap
  BY <1>1, AtSection
<1>3. Len(current) \in Nat /\ Len(current) > Room /\ DOMAIN current = 1..Len(current)
  BY <1>1, LenProperties DEF PiecesFit
<1> DEFINE piece == SubSeq(current, 1, Room)
           rest == SubSeq(current, Room - Overlap + 1, Len(current))
<1>4. /\ piece \in Seq(Nat) /\ Len(piece) = Room
      /\ \A k \in 1..Room : piece[k] = current[k]
  <2>1. \A i \in 1..Room : current[i] \in Nat
    BY <1>2, <1>3, ElementOfSeq
  <2>2. /\ piece \in Seq(Nat) /\ Len(piece) = IF 1 <= Room THEN Room - 1 + 1 ELSE 0
        /\ \A k \in 1..(Room - 1 + 1) : piece[k] = current[1 + k - 1]
    BY <1>2, <2>1, SubSeqProperties
  <2> HIDE DEF piece
  <2>3. Room - 1 + 1 = Room /\ \A k \in 1..Room : 1 + k - 1 = k
    BY <1>2
  <2> QED
    BY <1>2, <2>2, <2>3
<1>5. /\ rest \in Seq(Nat) /\ Len(rest) = Len(current) - Room + Overlap
      /\ \A k \in 1..(Len(current) - Room + Overlap) : rest[k] = current[Room - Overlap + k]
  <2>1. \A i \in (Room - Overlap + 1)..Len(current) : current[i] \in Nat
    BY <1>2, <1>3, ElementOfSeq
  <2>2. Room - Overlap + 1 \in Int /\ Len(current) \in Int /\ Room - Overlap + 1 <= Len(current)
    BY <1>2, <1>3
  <2>3. /\ rest \in Seq(Nat)
        /\ Len(rest) = Len(current) - (Room - Overlap + 1) + 1
        /\ \A k \in 1..(Len(current) - (Room - Overlap + 1) + 1) :
              rest[k] = current[Room - Overlap + 1 + k - 1]
    BY <2>1, <2>2, SubSeqProperties
  <2> HIDE DEF rest
  <2>4. /\ Len(current) - (Room - Overlap + 1) + 1 = Len(current) - Room + Overlap
        /\ \A k \in 1..(Len(current) - Room + Overlap) :
              Room - Overlap + 1 + k - 1 = Room - Overlap + k
    BY <1>2, <1>3
  <2> QED
    BY <2>3, <2>4
<1>6. pieces' = Append(pieces, piece) /\ current' = rest
  BY DEF HardSplit
<1> HIDE DEF piece, rest
<1>7. DOMAIN piece = 1..Room /\ DOMAIN rest = 1..Len(rest)
  BY <1>4, <1>5, LenProperties
<1> QED
  BY <1>1, <1>2, <1>3, <1>4, <1>5, <1>6, <1>7

\* The section stays the same: what has been read is still there.
LEMMA SameText ==
    ASSUME TextInv, ChunkInv', ~Split, UNCHANGED <<sections, section, chunks>>,
           para' <= Len(Here'.ends) + 1,
           current' # <<>>, Last(current') = StartOf(para)', StartOf(para)' # 0,
           \A c \in 1..StartOf(para)' : c \in Range(current') \/ InPieces(pieces', c)
    PROVE  TextInv'
<1>1. Placed'
  BY DEF Placed, EndsAt
<1>2. Covered'
  BY DEF Covered, InPieces
<1>3. NothingLost'
  BY DEF TextInv, NothingLost
<1> QED
  BY <1>1, <1>2, <1>3 DEF TextInv

\* The characters up to the end of the next paragraph: those read before, and its
\* own.
LEMMA ReadNext ==
    ASSUME TextInv, Paragraphs, UNCHANGED <<sections, section>>, para' = para + 1,
           NEW c \in 1..StartOf(para)'
    PROVE  c \in 1..StartOf(para) \/ c \in Range(Paragraph(para))
<1>1. /\ Paragraph(para) \in Seq(Nat) /\ StartOf(para) \in Nat
      /\ \A k \in 1..Len(Paragraph(para)) : Paragraph(para)[k] = StartOf(para) + k
  BY ParagraphIsSeq DEF TextInv
<1>2. StartOf(para)' = StartOf(para) + Len(Paragraph(para))
  BY NextStart DEF TextInv
<1> DEFINE p == Paragraph(para)
           start == StartOf(para)
<1>3. Len(p) \in Nat /\ DOMAIN p = 1..Len(p)
  BY <1>1, LenProperties
<1>4. start \in Nat /\ c \in 1..(start + Len(p)) /\ \A k \in 1..Len(p) : p[k] = start + k
  BY <1>1, <1>2
<1> HIDE DEF p, start
<1>5. CASE c > start
  <2>1. c - start \in 1..Len(p) /\ start + (c - start) = c
    BY <1>3, <1>4, <1>5
  <2>2. p[c - start] = c
    BY <1>4, <2>1
  <2> QED
    BY <1>3, <2>1, <2>2 DEF p, Range
<1>6. CASE c <= start
  BY <1>3, <1>4, <1>6 DEF start
<1> QED
  BY <1>3, <1>4, <1>5, <1>6

LEMMA CombineText == ASSUME TextInv, Combine PROVE TextInv'
<1> DEFINE p == Paragraph(para)
<1>1. ~Split /\ Paragraphs /\ UNCHANGED <<sections, section, pieces, chunks>> /\ para' = para + 1
  BY DEF Combine, Paragraphs
<1>2. ChunkInv'
  BY CombineInv DEF TextInv
<1>3. /\ StartOf(para)' \in Nat \ {0} /\ StartOf(para)' = StartOf(para) + Len(p)
      /\ para' <= Len(Here'.ends) + 1
  BY <1>1, NextStart DEF TextInv
<1>4. /\ StartOf(para) \in Nat /\ p \in Seq(Nat) /\ Len(p) \in Nat \ {0}
      /\ DOMAIN p = 1..Len(p)
      /\ \A k \in 1..Len(p) : p[k] = StartOf(para) + k
  <2>1. /\ Here.ends[para] \in Nat /\ StartOf(para) \in Nat /\ StartOf(para) < Here.ends[para]
        /\ p \in Seq(Nat) /\ Len(p) = Here.ends[para] - StartOf(para)
        /\ \A k \in 1..Len(p) : p[k] = StartOf(para) + k
    BY <1>1, ParagraphIsSeq DEF TextInv
  <2> QED
    BY <2>1, LenProperties
<1>5. Len(current) \in Nat /\ DOMAIN current = 1..Len(current)
  BY <1>1, Position
<1>6. current = <<>> => current' = p
  BY CombineShape
<1>7. current # <<>> =>
          /\ current' \in Seq(Nat) /\ Len(current') = Len(current) + 1 + Len(p)
          /\ \A k \in 1..Len(current) : current'[k] = current[k]
          /\ \A k \in 1..Len(p) : current'[Len(current) + 1 + k] = p[k]
  BY CombineShape
<1> HIDE DEF p
<1>8. DOMAIN current' = 1..Len(current') /\ current' \in Seq(Nat)
  BY <1>4, <1>6, <1>7, LenProperties
<1>9. current' # <<>> /\ Last(current') = StartOf(para)'
  <2>1. CASE current = <<>>
    <3>1. Len(current') # 0 /\ Len(current') \in 1..Len(p) /\ current' = p
      BY <1>4, <1>6, <2>1
    <3>2. p[Len(p)] = StartOf(para) + Len(p)
      BY <1>4, <3>1
    <3> QED
      BY <1>3, <3>1, <3>2, Empty DEF Last
  <2>2. CASE current # <<>>
    <3>1. Len(current') # 0 /\ Len(p) \in 1..Len(p) /\ Len(current') = Len(current) + 1 + Len(p)
      BY <1>4, <1>5, <1>7, <2>2
    <3>2. current'[Len(current')] = p[Len(p)]
      BY <1>7, <2>2, <3>1
    <3>3. p[Len(p)] = StartOf(para) + Len(p)
      BY <1>4, <3>1
    <3> QED
      BY <1>3, <3>1, <3>2, <3>3, Empty DEF Last
  <2> QED
    BY <2>1, <2>2
<1>10. \A c \in Range(p) : c \in Range(current')
  <2> SUFFICES ASSUME NEW k \in 1..Len(p) PROVE p[k] \in Range(current')
    BY <1>4 DEF Range
  <2>1. CASE current = <<>>
    BY <1>4, <1>6, <2>1 DEF Range
  <2>2. CASE current # <<>>
    <3>1. Len(current) + 1 + k \in DOMAIN current'
      BY <1>4, <1>5, <1>7, <1>8, <2>2
    <3>2. current'[Len(current) + 1 + k] = p[k]
      BY <1>7, <2>2
    <3> QED
      BY <3>1, <3>2 DEF Range
  <2> QED
    BY <2>1, <2>2
<1>11. \A c \in Range(current) : c \in Range(current')
  <2> SUFFICES ASSUME NEW k \in 1..Len(current) PROVE current[k] \in Range(current')
    BY <1>5 DEF Range
  <2>1. current # <<>>
    BY Empty
  <2>2. k \in DOMAIN current' /\ current'[k] = current[k]
    BY <1>4, <1>5, <1>7, <1>8, <2>1
  <2> QED
    BY <2>2 DEF Range
<1>12. \A c \in 1..StartOf(para)' : c \in Range(current') \/ InPieces(pieces', c)
  <2> SUFFICES ASSUME NEW c \in 1..StartOf(para)'
               PROVE  c \in Range(current') \/ InPieces(pieces', c)
    OBVIOUS
  <2>1. c \in 1..StartOf(para) \/ c \in Range(p)
    BY <1>1, ReadNext DEF p
  <2>2. c \in 1..StartOf(para) => c \in Range(current) \/ InPieces(pieces, c)
    BY <1>1 DEF TextInv, Covered
  <2> QED
    BY <1>1, <1>10, <1>11, <2>1, <2>2
<1>13. StartOf(para)' # 0
  BY <1>3
<1> QED
  BY <1>1, <1>2, <1>3, <1>9, <1>12, <1>13, SameText

LEMMA BeginText == ASSUME TextInv, Begin PROVE TextInv'
<1> DEFINE p == Paragraph(para)
<1>1. /\ ~Split /\ Paragraphs /\ UNCHANGED <<sections, section, chunks>> /\ para' = para + 1
      /\ pieces' = Flushed
  BY DEF Begin, Paragraphs
<1>2. ChunkInv'
  BY BeginInv DEF TextInv
<1>3. /\ StartOf(para)' \in Nat \ {0} /\ StartOf(para)' = StartOf(para) + Len(p)
      /\ para' <= Len(Here'.ends) + 1
  BY <1>1, NextStart DEF TextInv
<1>4. /\ StartOf(para) \in Nat /\ p \in Seq(Nat) /\ Len(p) \in Nat \ {0}
      /\ DOMAIN p = 1..Len(p)
      /\ \A k \in 1..Len(p) : p[k] = StartOf(para) + k
  <2>1. /\ Here.ends[para] \in Nat /\ StartOf(para) \in Nat /\ StartOf(para) < Here.ends[para]
        /\ p \in Seq(Nat) /\ Len(p) = Here.ends[para] - StartOf(para)
        /\ \A k \in 1..Len(p) : p[k] = StartOf(para) + k
    BY <1>1, ParagraphIsSeq DEF TextInv
  <2> QED
    BY <2>1, LenProperties
<1>5. \E n \in Nat :
          /\ current' \in Seq(Nat) /\ Len(current') = n + Len(p)
          /\ \A k \in 1..Len(p) : current'[n + k] = p[k]
  <2>1. CASE current' = p
    <3>1. Len(current') = 0 + Len(p) /\ \A k \in 1..Len(p) : 0 + k = k
      BY <1>4, <2>1
    <3> QED
      BY <1>4, <2>1, <3>1
  <2>2. CASE current' # p
    <3>1. PICK n \in 1..Overlap :
             /\ current' \in Seq(Nat) /\ Len(current') = n + 1 + Len(p)
             /\ \A k \in 1..Len(p) : current'[n + 1 + k] = p[k]
      BY <2>2, BeginShape
    <3>2. n + 1 \in Nat
      BY <3>1, ChunkerAssumption
    <3> QED
      BY <3>1, <3>2
  <2> QED
    BY <2>1, <2>2
<1> HIDE DEF p
<1>6. PICK n \in Nat :
          /\ current' \in Seq(Nat) /\ Len(current') = n + Len(p)
          /\ \A k \in 1..Len(p) : current'[n + k] = p[k]
  BY <1>5
<1>7. DOMAIN current' = 1..Len(current')
  BY <1>6, LenProperties
<1>8. current' # <<>> /\ Last(current') = StartOf(para)'
  <2>1. Len(current') # 0 /\ Len(p) \in 1..Len(p)
    BY <1>4, <1>6
  <2>2. current'[Len(current')] = p[Len(p)]
    BY <1>6, <2>1
  <2>3. p[Len(p)] = StartOf(para) + Len(p)
    BY <1>4, <2>1
  <2> QED
    BY <1>3, <2>1, <2>2, <2>3, Empty DEF Last
<1>9. \A c \in Range(p) : c \in Range(current')
  <2> SUFFICES ASSUME NEW k \in 1..Len(p) PROVE p[k] \in Range(current')
    BY <1>4 DEF Range
  <2>1. n + k \in DOMAIN current' /\ current'[n + k] = p[k]
    BY <1>4, <1>6, <1>7
  <2> QED
    BY <2>1 DEF Range
<1>10. \A c \in 1..StartOf(para)' : c \in Range(current') \/ InPieces(pieces', c)
  <2> SUFFICES ASSUME NEW c \in 1..StartOf(para)'
               PROVE  c \in Range(current') \/ InPieces(pieces', c)
    OBVIOUS
  <2>1. c \in 1..StartOf(para) \/ c \in Range(p)
    BY <1>1, ReadNext DEF p
  <2>2. CASE c \in 1..StartOf(para)
    <3>1. c \in Range(current) \/ InPieces(pieces, c)
      BY <1>1, <2>2 DEF TextInv, Covered
    <3>2. c \in Nat \ {0}
      BY <1>4, <2>2
    <3>3. InPieces(Flushed, c)
      BY <1>1, <3>1, <3>2, FlushKeeps
    <3> QED
      BY <1>1, <3>3
  <2> QED
    BY <1>9, <2>1, <2>2
<1>11. StartOf(para)' # 0
  BY <1>3
<1> QED
  BY <1>1, <1>2, <1>3, <1>8, <1>10, <1>11, SameText

LEMMA HardSplitText == ASSUME TextInv, HardSplit PROVE TextInv'
<1>1. /\ ~Split /\ UNCHANGED <<sections, section, para, chunks>>
      /\ Room \in Int /\ Overlap \in Nat /\ Room > Overlap
      /\ Len(current) \in Nat /\ Len(current) > Room /\ DOMAIN current = 1..Len(current)
      /\ Len(current') = Len(current) - Room + Overlap /\ DOMAIN current' = 1..Len(current')
      /\ \A k \in 1..(Len(current) - Room + Overlap) :
            current'[k] = current[Room - Overlap + k]
  BY HardSplitShape DEF TextInv, HardSplit
<1>2. PICK piece \in Seq(Nat) :
          /\ Len(piece) = Room /\ DOMAIN piece = 1..Room
          /\ \A k \in 1..Room : piece[k] = current[k]
          /\ pieces' = Append(pieces, piece)
  BY HardSplitShape DEF TextInv
<1>3. ChunkInv'
  BY HardSplitInv DEF TextInv
<1>4. /\ current # <<>> /\ StartOf(para)' = StartOf(para)
      /\ current[Len(current)] = StartOf(para) /\ StartOf(para) # 0
      /\ para' <= Len(Here'.ends) + 1
  <2>1. current # <<>>
    BY <1>1, Empty
  <2>2. current[Len(current)] = StartOf(para) /\ Last(current) # 0
    BY <1>1, <2>1, Position
  <2>3. para <= Len(Here.ends) + 1
    BY <1>1 DEF TextInv, Placed
  <2>4. Here' = Here
    BY <1>1 DEF Here
  <2>5. StartOf(para)' = StartOf(para)
    BY <1>1, <2>4 DEF StartOf
  <2> QED
    BY <1>1, <2>1, <2>2, <2>3, <2>4, <2>5 DEF Last
<1>5. current' # <<>> /\ Last(current') = StartOf(para)'
  <2>1. /\ Len(current') # 0 /\ Len(current') \in 1..(Len(current) - Room + Overlap)
        /\ Room - Overlap + Len(current') = Len(current)
    BY <1>1
  <2>2. current'[Len(current')] = current[Len(current)]
    BY <1>1, <2>1
  <2> QED
    BY <1>4, <2>1, <2>2, Empty DEF Last
<1>6. \A c \in Range(current) : c \in Range(current') \/ InPieces(pieces', c)
  <2> SUFFICES ASSUME NEW k \in 1..Len(current)
               PROVE  current[k] \in Range(current') \/ InPieces(pieces', current[k])
    BY <1>1 DEF Range
  <2>1. CASE k <= Room
    <3>1. k \in 1..Room
      BY <1>1, <2>1
    <3>2. current[k] \in Range(piece)
      BY <1>2, <3>1 DEF Range
    <3>3. /\ Len(pieces') = Len(pieces) + 1 /\ pieces'[Len(pieces) + 1] = piece
          /\ pieces' \in Seq(Seq(Nat)) /\ Len(pieces) \in Nat
      BY <1>2, AppendProperties, LenProperties DEF TextInv, ChunkInv, ChunkTypes
    <3>4. Len(pieces) + 1 \in DOMAIN pieces'
      BY <3>3, LenProperties
    <3> QED
      BY <3>2, <3>3, <3>4 DEF InPieces
  <2>2. CASE k > Room
    <3>1. /\ k - (Room - Overlap) \in 1..(Len(current) - Room + Overlap)
          /\ Room - Overlap + (k - (Room - Overlap)) = k
      BY <1>1, <2>2
    <3>2. k - (Room - Overlap) \in DOMAIN current' /\ current'[k - (Room - Overlap)] = current[k]
      BY <1>1, <3>1
    <3> QED
      BY <3>2 DEF Range
  <2> QED
    BY <1>1, <2>1, <2>2
<1>7. \A c : InPieces(pieces, c) => InPieces(pieces', c)
  <2>1. /\ Len(pieces') = Len(pieces) + 1 /\ \A j \in 1..Len(pieces) : pieces'[j] = pieces[j]
        /\ pieces' \in Seq(Seq(Nat))
    BY <1>2, AppendProperties DEF TextInv, ChunkInv, ChunkTypes
  <2>2. Len(pieces) \in Nat /\ DOMAIN pieces = 1..Len(pieces) /\ DOMAIN pieces' = 1..Len(pieces')
    BY <2>1, LenProperties DEF TextInv, ChunkInv, ChunkTypes
  <2>3. \A j \in DOMAIN pieces : j \in DOMAIN pieces' /\ pieces'[j] = pieces[j]
    BY <2>1, <2>2
  <2> QED
    BY <2>3 DEF InPieces
<1>8. \A c \in 1..StartOf(para)' : c \in Range(current') \/ InPieces(pieces', c)
  <2>1. \A c \in 1..StartOf(para) : c \in Range(current) \/ InPieces(pieces, c)
    BY <1>1 DEF TextInv, Covered
  <2> QED
    BY <1>4, <1>6, <1>7, <2>1
<1>9. StartOf(para)' # 0
  BY <1>4
<1> QED
  BY <1>1, <1>3, <1>4, <1>5, <1>8, <1>9, SameText

\* A section of which nothing has been read yet.
LEMMA FreshSection ==
    ASSUME ChunkInv', para' = 1, pieces' = <<>>, current' = <<>>
    PROVE  (~Split => Placed /\ Covered)'
<1>1. ~Split' => Here' \in Section
  <2> SUFFICES ASSUME ~Split' PROVE Here' \in Section
    OBVIOUS
  <2>1. section' \in DOMAIN sections' /\ sections' \in Seq(Section)
    BY LenProperties DEF Split, ChunkInv, ChunkTypes
  <2> QED
    BY <2>1, LenProperties, ElementOfSeq DEF Here
<1>2. ~Split' => Len(Here'.ends) \in Nat
  BY <1>1, LenProperties DEF Section
<1>3. StartOf(para)' = 0
  BY DEF StartOf
<1> QED
  BY <1>2, <1>3 DEF Placed, Covered, EndsAt

\* The chunks so far stay, and those of the section are its pieces.
LEMMA ChunksGrow ==
    ASSUME ChunkInv, EndSection
    PROVE  /\ Len(chunks) \in Nat /\ DOMAIN chunks = 1..Len(chunks)
           /\ Len(Flushed) \in Nat /\ DOMAIN Flushed = 1..Len(Flushed)
           /\ Flushed \in Seq(Seq(Nat))
           /\ DOMAIN chunks' = 1..(Len(chunks) + Len(Flushed))
           /\ \A i \in 1..Len(chunks) : chunks'[i] = chunks[i]
           /\ \A i \in 1..Len(Flushed) :
                 chunks'[Len(chunks) + i] = [section |-> section, piece |-> Flushed[i]]
<1> USE DEF ChunkInv, ChunkTypes
<1>1. ~Split /\ ~cutting
  BY DEF EndSection
<1>2. Flushed \in Seq(Seq(Nat)) /\ section \in Nat
  BY <1>1, FlushFits
<1> DEFINE new == [k \in DOMAIN Flushed |-> [section |-> section, piece |-> Flushed[k]]]
<1>3. /\ Len(Flushed) \in Nat /\ DOMAIN Flushed = 1..Len(Flushed)
      /\ Len(chunks) \in Nat /\ DOMAIN chunks = 1..Len(chunks)
  BY <1>2, LenProperties
<1>4. new \in Seq(Chunks) /\ Len(new) = Len(Flushed)
      /\ \A k \in 1..Len(Flushed) : new[k] = [section |-> section, piece |-> Flushed[k]]
  <2>1. \A k \in 1..Len(Flushed) : [section |-> section, piece |-> Flushed[k]] \in Chunks
    BY <1>2, <1>3, ElementOfSeq DEF Chunks
  <2> QED
    BY <1>3, <2>1
<1>5. chunks' = chunks \o new
  BY DEF EndSection
<1> HIDE DEF new
<1>6. /\ chunks' \in Seq(Chunks)
      /\ Len(chunks') = Len(chunks) + Len(new)
      /\ \A i \in 1..(Len(chunks) + Len(new)) :
            chunks'[i] = IF i <= Len(chunks) THEN chunks[i] ELSE new[i - Len(chunks)]
  BY <1>4, <1>5, ConcatProperties, ZenonT(30)
<1>7. DOMAIN chunks' = 1..(Len(chunks) + Len(Flushed))
  BY <1>4, <1>6, LenProperties
<1>8. \A i \in 1..Len(chunks) : chunks'[i] = chunks[i]
  <2> SUFFICES ASSUME NEW i \in 1..Len(chunks) PROVE chunks'[i] = chunks[i]
    OBVIOUS
  <2>1. i \in 1..(Len(chunks) + Len(new)) /\ i <= Len(chunks)
    BY <1>3, <1>4
  <2> QED
    BY <1>6, <2>1
<1>9. \A i \in 1..Len(Flushed) : chunks'[Len(chunks) + i] = new[i]
  <2> SUFFICES ASSUME NEW i \in 1..Len(Flushed) PROVE chunks'[Len(chunks) + i] = new[i]
    OBVIOUS
  <2>1. /\ Len(chunks) + i \in 1..(Len(chunks) + Len(new)) /\ ~(Len(chunks) + i <= Len(chunks))
        /\ Len(chunks) + i - Len(chunks) = i
    BY <1>3, <1>4
  <2> QED
    BY <1>6, <2>1
<1> QED
  BY <1>2, <1>3, <1>4, <1>7, <1>8, <1>9

LEMMA EndSectionText == ASSUME TextInv, EndSection PROVE TextInv'
<1>1. /\ ~Split /\ ~cutting /\ para > Len(Here.ends) /\ section' = section + 1
      /\ sections' = sections /\ para' = 1 /\ pieces' = <<>> /\ current' = <<>>
  BY DEF EndSection
<1>2. ChunkInv'
  BY EndSectionInv DEF TextInv
<1>3. (~Split => Placed /\ Covered)'
  BY <1>1, <1>2, FreshSection
<1>4. NothingLost'
  <2> SUFFICES ASSUME NEW s \in 1..section, NEW c \in 1..TextEnd(sections[s])
               PROVE  \E i \in DOMAIN chunks' :
                         chunks'[i].section = s /\ c \in TextOf(chunks'[i].piece)
    <3>1. section' - 1 = section
      BY <1>1 DEF TextInv, ChunkInv, ChunkTypes
    <3> QED
      BY <1>1, <3>1 DEF NothingLost
  <2>0. section \in Nat \ {0}
    BY DEF TextInv, ChunkInv, ChunkTypes
  <2>1. /\ Len(chunks) \in Nat /\ DOMAIN chunks = 1..Len(chunks)
        /\ Len(Flushed) \in Nat /\ DOMAIN Flushed = 1..Len(Flushed)
        /\ DOMAIN chunks' = 1..(Len(chunks) + Len(Flushed))
        /\ \A i \in 1..Len(chunks) : chunks'[i] = chunks[i]
        /\ \A i \in 1..Len(Flushed) :
              chunks'[Len(chunks) + i] = [section |-> section, piece |-> Flushed[i]]
    BY ChunksGrow DEF TextInv
  <2>2. CASE s \in 1..(section - 1)
    <3>1. PICK i \in DOMAIN chunks : chunks[i].section = s /\ c \in TextOf(chunks[i].piece)
      BY <2>2 DEF TextInv, NothingLost
    <3>2. i \in DOMAIN chunks' /\ chunks'[i] = chunks[i]
      BY <2>1
    <3> QED
      BY <3>1, <3>2
  <2>3. CASE s = section
    <3>1. c \in 1..TextEnd(Here)
      BY <2>3 DEF Here
    <3>2. Here \in Section /\ para <= Len(Here.ends) + 1 /\ para \in Nat \ {0}
      BY <1>1, AtSection DEF TextInv, Placed, ChunkInv, ChunkTypes
    <3>3. /\ Len(Here.ends) \in Nat /\ (Here.ends = <<>> => Len(Here.ends) = 0)
          /\ (Here.ends # <<>> => Len(Here.ends) # 0)
      BY <3>2, LenProperties, EmptySeq DEF Section
    <3>4. StartOf(para) = TextEnd(Here)
      <4>1. para - 1 = Len(Here.ends)
        BY <1>1, <3>2, <3>3
      <4>2. CASE Here.ends = <<>>
        BY <3>2, <3>3, <4>1, <4>2 DEF StartOf, TextEnd
      <4>3. CASE Here.ends # <<>>
        <5>1. para # 1
          BY <3>2, <3>3, <4>1, <4>3
        <5> QED
          BY <4>1, <4>3, <5>1 DEF StartOf, TextEnd, Last
      <4> QED
        BY <4>2, <4>3
    <3>5. c \in Range(current) \/ InPieces(pieces, c)
      BY <1>1, <3>1, <3>4 DEF TextInv, Covered
    <3>6. c \in Nat \ {0}
      <4>1. StartOf(para) \in Nat
        BY <1>1, Position
      <4> QED
        BY <3>1, <3>4, <4>1
    <3>7. InPieces(Flushed, c)
      BY <1>1, <3>5, <3>6, FlushKeeps
    <3>8. PICK j \in DOMAIN Flushed : c \in Range(Flushed[j])
      BY <3>7 DEF InPieces
    <3>9. Len(chunks) + j \in DOMAIN chunks'
      BY <2>1
    <3>10. chunks'[Len(chunks) + j] = [section |-> section, piece |-> Flushed[j]]
      BY <2>1
    <3>11. c \in TextOf(Flushed[j])
      BY <3>6, <3>8 DEF TextOf
    <3> QED
      BY <2>3, <3>9, <3>10, <3>11
  <2> QED
    BY <2>0, <2>2, <2>3
<1> QED
  BY <1>2, <1>3, <1>4 DEF TextInv

LEMMA TextStep == ASSUME TextInv, ChunkerNext PROVE TextInv'
BY CombineText, BeginText, HardSplitText, EndSectionText DEF ChunkerNext

LEMMA TextStutter == ASSUME TextInv, UNCHANGED chunkerVars PROVE TextInv'
<1>1. ChunkInv'
  BY ChunkerStutter DEF TextInv
<1>2. (~Split => Placed /\ Covered)'
  BY DEF TextInv, Split, Placed, Covered, EndsAt, StartOf, Here, InPieces, chunkerVars
<1>3. NothingLost'
  BY DEF TextInv, NothingLost, chunkerVars
<1> QED
  BY <1>1, <1>2, <1>3 DEF TextInv

LEMMA TextStart ==
    ASSUME NEW parsed, ChunkInv', ChunkerStart(parsed) PROVE TextInv'
<1>1. /\ sections' = parsed /\ section' = 1 /\ para' = 1 /\ pieces' = <<>> /\ current' = <<>>
  BY DEF ChunkerStart
<1>2. (~Split => Placed /\ Covered)'
  BY <1>1, FreshSection
<1>3. NothingLost'
  <2>1. 1..(section' - 1) = {}
    BY <1>1
  <2> QED
    BY <2>1 DEF NothingLost
<1> QED
  BY <1>2, <1>3 DEF TextInv

-----------------------------------------------------------------------------
(* Each chunk follows the one before.                                      *)

\* A part of a run is a run.
LEMMA RunSub ==
    ASSUME NEW s \in Seq(Nat), Run(s), NEW t \in Seq(Nat), NEW o \in Nat,
           Len(t) + o <= Len(s), \A k \in 1..Len(t) : t[k] = s[o + k]
    PROVE  Run(t)
<1>1. /\ Len(s) \in Nat /\ DOMAIN s = 1..Len(s) /\ Len(t) \in Nat /\ DOMAIN t = 1..Len(t)
  BY LenProperties
<1>2. \A k, l \in DOMAIN t : k < l /\ t[k] # 0 /\ t[l] # 0 => t[k] < t[l]
  <2> SUFFICES ASSUME NEW k \in 1..Len(t), NEW l \in 1..Len(t), k < l, t[k] # 0, t[l] # 0
               PROVE  t[k] < t[l]
    BY <1>1
  <2>1. o + k \in DOMAIN s /\ o + l \in DOMAIN s /\ o + k < o + l
    BY <1>1
  <2>2. t[k] = s[o + k] /\ t[l] = s[o + l]
    OBVIOUS
  <2> QED
    BY <2>1, <2>2 DEF Run
<1>3. \A k \in 2..Len(t) : IF t[k] = 0 THEN t[k - 1] # 0 ELSE t[k - 1] = 0 \/ t[k] = t[k - 1] + 1
  <2> SUFFICES ASSUME NEW k \in 2..Len(t)
               PROVE  IF t[k] = 0 THEN t[k - 1] # 0 ELSE t[k - 1] = 0 \/ t[k] = t[k - 1] + 1
    OBVIOUS
  <2>1. k \in 1..Len(t) /\ k - 1 \in 1..Len(t)
    BY <1>1
  <2>2. PICK j \in 2..Len(s) : j = o + k /\ j - 1 = o + (k - 1)
    BY <1>1
  <2>3. t[k] = s[j] /\ t[k - 1] = s[j - 1]
    BY <2>1, <2>2
  <2> QED
    BY <2>2, <2>3 DEF Run
<1>4. \A k \in 3..Len(t) : t[k - 1] = 0 => t[k] = t[k - 2] + 1
  <2> SUFFICES ASSUME NEW k \in 3..Len(t), t[k - 1] = 0 PROVE t[k] = t[k - 2] + 1
    OBVIOUS
  <2>1. k \in 1..Len(t) /\ k - 1 \in 1..Len(t) /\ k - 2 \in 1..Len(t)
    BY <1>1
  <2>2. PICK j \in 3..Len(s) : j = o + k /\ j - 1 = o + (k - 1) /\ j - 2 = o + (k - 2)
    BY <1>1
  <2>3. t[k] = s[j] /\ t[k - 1] = s[j - 1] /\ t[k - 2] = s[j - 2]
    BY <2>1, <2>2
  <2> QED
    BY <2>2, <2>3 DEF Run
<1> QED
  BY <1>2, <1>3, <1>4 DEF Run

\* The numbers from one on are a run.
LEMMA RunOfNumbers ==
    ASSUME NEW p \in Seq(Nat), NEW e \in Nat, \A k \in 1..Len(p) : p[k] = e + k
    PROVE  Run(p)
<1>1. Len(p) \in Nat /\ DOMAIN p = 1..Len(p)
  BY LenProperties
<1>2. \A k, l \in DOMAIN p : k < l /\ p[k] # 0 /\ p[l] # 0 => p[k] < p[l]
  <2> SUFFICES ASSUME NEW k \in 1..Len(p), NEW l \in 1..Len(p), k < l PROVE p[k] < p[l]
    BY <1>1
  <2>1. p[k] = e + k /\ p[l] = e + l
    OBVIOUS
  <2> QED
    BY <1>1, <2>1
<1>3. \A k \in 2..Len(p) : p[k] = p[k - 1] + 1 /\ p[k] # 0 /\ p[k - 1] # 0
  <2> SUFFICES ASSUME NEW k \in 2..Len(p) PROVE p[k] = p[k - 1] + 1 /\ p[k] # 0 /\ p[k - 1] # 0
    OBVIOUS
  <2>1. k \in 1..Len(p) /\ k - 1 \in 1..Len(p)
    BY <1>1
  <2>2. p[k] = e + k /\ p[k - 1] = e + (k - 1)
    BY <2>1
  <2> QED
    BY <1>1, <2>1, <2>2
<1>4. \A k \in 3..Len(p) : p[k - 1] # 0
  <2> SUFFICES ASSUME NEW k \in 3..Len(p) PROVE p[k - 1] # 0
    OBVIOUS
  <2>1. k \in 2..Len(p)
    BY <1>1
  <2> QED
    BY <1>3, <2>1
<1> QED
  BY <1>2, <1>3, <1>4 DEF Run

\* u is the last n elements of s, a joiner and the numbers from there on.
Joins(s, n, u) ==
    /\ n \in Nat \ {0} /\ n <= Len(s) /\ n + 1 <= Len(u)
    /\ s[Len(s)] \in Nat \ {0}
    /\ \A k \in 1..n : u[k] = s[Len(s) - n + k]
    /\ u[n + 1] = 0
    /\ \A k \in 1..(Len(u) - n - 1) : u[n + 1 + k] = s[Len(s)] + k

LEMMA RunJoined ==
    ASSUME NEW s \in Seq(Nat), Run(s), NEW u \in Seq(Nat), NEW n, Joins(s, n, u)
    PROVE  Run(u)
<1>0. PICK o \in Nat, m \in Nat, e \in Nat \ {0} :
          /\ n \in Nat \ {0} /\ o + n = Len(s) /\ Len(u) = n + 1 + m /\ s[Len(s)] = e
          /\ \A k \in 1..n : u[k] = s[o + k]
          /\ u[n + 1] = 0
          /\ \A k \in 1..m : u[n + 1 + k] = e + k
  <2> DEFINE o == Len(s) - n
             m == Len(u) - n - 1
             e == s[Len(s)]
  <2>1. /\ n \in Nat \ {0} /\ n <= Len(s) /\ n + 1 <= Len(u) /\ e \in Nat \ {0}
        /\ \A k \in 1..n : u[k] = s[o + k]
        /\ u[n + 1] = 0
        /\ \A k \in 1..m : u[n + 1 + k] = e + k
    BY DEF Joins
  <2>2. Len(s) \in Nat /\ Len(u) \in Nat
    BY LenProperties
  <2>3. o \in Nat /\ m \in Nat /\ o + n = Len(s) /\ Len(u) = n + 1 + m
    BY <2>1, <2>2
  <2>4. s[Len(s)] = e
    OBVIOUS
  <2> HIDE DEF o, m, e
  <2> QED
    BY <2>1, <2>3, <2>4, ZenonT(30)
<1> USE <1>0
<1>1. /\ Len(s) \in Nat /\ DOMAIN s = 1..Len(s) /\ DOMAIN u = 1..(n + 1 + m)
  BY LenProperties
<1>2. \A k \in (n + 2)..(n + 1 + m) : u[k] = e + (k - n - 1)
  <2> SUFFICES ASSUME NEW k \in (n + 2)..(n + 1 + m) PROVE u[k] = e + (k - n - 1)
    OBVIOUS
  <2>1. k - n - 1 \in 1..m /\ n + 1 + (k - n - 1) = k
    OBVIOUS
  <2> QED
    BY <2>1
<1>3. u[n] = e
  <2>1. n \in 1..n
    OBVIOUS
  <2> QED
    BY <2>1
<1>4. \A k \in 1..n : u[k] # 0 => u[k] <= e /\ u[k] \in Nat
  <2> SUFFICES ASSUME NEW k \in 1..n, u[k] # 0 PROVE u[k] <= e /\ u[k] \in Nat
    OBVIOUS
  <2>1. u[k] = s[o + k] /\ o + k \in 1..Len(s) /\ Len(s) \in 1..Len(s)
    <3> DEFINE l == Len(s)
    <3>1. o + n = l /\ l \in Nat
      BY <1>1
    <3> HIDE DEF l
    <3>2. o + k \in 1..l /\ l \in 1..l
      BY <3>1
    <3> QED
      BY <3>2 DEF l
  <2>2. u[k] \in Nat
    BY <2>1, ElementOfSeq
  <2>3. CASE k = n
    BY <1>3, <2>3
  <2>4. CASE k < n
    <3>1. o + k < Len(s)
      BY <1>1, <2>4
    <3>2. s[o + k] < s[Len(s)]
      BY <1>1, <2>1, <3>1 DEF Run
    <3> QED
      BY <2>1, <2>2, <3>2
  <2> QED
    BY <2>2, <2>3, <2>4
<1>5. \A k, l \in DOMAIN u : k < l /\ u[k] # 0 /\ u[l] # 0 => u[k] < u[l]
  <2> SUFFICES ASSUME NEW k \in 1..(n + 1 + m), NEW l \in 1..(n + 1 + m), k < l,
                      u[k] # 0, u[l] # 0
               PROVE  u[k] < u[l]
    BY <1>1
  <2>1. CASE l <= n
    <3>1. k \in 1..n /\ l \in 1..n
      BY <2>1
    <3>2. PICK i \in 1..Len(s), j \in 1..Len(s) : i = o + k /\ j = o + l /\ i < j
      <4>1. o + k \in 1..Len(s)
        BY <1>1, <3>1
      <4>2. o + l \in 1..Len(s)
        BY <1>1, <3>1
      <4>3. o + k < o + l
        OBVIOUS
      <4> QED
        BY <4>1, <4>2, <4>3
    <3>3. u[k] = s[i] /\ u[l] = s[j]
      BY <3>1, <3>2
    <3> QED
      BY <1>1, <3>2, <3>3 DEF Run
  <2>2. CASE l > n
    <3>1. l # n + 1
      OBVIOUS
    <3>2. l \in (n + 2)..(n + 1 + m)
      BY <2>2, <3>1
    <3>3. u[l] = e + (l - n - 1)
      BY <1>2, <3>2
    <3>4. CASE k <= n
      <4>1. k \in 1..n
        BY <3>4
      <4>2. u[k] <= e /\ u[k] \in Nat
        BY <1>4, <4>1
      <4> QED
        BY <3>2, <3>3, <4>2
    <3>5. CASE k > n
      <4>1. k # n + 1
        OBVIOUS
      <4>2. k \in (n + 2)..(n + 1 + m)
        BY <3>5, <4>1
      <4>3. u[k] = e + (k - n - 1)
        BY <1>2, <4>2
      <4> QED
        BY <3>2, <3>3, <4>2, <4>3
    <3> QED
      BY <3>4, <3>5
  <2> QED
    BY <2>1, <2>2
<1>6. \A k \in 2..Len(u) : IF u[k] = 0 THEN u[k - 1] # 0 ELSE u[k - 1] = 0 \/ u[k] = u[k - 1] + 1
  <2> SUFFICES ASSUME NEW k \in 2..(n + 1 + m)
               PROVE  IF u[k] = 0 THEN u[k - 1] # 0 ELSE u[k - 1] = 0 \/ u[k] = u[k - 1] + 1
    OBVIOUS
  <2>1. CASE k <= n
    <3>1. k \in 1..n /\ k - 1 \in 1..n
      BY <2>1
    <3>2. PICK j \in 2..Len(s) : j = o + k /\ j - 1 = o + (k - 1)
      BY <1>1, <2>1
    <3>3. u[k] = s[j] /\ u[k - 1] = s[j - 1]
      BY <3>1, <3>2
    <3> QED
      BY <3>2, <3>3 DEF Run
  <2>2. CASE k = n + 1
    <3>1. k - 1 = n
      BY <2>2
    <3> QED
      BY <1>3, <2>2, <3>1
  <2>3. CASE k = n + 2
    <3>1. k - 1 = n + 1 /\ k \in (n + 2)..(n + 1 + m)
      BY <2>3
    <3>2. u[k] = e + (k - n - 1)
      BY <1>2, <3>1
    <3> QED
      BY <3>1, <3>2
  <2>4. CASE k > n + 2
    <3>1. k \in (n + 2)..(n + 1 + m) /\ k - 1 \in (n + 2)..(n + 1 + m)
      BY <2>4
    <3>2. u[k] = e + (k - n - 1) /\ u[k - 1] = e + (k - 1 - n - 1)
      BY <1>2, <3>1
    <3>3. u[k] # 0 /\ u[k] = u[k - 1] + 1
      BY <3>1, <3>2
    <3> QED
      BY <3>3
  <2> QED
    BY <2>1, <2>2, <2>3, <2>4
<1>7. \A k \in 3..Len(u) : u[k - 1] = 0 => u[k] = u[k - 2] + 1
  <2> SUFFICES ASSUME NEW k \in 3..(n + 1 + m), u[k - 1] = 0 PROVE u[k] = u[k - 2] + 1
    OBVIOUS
  <2>1. CASE k <= n
    <3>1. k \in 1..n /\ k - 1 \in 1..n /\ k - 2 \in 1..n
      BY <2>1
    <3>2. PICK j \in 3..Len(s) : j = o + k /\ j - 1 = o + (k - 1) /\ j - 2 = o + (k - 2)
      BY <1>1, <2>1
    <3>3. u[k] = s[j] /\ u[k - 1] = s[j - 1] /\ u[k - 2] = s[j - 2]
      BY <3>1, <3>2
    <3> QED
      BY <3>2, <3>3 DEF Run
  <2>2. CASE k = n + 1
    <3>1. k - 1 = n
      BY <2>2
    <3> QED
      BY <1>3, <3>1
  <2>3. CASE k = n + 2
    <3>1. k - 2 = n /\ k \in (n + 2)..(n + 1 + m) /\ k - n - 1 = 1
      BY <2>3
    <3>2. u[k] = e + (k - n - 1)
      BY <1>2, <3>1
    <3> QED
      BY <1>3, <3>1, <3>2
  <2>4. CASE k > n + 2
    <3>1. k - 1 \in (n + 2)..(n + 1 + m)
      BY <2>4
    <3>2. u[k - 1] = e + (k - 1 - n - 1)
      BY <1>2, <3>1
    <3> QED
      BY <3>1, <3>2
  <2> QED
    BY <2>1, <2>2, <2>3, <2>4
<1> QED
  BY <1>5, <1>6, <1>7 DEF Run

\* Read without its joiners, a run has no gaps.
LEMMA RunGapless == ASSUME NEW s \in Seq(Nat), Run(s) PROVE Gapless(s)
<1>1. Len(s) \in Nat /\ DOMAIN s = 1..Len(s)
  BY LenProperties
<1> SUFFICES ASSUME NEW k \in 1..Len(s), NEW l \in 1..Len(s), k < l, s[k] # 0, s[l] # 0,
                    \A m \in (k + 1)..(l - 1) : s[m] = 0
             PROVE  s[l] = s[k] + 1
  BY <1>1 DEF Gapless
<1>2. CASE l = k + 1
  <2>1. l \in 2..Len(s) /\ l - 1 = k
    BY <1>1, <1>2
  <2> QED
    BY <2>1 DEF Run
<1>3. CASE l = k + 2
  <2>1. l \in 3..Len(s) /\ l - 2 = k /\ l - 1 \in (k + 1)..(l - 1)
    BY <1>1, <1>3
  <2> QED
    BY <2>1 DEF Run
<1>4. CASE l > k + 2
  <2>1. /\ k + 1 \in (k + 1)..(l - 1) /\ k + 2 \in (k + 1)..(l - 1)
        /\ k + 2 \in 2..Len(s) /\ k + 2 - 1 = k + 1
    BY <1>1, <1>4
  <2>2. s[k + 1] = 0 /\ s[k + 2] = 0
    BY <2>1
  <2> QED
    BY <2>1, <2>2 DEF Run
<1> QED
  BY <1>2, <1>3, <1>4

\* Pieces in sequence, and one more that follows the last of them.
LEMMA InSequenceGrows ==
    ASSUME NEW some \in Seq(Seq(Nat)), InSequence(some),
           NEW piece \in Seq(Nat), Run(piece), TextOf(piece) # {},
           some # <<>> => Follows(piece, Last(some))
    PROVE  InSequence(Append(some, piece)) /\ Last(Append(some, piece)) = piece
<1> DEFINE more == Append(some, piece)
<1>1. /\ more \in Seq(Seq(Nat)) /\ Len(more) = Len(some) + 1
      /\ \A j \in 1..Len(some) : more[j] = some[j]
      /\ more[Len(some) + 1] = piece
  BY AppendProperties
<1> HIDE DEF more
<1>2. Len(some) \in Nat /\ DOMAIN some = 1..Len(some) /\ DOMAIN more = 1..(Len(some) + 1)
  BY <1>1, LenProperties
<1>3. ASSUME NEW k \in 1..(Len(some) + 1)
      PROVE  Run(more[k]) /\ TextOf(more[k]) # {} /\ (k > 1 => Follows(more[k], more[k - 1]))
  <2>1. CASE k <= Len(some)
    <3>1. k \in DOMAIN some /\ more[k] = some[k]
      BY <1>1, <1>2, <2>1
    <3>2. k > 1 => more[k - 1] = some[k - 1]
      <4>1. k > 1 => k - 1 \in 1..Len(some)
        BY <1>2, <2>1
      <4> QED
        BY <1>1, <4>1
    <3> QED
      BY <3>1, <3>2 DEF InSequence
  <2>2. CASE k = Len(some) + 1
    <3>1. more[k] = piece
      BY <1>1, <2>2
    <3>2. k > 1 => some # <<>> /\ more[k - 1] = Last(some)
      <4> SUFFICES ASSUME k > 1 PROVE some # <<>> /\ more[k - 1] = Last(some)
        OBVIOUS
      <4>1. k - 1 = Len(some) /\ Len(some) \in 1..Len(some) /\ Len(some) # 0
        BY <1>2, <2>2
      <4> QED
        BY <1>1, <4>1, Empty DEF Last
    <3> QED
      BY <3>1, <3>2
  <2> QED
    BY <1>2, <2>1, <2>2
<1>4. Last(more) = piece
  BY <1>1 DEF Last
<1>5. InSequence(more)
  BY <1>2, <1>3 DEF InSequence
<1> QED
  BY <1>4, <1>5 DEF more

LEMMA InText ==
    ASSUME NEW s \in Seq(Nat)
    PROVE  /\ Len(s) \in Nat /\ DOMAIN s = 1..Len(s)
           /\ \A k \in 1..Len(s) : s[k] \in Nat /\ (s[k] # 0 => s[k] \in TextOf(s))
           /\ \A d \in TextOf(s) : d \in Nat \ {0} /\ \E k \in 1..Len(s) : s[k] = d
<1>1. Len(s) \in Nat /\ DOMAIN s = 1..Len(s) /\ \A k \in 1..Len(s) : s[k] \in Nat
  BY LenProperties, ElementOfSeq
<1>2. \A d : d \in TextOf(s) <=> d # 0 /\ \E k \in DOMAIN s : s[k] = d
  BY DEF TextOf, Range
<1> QED
  BY <1>1, <1>2

\* The last character is the greatest.
LEMMA RunTop ==
    ASSUME NEW s \in Seq(Nat), Run(s), s # <<>>, s[Len(s)] # 0
    PROVE  \A d \in TextOf(s) : d <= s[Len(s)]
<1>1. /\ Len(s) \in Nat \ {0} /\ DOMAIN s = 1..Len(s) /\ Len(s) \in 1..Len(s)
      /\ \A k \in 1..Len(s) : s[k] \in Nat
  BY LenProperties, EmptySeq, ElementOfSeq
<1> SUFFICES ASSUME NEW d \in TextOf(s) PROVE d <= s[Len(s)]
  OBVIOUS
<1>2. PICK k \in 1..Len(s) : s[k] = d /\ d \in Nat \ {0} /\ k \in Nat /\ k <= Len(s)
  BY <1>1, InText
<1>3. CASE k = Len(s)
  BY <1>2, <1>3
<1>4. CASE k < Len(s)
  <2>1. s[k] < s[Len(s)]
    BY <1>1, <1>2, <1>4 DEF Run
  <2> QED
    BY <1>1, <1>2, <2>1
<1>5. k = Len(s) \/ k < Len(s)
  <2> DEFINE l == Len(s)
  <2>1. l \in Nat /\ k \in Nat /\ k <= l
    BY <1>1, <1>2
  <2> HIDE DEF l
  <2>2. k = l \/ k < l
    BY <2>1
  <2> QED
    BY <2>2 DEF l
<1> QED
  BY <1>2, <1>3, <1>4, <1>5

\* What a flush adds follows what is there, and ends where the paragraphs so far
\* end.
LEMMA FlushReads ==
    ASSUME FollowInv, ~Split, current # <<>>
    PROVE  /\ InSequence(Flushed)
           /\ Last(Flushed) \in Seq(Nat) /\ Last(Flushed) # <<>> /\ Run(Last(Flushed))
           /\ Last(Flushed)[Len(Last(Flushed))] = StartOf(para)
           /\ StartOf(para) \in Nat \ {0}
           /\ StartOf(para) \in TextOf(Last(Flushed))
           /\ \A d \in TextOf(Last(Flushed)) : d <= StartOf(para)
<1> DEFINE piece == Strip(current)
           last == Last(pieces)
           end == StartOf(para)
<1>1. /\ TextInv /\ Run(current) /\ InSequence(pieces)
      /\ (pieces # <<>> => Continues(current, last))
      /\ current \in Seq(Nat) /\ pieces \in Seq(Seq(Nat))
  BY DEF FollowInv, ReadsOn, TextInv, ChunkInv, ChunkTypes
<1>2. /\ Len(current) \in Nat \ {0} /\ DOMAIN current = 1..Len(current)
      /\ current[Len(current)] = end /\ Last(current) = end /\ end \in Nat \ {0}
  <2>1. /\ Len(current) \in Nat /\ DOMAIN current = 1..Len(current) /\ Len(current) >= 1
        /\ current[Len(current)] = end /\ Last(current) # 0 /\ end \in Nat
    BY <1>1, Position
  <2> QED
    BY <2>1 DEF Last
<1>3. piece \in Seq(Nat) /\ Flushed = Append(pieces, piece)
  BY <1>1, FlushIs
<1>4. PICK a \in 1..Len(current) :
            /\ current[a] # 0 /\ \A k \in 1..(a - 1) : current[k] = 0
            /\ Len(piece) = Len(current) - a + 1
            /\ \A i \in 1..(Len(current) - a + 1) : piece[i] = current[a + i - 1]
  BY <1>1, FlushIs
<1> HIDE DEF piece, last, end
<1>5. \A k \in 1..Len(current) : current[k] # 0 =>
          current[k] \in TextOf(piece) /\ k - a + 1 \in 1..Len(piece) /\ piece[k - a + 1] = current[k]
  <2> SUFFICES ASSUME NEW k \in 1..Len(current), current[k] # 0
               PROVE  /\ current[k] \in TextOf(piece) /\ k - a + 1 \in 1..Len(piece)
                      /\ piece[k - a + 1] = current[k]
    OBVIOUS
  <2>1. ~(k \in 1..(a - 1))
    BY <1>4
  <2>2. /\ k - a + 1 \in 1..(Len(current) - a + 1) /\ a + (k - a + 1) - 1 = k
    BY <1>2, <1>4, <2>1
  <2>3. piece[k - a + 1] = current[k] /\ k - a + 1 \in 1..Len(piece)
    BY <1>4, <2>2
  <2> QED
    BY <1>3, <2>3, InText
<1>6. end \in TextOf(piece) /\ piece[Len(piece)] = end /\ piece # <<>>
  <2>1. Len(current) \in 1..Len(current)
    BY <1>2
  <2>2. end \in TextOf(piece) /\ piece[Len(current) - a + 1] = end
    BY <1>2, <1>5, <2>1
  <2>3. Len(piece) # 0
    BY <1>2, <1>4
  <2> QED
    BY <1>4, <2>2, <2>3, Empty
<1>7. Run(piece)
  <2>1. a - 1 \in Nat /\ Len(piece) + (a - 1) <= Len(current)
    BY <1>2, <1>4
  <2>2. \A k \in 1..Len(piece) : piece[k] = current[(a - 1) + k]
    <3> SUFFICES ASSUME NEW k \in 1..Len(piece) PROVE piece[k] = current[(a - 1) + k]
      OBVIOUS
    <3>1. k \in 1..(Len(current) - a + 1) /\ a + k - 1 = (a - 1) + k
      BY <1>2, <1>4
    <3> QED
      BY <1>4, <3>1
  <2> QED
    BY <1>1, <1>3, <2>1, <2>2, RunSub
<1>8. pieces # <<>> => Follows(piece, last)
  <2> SUFFICES ASSUME pieces # <<>> PROVE Follows(piece, last)
    OBVIOUS
  <2>1. Continues(current, last)
    BY <1>1
  <2>2. PICK k \in {1, 2} \cap DOMAIN current, d \in TextOf(last) :
            current[k] # 0 /\ current[k] <= d + 1
    BY <2>1 DEF Continues
  <2>3. \A e \in TextOf(last) : e < end
    BY <1>2, <2>1 DEF Continues
  <2>4. current[k] \in TextOf(piece)
    BY <1>2, <1>5, <2>2
  <2>5. \A e \in TextOf(last) : end > e
    <3>1. pieces[Len(pieces)] \in Seq(Nat)
      <4>1. Len(pieces) \in 1..Len(pieces)
        BY <1>1, EmptySeq
      <4> QED
        BY <1>1, <4>1, ElementOfSeq
    <3>2. \A e \in TextOf(last) : e \in Nat
      BY <3>1, InText DEF last, Last
    <3> QED
      BY <1>2, <2>3, <3>2
  <2> QED
    BY <1>6, <2>2, <2>4, <2>5 DEF Follows
<1>9. TextOf(piece) # {}
  BY <1>6
<1>10. InSequence(Flushed) /\ Last(Flushed) = piece
  BY <1>1, <1>3, <1>7, <1>8, <1>9, InSequenceGrows DEF last
<1>11. \A d \in TextOf(piece) : d <= end
  <2>1. piece[Len(piece)] # 0
    BY <1>2, <1>6
  <2>2. \A d \in TextOf(piece) : d <= piece[Len(piece)]
    BY <1>3, <1>6, <1>7, <2>1, RunTop
  <2> QED
    BY <1>6, <2>2
<1> QED
  BY <1>2, <1>3, <1>6, <1>7, <1>10, <1>11 DEF end

\* The section stays the same, and what has been read of it reads on.
LEMMA SameRun ==
    ASSUME FollowInv, TextInv', ~Split, UNCHANGED <<sections, section, chunks>>, ReadsOn'
    PROVE  FollowInv'
<1>1. (\A k \in DOMAIN sections : Budget(sections[k]) > Overlap + 1)'
  BY DEF FollowInv, Budget
<1>2. ChunksFollow'
  BY DEF FollowInv, ChunksFollow
<1> QED
  BY <1>1, <1>2 DEF FollowInv

LEMMA CombineReads == ASSUME FollowInv, Combine PROVE FollowInv'
<1> DEFINE p == Paragraph(para)
           end == StartOf(para)
           n == Len(current)
           m == Len(p)
           last == Last(pieces)
<1>1. /\ ~Split /\ Paragraphs /\ UNCHANGED <<sections, section, pieces, chunks>>
      /\ TextInv /\ ChunkInv /\ TextInv'
      /\ Run(current) /\ InSequence(pieces) /\ (pieces # <<>> => Continues(current, last))
      /\ current \in Seq(Nat) /\ pieces \in Seq(Seq(Nat))
  <2>1. TextInv /\ ~Split
    BY DEF Combine, Paragraphs, FollowInv
  <2>2. TextInv'
    BY <2>1, CombineText
  <2> QED
    BY <2>1, <2>2 DEF FollowInv, ReadsOn, TextInv, ChunkInv, ChunkTypes, Combine
<1>2. /\ end \in Nat /\ p \in Seq(Nat) /\ m \in Nat \ {0} /\ \A k \in 1..m : p[k] = end + k
  <2>1. /\ Here.ends[para] \in Nat /\ end \in Nat /\ end < Here.ends[para]
        /\ p \in Seq(Nat) /\ m = Here.ends[para] - end
        /\ \A k \in 1..m : p[k] = end + k
    BY <1>1, ParagraphIsSeq
  <2> QED
    BY <2>1
<1>3. /\ n \in Nat /\ DOMAIN current = 1..n
      /\ current = <<>> => pieces = <<>>
      /\ current # <<>> => n >= 1 /\ current[n] = end /\ end # 0
  <2>1. /\ n \in Nat /\ DOMAIN current = 1..n
        /\ current = <<>> => pieces = <<>>
        /\ current # <<>> => n >= 1 /\ current[n] = end /\ Last(current) # 0
    BY <1>1, Position
  <2> QED
    BY <2>1 DEF Last
<1>4. current = <<>> => current' = p
  BY <1>1, CombineShape
<1>5. current # <<>> =>
          /\ current' \in Seq(Nat) /\ Len(current') = n + 1 + m
          /\ \A k \in 1..n : current'[k] = current[k]
          /\ current'[n + 1] = 0
          /\ \A k \in 1..m : current'[n + 1 + k] = p[k]
  BY <1>1, CombineShape
<1> HIDE DEF p, end, n, m, last
<1>6. Run(current')
  <2>1. CASE current = <<>>
    <3>1. Run(p)
      BY <1>2, RunOfNumbers DEF m
    <3> QED
      BY <1>4, <2>1, <3>1
  <2>2. CASE current # <<>>
    <3>1. /\ current \in Seq(Nat) /\ Run(current) /\ Len(current) = n /\ n \in Nat \ {0}
          /\ current[n] = end /\ end \in Nat \ {0}
      BY <1>1, <1>2, <1>3, <2>2 DEF n
    <3>2. /\ current' \in Seq(Nat) /\ Len(current') = n + 1 + m /\ current'[n + 1] = 0
          /\ \A k \in 1..n : current'[k] = current[k]
          /\ \A k \in 1..m : current'[n + 1 + k] = end + k
      BY <1>2, <1>5, <2>2
    <3>3. \A k \in 1..n : n - n + k = k
      BY <3>1
    <3>4. n + 1 + m - n - 1 = m /\ n + 1 <= n + 1 + m
      BY <1>2, <3>1
    <3>5. Joins(current, n, current')
      <4>1. \A k \in 1..n : current'[k] = current[Len(current) - n + k]
        BY <3>1, <3>2, <3>3
      <4>2. \A k \in 1..(Len(current') - n - 1) : current'[n + 1 + k] = current[Len(current)] + k
        <5>1. n \in Nat /\ m \in Nat /\ Len(current') = n + 1 + m
          BY <1>2, <3>1, <3>2
        <5>2. Len(current') - n - 1 = m
          BY <5>1
        <5>3. current[Len(current)] = end
          BY <3>1
        <5> QED
          BY <3>2, <5>2, <5>3
      <4>3. n <= Len(current) /\ n + 1 <= Len(current') /\ current[Len(current)] \in Nat \ {0}
        BY <3>1, <3>2, <3>4
      <4> QED
        BY <3>1, <3>2, <4>1, <4>2, <4>3 DEF Joins
    <3> QED
      BY <3>1, <3>2, <3>5, RunJoined
  <2> QED
    BY <2>1, <2>2
<1>7. pieces # <<>> => Continues(current', last)
  <2> SUFFICES ASSUME pieces # <<>> PROVE Continues(current', last)
    OBVIOUS
  <2>1. current # <<>> /\ Continues(current, last)
    BY <1>1, <1>3
  <2>2. /\ DOMAIN current' = 1..(n + 1 + m)
    BY <1>5, <2>1, LenProperties
  <2>3. PICK k \in {1, 2} \cap DOMAIN current, d \in TextOf(last) :
            current[k] # 0 /\ current[k] <= d + 1
    BY <2>1 DEF Continues
  <2>4. k \in {1, 2} \cap DOMAIN current' /\ current'[k] = current[k]
    BY <1>2, <1>3, <1>5, <2>1, <2>2, <2>3
  <2>5. \A e \in TextOf(last) : e < end /\ e \in Nat
    <3>1. last \in Seq(Nat)
      <4>1. Len(pieces) \in 1..Len(pieces)
        BY <1>1, EmptySeq
      <4> QED
        BY <1>1, <4>1, ElementOfSeq DEF last, Last
    <3>2. \A e \in TextOf(last) : e \in Nat
      BY <3>1, InText
    <3>3. Last(current) = end
      BY <1>3, <2>1 DEF Last, n
    <3> QED
      BY <2>1, <3>2, <3>3 DEF Continues
  <2>6. Last(current') = end + m
    <3>1. m \in 1..m
      BY <1>2
    <3>2. current'[n + 1 + m] = p[m] /\ p[m] = end + m
      BY <1>2, <1>5, <2>1, <3>1
    <3> QED
      BY <1>5, <2>1, <3>2 DEF Last
  <2>7. ASSUME NEW e \in TextOf(last)
        PROVE  /\ e < Last(current')
               /\ \A j \in (Overlap + 1)..Len(current') : current'[j] # 0 => e < current'[j]
    <3>1. e < end /\ e \in Nat
      BY <2>5
    <3>2. e < Last(current')
      BY <1>2, <2>6, <3>1
    <3>3. ASSUME NEW j \in (Overlap + 1)..(n + 1 + m), current'[j] # 0 PROVE e < current'[j]
      <4>0. Overlap \in Nat
        BY ChunkerAssumption
      <4>1. CASE j <= n
        <5>1. j \in (Overlap + 1)..Len(current) /\ j \in 1..n
          BY <1>3, <3>3, <4>0, <4>1 DEF n
        <5>2. current'[j] = current[j]
          BY <1>5, <2>1, <5>1
        <5> QED
          BY <2>1, <3>3, <5>1, <5>2 DEF Continues
      <4>2. CASE j > n
        <5>1. j # n + 1
          BY <1>5, <2>1, <3>3
        <5>2. j - n - 1 \in 1..m /\ n + 1 + (j - n - 1) = j
          BY <1>2, <1>3, <3>3, <4>0, <4>2, <5>1
        <5>3. current'[j] = end + (j - n - 1)
          BY <1>2, <1>5, <2>1, <5>2
        <5> QED
          BY <1>2, <3>1, <5>2, <5>3
      <4> QED
        BY <1>3, <4>0, <4>1, <4>2
    <3> QED
      BY <1>5, <2>1, <3>2, <3>3
  <2> QED
    BY <2>3, <2>4, <2>7 DEF Continues
<1>8. ReadsOn'
  BY <1>1, <1>6, <1>7 DEF ReadsOn, last
<1> QED
  BY <1>1, <1>8, SameRun

LEMMA BeginReads == ASSUME FollowInv, Begin PROVE FollowInv'
<1> DEFINE p == Paragraph(para)
           end == StartOf(para)
           m == Len(p)
           last == Last(Flushed)
<1>1. /\ ~Split /\ Paragraphs /\ UNCHANGED <<sections, section, chunks>> /\ pieces' = Flushed
      /\ TextInv /\ ChunkInv /\ TextInv'
  <2>1. TextInv /\ ~Split
    BY DEF Begin, Paragraphs, FollowInv
  <2>2. TextInv'
    BY <2>1, BeginText
  <2> QED
    BY <2>1, <2>2 DEF TextInv, Begin
<1>2. /\ end \in Nat /\ p \in Seq(Nat) /\ m \in Nat \ {0} /\ \A k \in 1..m : p[k] = end + k
      /\ DOMAIN p = 1..m
  <2>1. /\ Here.ends[para] \in Nat /\ end \in Nat /\ end < Here.ends[para]
        /\ p \in Seq(Nat) /\ m = Here.ends[para] - end
        /\ \A k \in 1..m : p[k] = end + k
    BY <1>1, ParagraphIsSeq
  <2> QED
    BY <2>1, LenProperties
<1>3. Run(p)
  BY <1>2, RunOfNumbers
<1>4. CASE current = <<>>
  <2>1. pieces' = <<>>
    BY <1>1, <1>4, FlushIs
  <2>2. current' = p
    BY <1>1, <2>1, BeginShape
  <2>3. InSequence(<<>>)
    BY Empty DEF InSequence
  <2>4. ReadsOn'
    <3> HIDE DEF p
    <3> QED
      BY <1>3, <2>1, <2>2, <2>3 DEF ReadsOn
  <2> QED
    BY <1>1, <2>4, SameRun
<1>5. CASE current # <<>>
  <2>1. /\ InSequence(Flushed)
        /\ last \in Seq(Nat) /\ last # <<>> /\ Run(last) /\ last[Len(last)] = end
        /\ end \in Nat \ {0} /\ end \in TextOf(last)
        /\ \A d \in TextOf(last) : d <= end
    BY <1>1, <1>5, FlushReads
  <2>2. Len(last) \in Nat /\ DOMAIN last = 1..Len(last) /\ \A d \in TextOf(last) : d \in Nat
    BY <2>1, InText
  <2>3. \/ current' = p
        \/ \E n \in 1..Overlap :
              /\ n <= Len(last)
              /\ current' \in Seq(Nat)
              /\ Len(current') = n + 1 + m
              /\ \A k \in 1..n : current'[k] = last[Len(last) - n + k]
              /\ current'[1] # 0
              /\ current'[n + 1] = 0
              /\ \A k \in 1..m : current'[n + 1 + k] = p[k]
    BY <1>1, BeginShape
  <2>4. Overlap \in Nat
    BY ChunkerAssumption
  <2> HIDE DEF p, end, m, last
  <2>5. CASE current' = p
    <3>1. 1 \in {1, 2} \cap DOMAIN p /\ p[1] = end + 1 /\ p[1] # 0
      BY <1>2, <2>1
    <3>2. Last(p) = end + m
      <4>1. m \in 1..m
        BY <1>2
      <4> QED
        BY <1>2, <4>1 DEF Last, m
    <3>3. ASSUME NEW d \in TextOf(last)
          PROVE  d < Last(p) /\ \A k \in (Overlap + 1)..m : p[k] # 0 => d < p[k]
      <4>1. d \in Nat /\ d <= end
        BY <2>1, <2>2
      <4>2. ASSUME NEW k \in (Overlap + 1)..m PROVE d < p[k]
        <5>1. k \in 1..m
          BY <1>2, <2>4
        <5>2. p[k] = end + k
          BY <1>2, <5>1
        <5> QED
          BY <1>2, <4>1, <5>1, <5>2
      <4> QED
        BY <1>2, <3>2, <4>1, <4>2
    <3>4. Continues(p, last)
      BY <2>1, <3>1, <3>3 DEF Continues, m
    <3>5. ReadsOn'
      BY <1>1, <1>3, <2>1, <2>5, <3>4 DEF ReadsOn, last
    <3> QED
      BY <1>1, <3>5, SameRun
  <2>6. CASE current' # p
    <3>1. PICK n \in 1..Overlap :
              /\ n <= Len(last)
              /\ current' \in Seq(Nat)
              /\ Len(current') = n + 1 + m
              /\ \A k \in 1..n : current'[k] = last[Len(last) - n + k]
              /\ current'[1] # 0
              /\ current'[n + 1] = 0
              /\ \A k \in 1..m : current'[n + 1 + k] = p[k]
      BY <2>3, <2>6
    <3>2. /\ n \in Nat \ {0} /\ n <= Overlap /\ DOMAIN current' = 1..(n + 1 + m)
      BY <2>4, <3>1, LenProperties
    <3>3. Run(current')
      <4>1. n \in Nat /\ m \in Nat /\ Len(current') = n + 1 + m
        BY <1>2, <3>1, <3>2
      <4>2. Len(current') - n - 1 = m /\ n + 1 <= Len(current')
        BY <4>1
      <4>3. \A k \in 1..m : current'[n + 1 + k] = end + k
        BY <1>2, <3>1
      <4>4. \A k \in 1..(Len(current') - n - 1) : current'[n + 1 + k] = last[Len(last)] + k
        BY <2>1, <4>2, <4>3
      <4>5. Joins(last, n, current')
        BY <2>1, <3>1, <3>2, <4>2, <4>4 DEF Joins
      <4> QED
        BY <2>1, <3>1, <4>5, RunJoined
    <3>4. \E k \in {1, 2} \cap DOMAIN current' :
              current'[k] # 0 /\ \E d \in TextOf(last) : current'[k] <= d + 1
      <4>1. 1 \in 1..n /\ 1 \in DOMAIN current'
        BY <1>2, <3>2
      <4>2. Len(last) - n + 1 \in 1..Len(last)
        BY <2>2, <3>1, <3>2
      <4>3. current'[1] = last[Len(last) - n + 1]
        BY <3>1, <4>1
      <4>4. current'[1] \in TextOf(last)
        BY <2>1, <3>1, <4>2, <4>3, InText
      <4>5. current'[1] \in Nat
        BY <2>2, <4>4
      <4>6. current'[1] <= current'[1] + 1
        BY <4>5
      <4> QED
        BY <3>1, <4>1, <4>4, <4>6
    <3>5. Last(current') = end + m
      <4>1. m \in 1..m
        BY <1>2
      <4>2. current'[n + 1 + m] = p[m] /\ p[m] = end + m
        BY <1>2, <3>1, <4>1
      <4> QED
        BY <3>1, <4>2 DEF Last
    <3>6. ASSUME NEW d \in TextOf(last)
          PROVE  /\ d < Last(current')
                 /\ \A k \in (Overlap + 1)..Len(current') : current'[k] # 0 => d < current'[k]
      <4>1. d \in Nat /\ d <= end
        BY <2>1, <2>2
      <4>2. ASSUME NEW k \in (Overlap + 1)..(n + 1 + m), current'[k] # 0 PROVE d < current'[k]
        <5>1. k # n + 1
          BY <3>1, <4>2
        <5>2. k - n - 1 \in 1..m /\ n + 1 + (k - n - 1) = k
          BY <1>2, <2>4, <3>2, <5>1
        <5>3. current'[k] = end + (k - n - 1)
          BY <1>2, <3>1, <5>2
        <5> QED
          BY <1>2, <4>1, <5>2, <5>3
      <4>3. d < Last(current')
        BY <1>2, <3>5, <4>1
      <4> QED
        BY <3>1, <4>2, <4>3
    <3>7. Continues(current', last)
      BY <3>4, <3>6 DEF Continues
    <3>8. ReadsOn'
      BY <1>1, <2>1, <3>3, <3>7 DEF ReadsOn, last
    <3> QED
      BY <1>1, <3>8, SameRun
  <2> QED
    BY <2>5, <2>6
<1> QED
  BY <1>4, <1>5

\* A run longer than a cut: past the cut comes no more than the next character.
LEMMA AcrossCut ==
    ASSUME NEW s \in Seq(Nat), Run(s), s[Len(s)] # 0,
           NEW cut \in Nat, cut >= 2, cut < Len(s)
    PROVE  /\ \E k \in 1..cut : /\ s[k] # 0 /\ k >= cut - 1
                                /\ s[cut + 1] # 0 => s[cut + 1] = s[k] + 1
                                /\ s[cut + 1] = 0 => cut + 2 <= Len(s) /\ s[cut + 2] = s[k] + 1
<1>1. Len(s) \in Nat /\ DOMAIN s = 1..Len(s)
  BY LenProperties
<1>2. cut \in 2..Len(s) /\ cut + 1 \in 2..Len(s) /\ cut + 1 \in 3..Len(s)
  BY <1>1
<1>3. (cut + 1) - 1 = cut /\ (cut + 1) - 2 = cut - 1
  OBVIOUS
<1>4. s[cut] # 0 \/ s[cut - 1] # 0
  BY <1>2 DEF Run
<1>5. IF s[cut + 1] = 0 THEN s[cut] # 0 ELSE s[cut] = 0 \/ s[cut + 1] = s[cut] + 1
  BY <1>2, <1>3 DEF Run
<1>6. s[cut] = 0 => s[cut + 1] = s[cut - 1] + 1
  BY <1>2, <1>3 DEF Run
<1>7. s[cut + 1] = 0 => cut + 2 <= Len(s) /\ s[cut + 2] = s[cut] + 1
  <2> SUFFICES ASSUME s[cut + 1] = 0 PROVE cut + 2 <= Len(s) /\ s[cut + 2] = s[cut] + 1
    OBVIOUS
  <2>1. cut + 1 # Len(s)
    OBVIOUS
  <2>2. cut + 2 <= Len(s)
    <3> DEFINE l == Len(s)
    <3>1. l \in Nat /\ cut < l /\ cut + 1 # l
      BY <1>1, <2>1
    <3> HIDE DEF l
    <3>2. cut + 2 <= l
      BY <3>1
    <3> QED
      BY <3>2 DEF l
  <2>3. PICK j \in 3..Len(s) : j = cut + 2 /\ j - 1 = cut + 1 /\ j - 2 = cut
    BY <1>1, <2>2
  <2>4. s[j] = s[j - 2] + 1
    BY <2>3 DEF Run
  <2> QED
    BY <2>2, <2>3, <2>4
<1>8. CASE s[cut] # 0
  <2>1. cut \in 1..cut /\ cut >= cut - 1
    OBVIOUS
  <2> QED
    BY <1>5, <1>7, <1>8, <2>1
<1>9. CASE s[cut] = 0
  <2>1. cut - 1 \in 1..cut /\ cut - 1 >= cut - 1
    OBVIOUS
  <2> QED
    BY <1>4, <1>5, <1>6, <1>9, <2>1
<1> QED
  BY <1>8, <1>9

LEMMA HardSplitReads == ASSUME FollowInv, HardSplit PROVE FollowInv'
<1> DEFINE len == Len(current)
           o == Room - Overlap
           last == Last(pieces)
<1>1. /\ ~Split /\ UNCHANGED <<sections, section, para, chunks>>
      /\ TextInv /\ ChunkInv /\ TextInv'
      /\ Run(current) /\ InSequence(pieces) /\ (pieces # <<>> => Continues(current, last))
      /\ current \in Seq(Nat) /\ pieces \in Seq(Seq(Nat)) /\ current' \in Seq(Nat)
  <2>1. TextInv /\ ~Split
    BY DEF HardSplit, FollowInv
  <2>2. TextInv'
    BY <2>1, HardSplitText
  <2> QED
    BY <2>1, <2>2 DEF FollowInv, ReadsOn, TextInv, ChunkInv, ChunkTypes, HardSplit
<1>2. /\ Overlap \in Nat /\ len \in Nat /\ len > Room /\ DOMAIN current = 1..len
      /\ Room \in Int
      /\ Len(current') = len - Room + Overlap /\ DOMAIN current' = 1..Len(current')
      /\ \A k \in 1..(len - Room + Overlap) : current'[k] = current[o + k]
  BY <1>1, HardSplitShape
<1>3. PICK piece \in Seq(Nat) :
          /\ Len(piece) = Room /\ DOMAIN piece = 1..Room
          /\ \A k \in 1..Room : piece[k] = current[k]
          /\ pieces' = Append(pieces, piece)
  BY <1>1, HardSplitShape
<1>4. Room \in Nat /\ Room >= Overlap + 2 /\ Room >= 2 /\ o \in Nat /\ o >= 2 /\ o = Room - Overlap
  <2>1. section \in DOMAIN sections /\ Room \in Int
    BY <1>1, AtSection
  <2>2. Room > Overlap + 1
    BY <2>1 DEF FollowInv, Room, Here
  <2> QED
    BY <1>2, <2>1, <2>2
<1>5. current # <<>> /\ current[len] # 0
  <2>1. current # <<>>
    BY <1>2, <1>4, Empty
  <2> QED
    BY <1>1, <2>1, Position DEF Last
<1> HIDE DEF len, o, last
<1>6. Run(piece)
  <2> DEFINE z == 0
  <2>1. z \in Nat /\ Len(piece) + z <= Len(current) /\ \A k \in 1..Room : z + k = k
    BY <1>2, <1>3, <1>4 DEF len
  <2> HIDE DEF z
  <2>2. \A k \in 1..Len(piece) : piece[k] = current[z + k]
    BY <1>3, <2>1
  <2> QED
    BY <1>1, <1>3, <2>1, <2>2, RunSub
<1>7. Run(current')
  <2>1. Len(current') + o <= Len(current)
    BY <1>2, <1>4 DEF len
  <2>2. \A k \in 1..Len(current') : current'[k] = current[o + k]
    BY <1>2
  <2> QED
    BY <1>1, <1>4, <2>1, <2>2, RunSub
<1>8. \A k \in 1..Room : current[k] # 0 => current[k] \in TextOf(piece)
  BY <1>3, InText
<1>9. \A d \in TextOf(piece) : d \in Nat /\ \E k \in 1..Room : current[k] = d /\ current[k] # 0
  <2> SUFFICES ASSUME NEW d \in TextOf(piece)
               PROVE  d \in Nat /\ \E k \in 1..Room : current[k] = d /\ current[k] # 0
    OBVIOUS
  <2>1. d \in Nat \ {0} /\ \E k \in 1..Room : piece[k] = d
    BY <1>3, InText
  <2> QED
    BY <1>3, <2>1
<1>10. \A k \in 1..(len - 1) : current[k] # 0 \/ current[k + 1] # 0
  <2> SUFFICES ASSUME NEW k \in 1..(len - 1) PROVE current[k] # 0 \/ current[k + 1] # 0
    OBVIOUS
  <2>1. PICK j \in 2..Len(current) : j = k + 1 /\ j - 1 = k
    BY <1>2 DEF len
  <2> QED
    BY <1>1, <2>1 DEF Run
<1>11. TextOf(piece) # {}
  <2>1. 1 \in 1..(len - 1) /\ 1 \in 1..Room /\ 1 + 1 \in 1..Room
    BY <1>2, <1>4
  <2> QED
    BY <1>8, <1>10, <2>1
<1>12. pieces # <<>> => Follows(piece, last)
  <2> SUFFICES ASSUME pieces # <<>> PROVE Follows(piece, last)
    OBVIOUS
  <2>1. Continues(current, last)
    BY <1>1
  <2>2. last \in Seq(Nat)
    <3>1. Len(pieces) \in 1..Len(pieces)
      BY <1>1, EmptySeq
    <3> QED
      BY <1>1, <3>1, ElementOfSeq DEF last, Last
  <2>3. \A d \in TextOf(last) : d \in Nat
    BY <2>2, InText
  <2>4. PICK k \in {1, 2} \cap DOMAIN current, d \in TextOf(last) :
            current[k] # 0 /\ current[k] <= d + 1
    BY <2>1 DEF Continues
  <2>5. k \in 1..Room
    BY <1>4, <2>4
  <2>6. current[k] \in TextOf(piece)
    BY <1>8, <2>4, <2>5
  <2>7. PICK j \in (Overlap + 1)..Room : current[j] # 0
    <3>1. /\ Overlap + 1 \in 1..(len - 1) /\ Overlap + 1 + 1 = Overlap + 2
          /\ Overlap + 1 \in (Overlap + 1)..Room /\ Overlap + 2 \in (Overlap + 1)..Room
      BY <1>2, <1>4
    <3> QED
      BY <1>10, <3>1
  <2>8. j \in 1..Room /\ j \in (Overlap + 1)..Len(current)
    BY <1>2, <1>4, <2>7 DEF len
  <2>9. current[j] \in TextOf(piece) /\ current[j] \in Nat
    BY <1>8, <1>9, <2>7, <2>8
  <2>10. \A e \in TextOf(last) : e < current[j]
    BY <2>1, <2>7, <2>8 DEF Continues
  <2>11. \A e \in TextOf(last) : current[j] > e
    BY <2>3, <2>9, <2>10
  <2> QED
    BY <2>4, <2>6, <2>9, <2>11 DEF Follows
<1>13. InSequence(pieces') /\ Last(pieces') = piece
  BY <1>1, <1>3, <1>6, <1>11, <1>12, InSequenceGrows DEF last
<1>14. \E k \in {1, 2} \cap DOMAIN current' :
           current'[k] # 0 /\ \E d \in TextOf(piece) : current'[k] <= d + 1
  <2>1. PICK q \in 1..Room :
            /\ current[q] # 0
            /\ current[Room + 1] # 0 => current[Room + 1] = current[q] + 1
            /\ current[Room + 1] = 0 => Room + 2 <= len /\ current[Room + 2] = current[q] + 1
    <3>1. current[Len(current)] # 0 /\ Room < Len(current)
      BY <1>2, <1>5 DEF len
    <3> QED
      BY <1>1, <1>4, <3>1, AcrossCut DEF len
  <2>2. current[q] \in TextOf(piece) /\ current[q] \in Nat
    BY <1>8, <1>9, <2>1
  <2>3. \A j \in 1..Room : current[j] # 0 => \E d \in TextOf(piece) : current[j] <= d + 1
    <3> SUFFICES ASSUME NEW j \in 1..Room, current[j] # 0
                 PROVE  \E d \in TextOf(piece) : current[j] <= d + 1
      OBVIOUS
    <3>1. current[j] \in TextOf(piece) /\ current[j] \in Nat
      BY <1>8, <1>9
    <3>2. current[j] <= current[j] + 1
      BY <3>1
    <3> QED
      BY <3>1, <3>2
  <2>4. current[q] + 1 <= current[q] + 1
    BY <2>2
  <2>5. 1 \in DOMAIN current' /\ current'[1] = current[o + 1]
    BY <1>2, <1>4
  <2>6. CASE current[o + 1] # 0
    <3>1. \E d \in TextOf(piece) : current[o + 1] <= d + 1
      <4>1. CASE Overlap = 0
        <5>1. o + 1 = Room + 1
          BY <1>4, <4>1
        <5> QED
          BY <2>1, <2>2, <2>4, <2>6, <5>1
      <4>2. CASE Overlap # 0
        <5>1. o + 1 \in 1..Room
          BY <1>2, <1>4, <4>2
        <5> QED
          BY <2>3, <2>6, <5>1
      <4> QED
        BY <4>1, <4>2
    <3>2. 1 \in {1, 2} \cap DOMAIN current'
      BY <2>5
    <3> QED
      BY <2>5, <2>6, <3>1, <3>2
  <2>7. CASE current[o + 1] = 0
    <3>1. o + 1 # len
      BY <1>5, <2>7
    <3>2. o + 1 \in 1..(len - 1) /\ o + 1 + 1 = o + 2
      BY <1>2, <1>4, <3>1
    <3>3. current[o + 2] # 0
      BY <1>10, <2>7, <3>2
    <3>4. 2 \in DOMAIN current' /\ current'[2] = current[o + 2]
      <4>1. 2 \in 1..(len - Room + Overlap)
        BY <1>2, <1>4, <3>2
      <4> QED
        BY <1>2, <4>1
    <3>5. \E d \in TextOf(piece) : current[o + 2] <= d + 1
      <4>1. CASE Overlap = 0
        <5>1. o + 1 = Room + 1 /\ o + 2 = Room + 2
          BY <1>4, <4>1
        <5> QED
          BY <2>1, <2>2, <2>4, <2>7, <5>1
      <4>2. CASE Overlap = 1
        <5>1. o + 2 = Room + 1
          BY <1>4, <4>2
        <5> QED
          BY <2>1, <2>2, <2>4, <3>3, <5>1
      <4>3. CASE Overlap >= 2
        <5>1. o + 2 \in 1..Room
          BY <1>2, <1>4, <4>3
        <5> QED
          BY <2>3, <3>3, <5>1
      <4> QED
        BY <1>2, <4>1, <4>2, <4>3
    <3>6. 2 \in {1, 2} \cap DOMAIN current'
      BY <3>4
    <3> QED
      BY <3>3, <3>4, <3>5, <3>6
  <2> QED
    BY <2>6, <2>7
<1>15. ASSUME NEW d \in TextOf(piece)
       PROVE  /\ d < Last(current')
              /\ \A k \in (Overlap + 1)..Len(current') : current'[k] # 0 => d < current'[k]
  <2>1. PICK i \in 1..Room : current[i] = d /\ current[i] # 0
    BY <1>9
  <2>2. \A j \in 1..len : j > Room /\ current[j] # 0 => d < current[j]
    <3> SUFFICES ASSUME NEW j \in 1..len, j > Room, current[j] # 0 PROVE d < current[j]
      OBVIOUS
    <3>1. i \in DOMAIN current /\ j \in DOMAIN current /\ i < j
      BY <1>2, <1>4, <2>1
    <3> QED
      BY <1>1, <2>1, <3>1 DEF Run
  <2>3. \A k \in 1..Len(current') : k > Overlap /\ current'[k] # 0 => d < current'[k]
    <3> SUFFICES ASSUME NEW k \in 1..Len(current'), k > Overlap, current'[k] # 0 PROVE d < current'[k]
      OBVIOUS
    <3>1. o + k \in 1..len /\ o + k > Room /\ k \in 1..(len - Room + Overlap)
      BY <1>2, <1>4
    <3>2. current'[k] = current[o + k]
      BY <1>2, <3>1
    <3> QED
      BY <2>2, <3>1, <3>2
  <2>4. d < Last(current')
    <3>1. /\ Len(current') \in 1..(len - Room + Overlap) /\ o + Len(current') = len
          /\ len > Room /\ len \in 1..len
      BY <1>2, <1>4
    <3>2. current'[Len(current')] = current[len]
      BY <1>2, <3>1
    <3> QED
      BY <1>5, <2>2, <3>1, <3>2 DEF Last
  <2>5. \A k \in (Overlap + 1)..Len(current') : k \in 1..Len(current') /\ k > Overlap
    BY <1>2, <1>4
  <2> QED
    BY <2>3, <2>4, <2>5
<1>16. Continues(current', piece)
  BY <1>14, <1>15 DEF Continues
<1>17. ReadsOn'
  BY <1>7, <1>13, <1>16 DEF ReadsOn
<1> QED
  BY <1>1, <1>17, SameRun

LEMMA EndSectionReads == ASSUME FollowInv, EndSection PROVE FollowInv'
<1>1. /\ ~Split /\ section' = section + 1 /\ sections' = sections
      /\ pieces' = <<>> /\ current' = <<>>
      /\ TextInv /\ ChunkInv /\ TextInv' /\ InSequence(pieces)
  <2>1. TextInv /\ ~Split
    BY DEF EndSection, FollowInv
  <2>2. TextInv'
    BY <2>1, EndSectionText
  <2> QED
    BY <2>1, <2>2 DEF FollowInv, ReadsOn, TextInv, EndSection
<1> DEFINE l == Len(chunks)
           n == Len(Flushed)
<1>2. /\ l \in Nat /\ DOMAIN chunks = 1..l
      /\ n \in Nat /\ DOMAIN Flushed = 1..n
      /\ Flushed \in Seq(Seq(Nat))
      /\ DOMAIN chunks' = 1..(l + n)
      /\ \A i \in 1..l : chunks'[i] = chunks[i]
      /\ \A i \in 1..n :
            chunks'[l + i] = [section |-> section, piece |-> Flushed[i]]
  BY <1>1, ChunksGrow
<1> HIDE DEF l, n
<1>3. InSequence(Flushed)
  <2>1. CASE current = <<>>
    <3>1. Flushed = <<>>
      BY <1>1, <2>1, FlushIs
    <3> QED
      BY <3>1, Empty DEF InSequence
  <2>2. CASE current # <<>>
    BY <1>1, <2>2, FlushReads
  <2> QED
    BY <2>1, <2>2
<1>4. \A i \in 1..l : chunks[i].section # section
  <2>1. \A i \in 1..l : chunks[i].section \in 1..(section - 1)
    BY <1>1, <1>2 DEF ChunkInv
  <2>2. section \in Nat
    BY <1>1 DEF ChunkInv, ChunkTypes
  <2> QED
    BY <2>1, <2>2
<1>5. ASSUME NEW i \in DOMAIN chunks'
      PROVE  /\ TextOf(chunks'[i].piece) # {}
             /\ Gapless(chunks'[i].piece)
             /\ i > 1 /\ chunks'[i - 1].section = chunks'[i].section =>
                    Follows(chunks'[i].piece, chunks'[i - 1].piece)
  <2>1. CASE i <= l
    <3>1. i \in DOMAIN chunks /\ chunks'[i] = chunks[i]
      BY <1>2, <2>1
    <3>2. i > 1 => chunks'[i - 1] = chunks[i - 1]
      <4>1. i > 1 => i - 1 \in 1..l
        BY <1>2, <3>1
      <4> QED
        BY <1>2, <4>1
    <3> QED
      BY <3>1, <3>2 DEF FollowInv, ChunksFollow
  <2>2. CASE i > l
    <3>0. i \in 1..(l + n) /\ l \in Nat /\ n \in Nat
      BY <1>2
    <3>1. PICK j \in 1..n : j \in Int /\ l + j = i
      <4>1. i - l \in 1..n /\ i - l \in Int /\ l + (i - l) = i
        BY <2>2, <3>0
      <4> QED
        BY <4>1
    <3>2. chunks'[i].section = section /\ chunks'[i].piece = Flushed[j]
      <4>1. chunks'[l + j] = [section |-> section, piece |-> Flushed[j]]
        BY <1>2, <3>1
      <4> QED
        BY <3>1, <4>1
    <3>3. /\ Run(Flushed[j]) /\ TextOf(Flushed[j]) # {}
          /\ j > 1 => Follows(Flushed[j], Flushed[j - 1])
      BY <1>2, <1>3, <3>1 DEF InSequence
    <3>4. Gapless(Flushed[j])
      <4>1. Flushed[j] \in Seq(Nat)
        BY <1>2, <3>1, ElementOfSeq
      <4> QED
        BY <3>3, <4>1, RunGapless
    <3>5. i > 1 /\ chunks'[i - 1].section = chunks'[i].section =>
              Follows(chunks'[i].piece, chunks'[i - 1].piece)
      <4>1. CASE j = 1
        <5>1. i > 1 => i - 1 \in 1..l
          BY <3>0, <3>1, <4>1
        <5>2. i > 1 => chunks'[i - 1].section # section
          BY <1>2, <1>4, <5>1
        <5> QED
          BY <3>2, <5>2
      <4>2. CASE j # 1
        <5>1. j - 1 \in 1..n /\ l + (j - 1) = i - 1 /\ j > 1
          BY <3>0, <3>1, <4>2
        <5>2. chunks'[i - 1].piece = Flushed[j - 1]
          <6>1. chunks'[l + (j - 1)] = [section |-> section, piece |-> Flushed[j - 1]]
            BY <1>2, <5>1
          <6> QED
            BY <5>1, <6>1
        <5> QED
          BY <3>2, <3>3, <5>1, <5>2
      <4> QED
        BY <4>1, <4>2
    <3> QED
      BY <3>2, <3>3, <3>4, <3>5
  <2> QED
    BY <1>2, <2>1, <2>2
<1>6. ChunksFollow'
  BY <1>5 DEF ChunksFollow
<1>7. ReadsOn'
  <2>1. Run(<<>>) /\ InSequence(<<>>)
    <3>1. 2..0 = {} /\ 3..0 = {}
      OBVIOUS
    <3> QED
      BY <3>1, Empty DEF Run, InSequence
  <2> QED
    BY <1>1, <2>1 DEF ReadsOn
<1>8. (\A k \in DOMAIN sections : Budget(sections[k]) > Overlap + 1)'
  BY <1>1 DEF FollowInv, Budget
<1> QED
  BY <1>1, <1>6, <1>7, <1>8 DEF FollowInv

LEMMA ReadsStep == ASSUME FollowInv, ChunkerNext PROVE FollowInv'
BY CombineReads, BeginReads, HardSplitReads, EndSectionReads DEF ChunkerNext

LEMMA ReadsStutter == ASSUME FollowInv, UNCHANGED chunkerVars PROVE FollowInv'
<1>1. TextInv'
  BY TextStutter DEF FollowInv
<1>2. (~Split => ReadsOn)'
  BY DEF FollowInv, Split, ReadsOn, chunkerVars
<1>3. ChunksFollow' /\ (\A k \in DOMAIN sections : Budget(sections[k]) > Overlap + 1)'
  BY DEF FollowInv, ChunksFollow, Budget, chunkerVars
<1> QED
  BY <1>1, <1>2, <1>3 DEF FollowInv

LEMMA ReadsStart ==
    ASSUME NEW parsed, \A k \in DOMAIN parsed : Budget(parsed[k]) > Overlap + 1,
           TextInv', ChunkerStart(parsed)
    PROVE  FollowInv'
<1>1. sections' = parsed /\ pieces' = <<>> /\ current' = <<>> /\ chunks' = <<>>
  BY DEF ChunkerStart
<1>2. ReadsOn'
  <2>1. Run(<<>>) /\ InSequence(<<>>)
    <3>1. 2..0 = {} /\ 3..0 = {}
      OBVIOUS
    <3> QED
      BY <3>1, Empty DEF Run, InSequence
  <2> QED
    BY <1>1, <2>1 DEF ReadsOn
<1>3. ChunksFollow'
  BY <1>1, Empty DEF ChunksFollow
<1>4. (\A k \in DOMAIN sections : Budget(sections[k]) > Overlap + 1)'
  BY <1>1 DEF Budget
<1> QED
  BY <1>2, <1>3, <1>4 DEF FollowInv

-----------------------------------------------------------------------------
(* embed_texts.                                                            *)

LEMMA EmbedStarts ==
    ASSUME EmbedInv, NEW list \in Seq(Texts), Embed(list) PROVE EmbedInv'
<1> USE DEF EmbedInv, Embed
<1>1. CacheIsTrue'
  BY DEF CacheIsTrue
<1>2. VectorsMatch'
  BY DEF VectorsMatch
<1> QED
  BY <1>1, <1>2

LEMMA MGetInv == ASSUME EmbedInv, MGet PROVE EmbedInv'
<1> USE DEF EmbedInv, MGet
<1>1. CacheIsTrue'
  BY DEF CacheIsTrue
<1>2. \A i \in DOMAIN texts : texts[i] \in Texts
  BY LenProperties, ElementOfSeq
<1>3. \A i \in DOMAIN texts : cache[texts[i]] \in {NoVector, texts[i]}
                              /\ cache[texts[i]] \in Texts \cup {NoVector}
  BY <1>2 DEF CacheIsTrue
<1>4. /\ result' = [i \in DOMAIN texts |-> cache[texts[i]]]
      /\ texts' = texts /\ cache' = cache
      /\ at' \in {"batch", "done"}
      /\ at' = "done" => \A i \in DOMAIN texts : result'[i] # NoVector
  OBVIOUS
<1>5. VectorsMatch'
  <2> SUFFICES ASSUME at' = "done" PROVE result' = texts
    BY <1>4 DEF VectorsMatch
  <2>1. \A i \in DOMAIN texts : result'[i] = texts[i]
    BY <1>3, <1>4
  <2>2. texts = [i \in DOMAIN texts |-> texts[i]]
    BY LenProperties
  <2> QED
    BY <1>4, <2>1, <2>2
<1> QED
  BY <1>1, <1>3, <1>4, <1>5

LEMMA CachedIsTrue ==
    ASSUME EmbedInv, cache' = Cached \/ cache' = cache
    PROVE  CacheIsTrue' /\ cache' \in [Texts -> Texts \cup {NoVector}]
BY DEF EmbedInv, CacheIsTrue, Cached

LEMMA StoreBatchInv == ASSUME EmbedInv, StoreBatch PROVE EmbedInv'
<1> USE DEF EmbedInv, StoreBatch
<1>1. CacheIsTrue' /\ cache' \in [Texts -> Texts \cup {NoVector}]
  BY CachedIsTrue
<1>2. /\ result \in [DOMAIN texts -> Texts \cup {NoVector}]
      /\ \A i \in DOMAIN texts : result[i] \in {NoVector, texts[i]} /\ texts[i] \in Texts
  BY LenProperties, ElementOfSeq
<1>3. /\ result' = [i \in DOMAIN texts |-> IF i \in Batch THEN texts[i] ELSE result[i]]
      /\ texts' = texts /\ at' \in {"batch", "done"}
      /\ at' = "done" => Missing = Batch
  BY DEF AfterBatch
<1>4. \A i \in DOMAIN texts : result'[i] \in {NoVector, texts[i]}
                              /\ result'[i] \in Texts \cup {NoVector}
  BY <1>2, <1>3
<1>5. VectorsMatch'
  <2> SUFFICES ASSUME at' = "done" PROVE result' = texts
    BY <1>3 DEF VectorsMatch
  <2>1. \A i \in DOMAIN texts : result'[i] = texts[i]
    BY <1>2, <1>3 DEF Missing
  <2>2. texts = [i \in DOMAIN texts |-> texts[i]]
    BY LenProperties
  <2> QED
    BY <1>3, <2>1, <2>2
<1> QED
  BY <1>1, <1>3, <1>4, <1>5

LEMMA EmbedFailsInv == ASSUME EmbedInv, EmbedFails PROVE EmbedInv'
<1> USE DEF EmbedInv, EmbedFails
<1>1. CacheIsTrue' /\ cache' \in [Texts -> Texts \cup {NoVector}]
  BY CachedIsTrue
<1> QED
  BY <1>1 DEF VectorsMatch

LEMMA CacheChangesInv == ASSUME EmbedInv, CacheChanges PROVE EmbedInv'
<1> USE DEF EmbedInv, CacheChanges
<1>1. PICK t \in Texts : cache' = [cache EXCEPT ![t] = IF @ = NoVector THEN t ELSE NoVector]
  OBVIOUS
<1>2. CacheIsTrue' /\ cache' \in [Texts -> Texts \cup {NoVector}]
  BY <1>1 DEF CacheIsTrue
<1> QED
  BY <1>2 DEF VectorsMatch

LEMMA EmbedStutter == ASSUME EmbedInv, UNCHANGED embeddingVars PROVE EmbedInv'
BY DEF EmbedInv, CacheIsTrue, VectorsMatch, embeddingVars

-----------------------------------------------------------------------------
LEMMA InitInv == Init => IInv
<1> SUFFICES ASSUME Init PROVE IInv
  OBVIOUS
<1> USE DEF Init, ChunkerInit, EmbeddingInit
<1>1. ChunkTypes
  <2>1. /\ <<>> \in Seq(Section) /\ <<>> \in Seq(Nat)
        /\ <<>> \in Seq(Seq(Nat)) /\ <<>> \in Seq(Chunks)
    BY Empty
  <2>2. 1 \in Nat \ {0}
    OBVIOUS
  <2> QED
    BY <2>1, <2>2 DEF ChunkTypes
<1>2. Split
  BY Empty DEF Split
<1>3. ChunkInv
  BY <1>1, <1>2 DEF ChunkInv, PiecesFit
<1>4. EmbedInv
  BY EmptySeq DEF EmbedInv, CacheIsTrue, VectorsMatch
<1> QED
  BY <1>3, <1>4 DEF IInv

LEMMA StepInv == IInv /\ [Next]_vars => IInv'
<1> SUFFICES ASSUME IInv, [Next]_vars PROVE IInv'
  OBVIOUS
<1> USE DEF IInv
<1>1. CASE UNCHANGED vars
  BY <1>1, ChunkerStutter, EmbedStutter DEF vars
<1>2. CASE Parse
  <2>1. doc' \in Documents /\ ChunkerStart(Parsed(doc'))
    BY <1>2 DEF Parse
  <2>2. Parsed(doc') \in Seq(Section) /\ \A k \in DOMAIN Parsed(doc') : HasRoom(Parsed(doc')[k]) /\ Rising(Parsed(doc')[k])
    BY <2>1, KnowledgeAssumption, ParsedIs
  <2>3. ChunkInv'
    BY <2>1, <2>2, StartInv
  <2> QED
    BY <1>2, <2>3, EmbedStutter DEF Parse
<1>3. CASE Chunk
  BY <1>3, ChunkerStep, EmbedStutter DEF Chunk
<1>4. CASE ToEmbed
  <2>1. ChunkInv'
    BY <1>4, ChunkerStutter DEF ToEmbed
  <2>2. CASE chunks = <<>>
    BY <1>4, <2>1, <2>2, EmbedStutter DEF ToEmbed
  <2>3. CASE chunks # <<>>
    <3>1. Len(chunks) \in Nat /\ 1..Len(chunks) \subseteq Texts
      BY <1>4, LenProperties DEF ToEmbed, ChunkInv, ChunkTypes
    <3>2. PICK list \in TextsOf(Len(chunks)) : Embed(list)
      BY <1>4, <2>3 DEF ToEmbed
    <3>3. list \in Seq(Texts)
      <4> DEFINE n == Len(chunks)
      <4> HIDE DEF n
      <4>1. n \in Nat /\ \A i \in 1..n : i \in Texts
        BY <3>1 DEF n
      <4>2. ASSUME NEW b \in 1..(n - 1)
            PROVE  [i \in 1..n |-> IF i = b THEN b + 1 ELSE i] \in Seq(Texts)
        <5>1. \A i \in 1..n : (IF i = b THEN b + 1 ELSE i) \in Texts
          BY <4>1, <4>2
        <5> QED
          BY <4>1, <5>1
      <4>3. [i \in 1..n |-> i] \in Seq(Texts)
        BY <4>1
      <4> QED
        BY <3>2, <4>2, <4>3 DEF TextsOf, n
    <3> QED
      BY <2>1, <3>2, <3>3, EmbedStarts
  <2> QED
    BY <2>2, <2>3
<1>5. CASE EmbedStep
  <2>1. ChunkInv'
    BY <1>5, ChunkerStutter DEF EmbedStep
  <2> QED
    BY <1>5, <2>1, MGetInv, StoreBatchInv, EmbedFailsInv, CacheChangesInv
       DEF EmbedStep, EmbeddingNext
<1>6. CASE Retry
  BY <1>6, ChunkerStutter, EmbedStarts DEF Retry, EmbedInv
<1>7. CASE Insert
  <2>1. ChunkInv'
    <3>1. <<>> \in Seq(Section) /\ DOMAIN <<>> = {}
      BY Empty
    <3> QED
      BY <1>7, <3>1, StartInv DEF Insert
  <2>2. EmbedInv'
    BY <1>7, EmptySeq DEF Insert, EmbedInv, CacheIsTrue, VectorsMatch
  <2> QED
    BY <2>1, <2>2
<1>8. CASE Retrieve
  BY <1>8, ChunkerStutter, EmbedStutter DEF Retrieve
<1>9. CASE Analyze
  BY <1>9, ChunkerStutter, EmbedStutter DEF Analyze
<1>10. CASE Answered
  BY <1>10, ChunkerStutter, EmbedStutter DEF Answered
<1> QED
  BY <1>1, <1>2, <1>3, <1>4, <1>5, <1>6, <1>7, <1>8, <1>9, <1>10 DEF Next

\* Parsing, chunking, embedding and questions preserve the invariant.
THEOREM Inductive == Spec => []IInv
BY InitInv, StepInv, PTL DEF Spec

\* No chunk that chunk_document returns is longer than chunk_max_chars, whatever
\* is joined, repeated as overlap or cut.
THEOREM ChunksFitAlways == Spec => []ChunksFit
<1>1. IInv => ChunksFit
  <2> SUFFICES ASSUME IInv, NEW i \in DOMAIN chunks PROVE ChunkLen(chunks[i]) <= MaxChars
    BY DEF ChunksFit
  <2>1. /\ chunks[i].section \in DOMAIN sections
        /\ Len(chunks[i].piece) <= Budget(sections[chunks[i].section])
        /\ sections \in Seq(Section) /\ chunks \in Seq(Chunks)
    BY DEF IInv, ChunkInv, ChunkTypes
  <2>2. sections[chunks[i].section] \in Section /\ chunks[i] \in Chunks
    BY <2>1, LenProperties, ElementOfSeq
  <2>3. Len(chunks[i].piece) \in Nat
    BY <2>2, LenProperties DEF Chunks
  <2> QED
    BY <2>1, <2>2, <2>3, ChunkerAssumption, SMTT(30) DEF ChunkLen, Budget, Section
<1> QED
  BY <1>1, Inductive, PTL

LEMMA TextNext == IInv /\ TextInv /\ [Next]_vars => TextInv'
<1> SUFFICES ASSUME IInv, TextInv, [Next]_vars PROVE TextInv'
  OBVIOUS
<1>1. ChunkInv'
  BY StepInv DEF IInv
<1>2. CASE UNCHANGED chunkerVars
  BY <1>2, TextStutter
<1>3. CASE ChunkerNext
  BY <1>3, TextStep
<1>4. CASE \E parsed : ChunkerStart(parsed)
  BY <1>1, <1>4, TextStart
<1> QED
  BY <1>2, <1>3, <1>4
     DEF Next, vars, Parse, Chunk, ToEmbed, EmbedStep, Retry, Insert, Retrieve, Analyze, Answered

LEMMA TextInitially == Init => TextInv
<1> SUFFICES ASSUME Init PROVE TextInv
  OBVIOUS
<1>1. ChunkInv
  BY InitInv DEF IInv
<1>2. Split
  BY Empty DEF Init, ChunkerInit, Split
<1>3. NothingLost
  <2>1. section = 1 /\ 1..(1 - 1) = {}
    BY DEF Init, ChunkerInit
  <2> QED
    BY <2>1 DEF NothingLost
<1> QED
  BY <1>1, <1>2, <1>3 DEF TextInv

\* _split_body loses nothing: whatever is joined, repeated or cut, every character
\* of a section's text is in one of the section's chunks.
THEOREM NothingLostAlways == Spec => []NothingLost
<1>1. TextInv => NothingLost
  BY DEF TextInv
<1> QED
  BY <1>1, Inductive, TextInitially, TextNext, PTL DEF Spec

LEMMA ReadsNext ==
    ASSUME AmpleRoom, IInv, TextInv', FollowInv, [Next]_vars PROVE FollowInv'
<1>1. CASE UNCHANGED chunkerVars
  BY <1>1, ReadsStutter
<1>2. CASE ChunkerNext
  BY <1>2, ReadsStep
<1>3. CASE Parse
  <2>1. doc' \in Documents /\ ChunkerStart(Parsed(doc'))
    BY <1>3 DEF Parse
  <2>2. \A k \in DOMAIN Parsed(doc') : Budget(Parsed(doc')[k]) > Overlap + 1
    BY <2>1 DEF AmpleRoom
  <2> QED
    BY <2>1, <2>2, ReadsStart
<1>4. CASE Insert
  <2>1. ChunkerStart(<<>>)
    BY <1>4 DEF Insert
  <2>2. DOMAIN <<>> = {}
    BY Empty
  <2>3. \A k \in DOMAIN <<>> : Budget(<<>>[k]) > Overlap + 1
    BY <2>2
  <2> QED
    BY <2>1, <2>3, ReadsStart
<1> QED
  BY <1>1, <1>2, <1>3, <1>4
     DEF Next, vars, Chunk, ToEmbed, EmbedStep, Retry, Retrieve, Analyze, Answered

LEMMA ReadsInitially == ASSUME Init PROVE FollowInv
<1>1. TextInv
  BY TextInitially
<1>2. sections = <<>> /\ chunks = <<>>
  BY DEF Init, ChunkerInit
<1>3. Split
  BY Empty DEF Init, ChunkerInit, Split
<1> QED
  BY <1>1, <1>2, <1>3, Empty DEF FollowInv, ChunksFollow

\* The chunks of a section can be read one after the other, and none only repeats
\* what others say, whatever the lengths of paragraphs: where the limit leaves room
\* for two characters more than prefix and overlap.
THEOREM ChunksFollowAlways ==
    ASSUME AmpleRoom PROVE Spec => []ChunksFollow
<1>1. FollowInv => ChunksFollow
  BY DEF FollowInv
<1>2. Init => TextInv /\ FollowInv
  BY TextInitially, ReadsInitially
<1>3. IInv /\ (TextInv /\ FollowInv) /\ [Next]_vars => (TextInv /\ FollowInv)'
  BY TextNext, ReadsNext
<1> QED
  BY <1>1, <1>2, <1>3, Inductive, PTL DEF Spec

\* embed_texts keeps in the cache, for a week, only vectors of the texts they are
\* kept for.
THEOREM CacheIsTrueAlways == Spec => []CacheIsTrue
<1>1. IInv => CacheIsTrue
  BY DEF IInv, EmbedInv
<1> QED
  BY <1>1, Inductive, PTL

\* embed_texts gives each text its own vector, wherever it came from.
THEOREM VectorsMatchAlways == Spec => []VectorsMatch
<1>1. IInv => VectorsMatch
  BY DEF IInv, EmbedInv
<1> QED
  BY <1>1, Inductive, PTL

-----------------------------------------------------------------------------
(* What the parser gives.                                                *)

\* While a manual is cut, it is one of the documents.
LEMMA UnderWayNext == Underway /\ [Next]_vars => Underway'
BY DEF Underway, Next, vars, Parse, Chunk, ToEmbed, EmbedStep, Retry, Insert, Retrieve, Analyze, Answered

LEMMA UnderWayInitially == Init => Underway
BY DEF Init, Underway

\* No line of a manual is lost by parse_pdf, whatever the sizes of its lines: what is
\* no title is a heading or in the text of one section, in the order of the lines.
THEOREM ParsedTextIsWholeAlways == Spec => []ParsedTextIsWhole
<1>1. Underway => ParsedTextIsWhole
  BY KnowledgeAssumption, LinesKept DEF Underway, ParsedTextIsWhole, JustParsed
<1> QED
  BY <1>1, UnderWayInitially, UnderWayNext, PTL DEF Spec

\* A manual that has lines is never refused as a scan: parse_pdf takes some line of
\* the body's size for text.
THEOREM ParsedTextIsThereAlways == Spec => []ParsedTextIsThere
<1>1. Underway => ParsedTextIsThere
  BY KnowledgeAssumption, LinesHaveText DEF Underway, ParsedTextIsThere, JustParsed
<1> QED
  BY <1>1, UnderWayInitially, UnderWayNext, PTL DEF Spec

-----------------------------------------------------------------------------
(* What is found and cited.                                                *)

LEMMA IndexInitially == Init => IndexInv
BY SearchAssumption DEF Init, IndexInv

LEMMA ChunkRows ==
    ASSUME IInv, NEW i \in DOMAIN chunks
    PROVE  i - 1 \in Nat /\ ChunkLen(chunks[i]) \in Nat /\ ChunkLen(chunks[i]) <= MaxChars
<1>1. /\ chunks[i].section \in DOMAIN sections
      /\ Len(chunks[i].piece) <= Budget(sections[chunks[i].section])
      /\ sections \in Seq(Section) /\ chunks \in Seq(Chunks)
  BY DEF IInv, ChunkInv, ChunkTypes
<1>2. sections[chunks[i].section] \in Section /\ chunks[i] \in Chunks
  BY <1>1, LenProperties, ElementOfSeq
<1>3. Len(chunks[i].piece) \in Nat
  BY <1>2, LenProperties DEF Chunks
<1>4. i - 1 \in Nat
  <2>1. DOMAIN chunks = 1..Len(chunks) /\ Len(chunks) \in Nat
    BY <1>1, LenProperties
  <2> QED
    BY <2>1
<1>5. sections[chunks[i].section].prefix \in Nat
  BY <1>2 DEF Section
<1>6. ChunkLen(chunks[i]) = sections[chunks[i].section].prefix + Len(chunks[i].piece)
  BY DEF ChunkLen
<1>7. Len(chunks[i].piece) <= MaxChars - sections[chunks[i].section].prefix
  BY <1>1 DEF Budget
<1> DEFINE prefix == sections[chunks[i].section].prefix
<1> DEFINE length == Len(chunks[i].piece)
<1> HIDE DEF prefix, length
<1>8. length \in Nat /\ prefix \in Nat /\ length <= MaxChars - prefix /\ ChunkLen(chunks[i]) = prefix + length
  BY <1>3, <1>5, <1>6, <1>7 DEF prefix, length
<1>9. prefix + length \in Nat /\ prefix + length <= MaxChars
  BY <1>8, ChunkerAssumption
<1> QED
  BY <1>4, <1>8, <1>9

LEMMA InsertKeepsIndex == ASSUME IInv, IndexInv, Insert PROVE IndexInv'
<1> DEFINE Row(i) == [doc |-> 1, seq |-> i - 1, len |-> ChunkLen(chunks[i]), score |-> 0, type |-> "manual"]
<1> DEFINE rows == {Row(i) : i \in DOMAIN chunks}
<1>1. index' = Shelf \cup rows /\ phase' = "stored"
  BY DEF Insert, IndexInv
<1>2. \A i \in DOMAIN chunks : i - 1 \in Nat /\ ChunkLen(chunks[i]) \in Nat /\ ChunkLen(chunks[i]) <= MaxChars
  BY ChunkRows
<1>3. \A a \in rows : a \in Entry /\ a.doc = 1 /\ a.type = "manual" /\ a.len <= MaxChars
  <2> SUFFICES ASSUME NEW i \in DOMAIN chunks
               PROVE  Row(i) \in Entry /\ Row(i).doc = 1 /\ Row(i).type = "manual" /\ Row(i).len <= MaxChars
    OBVIOUS
  <2> QED
    BY <1>2 DEF Entry
<1>4. ASSUME NEW a \in rows, NEW b \in rows, Key(a) = Key(b) PROVE a = b
  <2>1. PICK i \in DOMAIN chunks : a = Row(i)
    OBVIOUS
  <2>2. PICK j \in DOMAIN chunks : b = Row(j)
    OBVIOUS
  <2>3. i \in Int /\ j \in Int /\ i - 1 = j - 1
    <3>1. a.seq = i - 1 /\ b.seq = j - 1 /\ a.seq = b.seq
      BY <1>4, <2>1, <2>2 DEF Key
    <3>2. DOMAIN chunks \subseteq Int
      BY LenProperties DEF IInv, ChunkInv, ChunkTypes
    <3> QED
      BY <3>1, <3>2
  <2>4. i = j
    BY <2>3
  <2> QED
    BY <2>1, <2>2, <2>4
<1> HIDE DEF rows, Row
<1>5. \A a \in Shelf : a \in Entry /\ a.doc # 1 /\ a.type = "manual" /\ a.len <= MaxChars
  BY SearchAssumption
<1>6. \A a, b \in Shelf : Key(a) = Key(b) => a = b
  BY SearchAssumption
<1>7. \A a \in Shelf, b \in rows : Key(a) # Key(b)
  BY <1>3, <1>5 DEF Key
<1>8. \A a, b \in Shelf \cup rows : Key(a) = Key(b) => a = b
  BY <1>4, <1>6, <1>7
<1> QED
  BY <1>1, <1>3, <1>5, <1>8 DEF IndexInv

LEMMA IndexNext == IInv /\ IndexInv /\ [Next]_vars => IndexInv'
<1> SUFFICES ASSUME IInv, IndexInv, [Next]_vars PROVE IndexInv'
  OBVIOUS
<1>1. CASE Insert
  BY <1>1, InsertKeepsIndex
<1>2. CASE index' = index /\ (phase' = "stored" => phase = "stored") /\ (phase = "stored" => phase' = "stored")
  BY <1>2 DEF IndexInv
<1> QED
  BY <1>1, <1>2
     DEF Next, vars, Parse, Chunk, ToEmbed, EmbedStep, Retry, Retrieve, Analyze, Answered

\* A search finds different rows, and scores them by rank or by distance.
Ranked(k, rows, scores) ==
    /\ k \in 1..TopK
    /\ rows \in [1..k -> index] /\ scores \in [1..k -> Scores]
    /\ IsInjective(rows)
    /\ ByRank(scores) \/ ByDistance(scores)

LEMMA FoundByIndex ==
    ASSUME IndexInv, NEW k, NEW rows, NEW scores, Ranked(k, rows, scores)
    PROVE  Hits(Scored(rows, scores))
<1> DEFINE hits == Scored(rows, scores)
<1>1. k \in Nat /\ k >= 1 /\ \A n \in 1..k : rows[n] \in index /\ scores[n] \in Nat /\ scores[n] > 0
  <2>1. TopK \in Nat /\ \A x \in Scores : x \in Nat /\ x > 0
    BY SearchAssumption
  <2>2. k \in Nat /\ k >= 1
    BY <2>1 DEF Ranked
  <2>3. \A n \in 1..k : rows[n] \in index /\ scores[n] \in Scores
    BY DEF Ranked
  <2> QED
    BY <2>1, <2>2, <2>3
<1>2. hits = [n \in 1..k |-> [rows[n] EXCEPT !.score = scores[n]]]
  BY DEF Scored, Ranked
<1>3. \A row \in index, score \in Nat :
         LET hit == [row EXCEPT !.score = score] IN
         /\ hit \in Entry /\ Key(hit) = Key(row) /\ hit.score = score
         /\ hit.type = "manual" /\ hit.len <= MaxChars
  BY DEF IndexInv, Entry, Key
<1> HIDE DEF hits
<1>4. \A n \in 1..k :
         /\ hits[n] \in Entry /\ Key(hits[n]) = Key(rows[n]) /\ hits[n].score = scores[n]
         /\ hits[n].type = "manual" /\ hits[n].len <= MaxChars
  BY <1>1, <1>2, <1>3
<1>5. hits \in Seq(Entry) /\ Len(hits) = k /\ DOMAIN hits = 1..k
  BY <1>1, <1>2, <1>4
<1>6. \A h \in Range(hits) : \E n \in 1..k : h = hits[n]
  BY <1>5 DEF Range
<1>7. \A m, n \in 1..k : Key(hits[m]) = Key(hits[n]) => hits[m] = hits[n]
  <2> SUFFICES ASSUME NEW m \in 1..k, NEW n \in 1..k, Key(hits[m]) = Key(hits[n])
               PROVE  hits[m] = hits[n]
    OBVIOUS
  <2>1. Key(rows[m]) = Key(rows[n])
    BY <1>4
  <2> HIDE DEF Key
  <2>2. rows[m] = rows[n]
    BY <1>1, <2>1 DEF IndexInv
  <2>3. m = n
    BY <2>2 DEF Ranked, IsInjective
  <2> QED
    BY <2>3
<1>8. Listed(Range(hits))
  <2> HIDE DEF Key
  <2> QED
    BY <1>4, <1>6, <1>7 DEF Listed
<1>9. \A n \in 1..k : hits[n].score > 0
  BY <1>1, <1>4
<1> QED
  BY <1>1, <1>5, <1>8, <1>9 DEF Hits, hits

\* An answer about a manual holds what retrieval makes of the hits.
LEMMA AnswerIs ==
    ASSUME IndexInv, Retrieve
    PROVE  \E hits : \E cards \in Cards :
              /\ Hits(hits) /\ Listed(index)
              /\ answer'.hits = hits /\ answer'.list = Retrieved(index, hits, cards)
<1>1. PICK k \in 1..TopK, cards \in Cards :
         \E rows \in [1..k -> index], scores \in [1..k -> Scores] :
            /\ Ranked(k, rows, scores)
            /\ answer' = [NoAnswer EXCEPT !.hits = Scored(rows, scores),
                                          !.list = Retrieved(index, Scored(rows, scores), cards)]
  BY DEF Retrieve, Ranked
<1>2. PICK rows \in [1..k -> index], scores \in [1..k -> Scores] :
         /\ Ranked(k, rows, scores)
         /\ answer' = [NoAnswer EXCEPT !.hits = Scored(rows, scores),
                                       !.list = Retrieved(index, Scored(rows, scores), cards)]
  BY <1>1
<1> DEFINE hits == Scored(rows, scores)
<1>3. Hits(hits)
  BY <1>2, FoundByIndex
<1>4. Listed(index)
  BY DEF IndexInv, Listed
<1> HIDE DEF hits
<1>5. answer'.hits = hits /\ answer'.list = Retrieved(index, hits, cards)
  BY <1>2 DEF NoAnswer, hits
<1> QED
  BY <1>3, <1>4, <1>5

LEMMA NothingPicked == ASSUME NEW type PROVE DOMAIN OfType(<<>>, type) = {}
<1> DEFINE places == {n \in DOMAIN <<>> : <<>>[n].type = type}
<1>1. places = {}
  BY Empty
<1>2. Cardinality(places) = 0
  BY <1>1, FS_EmptySet
<1>3. OfType(<<>>, type) = Picked(<<>>, places)
  BY DEF OfType
<1> HIDE DEF places
<1>4. DOMAIN OfType(<<>>, type) = 1..0
  BY <1>2, <1>3 DEF Picked
<1> QED
  BY <1>4

CitedInv == IndexInv /\ NeighbourHasHit /\ TopIsQuoted

LEMMA CitedInitially == Init => CitedInv
<1> SUFFICES ASSUME Init PROVE CitedInv
  OBVIOUS
<1>1. answer.list = <<>> /\ answer.hits = <<>>
  BY DEF Init, NoAnswer
<1> QED
  BY <1>1, IndexInitially, NothingPicked DEF CitedInv, NeighbourHasHit, TopIsQuoted, Manuals

LEMMA RetrieveCites ==
    ASSUME IndexInv, Retrieve PROVE NeighbourHasHit' /\ TopIsQuoted'
<1>1. PICK hits : \E cards \in Cards :
         /\ Hits(hits) /\ Listed(index)
         /\ answer'.hits = hits /\ answer'.list = Retrieved(index, hits, cards)
  BY AnswerIs
<1>2. PICK cards \in Cards :
         /\ Hits(hits) /\ Listed(index)
         /\ answer'.hits = hits /\ answer'.list = Retrieved(index, hits, cards)
  BY <1>1
<1> DEFINE manuals == OfType(Retrieved(index, hits, cards), "manual")
<1>3. Manuals' = manuals
  BY <1>2 DEF Manuals
<1>4. ASSUME NEW j \in DOMAIN manuals, ~\E h \in Range(hits) : Key(h) = Key(manuals[j])
      PROVE  \E i \in 1..(j - 1) :
              /\ \E h \in Range(hits) : Key(h) = Key(manuals[i])
              /\ manuals[i].doc = manuals[j].doc
              /\ manuals[i].seq \in {manuals[j].seq - 1, manuals[j].seq + 1}
  BY <1>2, <1>4, CitesNeighboursAfter
<1> HIDE DEF manuals
<1>5. NeighbourHasHit'
  BY <1>2, <1>3, <1>4 DEF NeighbourHasHit
<1> DEFINE list == Retrieved(index, hits, cards)
<1>6. LET first == Head(Sources(list)) IN
         /\ first \in Range(hits)
         /\ \A h \in Range(hits) : h.score <= first.score
         /\ \E n \in Quoted(list) : list[n] = first
  BY <1>2, CitesTopFirst
<1>7. answer'.list = list
  BY <1>2
<1> HIDE DEF list
<1>8. TopIsQuoted'
  BY <1>2, <1>6, <1>7 DEF TopIsQuoted
<1> QED
  BY <1>5, <1>8

LEMMA CitedNext == IInv /\ CitedInv /\ [Next]_vars => CitedInv'
<1> SUFFICES ASSUME IInv, CitedInv, [Next]_vars PROVE CitedInv'
  OBVIOUS
<1>1. IndexInv'
  BY IndexNext DEF CitedInv
<1>2. CASE Retrieve
  BY <1>1, <1>2, RetrieveCites DEF CitedInv
<1>3. CASE UNCHANGED answer
  BY <1>1, <1>3 DEF CitedInv, NeighbourHasHit, TopIsQuoted, Manuals
<1>4. CASE answer'.list = <<>> /\ answer'.hits = <<>>
  BY <1>1, <1>4, NothingPicked DEF CitedInv, NeighbourHasHit, TopIsQuoted, Manuals
<1>5. CASE Analyze \/ Answered
  <2>1. answer'.list = NoAnswer.list /\ answer'.hits = NoAnswer.hits
    BY <1>5 DEF Analyze, Answered, NoAnswer
  <2>2. NoAnswer.list = <<>> /\ NoAnswer.hits = <<>>
    BY DEF NoAnswer
  <2> QED
    BY <1>4, <2>1, <2>2
<1> QED
  BY <1>2, <1>3, <1>5
     DEF Next, vars, Parse, Chunk, ToEmbed, EmbedStep, Retry, Insert

\* retrieve cites no context for itself: what the budget leaves in of a hit's
\* neighbours comes after the hit, for any index, any hits and limits.
THEOREM NeighbourHasHitAlways == Spec => []NeighbourHasHit
<1>1. CitedInv => NeighbourHasHit
  BY DEF CitedInv
<1> QED
  BY <1>1, Inductive, CitedInitially, CitedNext, PTL DEF Spec

\* The first source that retrieve shows is a hit with the highest score, found by the
\* hybrid search or the dense one, and context_block has put all of its text into the
\* prompt.
THEOREM TopIsQuotedAlways == Spec => []TopIsQuoted
<1>1. CitedInv => TopIsQuoted
  BY DEF CitedInv
<1> QED
  BY <1>1, Inductive, CitedInitially, CitedNext, PTL DEF Spec

-----------------------------------------------------------------------------
(* What depends on what.                                                   *)

\* impact lists what failure of a machine reaches, with the least number of steps
\* to it, in any graph: over several paths, cycles and the machines of one sensor.
THEOREM DepthIsShortestAlways == Spec => []DepthIsShortest
<1>1. Init => DepthIsShortest
  BY DEF Init, DepthIsShortest, NoAnswer
<1>2. DepthIsShortest /\ [Next]_vars => DepthIsShortest'
  <2> SUFFICES ASSUME DepthIsShortest, [Next]_vars PROVE DepthIsShortest'
    OBVIOUS
  <2>1. CASE UNCHANGED answer
    BY <2>1 DEF DepthIsShortest
  <2>2. CASE Analyze
    <3>1. PICK root \in Nodes : answer' = [NoAnswer EXCEPT !.root = root, !.rows = Impacted(root)]
      BY <2>2 DEF Analyze
    <3>2. answer'.root = root /\ answer'.rows = Impacted(root)
      BY <3>1 DEF NoAnswer
    <3> QED
      BY <3>2, ImpactIsFirst, ReachedIsFirst DEF DepthIsShortest
  <2>3. CASE Retrieve
    <3>1. answer'.root = "none"
      BY <2>3 DEF Retrieve, NoAnswer
    <3> QED
      BY <3>1 DEF DepthIsShortest
  <2>4. CASE Answered
    BY <2>4 DEF Answered, DepthIsShortest, NoAnswer
  <2> QED
    BY <2>1, <2>2, <2>3, <2>4
       DEF Next, vars, Parse, Chunk, ToEmbed, EmbedStep, Retry, Insert
<1> QED
  BY <1>1, <1>2, PTL DEF Spec
=============================================================================
