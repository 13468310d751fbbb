----------------------------- MODULE KnowledgeLemmas -----------------------------
(***************************************************************************)
(* What the operators of Knowledge's modules compute: the sections and     *)
(* lengths that the parser hands on, the list and the sources that a       *)
(* search leads to, the rows of an impact analysis; and what that needs    *)
(* about sets in order and sums.                                           *)
(***************************************************************************)
EXTENDS KnowledgeInductive, SequenceTheorems, FiniteSetTheorems, WellFoundedInduction, TLAPS

-----------------------------------------------------------------------------
LEMMA Empty == Len(<<>>) = 0 /\ DOMAIN <<>> = {} /\ \A S : <<>> \in Seq(S)
OBVIOUS

LEMMA HasLeast ==
    ASSUME NEW S \in SUBSET Nat, S # {} PROVE \E m \in S : \A k \in S : m <= k
<1>1. IsWellFoundedOn(OpToRel(<, Nat), Nat)
  BY NatLessThanWellFounded
<1>2. PICK m \in S : \A y \in S : ~(<<y, m>> \in OpToRel(<, Nat))
  BY <1>1, WFMin
<1>3. \A y \in S : y < m => <<y, m>> \in OpToRel(<, Nat)
  BY DEF OpToRel
<1>4. \A y \in S : ~(y < m)
  BY <1>2, <1>3
<1> QED
  BY <1>4

LEMMA HasGreatest ==
    ASSUME NEW n \in Nat, NEW S \in SUBSET (0..n), S # {}
    PROVE  \E m \in S : \A k \in S : m >= k
<1> DEFINE T == {i \in 0..n : n - i \in S}
<1>1. PICK k \in S : TRUE
  OBVIOUS
<1>2. k \in 0..n
  BY <1>1
<1>3. n - k \in 0..n /\ n - (n - k) = k
  BY <1>2
<1>4. n - k \in T /\ T \subseteq Nat
  BY <1>1, <1>3
<1> HIDE DEF T
<1>5. PICK t \in T : \A i \in T : t <= i
  BY <1>4, HasLeast
<1>6. t \in 0..n /\ n - t \in S
  BY <1>5 DEF T
<1>7. \A i \in S : n - t >= i
  <2> SUFFICES ASSUME NEW i \in S PROVE n - t >= i
    OBVIOUS
  <2>1. i \in 0..n
    OBVIOUS
  <2>2. n - i \in 0..n /\ n - (n - i) = i
    BY <2>1
  <2>3. n - i \in T
    BY <2>2 DEF T
  <2>4. t <= n - i
    BY <1>5, <2>3
  <2> QED
    BY <1>6, <2>1, <2>4
<1> QED
  BY <1>6, <1>7

-----------------------------------------------------------------------------
(* Sets in order.                                                          *)

StrictOrder(R, S) ==
    /\ \A c \in S : <<c, c>> \notin R
    /\ \A c, d \in S : c = d \/ <<c, d>> \in R \/ <<d, c>> \in R
    /\ \A c, d, e \in S : <<c, d>> \in R /\ <<d, e>> \in R => <<c, e>> \in R

Below(S, R, c) == {d \in S : <<d, c>> \in R}
Rank(S, R, c) == Cardinality(Below(S, R, c))

LEMMA RankType ==
    ASSUME NEW S, NEW R, IsFiniteSet(S), StrictOrder(R, S), NEW c \in S
    PROVE  /\ Rank(S, R, c) \in Nat /\ Rank(S, R, c) < Cardinality(S)
           /\ IsFiniteSet(Below(S, R, c))
<1>1. c \notin Below(S, R, c) /\ Below(S, R, c) \in SUBSET S
  BY DEF StrictOrder, Below
<1>2. /\ IsFiniteSet(Below(S, R, c))
      /\ Cardinality(Below(S, R, c)) <= Cardinality(S)
      /\ Cardinality(S) = Cardinality(Below(S, R, c)) => S = Below(S, R, c)
  BY <1>1, FS_Subset
<1>3. Cardinality(Below(S, R, c)) \in Nat /\ Cardinality(S) \in Nat
  BY <1>2, FS_CardinalityType
<1> QED
  BY <1>1, <1>2, <1>3 DEF Rank

LEMMA RankGrows ==
    ASSUME NEW S, NEW R, IsFiniteSet(S), StrictOrder(R, S), NEW c \in S, NEW d \in S,
           <<c, d>> \in R
    PROVE  Rank(S, R, c) < Rank(S, R, d)
<1>1. Below(S, R, c) \in SUBSET Below(S, R, d)
  BY DEF StrictOrder, Below
<1>2. c \in Below(S, R, d) /\ c \notin Below(S, R, c)
  BY DEF StrictOrder, Below
<1>3. IsFiniteSet(Below(S, R, d))
  BY RankType
<1>4. Rank(S, R, c) <= Rank(S, R, d) /\ Rank(S, R, c) # Rank(S, R, d)
  BY <1>1, <1>2, <1>3, FS_Subset DEF Rank
<1> QED
  BY <1>4, RankType

LEMMA RankIsOrder ==
    ASSUME NEW S, NEW R, IsFiniteSet(S), StrictOrder(R, S), NEW c \in S, NEW d \in S
    PROVE  /\ <<c, d>> \in R <=> Rank(S, R, c) < Rank(S, R, d)
           /\ c = d <=> Rank(S, R, c) = Rank(S, R, d)
<1>1. c = d \/ <<c, d>> \in R \/ <<d, c>> \in R
  BY DEF StrictOrder
<1>2. <<c, d>> \in R => Rank(S, R, c) < Rank(S, R, d)
  BY RankGrows
<1>3. <<d, c>> \in R => Rank(S, R, d) < Rank(S, R, c)
  BY RankGrows
<1>4. Rank(S, R, c) \in Nat /\ Rank(S, R, d) \in Nat
  BY RankType
<1> HIDE DEF Rank
<1> QED
  BY <1>1, <1>2, <1>3, <1>4

\* Every place is taken: by the pigeonhole principle.
LEMMA RankIsOnto ==
    ASSUME NEW S, NEW R, IsFiniteSet(S), StrictOrder(R, S), NEW n \in 1..Cardinality(S)
    PROVE  \E c \in S : Rank(S, R, c) = n - 1
<1> DEFINE m == Cardinality(S)
<1> DEFINE f == [c \in S |-> Rank(S, R, c) + 1]
<1>1. m \in Nat
  BY FS_CardinalityType
<1>2. \A c \in S : Rank(S, R, c) \in Nat /\ Rank(S, R, c) + 1 \in 1..m
  <2> SUFFICES ASSUME NEW c \in S PROVE Rank(S, R, c) \in Nat /\ Rank(S, R, c) + 1 \in 1..m
    OBVIOUS
  <2>1. Rank(S, R, c) \in Nat /\ Rank(S, R, c) < m
    BY RankType
  <2> HIDE DEF m
  <2> QED
    BY <1>1, <2>1
<1>3. \A c, d \in S : Rank(S, R, c) = Rank(S, R, d) => c = d
  <2>1. \A c, d \in S : /\ <<c, d>> \in R <=> Rank(S, R, c) < Rank(S, R, d)
                        /\ c = d <=> Rank(S, R, c) = Rank(S, R, d)
    BY RankIsOrder
  <2> QED
    BY <2>1
<1>4. f \in [S -> 1..m]
  BY <1>2
<1>5. \A c, d \in S : f[c] = f[d] => c = d
  BY <1>2, <1>3
<1>6. f \in Injection(S, 1..m)
  BY <1>4, <1>5 DEF Injection, IsInjective
<1>7. IsFiniteSet(1..m) /\ Cardinality(1..m) = m
  BY <1>1, FS_Interval
<1>8. f \in Surjection(S, 1..m)
  BY <1>6, <1>7, FS_Injection
<1>9. \E c \in S : f[c] = n
  BY <1>8 DEF Surjection
<1> QED
  BY <1>2, <1>9

\* The sequence whose places are the ranks.
Enumerates(q, S, R) ==
    /\ q \in Seq(S) /\ Len(q) = Cardinality(S)
    /\ \A c \in S : \E n \in 1..Len(q) : q[n] = c
    /\ \A m, n \in 1..Len(q) : m < n <=> <<q[m], q[n]>> \in R
    /\ \A m, n \in 1..Len(q) : q[m] = q[n] => m = n

LEMMA RanksEnumerate ==
    ASSUME NEW S, NEW R, IsFiniteSet(S), StrictOrder(R, S)
    PROVE  Enumerates([n \in 1..Cardinality(S) |-> CHOOSE c \in S : Rank(S, R, c) = n - 1], S, R)
<1> DEFINE m == Cardinality(S)
<1> DEFINE q == [n \in 1..m |-> CHOOSE c \in S : Rank(S, R, c) = n - 1]
<1>1. m \in Nat
  BY FS_CardinalityType
<1>2. \A n \in 1..m : q[n] \in S /\ Rank(S, R, q[n]) = n - 1
  <2> SUFFICES ASSUME NEW n \in 1..m PROVE q[n] \in S /\ Rank(S, R, q[n]) = n - 1
    OBVIOUS
  <2>1. \E c \in S : Rank(S, R, c) = n - 1
    BY RankIsOnto
  <2>2. q[n] = CHOOSE c \in S : Rank(S, R, c) = n - 1
    OBVIOUS
  <2> QED
    BY <2>1, <2>2
<1>3. DOMAIN q = 1..m
  OBVIOUS
<1>4. \A c \in S : Rank(S, R, c) \in Nat /\ Rank(S, R, c) < m
  BY RankType
<1>5. \A c, d \in S : /\ <<c, d>> \in R <=> Rank(S, R, c) < Rank(S, R, d)
                      /\ c = d <=> Rank(S, R, c) = Rank(S, R, d)
  BY RankIsOrder
<1>a. q \in [1..m -> S]
  BY <1>2
<1> HIDE DEF q, m
<1>6. q \in Seq(S) /\ Len(q) = m
  BY <1>1, <1>a
<1>7. \A c \in S : \E n \in 1..m : q[n] = c
  <2> SUFFICES ASSUME NEW c \in S PROVE \E n \in 1..m : q[n] = c
    OBVIOUS
  <2> DEFINE n == Rank(S, R, c) + 1
  <2>1. n \in 1..m /\ n - 1 = Rank(S, R, c)
    BY <1>1, <1>4
  <2>2. q[n] \in S /\ Rank(S, R, q[n]) = n - 1
    BY <1>2, <2>1
  <2>3. q[n] = c
    BY <1>5, <2>1, <2>2
  <2> QED
    BY <2>1, <2>3
<1>8. ASSUME NEW k \in 1..m, NEW n \in 1..m
      PROVE  /\ k < n <=> <<q[k], q[n]>> \in R
             /\ q[k] = q[n] => k = n
  <2>1. q[k] \in S /\ q[n] \in S /\ Rank(S, R, q[k]) = k - 1 /\ Rank(S, R, q[n]) = n - 1
    BY <1>2
  <2>2. <<q[k], q[n]>> \in R <=> k - 1 < n - 1
    BY <1>5, <2>1
  <2>3. k \in Nat /\ n \in Nat
    BY <1>1
  <2> QED
    BY <2>1, <2>2, <2>3
<1>9. Enumerates(q, S, R)
  BY <1>6, <1>7, <1>8 DEF Enumerates, m
<1> QED
  BY <1>9 DEF q, m

\* Numbers in increasing order.
LEMMA IncreasingIs ==
    ASSUME NEW S \in SUBSET Int, IsFiniteSet(S)
    PROVE  LET q == Increasing(S) IN
           /\ q \in Seq(S) /\ Len(q) = Cardinality(S) /\ DOMAIN q = 1..Len(q) /\ Len(q) \in Nat
           /\ \A c \in S : \E n \in 1..Len(q) : q[n] = c
           /\ \A m, n \in 1..Len(q) : m < n <=> q[m] < q[n]
           /\ \A n \in 1..Len(q) : q[n] \in S
<1> DEFINE R == {p \in S \X S : p[1] < p[2]}
<1> DEFINE q == Increasing(S)
<1>1. \A c, d \in S : <<c, d>> \in R <=> c < d
  OBVIOUS
<1>2. StrictOrder(R, S)
  <2> HIDE DEF R
  <2> QED
    BY <1>1 DEF StrictOrder
<1>3. \A c \in S : {d \in S : d < c} = Below(S, R, c)
  <2> HIDE DEF R
  <2> QED
    BY <1>1 DEF Below
<1>4. q = [n \in 1..Cardinality(S) |-> CHOOSE c \in S : Cardinality({d \in S : d < c}) = n - 1]
  BY DEF Increasing, OrderedBy
<1>5. q = [n \in 1..Cardinality(S) |-> CHOOSE c \in S : Rank(S, R, c) = n - 1]
  <2> HIDE DEF R, q
  <2> DEFINE A(n) == CHOOSE c \in S : Cardinality({d \in S : d < c}) = n - 1
  <2> DEFINE B(n) == CHOOSE c \in S : Rank(S, R, c) = n - 1
  <2>1. \A n : A(n) = B(n)
    BY <1>3 DEF Rank
  <2>2. q = [n \in 1..Cardinality(S) |-> A(n)]
    BY <1>4
  <2> HIDE DEF A, B
  <2>3. q = [n \in 1..Cardinality(S) |-> B(n)]
    BY <2>1, <2>2
  <2> QED
    BY <2>3 DEF B
<1> HIDE DEF R, q
<1>6. Enumerates(q, S, R)
  BY <1>2, <1>5, RanksEnumerate
<1>7. Len(q) \in Nat /\ DOMAIN q = 1..Len(q) /\ \A n \in 1..Len(q) : q[n] \in S
  BY <1>6, LenProperties, ElementOfSeq DEF Enumerates
<1> QED
  BY <1>1, <1>6, <1>7 DEF Enumerates, q

LEMMA IncreasingInterval ==
    ASSUME NEW k \in Nat
    PROVE  Increasing(1..k) = [n \in 1..k |-> n]
<1> DEFINE q == Increasing(1..k)
<1>1. IsFiniteSet(1..k) /\ Cardinality(1..k) = k
  BY FS_Interval
<1>2. ASSUME NEW n \in 1..k PROVE (CHOOSE c \in 1..k : Cardinality({d \in 1..k : d < c}) = n - 1) = n
  <2>1. ASSUME NEW c \in 1..k PROVE Cardinality({d \in 1..k : d < c}) = c - 1
    <3>1. {d \in 1..k : d < c} = 1..(c - 1)
      OBVIOUS
    <3>2. Cardinality(1..(c - 1)) = c - 1
      <4>1. c - 1 \in Int /\ 1 \in Int /\ c \in Int
        OBVIOUS
      <4>2. Cardinality(1..(c - 1)) = IF 1 > c - 1 THEN 0 ELSE (c - 1) - 1 + 1
        BY <4>1, FS_Interval
      <4> QED
        BY <4>1, <4>2
    <3> QED
      BY <3>1, <3>2
  <2> DEFINE r(c) == Cardinality({d \in 1..k : d < c})
  <2>2. \A c \in 1..k : r(c) = c - 1
    BY <2>1
  <2> HIDE DEF r
  <2>3. (CHOOSE c \in 1..k : r(c) = n - 1) = n
    <3>1. \A c \in 1..k : r(c) = n - 1 <=> c = n
      BY <2>2
    <3> QED
      BY <3>1
  <2> QED
    BY <2>3 DEF r
<1>3. q = [n \in 1..k |-> CHOOSE c \in 1..k : Cardinality({d \in 1..k : d < c}) = n - 1]
  BY <1>1 DEF Increasing, OrderedBy
<1> DEFINE A(n) == CHOOSE c \in 1..k : Cardinality({d \in 1..k : d < c}) = n - 1
<1>4. \A n \in 1..k : A(n) = n
  BY <1>2
<1> HIDE DEF A
<1>5. q = [n \in 1..k |-> A(n)]
  BY <1>3 DEF A
<1> HIDE DEF q
<1>6. q = [n \in 1..k |-> n]
  BY <1>4, <1>5
<1> QED
  BY <1>6 DEF q

\* What is picked of a sequence is a sequence of some of its elements.
LEMMA PickedIs ==
    ASSUME NEW T, NEW s \in Seq(T), NEW places \in SUBSET DOMAIN s
    PROVE  /\ IsFiniteSet(places)
           /\ Picked(s, places) \in Seq(T)
           /\ Len(Picked(s, places)) = Cardinality(places)
           /\ \A n \in 1..Len(Picked(s, places)) : \E i \in places : Picked(s, places)[n] = s[i]
<1> DEFINE q == Increasing(places)
<1> DEFINE p == Picked(s, places)
<1> DEFINE m == Cardinality(places)
<1>1. Len(s) \in Nat /\ DOMAIN s = 1..Len(s)
  BY LenProperties
<1>2. IsFiniteSet(places) /\ places \in SUBSET Int
  <2>1. IsFiniteSet(1..Len(s))
    BY <1>1, FS_Interval
  <2> QED
    BY <1>1, <2>1, FS_Subset
<1>3. m \in Nat /\ Len(q) = m /\ \A n \in 1..m : q[n] \in places
  BY <1>2, IncreasingIs, FS_CardinalityType
<1>4. p = [n \in 1..m |-> s[q[n]]]
  BY DEF Picked
<1>5. \A i \in places : s[i] \in T
  BY <1>1, ElementOfSeq
<1> HIDE DEF p, q, m
<1>6. p \in [1..m -> T]
  BY <1>3, <1>4, <1>5
<1>7. p \in Seq(T) /\ Len(p) = m
  BY <1>3, <1>6
<1>8. \A n \in 1..m : \E i \in places : p[n] = s[i]
  BY <1>3, <1>4
<1> QED
  BY <1>2, <1>7, <1>8 DEF p, m

\* Picking the first k elements.
LEMMA PickedFirst ==
    ASSUME NEW s, NEW k \in Nat
    PROVE  Picked(s, 1..k) = [n \in 1..k |-> s[n]]
<1>1. Cardinality(1..k) = k
  BY FS_Interval
<1> QED
  BY <1>1, IncreasingInterval DEF Picked

-----------------------------------------------------------------------------
(* The parser keeps every line.                                            *)

RoleNames == {"title", "heading", "text"}

Opened(roles) == Increasing(Openers(roles))
EndOf(roles, k) == IF k = Len(Opened(roles)) THEN Len(roles) + 1 ELSE Opened(roles)[k + 1]

\* The lines that the section of an opener should hold.
PartOf(roles, k) ==
    {i \in DOMAIN roles : roles[i] # "title" /\ Opened(roles)[k] <= i /\ i < EndOf(roles, k)}

LEMMA OpenedIs ==
    ASSUME NEW roles \in Seq(RoleNames)
    PROVE  LET opened == Opened(roles) IN
           /\ Len(roles) \in Nat /\ DOMAIN roles = 1..Len(roles)
           /\ \A i \in DOMAIN roles : roles[i] \in RoleNames
           /\ IsFiniteSet(DOMAIN roles) /\ Openers(roles) \in SUBSET DOMAIN roles
           /\ opened \in Seq(Openers(roles)) /\ Len(opened) \in Nat /\ DOMAIN opened = 1..Len(opened)
           /\ \A k \in 1..Len(opened) : opened[k] \in Openers(roles) /\ opened[k] \in 1..Len(roles)
           /\ \A k, l \in 1..Len(opened) : k < l <=> opened[k] < opened[l]
           /\ \A i \in Openers(roles) : \E k \in 1..Len(opened) : opened[k] = i
<1>1. Len(roles) \in Nat /\ DOMAIN roles = 1..Len(roles) /\ \A i \in DOMAIN roles : roles[i] \in RoleNames
  BY LenProperties, ElementOfSeq
<1>2. Openers(roles) \in SUBSET DOMAIN roles
  BY DEF Openers
<1>3. IsFiniteSet(DOMAIN roles) /\ IsFiniteSet(Openers(roles)) /\ Openers(roles) \in SUBSET Int
  <2>1. IsFiniteSet(1..Len(roles))
    BY <1>1, FS_Interval
  <2>2. IsFiniteSet(DOMAIN roles) /\ DOMAIN roles \in SUBSET Int
    BY <1>1, <2>1
  <2> QED
    BY <1>2, <2>2, FS_Subset
<1>4. LET q == Increasing(Openers(roles)) IN
           /\ q \in Seq(Openers(roles)) /\ DOMAIN q = 1..Len(q) /\ Len(q) \in Nat
           /\ \A c \in Openers(roles) : \E n \in 1..Len(q) : q[n] = c
           /\ \A m, n \in 1..Len(q) : m < n <=> q[m] < q[n]
           /\ \A n \in 1..Len(q) : q[n] \in Openers(roles)
  BY <1>3, IncreasingIs
<1> QED
  BY <1>1, <1>2, <1>3, <1>4 DEF Opened

LEMMA EndIs ==
    ASSUME NEW roles \in Seq(RoleNames), NEW k \in 1..Len(Opened(roles))
    PROVE  /\ EndOf(roles, k) \in Nat /\ EndOf(roles, k) <= Len(roles) + 1
           /\ \A l \in 1..Len(Opened(roles)) : k < l => EndOf(roles, k) <= Opened(roles)[l]
<1> DEFINE o == Opened(roles)
<1>1. /\ Len(roles) \in Nat /\ Len(o) \in Nat
      /\ \A j \in 1..Len(o) : o[j] \in 1..Len(roles)
      /\ \A j, l \in 1..Len(o) : j < l <=> o[j] < o[l]
  BY OpenedIs
<1> HIDE DEF o
<1>2. k \in 1..Len(o)
  BY DEF o
<1>3. CASE k = Len(o)
  <2>1. EndOf(roles, k) = Len(roles) + 1
    BY <1>3 DEF EndOf, o
  <2> QED
    BY <1>1, <1>2, <1>3, <2>1 DEF o
<1>4. CASE k # Len(o)
  <2>1. k + 1 \in 1..Len(o)
    BY <1>1, <1>2, <1>4
  <2>2. EndOf(roles, k) = o[k + 1]
    BY <1>4 DEF EndOf, o
  <2>3. o[k + 1] \in 1..Len(roles)
    BY <1>1, <2>1
  <2>4. ASSUME NEW l \in 1..Len(o), k < l PROVE o[k + 1] <= o[l]
    <3>1. k + 1 = l \/ k + 1 < l
      BY <1>2, <2>4
    <3>2. o[l] \in 1..Len(roles)
      BY <1>1
    <3> QED
      BY <1>1, <2>1, <2>3, <3>1, <3>2
  <2> QED
    BY <1>1, <2>2, <2>3, <2>4 DEF o
<1> QED
  BY <1>3, <1>4

\* Every line that is no title is in the part of the last opener before it.
LEMMA PartsCover ==
    ASSUME NEW roles \in Seq(RoleNames), NEW i \in DOMAIN roles, roles[i] # "title"
    PROVE  \E k \in 1..Len(Opened(roles)) : i \in PartOf(roles, k)
<1> DEFINE o == Opened(roles)
<1> DEFINE lines == {j \in DOMAIN roles : roles[j] # "title" /\ j <= i}
<1> DEFINE before == {k \in 1..Len(o) : o[k] <= i}
<1>1. /\ Len(roles) \in Nat /\ DOMAIN roles = 1..Len(roles) /\ Len(o) \in Nat
      /\ \A j \in DOMAIN roles : roles[j] \in RoleNames
      /\ \A k \in 1..Len(o) : o[k] \in 1..Len(roles)
      /\ \A k, l \in 1..Len(o) : k < l <=> o[k] < o[l]
      /\ \A j \in Openers(roles) : \E k \in 1..Len(o) : o[k] = j
  BY OpenedIs
<1>2. \E j \in Openers(roles) : j <= i
  <2>1. lines \in SUBSET Nat /\ i \in lines
    BY <1>1
  <2>2. PICK j \in lines : \A m \in lines : j <= m
    <3> HIDE DEF lines
    <3> QED
      BY <2>1, HasLeast
  <2>3. \A m \in 1..(j - 1) : roles[m] = "title"
    <3> SUFFICES ASSUME NEW m \in 1..(j - 1), roles[m] # "title" PROVE FALSE
      OBVIOUS
    <3>1. j \in 1..Len(roles) /\ j <= i /\ i \in 1..Len(roles)
      BY <1>1, <2>2
    <3>2. m \in 1..Len(roles) /\ m <= i /\ m < j
      BY <1>1, <3>1
    <3>3. m \in lines
      BY <1>1, <3>2
    <3>4. j <= m
      BY <2>2, <3>3
    <3> QED
      BY <3>1, <3>2, <3>4
  <2>4. roles[j] \in {"heading", "text"} /\ j \in DOMAIN roles /\ j <= i
    BY <1>1, <2>2 DEF RoleNames
  <2> QED
    BY <2>3, <2>4 DEF Openers
<1>3. before # {} /\ before \in SUBSET (0..Len(o))
  BY <1>1, <1>2
<1> HIDE DEF o, lines
<1>4. PICK k \in before : \A l \in before : k >= l
  <2> HIDE DEF before
  <2> QED
    BY <1>1, <1>3, HasGreatest
<1>5. k \in 1..Len(o) /\ o[k] <= i
  OBVIOUS
<1>6. i < EndOf(roles, k)
  <2>1. CASE k = Len(o)
    BY <1>1, <2>1 DEF EndOf, o
  <2>2. CASE k # Len(o)
    <3>1. k + 1 \in 1..Len(o) /\ ~(k >= k + 1)
      BY <1>1, <1>5, <2>2
    <3>2. k + 1 \notin before
      BY <1>4, <3>1
    <3>3. ~(o[k + 1] <= i) /\ o[k + 1] \in 1..Len(roles) /\ i \in 1..Len(roles)
      BY <1>1, <3>1, <3>2
    <3> QED
      BY <1>1, <2>2, <3>3 DEF EndOf, o
  <2> QED
    BY <2>1, <2>2
<1> QED
  BY <1>5, <1>6 DEF PartOf, o

\* A section holds its part, in the order of the lines.
Holds(s, part) ==
    /\ Own(s) \in Seq(Int) /\ Range(Own(s)) = part
    /\ \A m, n \in DOMAIN Own(s) : m < n => Own(s)[m] < Own(s)[n]

LEMMA TextOfPart ==
    ASSUME NEW roles \in Seq(RoleNames), NEW k \in 1..Len(Opened(roles))
    PROVE  LET part == SectionsFrom(roles, Opened(roles))[k]
               first == Opened(roles)[k]
           IN /\ part.heading = IF roles[first] = "heading" THEN first ELSE 0
              /\ part.text \in Seq(Int) /\ Len(part.text) \in Nat
              /\ \A m, n \in 1..Len(part.text) : m < n <=> part.text[m] < part.text[n]
              /\ \A i : (\E n \in 1..Len(part.text) : part.text[n] = i)
                        <=> i \in PartOf(roles, k) /\ roles[i] = "text"
<1> DEFINE o == Opened(roles)
<1> DEFINE ofText == {i \in Taken(roles, "text") : o[k] <= i /\ i < EndOf(roles, k)}
<1>1. DOMAIN o = 1..Len(o) /\ DOMAIN roles = 1..Len(roles) /\ Len(roles) \in Nat /\ IsFiniteSet(DOMAIN roles)
  BY OpenedIs
<1>2. SectionsFrom(roles, o)[k] =
         [heading |-> IF roles[o[k]] = "heading" THEN o[k] ELSE 0, text |-> Increasing(ofText)]
  BY <1>1 DEF SectionsFrom, EndOf
<1>3. ofText \in SUBSET DOMAIN roles
  BY DEF Taken
<1>4. \A i : i \in ofText <=> i \in PartOf(roles, k) /\ roles[i] = "text"
  BY DEF PartOf, Taken
<1> HIDE DEF ofText, o
<1>5. IsFiniteSet(ofText) /\ ofText \in SUBSET Int
  BY <1>1, <1>3, FS_Subset
<1> DEFINE q == Increasing(ofText)
<1>6. /\ q \in Seq(ofText) /\ Len(q) \in Nat
      /\ \A c \in ofText : \E n \in 1..Len(q) : q[n] = c
      /\ \A m, n \in 1..Len(q) : m < n <=> q[m] < q[n]
      /\ \A n \in 1..Len(q) : q[n] \in ofText
  BY <1>5, IncreasingIs
<1> HIDE DEF q
<1>7. q \in Seq(Int)
  BY <1>5, <1>6, SeqMonotonic
<1>8. SectionsFrom(roles, o)[k].heading = (IF roles[o[k]] = "heading" THEN o[k] ELSE 0)
      /\ SectionsFrom(roles, o)[k].text = q
  BY <1>2 DEF q
<1>9. \A i : (\E n \in 1..Len(q) : q[n] = i) <=> i \in PartOf(roles, k) /\ roles[i] = "text"
  BY <1>4, <1>6
<1> QED
  BY <1>6, <1>7, <1>8, <1>9 DEF o

\* A heading in a part is the one that opens it.
LEMMA OneHeading ==
    ASSUME NEW roles \in Seq(RoleNames), NEW k \in 1..Len(Opened(roles)),
           NEW i \in PartOf(roles, k), roles[i] # "text"
    PROVE  i = Opened(roles)[k] /\ roles[i] = "heading"
<1> DEFINE o == Opened(roles)
<1>1. /\ Len(o) \in Nat /\ Len(roles) \in Nat /\ DOMAIN roles = 1..Len(roles)
      /\ \A j \in DOMAIN roles : roles[j] \in RoleNames
      /\ \A j \in 1..Len(o) : o[j] \in 1..Len(roles)
      /\ \A j, l \in 1..Len(o) : j < l <=> o[j] < o[l]
      /\ \A j \in Openers(roles) : \E l \in 1..Len(o) : o[l] = j
  BY OpenedIs
<1>2. EndOf(roles, k) \in Nat /\ \A l \in 1..Len(o) : k < l => EndOf(roles, k) <= o[l]
  BY EndIs
<1> HIDE DEF o
<1>3. i \in DOMAIN roles /\ roles[i] # "title" /\ o[k] <= i /\ i < EndOf(roles, k) /\ k \in 1..Len(o)
  BY DEF PartOf, o
<1>4. roles[i] = "heading"
  BY <1>1, <1>3 DEF RoleNames
<1>5. i \in Openers(roles)
  BY <1>3, <1>4 DEF Openers
<1>6. PICK l \in 1..Len(o) : o[l] = i
  BY <1>1, <1>5
<1>7. ~(k < l)
  BY <1>1, <1>2, <1>3, <1>6
<1>8. ~(l < k)
  BY <1>1, <1>3, <1>6
<1>9. l = k
  BY <1>1, <1>3, <1>7, <1>8
<1> QED
  BY <1>4, <1>6, <1>9 DEF o

\* A sequence of an element and others.
LEMMA OwnIs ==
    ASSUME NEW h \in Int, NEW text \in Seq(Int)
    PROVE  /\ Own([heading |-> 0, text |-> text]) = text
           /\ h # 0 => LET own == Own([heading |-> h, text |-> text]) IN
                       /\ own \in Seq(Int) /\ Len(own) = 1 + Len(text) /\ own[1] = h
                       /\ \A n \in 1..Len(text) : own[1 + n] = text[n]
<1>1. <<>> \in Seq(Int) /\ Len(<<>>) = 0 /\ <<h>> \in Seq(Int) /\ Len(<<h>>) = 1 /\ <<h>>[1] = h
  OBVIOUS
<1>2. Own([heading |-> 0, text |-> text]) = <<>> \o text
  BY DEF Own
<1>3. <<>> \o text = text
  BY ConcatEmptySeq
<1>4. ASSUME h # 0
      PROVE  LET own == Own([heading |-> h, text |-> text]) IN
             /\ own \in Seq(Int) /\ Len(own) = 1 + Len(text) /\ own[1] = h
             /\ \A n \in 1..Len(text) : own[1 + n] = text[n]
  <2> DEFINE own == Own([heading |-> h, text |-> text])
  <2> DEFINE one == <<h>>
  <2>1. own = one \o text
    BY <1>4 DEF Own
  <2>2. Len(text) \in Nat
    BY LenProperties
  <2> HIDE DEF own, one
  <2>3. /\ own \in Seq(Int) /\ Len(own) = Len(one) + Len(text)
        /\ \A n \in 1..Len(one) + Len(text) : own[n] = IF n <= Len(one) THEN one[n] ELSE text[n - Len(one)]
    BY <1>1, <2>1, ConcatProperties DEF one
  <2> DEFINE y == Len(text)
  <2> HIDE DEF y
  <2>4. Len(one) = 1 /\ one[1] = h /\ y = Len(text) /\ y \in Nat
    BY <1>1, <2>2 DEF one, y
  <2>5. /\ Len(own) = 1 + y
        /\ \A n \in 1..1 + y : own[n] = IF n <= 1 THEN one[n] ELSE text[n - 1]
    BY <2>3, <2>4
  <2>6. own[1] = h
    BY <2>4, <2>5
  <2>7. \A n \in 1..y : own[1 + n] = text[n]
    BY <2>4, <2>5
  <2> QED
    BY <2>3, <2>4, <2>5, <2>6, <2>7 DEF own
<1> QED
  BY <1>2, <1>3, <1>4

LEMMA OpenerInPart ==
    ASSUME NEW roles \in Seq(RoleNames), NEW k \in 1..Len(Opened(roles))
    PROVE  Opened(roles)[k] \in PartOf(roles, k)
<1> DEFINE o == Opened(roles)
<1>1. /\ DOMAIN roles = 1..Len(roles) /\ Len(roles) \in Nat /\ Len(o) \in Nat
      /\ \A a \in 1..Len(o) : o[a] \in 1..Len(roles) /\ o[a] \in Openers(roles)
      /\ \A a, b \in 1..Len(o) : a < b <=> o[a] < o[b]
  BY OpenedIs
<1> HIDE DEF o
<1>2. k \in 1..Len(o)
  BY DEF o
<1>3. roles[o[k]] # "title"
  BY <1>1, <1>2 DEF Openers
<1>4. CASE k = Len(o)
  BY <1>1, <1>2, <1>3, <1>4 DEF PartOf, EndOf, o
<1>5. CASE k # Len(o)
  <2>1. k + 1 \in 1..Len(o) /\ k < k + 1
    BY <1>1, <1>2, <1>5
  <2>2. o[k] < o[k + 1] /\ o[k] <= o[k]
    BY <1>1, <1>2, <2>1
  <2> QED
    BY <1>1, <1>2, <1>3, <1>5, <2>2 DEF PartOf, EndOf, o
<1> QED
  BY <1>4, <1>5

LEMMA OwnHolds ==
    ASSUME NEW roles \in Seq(RoleNames), NEW k \in 1..Len(Opened(roles))
    PROVE  Holds(SectionsFrom(roles, Opened(roles))[k], PartOf(roles, k))
<1> DEFINE first == Opened(roles)[k]
<1> DEFINE part == SectionsFrom(roles, Opened(roles))[k]
<1> DEFINE text == part.text
<1> DEFINE own == Own(part)
<1>1. /\ part.heading = IF roles[first] = "heading" THEN first ELSE 0
      /\ text \in Seq(Int) /\ Len(text) \in Nat
      /\ \A m, n \in 1..Len(text) : m < n <=> text[m] < text[n]
      /\ \A i : (\E n \in 1..Len(text) : text[n] = i) <=> i \in PartOf(roles, k) /\ roles[i] = "text"
  BY TextOfPart
<1>2. first \in 1..Len(roles) /\ DOMAIN roles = 1..Len(roles) /\ Len(roles) \in Nat /\ first \in Int /\ first # 0
  <2>1. first \in 1..Len(roles) /\ DOMAIN roles = 1..Len(roles) /\ Len(roles) \in Nat
    BY OpenedIs
  <2> QED
    BY <2>1
<1>3. \A i \in PartOf(roles, k) : roles[i] # "text" => i = first /\ roles[i] = "heading"
  BY OneHeading
<1>4. DOMAIN own = 1..Len(own)
  <2>1. own \in Seq(Int) => DOMAIN own = 1..Len(own)
    BY LenProperties
  <2>2. own \in Seq(Int)
    <3>1. (IF part.heading = 0 THEN <<>> ELSE <<part.heading>>) \in Seq(Int)
      BY <1>1, <1>2
    <3> QED
      BY <1>1, <3>1, ConcatProperties DEF Own
  <2> QED
    BY <2>1, <2>2
<1>5. DOMAIN text = 1..Len(text)
  BY <1>1, LenProperties
<1>6. Own([heading |-> part.heading, text |-> text]) = own
  <2> HIDE DEF part
  <2> QED
    BY DEF Own
<1> HIDE DEF first, part, text, own
<1>7. ASSUME roles[first] # "heading" PROVE Holds(part, PartOf(roles, k))
  <2>1. own = text
    <3>1. part.heading = 0 /\ 0 \in Int
      BY <1>1, <1>7
    <3>2. Own([heading |-> 0, text |-> text]) = text
      BY <1>1, <3>1, OwnIs
    <3> QED
      BY <1>6, <3>1, <3>2
  <2>2. \A i \in PartOf(roles, k) : roles[i] = "text"
    BY <1>3, <1>7
  <2>3. Range(text) = PartOf(roles, k)
    BY <1>1, <1>5, <2>2 DEF Range
  <2> QED
    BY <1>1, <1>5, <2>1, <2>3 DEF Holds, own
<1>8. ASSUME roles[first] = "heading" PROVE Holds(part, PartOf(roles, k))
  <2> DEFINE m == Len(text)
  <2>1. /\ own \in Seq(Int) /\ Len(own) = 1 + m /\ own[1] = first
        /\ \A n \in 1..m : own[1 + n] = text[n]
    <3>1. part.heading = first
      BY <1>1, <1>8
    <3>2. LET one == Own([heading |-> first, text |-> text]) IN
             /\ one \in Seq(Int) /\ Len(one) = 1 + Len(text) /\ one[1] = first
             /\ \A n \in 1..Len(text) : one[1 + n] = text[n]
      BY <1>1, <1>2, OwnIs, ZenonT(30)
    <3> QED
      BY <1>6, <3>1, <3>2
  <2>2. m \in Nat
    BY <1>1
  <2>3. \A i : i \in Range(own) <=> \E n \in 1..1 + m : own[n] = i
    BY <1>4, <2>1 DEF Range
  <2>4. first \in PartOf(roles, k)
    BY OpenerInPart DEF first
  <2> HIDE DEF m
  <2>5. \A n \in 1..1 + m : n = 1 \/ (n - 1 \in 1..m /\ n = 1 + (n - 1))
    BY <2>2
  <2>6. \A n \in 1..m : 1 + n \in 1..1 + m
    BY <2>2
  <2>7. \A i : (\E n \in 1..m : text[n] = i) <=> i \in PartOf(roles, k) /\ roles[i] = "text"
    BY <1>1 DEF m
  <2>8. Range(own) = PartOf(roles, k)
    <3>1. ASSUME NEW i \in Range(own) PROVE i \in PartOf(roles, k)
      <4>1. PICK n \in 1..1 + m : own[n] = i
        BY <2>3
      <4>2. CASE n = 1
        BY <2>1, <2>4, <4>1, <4>2
      <4>3. CASE n # 1
        <5>1. n - 1 \in 1..m /\ own[n] = text[n - 1]
          BY <2>1, <2>5, <4>3
        <5> QED
          BY <2>7, <4>1, <5>1
      <4> QED
        BY <4>2, <4>3
    <3>2. ASSUME NEW i \in PartOf(roles, k) PROVE i \in Range(own)
      <4>1. CASE roles[i] = "text"
        <5>1. PICK n \in 1..m : text[n] = i
          BY <2>7, <4>1
        <5> QED
          BY <2>1, <2>3, <2>6, <5>1
      <4>2. CASE roles[i] # "text"
        <5>1. i = first
          BY <1>3, <4>2
        <5>2. 1 \in 1..1 + m
          BY <2>2
        <5> QED
          BY <2>1, <2>3, <5>1, <5>2
      <4> QED
        BY <4>1, <4>2
    <3> QED
      BY <3>1, <3>2
  <2>9. ASSUME NEW a \in DOMAIN own, NEW b \in DOMAIN own, a < b PROVE own[a] < own[b]
    <3>1. a \in 1..1 + m /\ b \in 1..1 + m /\ b # 1
      BY <1>4, <2>1, <2>2, <2>9
    <3>2. b - 1 \in 1..m /\ own[b] = text[b - 1]
      BY <2>1, <2>5, <3>1
    <3>3. CASE a = 1
      <4>1. text[b - 1] \in PartOf(roles, k) /\ roles[text[b - 1]] = "text"
        BY <2>7, <3>2
      <4>2. first <= text[b - 1] /\ first # text[b - 1] /\ text[b - 1] \in 1..Len(roles)
        BY <1>2, <1>8, <4>1 DEF PartOf, first
      <4>3. first < text[b - 1]
        BY <1>2, <4>2
      <4> QED
        BY <2>1, <3>2, <3>3, <4>3
    <3>4. CASE a # 1
      <4>1. a - 1 \in 1..m /\ own[a] = text[a - 1]
        BY <2>1, <2>5, <3>1, <3>4
      <4>2. a - 1 < b - 1
        BY <2>2, <2>9, <3>1
      <4>3. text[a - 1] < text[b - 1]
        BY <1>1, <3>2, <4>1, <4>2 DEF m
      <4> QED
        BY <3>2, <4>1, <4>3
    <3> QED
      BY <3>3, <3>4
  <2> QED
    BY <2>1, <2>8, <2>9 DEF Holds, own
<1> QED
  BY <1>7, <1>8 DEF part

\* Sections that hold the parts hold every line that is no title, in order.
LEMMA PartsKeepAll ==
    ASSUME NEW roles \in Seq(RoleNames)
    PROVE  AllIn(roles, SectionsFrom(roles, Opened(roles)))
<1> DEFINE o == Opened(roles)
<1> DEFINE all == SectionsFrom(roles, o)
<1>1. /\ DOMAIN o = 1..Len(o) /\ Len(o) \in Nat /\ DOMAIN roles = 1..Len(roles)
      /\ \A k \in 1..Len(o) : o[k] \in 1..Len(roles)
  BY OpenedIs
<1>2. DOMAIN all = 1..Len(o)
  BY <1>1 DEF SectionsFrom
<1>3. \A k \in 1..Len(o) :
         /\ Range(Own(all[k])) = PartOf(roles, k)
         /\ \A m, n \in DOMAIN Own(all[k]) : m < n => Own(all[k])[m] < Own(all[k])[n]
  BY OwnHolds DEF Holds
<1> HIDE DEF all, o
<1>4. UNION {PartOf(roles, k) : k \in 1..Len(o)} = DOMAIN roles \ Taken(roles, "title")
  <2>1. \A i \in DOMAIN roles : roles[i] # "title" => \E k \in 1..Len(o) : i \in PartOf(roles, k)
    BY PartsCover DEF o
  <2>2. \A k \in 1..Len(o) : \A i \in PartOf(roles, k) : i \in DOMAIN roles /\ roles[i] # "title"
    BY DEF PartOf
  <2> QED
    BY <2>1, <2>2 DEF Taken
<1>5. {Range(Own(all[k])) : k \in DOMAIN all} = {PartOf(roles, k) : k \in 1..Len(o)}
  BY <1>2, <1>3
<1>6. ASSUME NEW k \in 1..Len(o), NEW l \in 1..Len(o), k < l,
             NEW i \in PartOf(roles, k), NEW j \in PartOf(roles, l)
      PROVE  i < j
  <2>1. i < EndOf(roles, k) /\ o[l] <= j /\ i \in 1..Len(roles) /\ j \in 1..Len(roles)
    BY <1>1 DEF PartOf, o
  <2>2. EndOf(roles, k) \in Nat /\ EndOf(roles, k) <= o[l]
    BY <1>6, EndIs DEF o
  <2>3. o[l] \in 1..Len(roles)
    BY <1>1
  <2> QED
    BY <2>1, <2>2, <2>3
<1>7. AllIn(roles, all)
  <2>1. UNION {Range(Own(all[k])) : k \in DOMAIN all} = DOMAIN roles \ Taken(roles, "title")
    BY <1>4, <1>5
  <2>2. \A k, l \in DOMAIN all : k < l =>
          \A i \in Range(Own(all[k])), j \in Range(Own(all[l])) : i < j
    BY <1>2, <1>3, <1>6
  <2>3. \A k \in DOMAIN all :
          \A m, n \in DOMAIN Own(all[k]) : m < n => Own(all[k])[m] < Own(all[k])[n]
    BY <1>2, <1>3
  <2> QED
    BY <2>1, <2>2, <2>3 DEF AllIn
<1> QED
  BY <1>7 DEF all, o

\* One section that holds what is no title, in order.
LEMMA OneSection ==
    ASSUME NEW roles, NEW text \in Seq(Int), Range(text) = DOMAIN roles \ Taken(roles, "title"),
           \A m, n \in DOMAIN text : m < n => text[m] < text[n]
    PROVE  AllIn(roles, <<[heading |-> 0, text |-> text]>>)
<1> DEFINE s == [heading |-> 0, text |-> text]
<1>1. Own(s) = text
  BY OwnIs
<1> HIDE DEF s
<1>2. DOMAIN <<s>> = {1} /\ <<s>>[1] = s
  OBVIOUS
<1> DEFINE all == <<s>>
<1>3. DOMAIN all = {1} /\ all[1] = s
  BY <1>2
<1> HIDE DEF all
<1>4. UNION {Range(Own(all[k])) : k \in DOMAIN all} = Range(text)
  BY <1>1, <1>3
<1>5. \A k, l \in DOMAIN all : ~(k < l)
  BY <1>3
<1>6. AllIn(roles, all)
  BY <1>1, <1>3, <1>4, <1>5 DEF AllIn
<1> QED
  BY <1>6 DEF all, s

\* Whatever lines are taken for, none is lost.
LEMMA RolesKept == ASSUME NEW roles \in Seq(RoleNames) PROVE KeepsAll(roles)
<1> DEFINE o == Opened(roles)
<1> DEFINE parts == SectionsFrom(roles, o)
<1>1. /\ DOMAIN o = 1..Len(o) /\ Len(o) \in Nat /\ DOMAIN roles = 1..Len(roles)
      /\ \A k \in 1..Len(o) : o[k] \in 1..Len(roles)
      /\ \A k, l \in 1..Len(o) : k < l <=> o[k] < o[l]
  BY OpenedIs
<1>2. DOMAIN parts = 1..Len(o) /\ parts = [k \in 1..Len(o) |-> parts[k]]
  BY <1>1 DEF SectionsFrom
<1>3. AllIn(roles, parts)
  BY PartsKeepAll
<1>4. Sections(roles) = Whole(parts)
  BY DEF Sections, Opened
<1>5. \A k \in 1..Len(o) : Holds(parts[k], PartOf(roles, k))
  BY OwnHolds
<1>6. \A k \in 1..Len(o) : \A i \in PartOf(roles, k) : i = o[k] \/ roles[i] = "text"
  BY OneHeading
<1>7. \A k \in 1..Len(o) :
         /\ parts[k].heading = IF roles[o[k]] = "heading" THEN o[k] ELSE 0
         /\ parts[k].text \in Seq(Int)
         /\ \A i : (\E n \in 1..Len(parts[k].text) : parts[k].text[n] = i)
                        <=> i \in PartOf(roles, k) /\ roles[i] = "text"
  BY TextOfPart
<1>8. ASSUME NEW i \in DOMAIN roles, roles[i] # "title"
      PROVE  \E k \in 1..Len(o) : i \in PartOf(roles, k)
  BY <1>8, PartsCover
<1>9. \A k \in 1..Len(o) : \A i \in PartOf(roles, k) : i \in DOMAIN roles /\ roles[i] # "title"
  BY DEF PartOf
<1>10. \A k \in 1..Len(o) : o[k] \in PartOf(roles, k)
  BY OpenerInPart
<1> HIDE DEF o, parts
<1>11. CASE parts = <<>>
  <2>1. Sections(roles) = <<[heading |-> 0, text |-> <<>>]>>
    BY <1>4, <1>11 DEF Whole
  <2>2. 1..Len(o) = {}
    BY <1>2, <1>11, Empty
  <2>3. DOMAIN roles \ Taken(roles, "title") = {}
    BY <1>8, <2>2 DEF Taken
  <2>4. <<>> \in Seq(Int) /\ Range(<<>>) = {} /\ DOMAIN <<>> = {}
    BY Empty DEF Range
  <2> DEFINE none == <<>>
  <2> HIDE DEF none
  <2>5. AllIn(roles, <<[heading |-> 0, text |-> none]>>)
    BY <2>3, <2>4, OneSection DEF none
  <2> QED
    BY <2>1, <2>5 DEF KeepsAll, none
<1>12. CASE parts # <<>> /\ \A k \in DOMAIN parts : parts[k].text = <<>>
  <2> DEFINE text == [k \in DOMAIN parts |-> parts[k].heading]
  <2>1. Sections(roles) = <<[heading |-> 0, text |-> text]>>
    BY <1>4, <1>12 DEF Whole
  <2>2. ASSUME NEW k \in 1..Len(o) PROVE PartOf(roles, k) = {o[k]} /\ text[k] = o[k]
    <3>1. parts[k].text = <<>> /\ Len(parts[k].text) = 0
      BY <1>2, <1>12, Empty
    <3>2. \A i \in PartOf(roles, k) : roles[i] # "text"
      BY <1>7, <3>1
    <3>3. PartOf(roles, k) = {o[k]}
      BY <1>6, <1>10, <3>2
    <3>4. roles[o[k]] = "heading"
      <4>1. o[k] \in PartOf(roles, k) /\ roles[o[k]] # "text"
        BY <1>10, <3>2
      <4> QED
        BY <4>1, OneHeading DEF o
    <3> QED
      BY <1>2, <1>7, <3>3, <3>4
  <2>3. text \in Seq(Int) /\ DOMAIN text = 1..Len(o)
    <3>1. DOMAIN text = 1..Len(o) /\ \A k \in 1..Len(o) : text[k] \in Int
      BY <1>1, <1>2, <2>2
    <3> HIDE DEF text
    <3>2. text = [k \in 1..Len(o) |-> text[k]]
      BY <1>2 DEF text
    <3> QED
      BY <1>1, <3>1, <3>2
  <2>4. Range(text) = DOMAIN roles \ Taken(roles, "title")
    <3> HIDE DEF text
    <3>1. ASSUME NEW i \in Range(text) PROVE i \in DOMAIN roles \ Taken(roles, "title")
      <4>1. PICK k \in 1..Len(o) : text[k] = i
        BY <2>3 DEF Range
      <4> QED
        BY <1>9, <2>2, <4>1 DEF Taken
    <3>2. ASSUME NEW i \in DOMAIN roles \ Taken(roles, "title") PROVE i \in Range(text)
      <4>1. PICK k \in 1..Len(o) : i \in PartOf(roles, k)
        BY <1>8 DEF Taken
      <4> QED
        BY <2>2, <2>3, <4>1 DEF Range
    <3> QED
      BY <3>1, <3>2
  <2>5. \A m, n \in DOMAIN text : m < n => text[m] < text[n]
    <3> HIDE DEF text
    <3> QED
      BY <1>1, <2>2, <2>3
  <2> HIDE DEF text
  <2>6. AllIn(roles, <<[heading |-> 0, text |-> text]>>)
    BY <2>3, <2>4, <2>5, OneSection
  <2> QED
    BY <2>1, <2>6 DEF KeepsAll
<1>13. CASE parts # <<>> /\ ~\A k \in DOMAIN parts : parts[k].text = <<>>
  <2>1. Sections(roles) = parts
    BY <1>4, <1>13 DEF Whole
  <2> QED
    BY <1>3, <2>1 DEF KeepsAll
<1> QED
  BY <1>11, <1>12, <1>13

-----------------------------------------------------------------------------
(* Sums over finite sets.                                                  *)

APick(s) == CHOOSE x \in s : TRUE

SumsUp(f, w, S) ==
    f = [s \in SUBSET S |-> IF s = {} THEN 0 ELSE w[APick(s)] + f[s \ {APick(s)}]]

Total(w, S) == (CHOOSE f : SumsUp(f, w, S))[S]

LEMMA PickIsIn == ASSUME NEW s, s # {} PROVE APick(s) \in s
BY DEF APick

LEMMA WithoutPick ==
    ASSUME NEW s, IsFiniteSet(s), s # {}
    PROVE  /\ APick(s) \in s /\ IsFiniteSet(s \ {APick(s)})
           /\ Cardinality(s) \in Nat /\ Cardinality(s \ {APick(s)}) \in Nat
           /\ Cardinality(s \ {APick(s)}) = Cardinality(s) - 1
BY PickIsIn, FS_RemoveElement, FS_CardinalityType

LEMMA SumExists ==
    ASSUME NEW S, IsFiniteSet(S), NEW w PROVE \E f : SumsUp(f, w, S)
<1> DEFINE Adds(f, s) == f[s] = IF s = {} THEN 0 ELSE w[APick(s)] + f[s \ {APick(s)}]
<1> DEFINE Solved(n) == \E f : \A s \in SUBSET S : Cardinality(s) <= n => Adds(f, s)
<1> DEFINE bad == {n \in Nat : ~Solved(n)}
<1>1. \A s \in SUBSET S : IsFiniteSet(s) /\ Cardinality(s) \in Nat /\ Cardinality(s) <= Cardinality(S)
  BY FS_Subset, FS_CardinalityType
<1>2. ASSUME bad # {} PROVE FALSE
  <2>1. PICK m \in bad : \A n \in bad : m <= n
    <3>1. bad \in SUBSET Nat
      OBVIOUS
    <3> HIDE DEF bad
    <3> QED
      BY <1>2, <3>1, HasLeast
  <2>2. m \in Nat /\ ~Solved(m)
    OBVIOUS
  <2>3. CASE m = 0
    <3> DEFINE f == [s \in SUBSET S |-> 0]
    <3>1. \A s \in SUBSET S : Cardinality(s) <= 0 => s = {}
      BY <1>1, FS_EmptySet
    <3>2. \A s \in SUBSET S : Cardinality(s) <= 0 => Adds(f, s)
      BY <3>1
    <3> QED
      BY <2>2, <2>3, <3>2
  <2>4. CASE m # 0
    <3>1. m - 1 \in Nat /\ ~(m <= m - 1)
      BY <2>2, <2>4
    <3>2. Solved(m - 1)
      BY <2>1, <3>1
    <3> HIDE DEF bad
    <3>3. PICK f : \A s \in SUBSET S : Cardinality(s) <= m - 1 => Adds(f, s)
      BY <3>2
    <3> DEFINE g == [s \in SUBSET S |-> IF s = {} THEN 0 ELSE w[APick(s)] + f[s \ {APick(s)}]]
    <3>4. \A s \in SUBSET S : g[s] = IF s = {} THEN 0 ELSE w[APick(s)] + f[s \ {APick(s)}]
      OBVIOUS
    <3> HIDE DEF g
    <3>5. \A s \in SUBSET S : Cardinality(s) <= m - 1 => f[s] = g[s]
      BY <3>3, <3>4
    <3>6. ASSUME NEW s \in SUBSET S, Cardinality(s) <= m PROVE Adds(g, s)
      <4>1. CASE s = {}
        BY <3>4, <4>1
      <4>2. CASE s # {}
        <5> DEFINE t == s \ {APick(s)}
        <5>1. t \in SUBSET S /\ Cardinality(t) \in Nat /\ Cardinality(s) \in Nat /\ Cardinality(t) = Cardinality(s) - 1
          BY <1>1, <4>2, WithoutPick
        <5>2. Cardinality(t) <= m - 1
          BY <2>2, <3>6, <5>1
        <5>3. f[t] = g[t]
          BY <3>5, <5>1, <5>2
        <5> QED
          BY <3>4, <4>2, <5>3
      <4> QED
        BY <4>1, <4>2
    <3> HIDE DEF Adds
    <3> QED
      BY <2>2, <3>6
  <2> QED
    BY <2>3, <2>4
<1>3. Cardinality(S) \in Nat
  BY FS_CardinalityType
<1>4. Solved(Cardinality(S))
  BY <1>2, <1>3
<1> HIDE DEF bad
<1>5. PICK f : \A s \in SUBSET S : Adds(f, s)
  BY <1>1, <1>4
<1> DEFINE g == [s \in SUBSET S |-> f[s]]
<1>6. \A s \in SUBSET S : s # {} => s \ {APick(s)} \in SUBSET S
  OBVIOUS
<1>7. \A s \in SUBSET S : g[s] = IF s = {} THEN 0 ELSE w[APick(s)] + g[s \ {APick(s)}]
  BY <1>5, <1>6
<1>8. g = [s \in SUBSET S |-> g[s]]
  OBVIOUS
<1> HIDE DEF g
<1>9. SumsUp(g, w, S)
  BY <1>7, <1>8 DEF SumsUp
<1> QED
  BY <1>9

\* Over a set and its subsets, sums are what the same function adds up to.
LEMMA SumAgrees ==
    ASSUME NEW S, IsFiniteSet(S), NEW T \in SUBSET S, NEW w, NEW f, NEW g,
           SumsUp(f, w, S), SumsUp(g, w, T)
    PROVE  \A s \in SUBSET T : g[s] = f[s]
<1> DEFINE bad == {n \in Nat : \E s \in SUBSET T : Cardinality(s) = n /\ g[s] # f[s]}
<1>1. \A s \in SUBSET S : IsFiniteSet(s) /\ Cardinality(s) \in Nat
  BY FS_Subset, FS_CardinalityType
<1>2. \A s \in SUBSET S : f[s] = IF s = {} THEN 0 ELSE w[APick(s)] + f[s \ {APick(s)}]
  BY DEF SumsUp
<1>3. \A s \in SUBSET T : g[s] = IF s = {} THEN 0 ELSE w[APick(s)] + g[s \ {APick(s)}]
  BY DEF SumsUp
<1>4. ASSUME bad # {} PROVE FALSE
  <2>1. PICK m \in bad : \A n \in bad : m <= n
    <3>1. bad \in SUBSET Nat
      OBVIOUS
    <3> HIDE DEF bad
    <3> QED
      BY <1>4, <3>1, HasLeast
  <2>2. PICK s \in SUBSET T : Cardinality(s) = m /\ g[s] # f[s]
    BY <2>1
  <2>3. s \in SUBSET S /\ s # {}
    BY <1>2, <1>3, <2>2
  <2> DEFINE t == s \ {APick(s)}
  <2>4. t \in SUBSET T /\ Cardinality(t) \in Nat /\ Cardinality(s) \in Nat /\ Cardinality(t) = Cardinality(s) - 1
    BY <1>1, <2>3, WithoutPick
  <2>5. g[t] # f[t]
    BY <1>2, <1>3, <2>2, <2>3, <2>4
  <2>6. Cardinality(t) \in bad
    BY <2>4, <2>5
  <2>7. m <= Cardinality(t)
    BY <2>1, <2>6
  <2> QED
    BY <2>2, <2>4, <2>7
<1> QED
  <2> SUFFICES ASSUME NEW s \in SUBSET T, g[s] # f[s] PROVE FALSE
    OBVIOUS
  <2>1. Cardinality(s) \in Nat
    BY <1>1
  <2>2. Cardinality(s) \in bad
    BY <2>1
  <2> QED
    BY <1>4, <2>2

LEMMA TotalIs ==
    ASSUME NEW S, IsFiniteSet(S), NEW w
    PROVE  \E f : SumsUp(f, w, S) /\ \A s \in SUBSET S : Total(w, s) = f[s]
<1>1. PICK f : SumsUp(f, w, S)
  BY SumExists
<1>2. ASSUME NEW s \in SUBSET S PROVE Total(w, s) = f[s]
  <2>1. IsFiniteSet(s)
    BY FS_Subset
  <2> DEFINE g == CHOOSE h : SumsUp(h, w, s)
  <2>2. SumsUp(g, w, s)
    BY <2>1, SumExists
  <2>3. Total(w, s) = g[s]
    BY DEF Total
  <2> HIDE DEF g
  <2>4. g[s] = f[s]
    BY <1>1, <2>2, SumAgrees
  <2> QED
    BY <2>3, <2>4
<1> QED
  BY <1>1, <1>2

\* The sum without one element, and its type.
LEMMA TotalStep ==
    ASSUME NEW S, IsFiniteSet(S), NEW w
    PROVE  /\ Total(w, {}) = 0
           /\ S # {} => Total(w, S) = w[APick(S)] + Total(w, S \ {APick(S)})
<1>1. PICK f : SumsUp(f, w, S) /\ \A s \in SUBSET S : Total(w, s) = f[s]
  BY TotalIs
<1>2. \A s \in SUBSET S : f[s] = IF s = {} THEN 0 ELSE w[APick(s)] + f[s \ {APick(s)}]
  BY <1>1 DEF SumsUp
<1>3. {} \in SUBSET S /\ S \in SUBSET S /\ S \ {APick(S)} \in SUBSET S
  OBVIOUS
<1> QED
  BY <1>1, <1>2, <1>3

LEMMA TotalType ==
    ASSUME NEW S, IsFiniteSet(S), NEW w, \A x \in S : w[x] \in Nat
    PROVE  Total(w, S) \in Nat
<1> DEFINE bad == {n \in Nat : \E s \in SUBSET S : Cardinality(s) = n /\ Total(w, s) \notin Nat}
<1>1. \A s \in SUBSET S : IsFiniteSet(s) /\ Cardinality(s) \in Nat
  BY FS_Subset, FS_CardinalityType
<1>2. ASSUME bad # {} PROVE FALSE
  <2>1. PICK m \in bad : \A n \in bad : m <= n
    <3>1. bad \in SUBSET Nat
      OBVIOUS
    <3> HIDE DEF bad
    <3> QED
      BY <1>2, <3>1, HasLeast
  <2>2. PICK s \in SUBSET S : Cardinality(s) = m /\ Total(w, s) \notin Nat
    BY <2>1
  <2>3. s # {} /\ IsFiniteSet(s)
    BY <1>1, <2>2, TotalStep
  <2> DEFINE t == s \ {APick(s)}
  <2>4. /\ t \in SUBSET S /\ Cardinality(t) \in Nat /\ Cardinality(s) \in Nat
        /\ Cardinality(t) = Cardinality(s) - 1 /\ APick(s) \in S
    BY <1>1, <2>3, WithoutPick
  <2>5. Total(w, s) = w[APick(s)] + Total(w, t) /\ w[APick(s)] \in Nat
    BY <2>3, <2>4, TotalStep
  <2>6. Total(w, t) \notin Nat
    BY <2>2, <2>5
  <2>7. Cardinality(t) \in bad
    BY <2>4, <2>6
  <2>8. m <= Cardinality(t)
    BY <2>1, <2>7
  <2> QED
    BY <2>2, <2>4, <2>8
<1>3. S \in SUBSET S /\ Cardinality(S) \in Nat
  BY <1>1
<1> QED
  BY <1>2, <1>3

\* The elements of S have weights; x is one that T has not.
Weighs(w, S) == IsFiniteSet(S) /\ \A y \in S : w[y] \in Nat
Without(w, S, T, x) == Weighs(w, S) /\ T \subseteq S /\ x \in S /\ x \notin T

\* An element adds its own value to the sum, whichever element is picked first.
LEMMA TotalAdds ==
    ASSUME NEW S, NEW w, NEW T, NEW x, Without(w, S, T, x)
    PROVE  Total(w, T \cup {x}) = w[x] + Total(w, T)
<1> DEFINE Fails(t, y) == y \notin t /\ Total(w, t \cup {y}) # w[y] + Total(w, t)
<1> DEFINE bad == {n \in Nat : \E t \in SUBSET S, y \in S : Cardinality(t) = n /\ Fails(t, y)}
<1>0. IsFiniteSet(S) /\ (\A y \in S : w[y] \in Nat) /\ T \in SUBSET S /\ x \in S /\ x \notin T
  BY DEF Weighs, Without
<1>1. \A s \in SUBSET S : IsFiniteSet(s) /\ Cardinality(s) \in Nat /\ Total(w, s) \in Nat
  BY <1>0, FS_Subset, FS_CardinalityType, TotalType
<1>2. ASSUME bad # {} PROVE FALSE
  <2>1. PICK m \in bad : \A n \in bad : m <= n
    <3>1. bad \in SUBSET Nat
      OBVIOUS
    <3> HIDE DEF bad
    <3> QED
      BY <1>2, <3>1, HasLeast
  <2>2. PICK t \in SUBSET S, y \in S : Cardinality(t) = m /\ Fails(t, y)
    OBVIOUS
  <2> DEFINE all == t \cup {y}
  <2> DEFINE c == APick(all)
  <2>3. all \in SUBSET S /\ all # {} /\ c \in all /\ IsFiniteSet(all) /\ y \notin t
    BY <1>1, <2>2, PickIsIn
  <2>4. Total(w, all) = w[c] + Total(w, all \ {c})
    BY <2>3, TotalStep
  <2>5. CASE c = y
    <3>1. all \ {c} = t
      BY <2>3, <2>5
    <3> QED
      BY <2>2, <2>4, <2>5, <3>1
  <2>6. CASE c # y
    <3> DEFINE r == t \ {c}
    <3>1. c \in t /\ all \ {c} = r \cup {y} /\ t = r \cup {c} /\ c \notin r /\ y \notin r /\ r \in SUBSET S /\ c \in S
      <4>1. c \in t /\ c \in S /\ c # y
        BY <2>3, <2>6
      <4> HIDE DEF c
      <4> QED
        BY <2>3, <4>1
    <3>2. Cardinality(r) = Cardinality(t) - 1 /\ Cardinality(r) \in Nat
      <4>1. IsFiniteSet(t) /\ c \in t
        BY <1>1, <3>1
      <4>2. Cardinality(r) \in Nat
        BY <1>1, <3>1
      <4> HIDE DEF c
      <4>3. Cardinality(t \ {c}) = Cardinality(t) - 1
        BY <4>1, FS_RemoveElement
      <4> QED
        BY <4>2, <4>3
    <3>3. Cardinality(r) \notin bad
      <4>1. m \in Nat /\ ~(m <= m - 1)
        BY <2>1
      <4> QED
        BY <2>1, <2>2, <3>2, <4>1
    <3>4. ~Fails(r, y) /\ ~Fails(r, c)
      BY <3>1, <3>2, <3>3
    <3>5. Total(w, r \cup {y}) = w[y] + Total(w, r) /\ Total(w, t) = w[c] + Total(w, r)
      BY <3>1, <3>4
    <3>6. w[c] \in Nat /\ w[y] \in Nat /\ Total(w, r) \in Nat
      BY <1>0, <1>1, <3>1
    <3>7. Total(w, all) = w[c] + (w[y] + Total(w, r))
      BY <2>4, <3>1, <3>5
    <3> DEFINE p == w[c]
    <3> DEFINE q == w[y]
    <3> DEFINE z == Total(w, r)
    <3> HIDE DEF p, q, z
    <3>8. p + (q + z) = q + (p + z)
      BY <3>6 DEF p, q, z
    <3>9. Total(w, all) = w[y] + Total(w, t)
      BY <3>5, <3>7, <3>8 DEF p, q, z
    <3> QED
      BY <2>2, <3>9
  <2> QED
    BY <2>5, <2>6
<1>3. Cardinality(T) \in Nat
  BY <1>0, <1>1
<1>4. ~Fails(T, x)
  BY <1>0, <1>2, <1>3
<1> QED
  BY <1>0, <1>4

\* Some element of a finite set has the greatest measure.
LEMMA HasGreatestMeasure ==
    ASSUME NEW n \in Nat, NEW v, \A i \in 1..n : v[i] \in Nat, n # 0
    PROVE  \E i \in 1..n : \A j \in 1..n : v[i] >= v[j]
<1> DEFINE Has(k) == \E i \in 1..k : \A j \in 1..k : v[i] >= v[j]
<1> DEFINE bad == {k \in 1..n : ~Has(k)}
<1>1. ASSUME bad # {} PROVE FALSE
  <2>1. PICK m \in bad : \A k \in bad : m <= k
    <3>1. bad \in SUBSET Nat
      OBVIOUS
    <3> HIDE DEF bad
    <3> QED
      BY <1>1, <3>1, HasLeast
  <2>2. m \in 1..n /\ ~Has(m)
    OBVIOUS
  <2>3. CASE m = 1
    <3>1. 1 \in 1..1 /\ \A j \in 1..1 : j = 1
      OBVIOUS
    <3>2. v[1] >= v[1]
      BY <2>2, <2>3
    <3>3. \A j \in 1..1 : v[1] >= v[j]
      BY <3>1, <3>2
    <3> QED
      BY <2>2, <2>3, <3>1, <3>3
  <2>4. CASE m # 1
    <3>1. m - 1 \in 1..n /\ ~(m <= m - 1) /\ m \in 1..m /\ \A j \in 1..m : j = m \/ j \in 1..(m - 1)
      BY <2>2, <2>4
    <3>2. Has(m - 1)
      BY <2>1, <3>1
    <3> HIDE DEF bad
    <3>3. PICK i \in 1..(m - 1) : \A j \in 1..(m - 1) : v[i] >= v[j]
      BY <3>2
    <3>4. i \in 1..m /\ i \in 1..n /\ v[i] \in Nat /\ v[m] \in Nat /\ \A j \in 1..m : v[j] \in Nat
      BY <2>2, <3>1, <3>3
    <3>5. CASE v[i] >= v[m]
      <4>1. \A j \in 1..m : v[i] >= v[j]
        BY <3>1, <3>3, <3>5
      <4> QED
        BY <2>2, <3>4, <4>1
    <3>6. CASE ~(v[i] >= v[m])
      <4>1. \A j \in 1..m : v[m] >= v[j]
        BY <3>1, <3>3, <3>4, <3>6
      <4> QED
        BY <2>2, <3>1, <4>1
    <3> QED
      BY <3>5, <3>6
  <2> QED
    BY <2>3, <2>4
<1>2. n \in 1..n
  OBVIOUS
<1> QED
  BY <1>1, <1>2

-----------------------------------------------------------------------------
(* A document with lines has text.                                         *)

\* Of lines with sizes of their own weight, the first of the heaviest size is found.
LEMMA MostCommonIs ==
    ASSUME NEW lines \in Seq(Line), lines # <<>>, NEW weights,
           \A i \in DOMAIN lines : weights[lines[i].size] \in Nat
    PROVE  \E i \in DOMAIN lines : MostCommon(lines, weights) = lines[i].size
<1> DEFINE heavier(i, j) == weights[lines[i].size] > weights[lines[j].size]
<1> DEFINE v == [i \in DOMAIN lines |-> weights[lines[i].size]]
<1> DEFINE First(i) == \A j \in DOMAIN lines : heavier(i, j) \/ (~heavier(j, i) /\ i <= j)
<1>1. DOMAIN lines = 1..Len(lines) /\ Len(lines) \in Nat /\ Len(lines) # 0
  BY LenProperties, EmptySeq
<1>2. \A i \in 1..Len(lines) : v[i] \in Nat
  BY <1>1
<1>3. \A i, j \in 1..Len(lines) : heavier(i, j) <=> v[i] > v[j]
  BY <1>1
<1>4. MostCommon(lines, weights) = lines[CHOOSE i \in DOMAIN lines : First(i)].size
  BY DEF MostCommon
<1> HIDE DEF v, heavier
<1>5. PICK a \in 1..Len(lines) : \A j \in 1..Len(lines) : v[a] >= v[j]
  BY <1>1, <1>2, HasGreatestMeasure
<1> DEFINE top == {i \in 1..Len(lines) : v[i] = v[a]}
<1>6. top \in SUBSET Nat /\ top # {}
  OBVIOUS
<1>7. PICK b \in top : \A i \in top : b <= i
  <2> HIDE DEF top
  <2> QED
    BY <1>6, HasLeast
<1>8. b \in 1..Len(lines) /\ v[b] = v[a]
  OBVIOUS
<1>9. ASSUME NEW j \in 1..Len(lines) PROVE heavier(b, j) \/ (~heavier(j, b) /\ b <= j)
  <2>1. v[b] >= v[j] /\ v[b] \in Nat /\ v[j] \in Nat
    BY <1>2, <1>5, <1>8
  <2>2. CASE v[j] = v[a]
    <3>1. b <= j
      BY <1>7, <2>2
    <3> QED
      BY <1>3, <1>8, <2>1, <2>2, <3>1
  <2>3. CASE v[j] # v[a]
    BY <1>3, <1>8, <2>1, <2>3
  <2> QED
    BY <2>2, <2>3
<1>10. First(b) /\ b \in DOMAIN lines
  BY <1>1, <1>8, <1>9
<1> HIDE DEF First
<1> QED
  BY <1>4, <1>10

LEMMA WeightIsTotal ==
    ASSUME NEW lines \in Seq(Line), NEW size, NEW w, w = [i \in DOMAIN lines |-> lines[i].len]
    PROVE  MapThenSumSet(LAMBDA i : lines[i].len, {i \in DOMAIN lines : lines[i].size = size})
             = Total(w, {i \in DOMAIN lines : lines[i].size = size})
<1> DEFINE S == {i \in DOMAIN lines : lines[i].size = size}
<1> DEFINE A(f) == f = [s \in SUBSET S |-> IF s = {} THEN 0
                        ELSE LET x == CHOOSE x \in s : TRUE IN lines[x].len + f[s \ {x}]]
<1>1. MapThenSumSet(LAMBDA i : lines[i].len, S) = (CHOOSE f : A(f))[S]
  BY DEF MapThenSumSet, MapThenFoldSet
<1>2. S \in SUBSET DOMAIN lines
  OBVIOUS
<1> HIDE DEF S
<1>3. \A f : A(f) <=> SumsUp(f, w, S)
  <2> TAKE f
  <2> DEFINE a(s) == IF s = {} THEN 0 ELSE LET x == CHOOSE x \in s : TRUE IN lines[x].len + f[s \ {x}]
  <2> DEFINE b(s) == IF s = {} THEN 0 ELSE w[APick(s)] + f[s \ {APick(s)}]
  <2>1. \A s \in SUBSET S : a(s) = b(s)
    <3> SUFFICES ASSUME NEW s \in SUBSET S, s # {} PROVE a(s) = b(s)
      OBVIOUS
    <3>1. APick(s) \in DOMAIN lines /\ w[APick(s)] = lines[APick(s)].len
      BY <1>2, PickIsIn
    <3> QED
      BY <3>1 DEF APick
  <2>2. A(f) <=> f = [s \in SUBSET S |-> a(s)]
    OBVIOUS
  <2>3. SumsUp(f, w, S) <=> f = [s \in SUBSET S |-> b(s)]
    BY DEF SumsUp
  <2> HIDE DEF a, b, A
  <2> QED
    BY <2>1, <2>2, <2>3
<1> HIDE DEF A
<1>4. (CHOOSE f : A(f)) = CHOOSE f : SumsUp(f, w, S)
  BY <1>3
<1>5. MapThenSumSet(LAMBDA i : lines[i].len, S) = Total(w, S)
  BY <1>1, <1>4 DEF Total
<1> QED
  BY <1>5 DEF S

LEMMA WeightsAre ==
    ASSUME NEW lines \in Seq(Line), NEW i \in DOMAIN lines
    PROVE  Weights(lines)[lines[i].size] \in Nat
<1> DEFINE w == [j \in DOMAIN lines |-> lines[j].len]
<1> DEFINE S == {j \in DOMAIN lines : lines[j].size = lines[i].size}
<1>1. DOMAIN lines = 1..Len(lines) /\ Len(lines) \in Nat /\ \A j \in DOMAIN lines : lines[j] \in Line
  BY LenProperties, ElementOfSeq
<1>2. \A j \in DOMAIN lines : w[j] \in Nat
  BY <1>1 DEF Line
<1>3. IsFiniteSet(S)
  <2>1. IsFiniteSet(1..Len(lines))
    BY <1>1, FS_Interval
  <2> QED
    BY <1>1, <2>1, FS_Subset
<1>4. MapThenSumSet(LAMBDA j : lines[j].len, S) = Total(w, S)
  BY WeightIsTotal
<1>5. Weights(lines)[lines[i].size] = MapThenSumSet(LAMBDA j : lines[j].len, S)
  BY DEF Weights
<1>6. \A j \in S : w[j] \in Nat
  BY <1>2
<1> HIDE DEF S, w
<1>7. Total(w, S) \in Nat
  BY <1>3, <1>6, TotalType
<1> QED
  BY <1>4, <1>5, <1>7

\* The line that is taken for the title is of about the largest size.
LEMMA TitleIsLarge ==
    ASSUME NEW lines \in Seq(Line), NEW min \in Nat, TitleLine(lines, min) \in DOMAIN lines
    PROVE  lines[TitleLine(lines, min)].size >= min + TitleMargin - 1
<1> DEFINE sizes == {lines[i].size : i \in DOMAIN lines} \cup {0}
<1> DEFINE largest == Max(sizes)
<1> DEFINE large == {i \in DOMAIN lines : lines[i].size >= largest - 1}
<1> DEFINE v == [i \in DOMAIN lines |-> lines[i].size]
<1>1. DOMAIN lines = 1..Len(lines) /\ Len(lines) \in Nat /\ \A i \in DOMAIN lines : lines[i] \in Line
  BY LenProperties, ElementOfSeq
<1>2. \A i \in 1..Len(lines) : v[i] = lines[i].size /\ v[i] \in Nat
  BY <1>1 DEF Line
<1>3. TitleLine(lines, min) = IF largest >= min + TitleMargin THEN Min(large) ELSE 0
  BY DEF TitleLine
<1>4. largest >= min + TitleMargin /\ TitleLine(lines, min) = Min(large) /\ Len(lines) # 0
  <2>1. 0 \notin DOMAIN lines
    BY <1>1
  <2>2. Len(lines) # 0
    BY <1>1
  <2> QED
    BY <1>3, <2>1, <2>2
<1> HIDE DEF v
<1>5. PICK a \in 1..Len(lines) : \A j \in 1..Len(lines) : v[a] >= v[j]
  BY <1>1, <1>2, <1>4, HasGreatestMeasure
<1>6. largest = v[a] /\ v[a] \in Nat
  <2>1. v[a] \in sizes /\ \A x \in sizes : x \in Nat /\ v[a] >= x
    BY <1>1, <1>2, <1>5
  <2> HIDE DEF sizes
  <2>2. \A x \in sizes : (\A y \in sizes : x >= y) => x = v[a]
    BY <2>1
  <2> QED
    BY <2>1, <2>2 DEF Max
<1> HIDE DEF largest
<1>7. a \in large /\ large \in SUBSET Nat
  BY <1>1, <1>2, <1>6
<1>8. Min(large) \in large
  <2> HIDE DEF large
  <2>1. \E m \in large : \A k \in large : m <= k
    BY <1>7, HasLeast
  <2> QED
    BY <2>1 DEF Min
<1>9. lines[Min(large)].size >= largest - 1 /\ lines[Min(large)].size \in Nat
  BY <1>1, <1>8 DEF Line
<1> QED
  BY <1>4, <1>6, <1>9 DEF TitleMargin

\* A line of the body's size is neither a title nor a heading.
LEMMA LinesHaveText ==
    ASSUME NEW lines \in Seq(Line) PROVE BodyIsText(lines)
<1> SUFFICES ASSUME lines # <<>>
             PROVE  \E i \in Taken(Roles(lines), "text") : lines[i].size = BodySize(lines)
  BY DEF BodyIsText
<1> DEFINE min == HeadingMin(lines)
<1> DEFINE title == TitleLine(lines, min)
<1>1. \A i \in DOMAIN lines : lines[i].size \in Nat
  <2>1. DOMAIN lines = 1..Len(lines) /\ \A i \in DOMAIN lines : lines[i] \in Line
    BY LenProperties, ElementOfSeq
  <2> QED
    BY <2>1 DEF Line
<1>2. PICK i \in DOMAIN lines : BodySize(lines) = lines[i].size
  BY WeightsAre, MostCommonIs DEF BodySize
<1>3. min = lines[i].size + HeadingMargin /\ min \in Nat
  BY <1>1, <1>2 DEF HeadingMin, HeadingMargin
<1> HIDE DEF min
<1>4. i # title
  <2>1. title \in DOMAIN lines => lines[title].size >= min + TitleMargin - 1
    BY <1>3, TitleIsLarge
  <2> HIDE DEF title
  <2>2. lines[i].size \in Nat /\ lines[i].size < min + TitleMargin - 1
    BY <1>1, <1>3 DEF HeadingMargin, TitleMargin
  <2> QED
    BY <1>1, <1>3, <2>1, <2>2 DEF TitleMargin
<1>5. ~IsHeading(lines[i], min)
  BY <1>1, <1>3 DEF IsHeading, HeadingMargin
<1>6. Roles(lines) = RolesFor(lines, min, title)
  BY DEF Roles, RolesAbove, min
<1> HIDE DEF title
<1>7. i \in DOMAIN Roles(lines) /\ Roles(lines)[i] = "text"
  BY <1>4, <1>5, <1>6 DEF RolesFor
<1> QED
  BY <1>2, <1>7 DEF Taken

\* Every line is taken for something.
LEMMA RolesAre ==
    ASSUME NEW lines \in Seq(Line)
    PROVE  Roles(lines) \in Seq(RoleNames) /\ DOMAIN Roles(lines) = DOMAIN lines
<1> DEFINE min == HeadingMin(lines)
<1> DEFINE title == TitleLine(lines, min)
<1> DEFINE r == RolesFor(lines, min, title)
<1>1. Roles(lines) = r
  BY DEF Roles, RolesAbove
<1>2. DOMAIN lines = 1..Len(lines) /\ Len(lines) \in Nat
  BY LenProperties
<1> HIDE DEF min, title
<1>3. r \in [1..Len(lines) -> RoleNames]
  BY <1>2 DEF RolesFor, RoleNames
<1> HIDE DEF r
<1>4. r \in Seq(RoleNames)
  BY <1>2, <1>3
<1> QED
  BY <1>1, <1>2, <1>3, <1>4

LEMMA LinesKept == ASSUME NEW lines \in Seq(Line) PROVE NoLineLost(lines)
BY RolesAre, RolesKept DEF NoLineLost

-----------------------------------------------------------------------------
(* What the chunker gets.                                                  *)

LEMMA PrefixIsTotal ==
    ASSUME NEW lines \in Seq(Line), NEW S \in SUBSET DOMAIN lines, NEW w,
           w = [i \in DOMAIN lines |-> lines[i].len + Separator]
    PROVE  MapThenSumSet(LAMBDA i : lines[i].len + Separator, S) = Total(w, S)
<1> DEFINE A(f) == f = [s \in SUBSET S |-> IF s = {} THEN 0
                        ELSE LET x == CHOOSE x \in s : TRUE IN (lines[x].len + Separator) + f[s \ {x}]]
<1>1. MapThenSumSet(LAMBDA i : lines[i].len + Separator, S) = (CHOOSE f : A(f))[S]
  BY DEF MapThenSumSet, MapThenFoldSet
<1>2. \A f : A(f) <=> SumsUp(f, w, S)
  <2> TAKE f
  <2> DEFINE a(s) == IF s = {} THEN 0
                     ELSE LET x == CHOOSE x \in s : TRUE IN (lines[x].len + Separator) + f[s \ {x}]
  <2> DEFINE b(s) == IF s = {} THEN 0 ELSE w[APick(s)] + f[s \ {APick(s)}]
  <2>1. \A s \in SUBSET S : a(s) = b(s)
    <3> SUFFICES ASSUME NEW s \in SUBSET S, s # {} PROVE a(s) = b(s)
      OBVIOUS
    <3>1. APick(s) \in DOMAIN lines /\ w[APick(s)] = lines[APick(s)].len + Separator
      BY PickIsIn
    <3> QED
      BY <3>1 DEF APick
  <2>2. A(f) <=> f = [s \in SUBSET S |-> a(s)]
    OBVIOUS
  <2>3. SumsUp(f, w, S) <=> f = [s \in SUBSET S |-> b(s)]
    BY DEF SumsUp
  <2> HIDE DEF a, b, A
  <2> QED
    BY <2>1, <2>2, <2>3
<1> HIDE DEF A
<1>3. (CHOOSE f : A(f)) = CHOOSE f : SumsUp(f, w, S)
  BY <1>2
<1> QED
  BY <1>1, <1>3 DEF Total

LEMMA EndIsTotal ==
    ASSUME NEW lines, NEW text, NEW S \in SUBSET DOMAIN text, NEW w,
           w = [q \in DOMAIN text |-> lines[text[q]].len]
    PROVE  MapThenSumSet(LAMBDA q : lines[text[q]].len, S) = Total(w, S)
<1> DEFINE A(f) == f = [s \in SUBSET S |-> IF s = {} THEN 0
                        ELSE LET x == CHOOSE x \in s : TRUE IN lines[text[x]].len + f[s \ {x}]]
<1>1. MapThenSumSet(LAMBDA q : lines[text[q]].len, S) = (CHOOSE f : A(f))[S]
  BY DEF MapThenSumSet, MapThenFoldSet
<1>2. \A f : A(f) <=> SumsUp(f, w, S)
  <2> TAKE f
  <2> DEFINE a(s) == IF s = {} THEN 0
                     ELSE LET x == CHOOSE x \in s : TRUE IN lines[text[x]].len + f[s \ {x}]
  <2> DEFINE b(s) == IF s = {} THEN 0 ELSE w[APick(s)] + f[s \ {APick(s)}]
  <2>1. \A s \in SUBSET S : a(s) = b(s)
    <3> SUFFICES ASSUME NEW s \in SUBSET S, s # {} PROVE a(s) = b(s)
      OBVIOUS
    <3>1. APick(s) \in DOMAIN text /\ w[APick(s)] = lines[text[APick(s)]].len
      BY PickIsIn
    <3> QED
      BY <3>1 DEF APick
  <2>2. A(f) <=> f = [s \in SUBSET S |-> a(s)]
    OBVIOUS
  <2>3. SumsUp(f, w, S) <=> f = [s \in SUBSET S |-> b(s)]
    BY DEF SumsUp
  <2> HIDE DEF a, b, A
  <2> QED
    BY <2>1, <2>2, <2>3
<1> HIDE DEF A
<1>3. (CHOOSE f : A(f)) = CHOOSE f : SumsUp(f, w, S)
  BY <1>2
<1> QED
  BY <1>1, <1>3 DEF Total

\* Each line of a text ends after the one before it.
LEMMA EndsRise ==
    ASSUME NEW lines \in Seq(Line), NEW text \in Seq(DOMAIN lines)
    PROVE  /\ EndsOf(lines, text) \in Seq(Nat \ {0})
           /\ \A p \in 2..Len(EndsOf(lines, text)) : EndsOf(lines, text)[p - 1] < EndsOf(lines, text)[p]
<1> DEFINE w == [q \in DOMAIN text |-> lines[text[q]].len]
<1> DEFINE ends == EndsOf(lines, text)
<1> DEFINE T(p) == Total(w, 1..p)
<1>1. /\ DOMAIN text = 1..Len(text) /\ Len(text) \in Nat
      /\ \A q \in DOMAIN text : text[q] \in DOMAIN lines
      /\ \A i \in DOMAIN lines : lines[i] \in Line
  BY LenProperties, ElementOfSeq
<1>2. \A q \in 1..Len(text) : w[q] \in Nat /\ w[q] > 0
  <2>1. \A q \in DOMAIN text : lines[text[q]].len \in Nat \ {0}
    BY <1>1 DEF Line
  <2> QED
    BY <1>1, <2>1
<1>3. ends = [p \in 1..Len(text) |-> T(p)]
  <2>1. ASSUME NEW p \in 1..Len(text)
        PROVE  MapThenSumSet(LAMBDA q : lines[text[q]].len, 1..p) = T(p)
    <3>1. 1..p \in SUBSET DOMAIN text
      BY <1>1
    <3> QED
      BY <3>1, EndIsTotal
  <2> DEFINE m(p) == MapThenSumSet(LAMBDA q : lines[text[q]].len, 1..p)
  <2>2. ends = [p \in 1..Len(text) |-> m(p)]
    BY <1>1 DEF EndsOf
  <2>3. \A p \in 1..Len(text) : m(p) = T(p)
    BY <2>1
  <2> HIDE DEF m, ends, T
  <2> QED
    BY <2>2, <2>3
<1> HIDE DEF w
<1> DEFINE n == Len(text)
<1>4. IsFiniteSet(1..n) /\ n \in Nat
  BY <1>1, FS_Interval
<1>5. ASSUME NEW p \in 1..n PROVE T(p) = w[p] + T(p - 1) /\ T(p - 1) \in Nat
  <2>1. 1..p = 1..(p - 1) \cup {p} /\ p \notin 1..(p - 1) /\ 1..(p - 1) \in SUBSET 1..n
    BY <1>4
  <2>2. IsFiniteSet(1..(p - 1))
    BY <1>4, <2>1, FS_Subset
  <2>3. \A x \in 1..(p - 1) : w[x] \in Nat
    BY <1>2, <2>1
  <2>4. Total(w, 1..(p - 1)) \in Nat
    BY <2>2, <2>3, TotalType
  <2>5. Total(w, 1..(p - 1) \cup {p}) = w[p] + Total(w, 1..(p - 1))
    <3> DEFINE S == 1..n
    <3> DEFINE t == 1..(p - 1)
    <3>1. Without(w, S, t, p)
      BY <1>2, <1>4, <2>1 DEF Weighs, Without
    <3> HIDE DEF S, t
    <3>2. Total(w, t \cup {p}) = w[p] + Total(w, t)
      BY <3>1, TotalAdds
    <3> QED
      BY <3>2 DEF t
  <2> QED
    BY <2>1, <2>4, <2>5
<1> HIDE DEF T
<1>6. \A p \in 1..n : T(p) \in Nat \ {0} /\ T(p - 1) < T(p)
  <2> TAKE p \in 1..n
  <2>1. w[p] \in Nat /\ w[p] > 0
    BY <1>2
  <2> QED
    BY <1>5, <2>1
<1> HIDE DEF n, ends
<1>7. ends \in [1..n -> Nat \ {0}]
  BY <1>3, <1>6 DEF n
<1>8. ends \in Seq(Nat \ {0}) /\ Len(ends) = n
  BY <1>4, <1>7
<1>9. \A p \in 2..n : ends[p - 1] < ends[p]
  <2> TAKE p \in 2..n
  <2>1. p \in 1..n /\ p - 1 \in 1..n
    BY <1>4
  <2> QED
    BY <1>3, <1>6, <2>1 DEF n
<1> QED
  BY <1>8, <1>9 DEF ends

\* A section names a line or none, and its text is lines.
IsSection(s, lines) == s.heading \in DOMAIN lines \cup {0} /\ s.text \in Seq(DOMAIN lines)

LEMMA SectionsAre ==
    ASSUME NEW lines, NEW roles \in Seq(RoleNames), DOMAIN roles = DOMAIN lines
    PROVE  \E n \in Nat : /\ DOMAIN Sections(roles) = 1..n
                          /\ \A k \in 1..n : IsSection(Sections(roles)[k], lines)
<1> DEFINE o == Opened(roles)
<1> DEFINE parts == SectionsFrom(roles, o)
<1>1. DOMAIN o = 1..Len(o) /\ Len(o) \in Nat /\ \A k \in 1..Len(o) : o[k] \in 1..Len(roles) /\ DOMAIN roles = 1..Len(roles)
  BY OpenedIs
<1>2. DOMAIN parts = 1..Len(o)
  BY <1>1 DEF SectionsFrom
<1>3. ASSUME NEW k \in 1..Len(o) PROVE IsSection(parts[k], lines)
  <2> DEFINE text == parts[k].text
  <2>1. /\ parts[k].heading = IF roles[o[k]] = "heading" THEN o[k] ELSE 0
        /\ text \in Seq(Int) /\ Len(text) \in Nat
        /\ \A i : (\E n \in 1..Len(text) : text[n] = i) <=> i \in PartOf(roles, k) /\ roles[i] = "text"
    BY TextOfPart
  <2> HIDE DEF text, parts, o
  <2>2. parts[k].heading \in DOMAIN lines \cup {0}
    BY <1>1, <2>1
  <2>3. \A n \in 1..Len(text) : text[n] \in DOMAIN lines
    <3> TAKE n \in 1..Len(text)
    <3>1. text[n] \in PartOf(roles, k)
      BY <2>1
    <3> QED
      BY <3>1 DEF PartOf
  <2>4. DOMAIN text = 1..Len(text) /\ text = [n \in 1..Len(text) |-> text[n]]
    BY <2>1, LenProperties
  <2>5. text \in Seq(DOMAIN lines)
    BY <2>1, <2>3, <2>4
  <2> QED
    BY <2>2, <2>5 DEF IsSection, text
<1>4. Sections(roles) = Whole(parts)
  BY DEF Sections, Opened
<1> HIDE DEF parts, o
<1>5. CASE parts = <<>>
  <2> DEFINE s == [heading |-> 0, text |-> <<>>]
  <2>1. Sections(roles) = <<s>>
    BY <1>4, <1>5 DEF Whole
  <2>2. IsSection(s, lines)
    <3>1. <<>> \in Seq(DOMAIN lines)
      BY Empty
    <3> QED
      BY <3>1 DEF IsSection
  <2> HIDE DEF s
  <2>3. DOMAIN <<s>> = 1..1 /\ \A k \in 1..1 : <<s>>[k] = s
    OBVIOUS
  <2>4. 1 \in Nat /\ DOMAIN Sections(roles) = 1..1 /\ \A k \in 1..1 : IsSection(Sections(roles)[k], lines)
    BY <2>1, <2>2, <2>3
  <2> QED
    BY <2>4
<1>6. CASE parts # <<>> /\ \A k \in DOMAIN parts : parts[k].text = <<>>
  <2> DEFINE text == [k \in DOMAIN parts |-> parts[k].heading]
  <2> DEFINE s == [heading |-> 0, text |-> text]
  <2>1. Sections(roles) = <<s>>
    BY <1>4, <1>6 DEF Whole
  <2>2. text \in Seq(DOMAIN lines)
    <3>1. ASSUME NEW k \in 1..Len(o) PROVE parts[k].heading \in DOMAIN lines
      <4>1. /\ parts[k].heading = IF roles[o[k]] = "heading" THEN o[k] ELSE 0
            /\ \A i : (\E n \in 1..Len(parts[k].text) : parts[k].text[n] = i)
                          <=> i \in PartOf(roles, k) /\ roles[i] = "text"
        BY TextOfPart DEF parts, o
      <4>2. Len(parts[k].text) = 0
        BY <1>2, <1>6, Empty
      <4>3. ~\E n \in 1..Len(parts[k].text) : TRUE
        BY <4>2
      <4>4. o[k] \in PartOf(roles, k)
        BY OpenerInPart DEF o
      <4>5. roles[o[k]] # "text"
        BY <4>1, <4>3, <4>4
      <4>6. roles[o[k]] = "heading"
        BY <4>4, <4>5, OneHeading DEF o
      <4> QED
        BY <1>1, <4>1, <4>6
    <3>2. text = [k \in 1..Len(o) |-> parts[k].heading]
      BY <1>2
    <3> HIDE DEF text
    <3>3. text \in [1..Len(o) -> DOMAIN lines]
      BY <3>1, <3>2
    <3> QED
      BY <1>1, <3>3
  <2> HIDE DEF text
  <2>3. IsSection(s, lines)
    BY <2>2 DEF IsSection
  <2> HIDE DEF s
  <2>4. DOMAIN <<s>> = 1..1 /\ \A k \in 1..1 : <<s>>[k] = s
    OBVIOUS
  <2>5. 1 \in Nat /\ DOMAIN Sections(roles) = 1..1 /\ \A k \in 1..1 : IsSection(Sections(roles)[k], lines)
    BY <2>1, <2>3, <2>4
  <2> QED
    BY <2>5
<1>7. CASE parts # <<>> /\ ~\A k \in DOMAIN parts : parts[k].text = <<>>
  <2>1. Sections(roles) = parts
    BY <1>4, <1>7 DEF Whole
  <2> QED
    BY <1>1, <1>2, <1>3, <2>1
<1> QED
  BY <1>5, <1>6, <1>7

\* What parse_pdf gives is what chunk_document expects: texts whose lines have
\* lengths, each ending after the one before.
LEMMA ParsedIs ==
    ASSUME NEW lines \in Seq(Line)
    PROVE  /\ Parsed(lines) \in Seq(Section)
           /\ \A k \in DOMAIN Parsed(lines) : Rising(Parsed(lines)[k])
<1> DEFINE roles == Roles(lines)
<1> DEFINE S == Sections(roles)
<1>1. DOMAIN lines = 1..Len(lines) /\ Len(lines) \in Nat /\ \A i \in DOMAIN lines : lines[i] \in Line
  BY LenProperties, ElementOfSeq
<1>2. roles \in Seq(RoleNames) /\ DOMAIN roles = DOMAIN lines
  BY RolesAre
<1> HIDE DEF roles
<1>3. PICK n \in Nat : DOMAIN S = 1..n /\ \A k \in 1..n : IsSection(S[k], lines)
  BY <1>2, SectionsAre
<1> HIDE DEF S
<1>4. ASSUME NEW k \in 1..n PROVE PrefixLen(lines, roles, S[k]) \in Nat
  <2> DEFINE w == [i \in DOMAIN lines |-> lines[i].len + Separator]
  <2> DEFINE titles == Taken(roles, "title")
  <2>1. titles \in SUBSET DOMAIN lines
    BY <1>2 DEF Taken
  <2>2. IsFiniteSet(titles)
    <3>1. IsFiniteSet(1..Len(lines))
      BY <1>1, FS_Interval
    <3> QED
      BY <1>1, <2>1, <3>1, FS_Subset
  <2>3. \A i \in DOMAIN lines : lines[i].len \in Nat
    BY <1>1 DEF Line
  <2>4. \A i \in titles : w[i] \in Nat
    BY <2>1, <2>3 DEF Separator
  <2>5. MapThenSumSet(LAMBDA i : lines[i].len + Separator, titles) = Total(w, titles)
    BY <2>1, PrefixIsTotal
  <2>6. PrefixLen(lines, roles, S[k]) = Brackets + LenAt(lines, S[k].heading)
             + MapThenSumSet(LAMBDA i : lines[i].len + Separator, titles)
    BY DEF PrefixLen
  <2> DEFINE t == Total(w, titles)
  <2>7. PrefixLen(lines, roles, S[k]) = Brackets + LenAt(lines, S[k].heading) + t
    BY <2>5, <2>6
  <2> HIDE DEF titles, w
  <2>8. t \in Nat
    BY <2>2, <2>4, TotalType
  <2>9. LenAt(lines, S[k].heading) \in Nat
    BY <1>3, <2>3 DEF LenAt, UnnamedLen, IsSection
  <2> HIDE DEF t
  <2> QED
    BY <2>7, <2>8, <2>9 DEF Brackets
<1>5. \A k \in 1..n : /\ EndsOf(lines, S[k].text) \in Seq(Nat \ {0})
                      /\ \A p \in 2..Len(EndsOf(lines, S[k].text)) :
                            EndsOf(lines, S[k].text)[p - 1] < EndsOf(lines, S[k].text)[p]
  BY <1>3, EndsRise DEF IsSection
<1>6. Parsed(lines) = [k \in 1..n |-> [prefix |-> PrefixLen(lines, roles, S[k]),
                                       ends |-> EndsOf(lines, S[k].text)]]
  BY <1>3 DEF Parsed, ParsedAs, ToChunk, S, roles
<1> DEFINE P == Parsed(lines)
<1> HIDE DEF P
<1>7. DOMAIN P = 1..n /\ \A k \in 1..n : P[k].ends = EndsOf(lines, S[k].text)
  BY <1>6 DEF P
<1>8. P \in [1..n -> Section]
  BY <1>4, <1>5, <1>6 DEF P, Section
<1>9. P \in Seq(Section)
  BY <1>3, <1>8
<1> QED
  BY <1>5, <1>7, <1>9 DEF P, Rising

-----------------------------------------------------------------------------
(* What a search leads to.                                                 *)

\* Entries of manuals that keep the limit, each with its own place.
Listed(S) ==
    /\ S \subseteq Entry
    /\ \A a, b \in S : Key(a) = Key(b) => a = b
    /\ \A a \in S : a.type = "manual" /\ a.len <= MaxChars

LEMMA SortedIs ==
    ASSUME NEW S, IsFiniteSet(S), Listed(S)
    PROVE  LET q == Sorted(S) IN
           /\ q \in Seq(S) /\ Len(q) = Cardinality(S) /\ Len(q) \in Nat /\ DOMAIN q = 1..Len(q)
           /\ \A c \in S : \E n \in 1..Len(q) : q[n] = c
           /\ \A n \in 1..Len(q) : q[n] \in S
           /\ \A m, n \in 1..Len(q) : m < n <=> Precedes(q[m], q[n])
<1> DEFINE R == {p \in S \X S : Precedes(p[1], p[2])}
<1> DEFINE q == Sorted(S)
<1>1. \A c, d \in S : <<c, d>> \in R <=> Precedes(c, d)
  <2> HIDE DEF Sorted, Precedes
  <2> QED
    OBVIOUS
<1>2. StrictOrder(R, S)
  <2>1. \A c \in S : c.score \in Nat /\ c.doc \in Nat /\ c.seq \in Nat
    BY DEF Listed, Entry
  <2>2. \A c, d \in S : c.doc = d.doc /\ c.seq = d.seq => c = d
    BY DEF Listed, Key
  <2> HIDE DEF R
  <2>3. \A c \in S : ~Precedes(c, c)
    BY <2>1 DEF Precedes
  <2>4. \A c, d \in S : c = d \/ Precedes(c, d) \/ Precedes(d, c)
    BY <2>1, <2>2 DEF Precedes
  <2>5. \A c, d, e \in S : Precedes(c, d) /\ Precedes(d, e) => Precedes(c, e)
    BY <2>1 DEF Precedes
  <2> QED
    BY <1>1, <2>3, <2>4, <2>5 DEF StrictOrder
<1>3. \A c \in S : {d \in S : Precedes(d, c)} = Below(S, R, c)
  <2> HIDE DEF R
  <2> QED
    BY <1>1 DEF Below
<1>4. q = [n \in 1..Cardinality(S) |-> CHOOSE c \in S : Cardinality({d \in S : Precedes(d, c)}) = n - 1]
  BY DEF Sorted, OrderedBy
<1>5. q = [n \in 1..Cardinality(S) |-> CHOOSE c \in S : Rank(S, R, c) = n - 1]
  <2> HIDE DEF R, q
  <2> DEFINE A(n) == CHOOSE c \in S : Cardinality({d \in S : Precedes(d, c)}) = n - 1
  <2> DEFINE B(n) == CHOOSE c \in S : Rank(S, R, c) = n - 1
  <2>1. \A n : A(n) = B(n)
    BY <1>3 DEF Rank
  <2>2. q = [n \in 1..Cardinality(S) |-> A(n)]
    BY <1>4
  <2> HIDE DEF A, B
  <2>3. q = [n \in 1..Cardinality(S) |-> B(n)]
    BY <2>1, <2>2
  <2> QED
    BY <2>3 DEF B
<1> HIDE DEF R, q
<1>6. Enumerates(q, S, R)
  BY <1>2, <1>5, RanksEnumerate
<1>7. Len(q) \in Nat /\ DOMAIN q = 1..Len(q) /\ \A n \in 1..Len(q) : q[n] \in S
  BY <1>6, LenProperties, ElementOfSeq DEF Enumerates
<1> QED
  BY <1>1, <1>6, <1>7 DEF Enumerates, q

\* The hits of a search.
Hits(hits) ==
    /\ hits \in Seq(Entry) /\ Len(hits) \in Nat /\ Len(hits) >= 1
    /\ Listed(Range(hits))
    /\ \A n \in 1..Len(hits) : hits[n].score > 0

IsNeighbour(c, h) ==
    /\ c.doc = h.doc /\ c.seq \in {h.seq - 1, h.seq + 1}
    /\ c.score = NeighbourScore(h)

\* What has been found: the hits and neighbours of hits.
Gathered(found, hits) ==
    /\ IsFiniteSet(found) /\ Listed(found)
    /\ Range(hits) \subseteq found
    /\ \A c \in found : c \in Range(hits) \/ \E h \in Range(hits) : IsNeighbour(c, h)

LEMMA HitsRange ==
    ASSUME NEW hits, Hits(hits)
    PROVE  /\ IsFiniteSet(Range(hits))
           /\ \A h : h \in Range(hits) <=> \E n \in 1..Len(hits) : h = hits[n]
           /\ \A h \in Range(hits) : h.score > 0 /\ h.score \in Nat
           /\ hits[1] \in Range(hits)
<1>1. DOMAIN hits = 1..Len(hits) /\ Len(hits) \in Nat /\ Len(hits) >= 1
  BY LenProperties DEF Hits
<1>2. \A h : h \in Range(hits) <=> \E n \in 1..Len(hits) : h = hits[n]
  BY <1>1 DEF Range
<1>3. hits = [n \in 1..Len(hits) |-> hits[n]]
  BY <1>1 DEF Hits
<1>4. IsFiniteSet(Range(hits))
  <2>1. hits \in Surjection(1..Len(hits), Range(hits))
    BY <1>2, <1>3 DEF Surjection
  <2>2. IsFiniteSet(1..Len(hits))
    BY <1>1, FS_Interval
  <2> QED
    BY <2>1, <2>2, FS_Surjection
<1>5. \A h \in Range(hits) : h.score \in Nat
  BY DEF Hits, Listed, Entry
<1> QED
  BY <1>1, <1>2, <1>4, <1>5 DEF Hits

LEMMA JoinGathers ==
    ASSUME NEW rows, Listed(rows), NEW hits, Hits(hits), NEW found, Gathered(found, hits),
           NEW h \in Range(hits), NEW seq \in {h.seq - 1, h.seq + 1}
    PROVE  Gathered(Join(rows, found, h, seq), hits)
<1>1. CASE \E c \in found : Key(c) = <<h.doc, seq>>
  BY <1>1 DEF Join
<1>2. CASE ~\E c \in found : Key(c) = <<h.doc, seq>>
  <2> DEFINE near == Neighbours(rows, h, seq)
  <2>0. Join(rows, found, h, seq) = found \cup near
    BY <1>2 DEF Join
  <2>1. h.score \in Nat /\ NeighbourScore(h) \in Nat
    BY HitsRange DEF NeighbourScore
  <2>2. ASSUME NEW c \in near
        PROVE  /\ \E r \in rows : Key(r) = <<h.doc, seq>> /\ c = [r EXCEPT !.score = NeighbourScore(h)]
               /\ Key(c) = <<h.doc, seq>> /\ c \in Entry /\ c.type = "manual" /\ c.len <= MaxChars
               /\ c.score = NeighbourScore(h)
    <3>1. PICK r \in rows : Key(r) = <<h.doc, seq>> /\ c = [r EXCEPT !.score = NeighbourScore(h)]
      BY DEF Neighbours
    <3>2. r \in Entry /\ r.type = "manual" /\ r.len <= MaxChars
      BY DEF Listed
    <3>3. /\ c \in Entry /\ c.doc = r.doc /\ c.seq = r.seq /\ c.len = r.len /\ c.type = r.type
          /\ c.score = NeighbourScore(h)
      BY <2>1, <3>1, <3>2 DEF Entry
    <3> QED
      BY <3>1, <3>2, <3>3 DEF Key
  <2>3. \A c, d \in near : c = d
    <3> SUFFICES ASSUME NEW c \in near, NEW d \in near PROVE c = d
      OBVIOUS
    <3> HIDE DEF near
    <3>1. PICK r \in rows : Key(r) = <<h.doc, seq>> /\ c = [r EXCEPT !.score = NeighbourScore(h)]
      BY <2>2
    <3>2. PICK t \in rows : Key(t) = <<h.doc, seq>> /\ d = [t EXCEPT !.score = NeighbourScore(h)]
      BY <2>2
    <3>3. r = t
      BY <3>1, <3>2 DEF Listed
    <3> QED
      BY <3>1, <3>2, <3>3
  <2> HIDE DEF near
  <2>4. IsFiniteSet(found \cup near)
    <3>1. CASE near = {}
      <4>1. found \cup near = found
        BY <3>1
      <4> QED
        BY <4>1 DEF Gathered
    <3>2. CASE near # {}
      <4>1. PICK c \in near : TRUE
        BY <3>2
      <4>2. found \cup near = found \cup {c}
        BY <2>3
      <4> QED
        BY <4>2, FS_AddElement DEF Gathered
    <3> QED
      BY <3>1, <3>2
  <2>5. Listed(found \cup near)
    <3>1. \A c \in found \cup near : c \in Entry /\ c.type = "manual" /\ c.len <= MaxChars
      BY <2>2 DEF Gathered, Listed
    <3>2. \A c, d \in found \cup near : Key(c) = Key(d) => c = d
      <4>1. \A c \in near : Key(c) = <<h.doc, seq>>
        BY <2>2
      <4>2. \A c \in found : Key(c) # <<h.doc, seq>>
        BY <1>2
      <4>3. \A c, d \in found : Key(c) = Key(d) => c = d
        BY DEF Gathered, Listed
      <4> HIDE DEF Key
      <4> QED
        BY <2>3, <4>1, <4>2, <4>3
    <3> QED
      BY <3>1, <3>2 DEF Listed
  <2>6. \A c \in near : IsNeighbour(c, h)
    BY <2>2 DEF Key, IsNeighbour
  <2> QED
    BY <2>0, <2>4, <2>5, <2>6 DEF Gathered
<1> QED
  BY <1>1, <1>2

LEMMA JoinBothGathers ==
    ASSUME NEW rows, Listed(rows), NEW hits, Hits(hits), NEW found, Gathered(found, hits),
           NEW h \in Range(hits)
    PROVE  Gathered(JoinBoth(rows, found, h), hits)
<1>1. Gathered(Join(rows, found, h, h.seq - 1), hits)
  BY JoinGathers
<1>2. Gathered(Join(rows, Join(rows, found, h, h.seq - 1), h, h.seq + 1), hits)
  BY <1>1, JoinGathers
<1> QED
  BY <1>2 DEF JoinBoth

LEMMA MinOfPair ==
    ASSUME NEW a \in Nat, NEW b \in Nat PROVE Min({a, b}) = IF a <= b THEN a ELSE b
<1> DEFINE m == IF a <= b THEN a ELSE b
<1>1. m \in {a, b} /\ \A y \in {a, b} : m <= y
  OBVIOUS
<1>2. \A x \in {a, b} : (\A y \in {a, b} : x <= y) => x = m
  OBVIOUS
<1> HIDE DEF m
<1> QED
  BY <1>1, <1>2 DEF Min, m

\* What n hits have found with their neighbours.
Finds(f, n, rows, hits) ==
    f = [m \in 0..n |-> IF m = 0 THEN Range(hits) ELSE JoinBoth(rows, f[m - 1], hits[m])]

LEMMA FindsNext ==
    ASSUME NEW rows, NEW hits, NEW n \in Nat, n # 0, NEW f, Finds(f, n - 1, rows, hits)
    PROVE  \E g : Finds(g, n, rows, hits)
<1> DEFINE step(h, m) == IF m = 0 THEN Range(hits) ELSE JoinBoth(rows, h[m - 1], hits[m])
<1> DEFINE g == [m \in 0..n |-> IF m = n THEN step(f, n) ELSE f[m]]
<1>1. \A m \in 0..(n - 1) : f[m] = step(f, m)
  BY DEF Finds
<1>2. \A m \in 0..n : m # n => g[m] = f[m] /\ m \in 0..(n - 1)
  OBVIOUS
<1>3. g[n] = step(f, n)
  OBVIOUS
<1>4. \A m \in 0..n : m # 0 => m - 1 \in 0..n /\ m - 1 # n
  OBVIOUS
<1>5. g = [m \in 0..n |-> g[m]]
  OBVIOUS
<1> HIDE DEF g
<1>6. \A m \in 0..n : step(g, m) = step(f, m)
  BY <1>2, <1>4
<1> HIDE DEF step
<1>7. \A m \in 0..n : g[m] = step(g, m)
  BY <1>1, <1>2, <1>3, <1>6
<1>8. g = [m \in 0..n |-> step(g, m)]
  BY <1>5, <1>7
<1> QED
  BY <1>8 DEF Finds, step

LEMMA FindsExists ==
    ASSUME NEW rows, NEW hits, NEW n \in Nat
    PROVE  \E f : Finds(f, n, rows, hits)
<1> DEFINE bad == {m \in Nat : ~\E f : Finds(f, m, rows, hits)}
<1>1. bad = {}
  <2> SUFFICES ASSUME bad # {} PROVE FALSE
    OBVIOUS
  <2>1. PICK m \in bad : \A k \in bad : m <= k
    BY HasLeast
  <2>2. m # 0
    <3> DEFINE f == [k \in 0..0 |-> Range(hits)]
    <3>1. f = [k \in 0..0 |-> IF k = 0 THEN Range(hits) ELSE JoinBoth(rows, f[k - 1], hits[k])]
      <4>1. \A k \in 0..0 : k = 0
        OBVIOUS
      <4> QED
        BY <4>1
    <3>2. Finds(f, 0, rows, hits)
      BY <3>1 DEF Finds
    <3> QED
      BY <3>2
  <2>3. m - 1 \in Nat /\ ~(m - 1 \in bad)
    BY <2>1, <2>2
  <2>4. PICK f : Finds(f, m - 1, rows, hits)
    BY <2>3
  <2>5. m \in Nat /\ ~\E g : Finds(g, m, rows, hits)
    OBVIOUS
  <2> QED
    BY <2>2, <2>4, <2>5, FindsNext
<1> QED
  BY <1>1

LEMMA FoundIsGathered ==
    ASSUME NEW rows, Listed(rows), NEW hits, Hits(hits)
    PROVE  Gathered(Found(rows, hits), hits)
<1> DEFINE top == Min({ExpandTop, Len(hits)})
<1> DEFINE found == CHOOSE f : Finds(f, top, rows, hits)
<1>1. top \in 0..Len(hits) /\ top \in Nat /\ Len(hits) \in Nat
  <2>1. ExpandTop \in Nat /\ Len(hits) \in Nat
    BY RetrievalAssumption DEF Hits
  <2> QED
    BY <2>1, MinOfPair
<1>2. Found(rows, hits) = found[top]
  BY DEF Found, Finds
<1> HIDE DEF top
<1>3. Finds(found, top, rows, hits)
  BY <1>1, FindsExists
<1> HIDE DEF found
<1>4. \A n \in 0..top :
         found[n] = IF n = 0 THEN Range(hits) ELSE JoinBoth(rows, found[n - 1], hits[n])
  BY <1>3 DEF Finds
<1> DEFINE bad == {n \in 0..top : ~Gathered(found[n], hits)}
<1>5. bad = {}
  <2> SUFFICES ASSUME bad # {} PROVE FALSE
    OBVIOUS
  <2>1. bad \in SUBSET Nat /\ bad \subseteq 0..top
    BY <1>1
  <2>2. PICK n \in bad : \A k \in bad : n <= k
    BY <2>1, HasLeast
  <2>3. n # 0
    BY <1>4, <2>1, HitsRange DEF Gathered, Hits
  <2>4. n - 1 \in 0..top /\ ~(n - 1 \in bad)
    BY <1>1, <2>1, <2>2, <2>3
  <2>5. Gathered(found[n - 1], hits)
    BY <2>4
  <2>6. hits[n] \in Range(hits)
    BY <1>1, <2>1, <2>3, HitsRange
  <2>7. found[n] = JoinBoth(rows, found[n - 1], hits[n])
    BY <1>4, <2>1, <2>3
  <2>8. Gathered(found[n], hits)
    BY <2>5, <2>6, <2>7, JoinBothGathers
  <2> QED
    BY <2>8
<1>6. Gathered(found[top], hits)
  BY <1>1, <1>5
<1> QED
  BY <1>2, <1>6

\* The lengths of no entry and of one.
LEMMA TotalLenShort ==
    /\ TotalLen(<<>>) = 0
    /\ \A s : DOMAIN s = {1} => TotalLen(s) = 0 + s[1].len
<1>1. TotalLen(<<>>) = 0
  <2> DEFINE Is(f) == f = [s \in SUBSET {} |-> IF s = {} THEN 0
                             ELSE f[s \ {Max(s)}] + <<>>[Max(s)].len]
  <2>1. DOMAIN <<>> = {}
    BY Empty
  <2>2. TotalLen(<<>>) = (CHOOSE f : Is(f))[{}]
    BY <2>1 DEF TotalLen, FoldLeft, MapThenFoldSet
  <2>3. Is([s \in SUBSET {} |-> 0])
    OBVIOUS
  <2>4. Is(CHOOSE f : Is(f))
    <3> HIDE DEF Is
    <3> QED
      BY <2>3
  <2> DEFINE h == CHOOSE f : Is(f)
  <2> HIDE DEF h
  <2>5. h[{}] = 0
    BY <2>4 DEF h
  <2> QED
    BY <2>2, <2>5 DEF h
<1>2. ASSUME NEW s, DOMAIN s = {1} PROVE TotalLen(s) = 0 + s[1].len
  <2> DEFINE Is(f) == f = [t \in SUBSET {1} |-> IF t = {} THEN 0
                             ELSE f[t \ {Max(t)}] + s[Max(t)].len]
  <2>1. TotalLen(s) = (CHOOSE f : Is(f))[{1}]
    BY <1>2 DEF TotalLen, FoldLeft, MapThenFoldSet
  <2>2. Max({1}) = 1
    <3>1. \A x \in {1} : x = 1 /\ 1 >= 1
      OBVIOUS
    <3> QED
      BY <3>1 DEF Max
  <2>3. SUBSET {1} = {{}, {1}} /\ {1} \ {1} = {} /\ {1} # {}
    OBVIOUS
  <2>4. Is([t \in SUBSET {1} |-> IF t = {} THEN 0 ELSE 0 + s[1].len])
    BY <2>2, <2>3
  <2>5. Is(CHOOSE f : Is(f))
    <3> HIDE DEF Is
    <3> QED
      BY <2>4
  <2> DEFINE h == CHOOSE f : Is(f)
  <2> HIDE DEF h
  <2>6. /\ h[{}] = 0
        /\ h[{1}] = h[{1} \ {Max({1})}] + s[Max({1})].len
    BY <2>3, <2>5 DEF h
  <2>7. h[{1}] = 0 + s[1].len
    BY <2>2, <2>3, <2>6
  <2> QED
    BY <2>1, <2>7 DEF h
<1> QED
  BY <1>1, <1>2

\* Trimming keeps a beginning of the list, and at least what fits.
LEMMA TrimmedIs ==
    ASSUME NEW T, NEW list \in Seq(T)
    PROVE  \E k \in 0..Len(list) :
              /\ Trimmed(list) = SubSeq(list, 1, k)
              /\ Len(list) >= 1 /\ list[1].len \in Nat /\ list[1].len <= MaxContext => k >= 1
<1> DEFINE fits == {n \in 0..Len(list) : TotalLen(SubSeq(list, 1, n)) <= MaxContext}
<1>1. Len(list) \in Nat
  BY LenProperties
<1>2. 0 \in fits
  <2> DEFINE s == SubSeq(list, 1, 0)
  <2>1. s = <<>>
    BY <1>1, SubSeqProperties
  <2>2. TotalLen(<<>>) = 0
    BY TotalLenShort
  <2>3. 0 \in 0..Len(list)
    BY <1>1
  <2> HIDE DEF s
  <2>4. TotalLen(s) = TotalLen(<<>>)
    BY <2>1
  <2>5. TotalLen(s) <= MaxContext
    BY <2>2, <2>4, RetrievalAssumption
  <2> QED
    BY <2>3, <2>5 DEF s
<1>3. PICK k \in fits : \A n \in fits : k >= n
  BY <1>1, <1>2, HasGreatest
<1>4. Max(fits) = k
  <2>1. fits \in SUBSET Nat
    BY <1>1
  <2> HIDE DEF fits
  <2>2. \A x \in fits : (\A y \in fits : x >= y) => x = k
    BY <1>3, <2>1
  <2> QED
    BY <1>3, <2>2 DEF Max
<1>5. Trimmed(list) = SubSeq(list, 1, k)
  BY <1>4 DEF Trimmed
<1>6. ASSUME Len(list) >= 1, list[1].len \in Nat, list[1].len <= MaxContext PROVE 1 \in fits
  <2> DEFINE s == SubSeq(list, 1, 1)
  <2>1. s \in Seq(T) /\ Len(s) = 1 /\ s[1] = list[1]
    BY <1>1, <1>6, SubSeqProperties
  <2>2. DOMAIN s = {1}
    <3>1. DOMAIN s = 1..1
      BY <2>1, LenProperties
    <3> QED
      BY <3>1
  <2> HIDE DEF s
  <2>3. TotalLen(s) = 0 + list[1].len
    BY <2>1, <2>2, TotalLenShort
  <2>4. TotalLen(s) <= MaxContext
    BY <1>6, <2>3
  <2> QED
    BY <1>1, <1>6, <2>4 DEF s
<1> QED
  BY <1>3, <1>5, <1>6

\* The list of an answer: the found entries in their order, as many as fit, then
\* drawings.
LEMMA RetrievedIs ==
    ASSUME NEW rows, Listed(rows), NEW hits, Hits(hits), NEW cards \in Cards
    PROVE  LET E == Expanded(rows, hits)
               list == Retrieved(rows, hits, cards)
           IN \E k \in 1..Len(E) :
                /\ list \in Seq(Entry) /\ Len(list) \in Nat /\ Len(list) >= k
                /\ \A n \in 1..k : list[n] = E[n]
                /\ OfType(list, "manual") = [n \in 1..k |-> E[n]]
<1> DEFINE found == Found(rows, hits)
<1> DEFINE E == Expanded(rows, hits)
<1> DEFINE D == Drawings(cards)
<1> DEFINE list == Retrieved(rows, hits, cards)
<1>1. Gathered(found, hits)
  BY FoundIsGathered
<1>2. /\ E \in Seq(found) /\ Len(E) \in Nat /\ DOMAIN E = 1..Len(E)
      /\ \A c \in found : \E n \in 1..Len(E) : E[n] = c
      /\ \A n \in 1..Len(E) : E[n] \in found
  BY <1>1, SortedIs DEF Gathered, Expanded
<1>3. \A c \in found : c \in Entry /\ c.type = "manual" /\ c.len \in Nat /\ c.len <= MaxContext
  BY <1>1, SearchAssumption, RetrievalAssumption, ChunkerAssumption DEF Gathered, Listed, Entry
<1>4. Len(E) >= 1
  <2>1. hits[1] \in found
    BY <1>1, HitsRange DEF Gathered
  <2> HIDE DEF found, E
  <2> QED
    BY <1>2, <2>1
<1> HIDE DEF found, E
<1>5. PICK k \in 0..Len(E) : /\ Trimmed(E) = SubSeq(E, 1, k)
                             /\ Len(E) >= 1 /\ E[1].len \in Nat /\ E[1].len <= MaxContext => k >= 1
  BY <1>2, TrimmedIs
<1>6. k \in 1..Len(E)
  <2>1. E[1] \in found
    BY <1>2, <1>4
  <2> QED
    BY <1>2, <1>3, <1>4, <1>5, <2>1
<1> DEFINE t == SubSeq(E, 1, k)
<1>7. E \in Seq(Entry)
  BY <1>2, <1>3
<1>8. t \in Seq(Entry) /\ Len(t) = k /\ \A n \in 1..k : t[n] = E[n]
  BY <1>2, <1>6, <1>7, SubSeqProperties
<1>9. cards \in Seq(Entry) /\ \A n \in DOMAIN cards : cards[n].type = "drawing"
  BY SearchAssumption
<1>10. D \in Seq(Entry) /\ Len(D) \in Nat /\ \A n \in 1..Len(D) : D[n].type = "drawing"
  <2> DEFINE places == {n \in DOMAIN cards : cards[n].score >= MinScore}
  <2>1. D = Picked(cards, places) /\ places \in SUBSET DOMAIN cards
    BY DEF Drawings
  <2> HIDE DEF places, D
  <2>2. D \in Seq(Entry) /\ \A n \in 1..Len(D) : \E i \in places : D[n] = cards[i]
    BY <1>9, <2>1, PickedIs
  <2>3. Len(D) \in Nat
    BY <2>2, LenProperties
  <2> QED
    BY <1>9, <2>1, <2>2, <2>3
<1>11. list = t \o D
  BY <1>5, <1>2 DEF Retrieved, E
<1> HIDE DEF t, D, list
<1>12. /\ list \in Seq(Entry) /\ Len(list) = k + Len(D)
       /\ \A n \in 1..k : list[n] = E[n]
       /\ \A n \in k + 1..k + Len(D) : list[n] = D[n - k]
  <2>1. /\ list \in Seq(Entry) /\ Len(list) = Len(t) + Len(D)
        /\ \A n \in 1..Len(t) + Len(D) : list[n] = IF n <= Len(t) THEN t[n] ELSE D[n - Len(t)]
    BY <1>8, <1>10, <1>11, ConcatProperties
  <2> DEFINE l == Len(D)
  <2>2. l \in Nat /\ k \in Nat
    BY <1>2, <1>6, <1>10
  <2>3. /\ Len(list) = k + l
        /\ \A n \in 1..k + l : list[n] = IF n <= k THEN t[n] ELSE D[n - k]
    BY <1>8, <2>1
  <2> HIDE DEF l
  <2>4. \A n \in 1..k : n \in 1..k + l /\ n <= k
    BY <2>2
  <2>5. \A n \in k + 1..k + l : n \in 1..k + l /\ ~(n <= k)
    BY <2>2
  <2>6. \A n \in 1..k : list[n] = E[n]
    BY <1>8, <2>3, <2>4
  <2>7. \A n \in k + 1..k + l : list[n] = D[n - k]
    BY <2>3, <2>5
  <2> QED
    BY <2>1, <2>3, <2>6, <2>7 DEF l
<1>13. {n \in DOMAIN list : list[n].type = "manual"} = 1..k
  <2> DEFINE l == Len(D)
  <2>1. l \in Nat /\ k \in Nat /\ Len(list) = k + l /\ DOMAIN list = 1..k + l
    BY <1>2, <1>6, <1>10, <1>12, LenProperties
  <2>2. \A n \in 1..k : list[n].type = "manual"
    <3>1. \A n \in 1..k : n \in 1..Len(E)
      BY <1>2, <1>6
    <3> QED
      BY <1>2, <1>3, <1>12, <3>1
  <2>3. \A n \in k + 1..k + l : list[n].type = "drawing"
    <3>1. \A n \in k + 1..k + l : n - k \in 1..l
      BY <2>1
    <3> QED
      BY <1>10, <1>12, <3>1
  <2> HIDE DEF l
  <2>4. \A n \in 1..k + l : n \in 1..k \/ n \in k + 1..k + l
    BY <2>1
  <2>5. \A n \in 1..k : n \in 1..k + l
    BY <2>1
  <2> QED
    BY <2>1, <2>2, <2>3, <2>4, <2>5
<1>14. OfType(list, "manual") = [n \in 1..k |-> E[n]]
  <2>1. k \in Nat
    BY <1>2, <1>6
  <2>2. OfType(list, "manual") = [n \in 1..k |-> list[n]]
    BY <1>13, <2>1, PickedFirst DEF OfType
  <2> QED
    BY <1>12, <2>2
<1>15. Len(list) \in Nat /\ Len(list) >= k
  <2> DEFINE l == Len(D)
  <2>1. l \in Nat /\ k \in Nat /\ Len(list) = k + l
    BY <1>2, <1>6, <1>10, <1>12
  <2> HIDE DEF l
  <2> QED
    BY <2>1
<1> QED
  BY <1>6, <1>12, <1>14, <1>15 DEF E, list

\* A hit comes before the neighbours that joined with it.
LEMMA CitesNeighboursAfter ==
    ASSUME NEW rows, Listed(rows), NEW hits, Hits(hits), NEW cards \in Cards,
           NEW manuals, manuals = OfType(Retrieved(rows, hits, cards), "manual"),
           NEW j \in DOMAIN manuals, ~\E h \in Range(hits) : Key(h) = Key(manuals[j])
    PROVE  \E i \in 1..(j - 1) :
              /\ \E h \in Range(hits) : Key(h) = Key(manuals[i])
              /\ manuals[i].doc = manuals[j].doc
              /\ manuals[i].seq \in {manuals[j].seq - 1, manuals[j].seq + 1}
<1> DEFINE E == Expanded(rows, hits)
<1> DEFINE found == Found(rows, hits)
<1>1. PICK k \in 1..Len(E) : manuals = [n \in 1..k |-> E[n]]
  BY RetrievedIs
<1>2. Gathered(found, hits)
  BY FoundIsGathered
<1>3. /\ Len(E) \in Nat
      /\ \A c \in found : \E n \in 1..Len(E) : E[n] = c
      /\ \A n \in 1..Len(E) : E[n] \in found
      /\ \A m, n \in 1..Len(E) : m < n <=> Precedes(E[m], E[n])
  BY <1>2, SortedIs DEF Gathered, Expanded
<1> HIDE DEF E, found
<1>4. j \in 1..k /\ j \in 1..Len(E) /\ manuals[j] = E[j] /\ E[j] \in found
  BY <1>1, <1>3
<1>5. PICK h \in Range(hits) : IsNeighbour(E[j], h)
  BY <1>2, <1>4 DEF Gathered
<1>6. PICK i \in 1..Len(E) : E[i] = h
  BY <1>2, <1>3, <1>5 DEF Gathered
<1>7. h.score \in Nat /\ h.score > 0
  BY HitsRange
<1>8. NeighbourScore(h) \in Nat /\ NeighbourScore(h) < h.score
  BY <1>7 DEF NeighbourScore
<1>9. Precedes(E[i], E[j])
  BY <1>5, <1>6, <1>8 DEF Precedes, IsNeighbour
<1>10. i < j
  BY <1>3, <1>4, <1>9
<1>11. i \in 1..(j - 1) /\ i \in 1..k /\ manuals[i] = h
  BY <1>1, <1>3, <1>4, <1>6, <1>10
<1>12. h.seq \in Nat /\ E[j].seq \in Nat
  BY <1>2, <1>3, <1>4, <1>6 DEF Gathered, Listed, Entry
<1>13. h.seq \in {E[j].seq - 1, E[j].seq + 1} /\ h.doc = E[j].doc
  BY <1>5, <1>12 DEF IsNeighbour
<1> QED
  BY <1>4, <1>11, <1>13

\* The first entry is a hit with the highest score: a neighbour comes after the hit
\* that it belongs to.
LEMMA CitesTopFirst ==
    ASSUME NEW rows, Listed(rows), NEW hits, Hits(hits), NEW cards \in Cards,
           NEW list, list = Retrieved(rows, hits, cards)
    PROVE  LET first == Head(Sources(list)) IN
           /\ first \in Range(hits)
           /\ \A h \in Range(hits) : h.score <= first.score
           /\ \E n \in Quoted(list) : list[n] = first
<1> DEFINE E == Expanded(rows, hits)
<1> DEFINE found == Found(rows, hits)
<1>1. PICK k \in 1..Len(E) : /\ list \in Seq(Entry) /\ Len(list) \in Nat /\ Len(list) >= k
                             /\ \A n \in 1..k : list[n] = E[n]
                             /\ OfType(list, "manual") = [n \in 1..k |-> E[n]]
  BY RetrievedIs
<1>2. Gathered(found, hits)
  BY FoundIsGathered
<1>3. /\ Len(E) \in Nat
      /\ \A c \in found : \E n \in 1..Len(E) : E[n] = c
      /\ \A n \in 1..Len(E) : E[n] \in found
      /\ \A m, n \in 1..Len(E) : m < n <=> Precedes(E[m], E[n])
  BY <1>2, SortedIs DEF Gathered, Expanded
<1> HIDE DEF E, found
<1>4. 1 \in 1..Len(E) /\ 1 \in 1..k /\ list[1] = E[1] /\ E[1] \in found /\ Len(list) >= 1
  BY <1>1, <1>3
<1>5. \A c \in found : c.score \in Nat /\ c.type = "manual" /\ c.len \in Nat /\ c.len <= MaxChars
  BY <1>2 DEF Gathered, Listed, Entry
<1>6. ASSUME NEW n \in 2..Len(E) PROVE E[n].score <= E[1].score
  <2>1. n \in 1..Len(E) /\ 1 < n
    BY <1>3
  <2>2. Precedes(E[1], E[n]) /\ E[n] \in found
    BY <1>3, <1>4, <2>1
  <2> QED
    BY <1>4, <1>5, <2>2 DEF Precedes
<1>a. ASSUME NEW h \in Range(hits) PROVE h.score <= E[1].score
  <2>1. PICK n \in 1..Len(E) : E[n] = h
    BY <1>2, <1>3 DEF Gathered
  <2>2. n = 1 \/ n \in 2..Len(E)
    BY <1>3
  <2> QED
    BY <1>4, <1>5, <1>6, <2>1, <2>2
<1>b. E[1] \in Range(hits)
  <2> SUFFICES ASSUME E[1] \notin Range(hits) PROVE FALSE
    OBVIOUS
  <2>1. PICK h \in Range(hits) : E[1].score = NeighbourScore(h)
    BY <1>2, <1>4 DEF Gathered, IsNeighbour
  <2>2. h.score \in Nat /\ h.score > 0 /\ h.score <= E[1].score
    BY <1>a, HitsRange
  <2>3. NeighbourScore(h) \in Nat /\ NeighbourScore(h) < h.score
    BY <2>2 DEF NeighbourScore
  <2> QED
    BY <2>1, <2>2, <2>3
<1>7. Head(Sources(list)) = E[1]
  <2> DEFINE m == OfType(list, "manual")
  <2> DEFINE u == UpTo(m, 4)
  <2> DEFINE v == UpTo(OfType(list, "drawing"), 2)
  <2>1. k \in Nat /\ k >= 1 /\ m \in [1..k -> found]
    <3>1. \A n \in 1..k : n \in 1..Len(E)
      BY <1>3
    <3> QED
      BY <1>1, <1>3, <3>1
  <2>2. m \in Seq(found) /\ Len(m) = k /\ m[1] = E[1]
    BY <1>1, <1>4, <2>1
  <2>3. Min({4, Len(m)}) \in 1..Len(m)
    BY <2>1, <2>2, MinOfPair
  <2> HIDE DEF m
  <2>4. u \in Seq(found) /\ Len(u) >= 1 /\ u[1] = m[1] /\ Len(u) \in Nat
    <3> DEFINE b == Min({4, Len(m)})
    <3>1. b \in 1..k
      BY <2>2, <2>3
    <3> HIDE DEF b
    <3>2. SubSeq(m, 1, b) \in Seq(found) /\ Len(SubSeq(m, 1, b)) = b /\ \A n \in 1..b : SubSeq(m, 1, b)[n] = m[n]
      BY <2>1, <2>2, <3>1, SubSeqProperties
    <3>3. u = SubSeq(m, 1, b)
      BY DEF UpTo, b
    <3> QED
      BY <2>1, <3>1, <3>2, <3>3
  <2>5. v \in Seq(Entry)
    <3> DEFINE d == OfType(list, "drawing")
    <3> DEFINE b == Min({2, Len(d)})
    <3>1. d \in Seq(Entry)
      <4> DEFINE places == {n \in DOMAIN list : list[n].type = "drawing"}
      <4>1. places \in SUBSET DOMAIN list /\ d = Picked(list, places)
        BY DEF OfType
      <4> QED
        BY <1>1, <4>1, PickedIs
    <3>2. Len(d) \in Nat /\ b \in 0..Len(d)
      <4>1. Len(d) \in Nat
        BY <3>1, LenProperties
      <4> QED
        BY <4>1, MinOfPair
    <3>3. v = SubSeq(d, 1, b)
      BY DEF UpTo
    <3> HIDE DEF d, b, v
    <3> QED
      BY <3>1, <3>2, <3>3, SubSeqProperties
  <2> HIDE DEF u, v
  <2>6. Head(u \o v) = u[1]
    <3> DEFINE T == found \cup Entry
    <3>1. u \in Seq(T) /\ v \in Seq(T) /\ Len(v) \in Nat
      BY <2>4, <2>5, LenProperties
    <3>2. Len(u \o v) = Len(u) + Len(v) /\ \A n \in 1..Len(u) + Len(v) : (u \o v)[n] = IF n <= Len(u) THEN u[n] ELSE v[n - Len(u)]
      BY <3>1, ConcatProperties
    <3>3. 1 \in 1..Len(u) + Len(v) /\ 1 <= Len(u)
      <4> DEFINE x == Len(u)
      <4> DEFINE y == Len(v)
      <4>1. x \in Nat /\ y \in Nat /\ x >= 1
        BY <2>4, <3>1
      <4> HIDE DEF x, y
      <4>2. 1 \in 1..x + y /\ 1 <= x
        BY <4>1
      <4> QED
        BY <4>2 DEF x, y
    <3>4. (u \o v)[1] = u[1]
      BY <3>2, <3>3
    <3> DEFINE w == u \o v
    <3> HIDE DEF w
    <3>5. Head(w) = w[1]
      BY DEF Head
    <3> QED
      BY <3>4, <3>5 DEF w
  <2>7. Sources(list) = u \o v
    BY DEF Sources, u, v, m
  <2> QED
    BY <2>2, <2>4, <2>6, <2>7
<1>8. 1 \in Quoted(list)
  <2> DEFINE s == SubSeq(list, 1, 1)
  <2>1. s \in Seq(Entry) /\ Len(s) = 1 /\ s[1] = list[1]
    BY <1>1, <1>4, SubSeqProperties
  <2>2. DOMAIN s = {1}
    <3>1. DOMAIN s = 1..1
      BY <2>1, LenProperties
    <3> QED
      BY <3>1
  <2> HIDE DEF s
  <2>3. TotalLen(s) = 0 + E[1].len
    BY <1>4, <2>1, <2>2, TotalLenShort
  <2>4. PartsLen(list, 1) = TotalLen(s) + 1 * HeaderLen + (1 - 1) * 2
    BY DEF PartsLen, s
  <2>5. E[1].len \in Nat /\ E[1].len <= MaxChars
    BY <1>4, <1>5
  <2>6. PartsLen(list, 1) <= MaxContext
    BY <2>3, <2>4, <2>5, SearchAssumption, RetrievalAssumption, ChunkerAssumption
  <2>7. 1 \in DOMAIN list
    BY <1>1, <1>4, LenProperties
  <2> QED
    BY <2>6, <2>7 DEF Quoted
<1> QED
  BY <1>4, <1>7, <1>8, <1>a, <1>b

-----------------------------------------------------------------------------
(* Impact analysis finds the least depths.                                 *)

LEMMA StepsUnfold ==
    ASSUME NEW root
    PROVE  /\ Steps(root)[1] = After(Resolved(root))
           /\ Steps(root)[2] = After(Steps(root)[1])
           /\ Steps(root)[3] = After(Steps(root)[2])
<1> DEFINE A == Resolved(root)
<1> DEFINE Is(f) == f = [n \in 0..MaxDepth |-> IF n = 0 THEN A ELSE After(f[n - 1])]
<1> DEFINE g == [n \in 0..3 |-> IF n = 0 THEN A ELSE IF n = 1 THEN After(A)
                                ELSE IF n = 2 THEN After(After(A)) ELSE After(After(After(A)))]
<1>1. \A n \in 0..3 : g[n] = IF n = 0 THEN A ELSE After(g[n - 1])
  <2> HIDE DEF A
  <2>1. g[0] = A /\ g[1] = After(A) /\ g[2] = After(After(A)) /\ g[3] = After(After(After(A)))
    OBVIOUS
  <2> QED
    BY <2>1
<1>2. g = [n \in 0..3 |-> g[n]]
  OBVIOUS
<1>3. Is(g)
  <2> HIDE DEF g, A
  <2> QED
    BY <1>1, <1>2 DEF MaxDepth
<1>4. Steps(root) = CHOOSE f : Is(f)
  BY DEF Steps
<1>5. Is(Steps(root))
  <2> HIDE DEF Is
  <2> QED
    BY <1>3, <1>4
<1> HIDE DEF A
<1>6. Steps(root) = [n \in 0..MaxDepth |-> IF n = 0 THEN A ELSE After(Steps(root)[n - 1])]
  BY <1>5
<1>7. \A n \in 0..3 : Steps(root)[n] = IF n = 0 THEN A ELSE After(Steps(root)[n - 1])
  BY <1>6 DEF MaxDepth
<1> QED
  BY <1>7 DEF A

\* What a path of n relations ends at is reached in n steps.
LEMMA PathsReach ==
    ASSUME NEW root, NEW p \in Paths(root)
    PROVE  /\ Len(p) \in 1..3 /\ p \in [1..Len(p) -> Downstream]
           /\ \A i \in 1..Len(p) : p[i].to \in Steps(root)[i]
           /\ Last(p).to \in Steps(root)[Len(p)]
<1>1. PICK n \in 1..3 : p \in [1..n -> Downstream]
  BY DEF Paths, MaxDepth
<1>2. /\ p[1].from \in Resolved(root)
      /\ \A i \in 2..Len(p) : p[i].from = p[i - 1].to
  BY DEF Paths
<1>3. Len(p) = n
  BY <1>1
<1> HIDE DEF Downstream
<1>4. \A i \in 1..n : p[i] \in Downstream
  BY <1>1
<1>5. p[1].to \in Steps(root)[1]
  BY <1>2, <1>4, StepsUnfold DEF After
<1>6. n >= 2 => p[2].to \in Steps(root)[2]
  <2> SUFFICES ASSUME n >= 2 PROVE p[2].to \in Steps(root)[2]
    OBVIOUS
  <2>1. p[2].from = p[1].to /\ p[2] \in Downstream
    BY <1>2, <1>3, <1>4
  <2> QED
    BY <1>5, <2>1, StepsUnfold DEF After
<1>7. n >= 3 => p[3].to \in Steps(root)[3]
  <2> SUFFICES ASSUME n >= 3 PROVE p[3].to \in Steps(root)[3]
    OBVIOUS
  <2>1. p[3].from = p[2].to /\ p[3] \in Downstream
    BY <1>2, <1>3, <1>4
  <2> QED
    BY <1>6, <2>1, StepsUnfold DEF After
<1>8. \A i \in 1..n : p[i].to \in Steps(root)[i]
  BY <1>5, <1>6, <1>7
<1> QED
  BY <1>1, <1>3, <1>8 DEF Last

LEMMA IsPath ==
    ASSUME NEW root, NEW n \in 1..3, NEW p \in [1..n -> Downstream],
           p[1].from \in Resolved(root),
           \A i \in 2..n : p[i].from = p[i - 1].to,
           \A a, b \in 1..n : p[a] = p[b] => a = b
    PROVE  p \in Paths(root)
<1> HIDE DEF Downstream
<1>1. p \in UNION {[1..k -> Downstream] : k \in 1..MaxDepth}
  BY DEF MaxDepth
<1>2. Len(p) = n /\ DOMAIN p = 1..n
  OBVIOUS
<1>3. IsInjective(p)
  BY <1>2 DEF IsInjective
<1> QED
  BY <1>1, <1>2, <1>3 DEF Paths

\* Of a node's shortest walk no relation occurs twice: it is a path.
LEMMA NewHasPath ==
    ASSUME NEW root, NEW n \in 1..3, NEW x \in NewAt(root, n)
    PROVE  \E p \in Paths(root) : Len(p) = n /\ Last(p).to = x
<1> DEFINE W(m) == Steps(root)[m]
<1>1. x \in W(n) /\ \A k \in 1..(n - 1) : x \notin W(k)
  BY DEF NewAt
<1>2. /\ \A y \in W(1) : \E r \in Downstream : r.to = y /\ r.from \in Resolved(root)
      /\ \A y \in W(2) : \E r \in Downstream : r.to = y /\ r.from \in W(1)
      /\ \A y \in W(3) : \E r \in Downstream : r.to = y /\ r.from \in W(2)
      /\ \A r \in Downstream : r.from \in W(1) => r.to \in W(2)
      /\ \A r \in Downstream : r.from \in W(2) => r.to \in W(3)
      /\ \A r \in Downstream : r.from \in Resolved(root) => r.to \in W(1)
  BY StepsUnfold DEF After
<1> HIDE DEF W
<1>3. CASE n = 1
  <2>1. PICK r \in Downstream : r.to = x /\ r.from \in Resolved(root)
    BY <1>1, <1>2, <1>3
  <2> DEFINE p == <<r>>
  <2>2. p \in [1..1 -> Downstream] /\ Len(p) = 1 /\ p[1] = r
    OBVIOUS
  <2> HIDE DEF p
  <2>3. p \in Paths(root)
    <3>1. \A a, b \in 1..1 : a = b
      OBVIOUS
    <3> QED
      BY <2>1, <2>2, <3>1, IsPath
  <2> QED
    BY <1>3, <2>1, <2>2, <2>3 DEF Last
<1>4. CASE n = 2
  <2>1. PICK s \in Downstream : s.to = x /\ s.from \in W(1)
    BY <1>1, <1>2, <1>4
  <2>2. PICK r \in Downstream : r.to = s.from /\ r.from \in Resolved(root)
    BY <1>2, <2>1
  <2>3. r # s
    BY <1>1, <1>2, <1>4, <2>1, <2>2
  <2> DEFINE p == <<r, s>>
  <2>4. p \in [1..2 -> Downstream] /\ Len(p) = 2 /\ p[1] = r /\ p[2] = s
    OBVIOUS
  <2> HIDE DEF p
  <2>5. \A a, b \in 1..2 : p[a] = p[b] => a = b
    BY <2>3, <2>4
  <2>6. p \in Paths(root)
    <3>1. \A i \in 2..2 : p[i].from = p[i - 1].to
      BY <2>2, <2>4
    <3> QED
      BY <2>2, <2>4, <2>5, <3>1, IsPath
  <2> QED
    BY <1>4, <2>1, <2>4, <2>6 DEF Last
<1>5. CASE n = 3
  <2>1. PICK t \in Downstream : t.to = x /\ t.from \in W(2)
    BY <1>1, <1>2, <1>5
  <2>2. PICK s \in Downstream : s.to = t.from /\ s.from \in W(1)
    BY <1>2, <2>1
  <2>3. PICK r \in Downstream : r.to = s.from /\ r.from \in Resolved(root)
    BY <1>2, <2>2
  <2>4. x \notin W(1) /\ x \notin W(2)
    BY <1>1, <1>5
  <2>5. r # s /\ s # t /\ r # t
    BY <1>2, <2>1, <2>2, <2>3, <2>4
  <2> DEFINE p == <<r, s, t>>
  <2>6. p \in [1..3 -> Downstream] /\ Len(p) = 3 /\ p[1] = r /\ p[2] = s /\ p[3] = t
    OBVIOUS
  <2> HIDE DEF p
  <2>7. \A a, b \in 1..3 : p[a] = p[b] => a = b
    BY <2>5, <2>6
  <2>8. p \in Paths(root)
    <3>1. \A i \in 2..3 : p[i].from = p[i - 1].to
      BY <2>2, <2>3, <2>6
    <3> QED
      BY <2>3, <2>6, <2>7, <3>1, IsPath
  <2> QED
    BY <1>5, <2>1, <2>6, <2>8 DEF Last
<1> QED
  BY <1>3, <1>4, <1>5

LEMMA IsFirstRow ==
    ASSUME NEW root, NEW n \in 0..3, NEW row
    PROVE  row \in FirstRows(root, n) <=>
              \E m \in 1..n : \E x \in NewAt(root, m) : row = [impacted |-> x, depth |-> m]
BY DEF FirstRows

\* A node reached at all within so many steps is new at one of them.
LEMMA NewSomewhere ==
    ASSUME NEW root, NEW n \in 1..3, NEW x \in Steps(root)[n]
    PROVE  \E m \in 1..n : x \in NewAt(root, m)
<1> DEFINE S == {k \in 1..n : x \in Steps(root)[k]}
<1>1. S \subseteq Nat /\ n \in S
  OBVIOUS
<1>2. PICK m \in S : \A k \in S : m <= k
  BY <1>1, HasLeast
<1>3. m \in 1..n /\ x \in Steps(root)[m]
  OBVIOUS
<1>4. \A k \in 1..(m - 1) : x \notin Steps(root)[k]
  BY <1>2, <1>3
<1> QED
  BY <1>3, <1>4 DEF NewAt

\* The rows of the next depth add the nodes that are new there.
LEMMA KeepsFirst ==
    ASSUME NEW root, NEW n \in 1..3
    PROVE  Kept(FirstRows(root, n - 1), Rows(root, n)) = FirstRows(root, n)
<1> DEFINE seen == FirstRows(root, n - 1)
<1> DEFINE rows == Rows(root, n)
<1>1. \A s : s \in seen <=> \E m \in 1..(n - 1) : \E x \in NewAt(root, m) : s = [impacted |-> x, depth |-> m]
  BY IsFirstRow
<1>2. \A s : s \in FirstRows(root, n) <=>
         s \in seen \/ \E x \in NewAt(root, n) : s = [impacted |-> x, depth |-> n]
  BY <1>1, IsFirstRow
<1>3. ASSUME NEW x \in NewAt(root, n)
      PROVE  /\ [impacted |-> x, depth |-> n] \in rows
             /\ \A s \in seen : s.impacted # x
  <2>1. PICK p \in Paths(root) : Len(p) = n /\ Last(p).to = x
    BY NewHasPath
  <2>2. [impacted |-> x, depth |-> n] \in rows
    BY <2>1 DEF Rows
  <2>3. ASSUME NEW s \in seen, s.impacted = x PROVE FALSE
    <3>1. PICK m \in 1..(n - 1) : x \in NewAt(root, m)
      BY <1>1, <2>3
    <3> QED
      BY <3>1 DEF NewAt
  <2> QED
    BY <2>2, <2>3
<1>4. ASSUME NEW row \in rows, \A s \in seen : s.impacted = row.impacted => row.depth < s.depth
      PROVE  \E x \in NewAt(root, n) : row = [impacted |-> x, depth |-> n]
  <2>1. PICK p \in Paths(root) : Len(p) = n /\ row = [impacted |-> Last(p).to, depth |-> n]
    BY DEF Rows
  <2> DEFINE x == Last(p).to
  <2>2. x \in Steps(root)[n]
    BY <2>1, PathsReach
  <2> HIDE DEF x
  <2>3. row = [impacted |-> x, depth |-> n]
    BY <2>1 DEF x
  <2>4. PICK m \in 1..n : x \in NewAt(root, m)
    BY <2>2, NewSomewhere
  <2>5. CASE m = n
    BY <2>3, <2>4, <2>5
  <2>6. CASE m # n
    <3>1. m \in 1..(n - 1)
      BY <2>6
    <3>2. [impacted |-> x, depth |-> m] \in seen
      BY <1>1, <2>4, <3>1
    <3>3. n < m
      BY <1>4, <2>3, <3>2
    <3> QED
      BY <3>1, <3>3
  <2> QED
    BY <2>5, <2>6
<1> HIDE DEF seen, rows
<1>5. Kept(seen, rows) = seen \cup {row \in rows : \A s \in seen : s.impacted = row.impacted => row.depth < s.depth}
  BY DEF Kept
<1>6. ASSUME NEW row PROVE row \in Kept(seen, rows) <=> row \in FirstRows(root, n)
  <2>1. ASSUME row \in FirstRows(root, n), row \notin seen PROVE row \in Kept(seen, rows)
    <3>1. PICK x \in NewAt(root, n) : row = [impacted |-> x, depth |-> n]
      BY <1>2, <2>1
    <3> QED
      BY <1>3, <1>5, <3>1
  <2> QED
    BY <1>2, <1>4, <1>5, <2>1
<1> QED
  BY <1>6 DEF seen, rows

LEMMA ImpactedUnfold ==
    ASSUME NEW root
    PROVE  Impacted(root) =
              Kept(Kept(Kept({}, Rows(root, 1)), Rows(root, 2)), Rows(root, 3))
<1> DEFINE A == Kept({}, Rows(root, 1))
<1> DEFINE B == Kept(A, Rows(root, 2))
<1> DEFINE C == Kept(B, Rows(root, 3))
<1> DEFINE Is(f) == f = [n \in 0..MaxDepth |-> IF n = 0 THEN {} ELSE Kept(f[n - 1], Rows(root, n))]
<1> DEFINE g == [n \in 0..3 |-> IF n = 0 THEN {} ELSE IF n = 1 THEN A ELSE IF n = 2 THEN B ELSE C]
<1>1. \A n \in 0..3 : g[n] = IF n = 0 THEN {} ELSE Kept(g[n - 1], Rows(root, n))
  <2>1. A = Kept({}, Rows(root, 1)) /\ B = Kept(A, Rows(root, 2)) /\ C = Kept(B, Rows(root, 3))
    OBVIOUS
  <2> HIDE DEF A, B, C
  <2>2. g[0] = {} /\ g[1] = A /\ g[2] = B /\ g[3] = C
    OBVIOUS
  <2> HIDE DEF g
  <2> QED
    BY <2>1, <2>2
<1>2. g = [n \in 0..3 |-> g[n]]
  OBVIOUS
<1>3. g[3] = C
  OBVIOUS
<1> HIDE DEF g, C, B, A
<1>4. Is(g)
  BY <1>1, <1>2 DEF MaxDepth
<1>5. Impacted(root) = (CHOOSE f : Is(f))[3]
  BY DEF Impacted, MaxDepth
<1> DEFINE h == CHOOSE f : Is(f)
<1>6. Is(h)
  <2> HIDE DEF Is
  <2> QED
    BY <1>4
<1> HIDE DEF h
<1>7. \A n \in 0..3 : h[n] = IF n = 0 THEN {} ELSE Kept(h[n - 1], Rows(root, n))
  BY <1>6 DEF MaxDepth
<1> HIDE DEF Is
<1>8. h[0] = {} /\ h[1] = Kept(h[0], Rows(root, 1)) /\ h[2] = Kept(h[1], Rows(root, 2))
      /\ h[3] = Kept(h[2], Rows(root, 3))
  BY <1>7
<1> QED
  BY <1>5, <1>8 DEF h

LEMMA ImpactIsFirst == ASSUME NEW root PROVE Impacted(root) = FirstRows(root, 3)
<1>1. FirstRows(root, 0) = {}
  BY DEF FirstRows
<1>2. /\ Kept(FirstRows(root, 0), Rows(root, 1)) = FirstRows(root, 1)
      /\ Kept(FirstRows(root, 1), Rows(root, 2)) = FirstRows(root, 2)
      /\ Kept(FirstRows(root, 2), Rows(root, 3)) = FirstRows(root, 3)
  <2>1. 1 - 1 = 0 /\ 2 - 1 = 1 /\ 3 - 1 = 2
    OBVIOUS
  <2>2. \A n \in 1..3 : Kept(FirstRows(root, n - 1), Rows(root, n)) = FirstRows(root, n)
    BY KeepsFirst
  <2> QED
    BY <2>1, <2>2
<1> QED
  BY <1>1, <1>2, ImpactedUnfold

LEMMA ReachedIsFirst == ASSUME NEW root PROVE Reached(root) = FirstRows(root, 3)
<1> DEFINE At(x) == {n \in 1..3 : x \in Steps(root)[n]}
<1>1. ASSUME NEW m \in 1..3, NEW x \in NewAt(root, m) PROVE Min(At(x)) = m
  <2>1. m \in At(x) /\ \A k \in At(x) : m <= k
    BY DEF NewAt
  <2>2. At(x) \subseteq Nat
    OBVIOUS
  <2> HIDE DEF At
  <2>3. \A k \in At(x) : (\A l \in At(x) : k <= l) => k = m
    BY <2>1, <2>2
  <2> QED
    BY <2>1, <2>3 DEF Min
<1>2. Reached(root) = {[impacted |-> x, depth |-> Min(At(x))] : x \in UNION {Steps(root)[n] : n \in 1..3}}
  BY DEF Reached, MaxDepth
<1> HIDE DEF At
<1>3. ASSUME NEW row \in Reached(root) PROVE row \in FirstRows(root, 3)
  <2>0. PICK n \in 1..3 : \E x \in Steps(root)[n] : row = [impacted |-> x, depth |-> Min(At(x))]
    BY <1>2
  <2>1. PICK x \in Steps(root)[n] : row = [impacted |-> x, depth |-> Min(At(x))]
    BY <2>0
  <2>2. PICK m \in 1..n : x \in NewAt(root, m)
    BY NewSomewhere
  <2>3. m \in 1..3
    OBVIOUS
  <2> QED
    BY <1>1, <2>1, <2>2, <2>3, IsFirstRow
<1>4. ASSUME NEW row \in FirstRows(root, 3) PROVE row \in Reached(root)
  <2>1. PICK m \in 1..3 : \E x \in NewAt(root, m) : row = [impacted |-> x, depth |-> m]
    BY IsFirstRow
  <2>2. PICK x \in NewAt(root, m) : row = [impacted |-> x, depth |-> m]
    BY <2>1
  <2>3. x \in Steps(root)[m]
    BY DEF NewAt
  <2> QED
    BY <1>1, <1>2, <2>2, <2>3
<1> QED
  BY <1>3, <1>4
=============================================================================
