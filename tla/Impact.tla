--------------------------------- MODULE Impact ---------------------------------
(***************************************************************************)
(* GraphRepository.impact: what a machine or the machines a sensor watches *)
(* feed or affect, up to three steps away, by the shortest path. The graph *)
(* is a set of relations [from, to, type] between named nodes.             *)
(***************************************************************************)
EXTENDS Integers, Sequences, FiniteSets, FiniteSetsExt, SequencesExt

CONSTANTS
    Nodes,     \* ids
    Equipment, \* the nodes with the label Equipment
    Relations  \* the relations

Relation == [from : Nodes, to : Nodes,
             type : {"PART_OF", "FEEDS", "AFFECTS", "MONITORS", "ATTACHED_TO", "DESCRIBES"}]

ASSUME ImpactAssumption == Equipment \subseteq Nodes /\ Relations \subseteq Relation

MaxDepth == 3  \* in the query, whatever max_depth says

Downstream == {r \in Relations : r.type \in {"FEEDS", "AFFECTS"}}

\* The machines that stand for the root.
Resolved(root) ==
    {e \in Equipment :
        \/ e = root
        \/ \E r \in Relations : r.type \in {"MONITORS", "ATTACHED_TO"} /\ r.from = root /\ r.to = e}

\* A path uses no relation twice.
Paths(root) ==
    {p \in UNION {[1..n -> Downstream] : n \in 1..MaxDepth} :
        /\ p[1].from \in Resolved(root)
        /\ \A i \in 2..Len(p) : p[i].from = p[i - 1].to
        /\ IsInjective(p)}

\* The rows of the query's answer; they come ordered by depth.
Rows(root, depth) ==
    {[impacted |-> Last(p).to, depth |-> depth] : p \in {q \in Paths(root) : Len(q) = depth}}

\* Faulty: of the rows of one node the last one counts.
LastKept(seen, rows) ==
    {s \in seen : \A row \in rows : row.impacted # s.impacted} \cup rows

\* The loop over the rows keeps the first of those with the least depth.
Kept(seen, rows) ==
    seen \cup {row \in rows : \A s \in seen : s.impacted = row.impacted => row.depth < s.depth}

\* Without any row the lookup of the root's name raises IndexError.
Impacted(root) ==
    LET seen[n \in 0..MaxDepth] == IF n = 0 THEN {} ELSE Kept(seen[n - 1], Rows(root, n))
    IN seen[MaxDepth]

-----------------------------------------------------------------------------
After(S) == {r.to : r \in {q \in Downstream : q.from \in S}}

\* The nodes that so many steps reach, told without paths.
Steps(root) ==
    LET step[n \in 0..MaxDepth] == IF n = 0 THEN Resolved(root) ELSE After(step[n - 1])
    IN step

\* The depth of a node: the least number of steps that reach it.
Reached(root) ==
    {[impacted |-> x, depth |-> Min({n \in 1..MaxDepth : x \in Steps(root)[n]})] :
        x \in UNION {Steps(root)[n] : n \in 1..MaxDepth}}
=============================================================================
