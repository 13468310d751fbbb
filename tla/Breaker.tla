------------------------------ MODULE Breaker ------------------------------
(***************************************************************************)
(* What the early warning system promises of its circuit breakers, without *)
(* registry, awaits or streams: a TRIP is left by a reset or by leaving    *)
(* the watch list, and every rise of a breaker makes one alert due, which  *)
(* is dealt with before another breaker is judged. It is announced unless  *)
(* its sensor has no names to put into the alert.                          *)
(***************************************************************************)
CONSTANT Equip

VARIABLES
    level,  \* the state each breaker shows, "off" for unwatched equipment
    due,    \* the alert being prepared, or NoAlert
    untold  \* the breakers whose last rise was not announced

CircuitState == {"NORMAL", "WARNING", "TRIP"}
Level == CircuitState \cup {"off"}
Alert == [eq : Equip, severity : CircuitState \ {"NORMAL"}, named : BOOLEAN]
NoAlert == [severity |-> "none"]

breakerVars == <<level, due, untold>>

Init == level \in [Equip -> {"off", "NORMAL"}] /\ due = NoAlert /\ untold = {}

\* A sample is judged: a TRIP stays one.
Judge(e, new) ==
    /\ due = NoAlert
    /\ level[e] = "TRIP" => new = "TRIP"
    /\ level' = [level EXCEPT ![e] = new]
    /\ IF new # "NORMAL" /\ new # level[e]
       THEN \E b \in BOOLEAN : due' = [eq |-> e, severity |-> new, named |-> b]
       ELSE due' = NoAlert
    /\ UNCHANGED untold

Announce ==
    /\ due # NoAlert /\ due.named
    /\ due' = NoAlert /\ untold' = untold \ {due.eq}
    /\ UNCHANGED level

Miss ==
    /\ due # NoAlert /\ ~due.named
    /\ due' = NoAlert /\ untold' = untold \cup {due.eq}
    /\ UNCHANGED level

\* A reset of some of the watched equipment.
Reset(targets) ==
    /\ level' = [e \in Equip |-> IF e \in targets /\ level[e] # "off" THEN "NORMAL" ELSE level[e]]
    /\ UNCHANGED <<due, untold>>

\* The watch list is replaced: what stays on it keeps its state, and gets the
\* names the new list has for it.
Rewatch(watched) ==
    /\ level' = [e \in Equip |->
                    IF e \notin watched THEN "off" ELSE IF level[e] = "off" THEN "NORMAL" ELSE level[e]]
    /\ \/ UNCHANGED due
       \/ due # NoAlert /\ \E b \in BOOLEAN : due' = [due EXCEPT !.named = b]
    /\ UNCHANGED untold

\* The process starts over: states and the pending alert are not kept.
Restart == level' \in [Equip -> {"off", "NORMAL"}] /\ due' = NoAlert /\ untold' = {}

Next ==
    \/ \E e \in Equip, new \in CircuitState : Judge(e, new)
    \/ Announce \/ Miss \/ Restart
    \/ \E S \in SUBSET Equip : Reset(S) \/ Rewatch(S)

Spec == Init /\ [][Next]_breakerVars
=============================================================================
