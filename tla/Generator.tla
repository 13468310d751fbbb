------------------------------ MODULE Generator ------------------------------
(***************************************************************************)
(* TelemetryGenerator: the simulator behind the early warning page. Start  *)
(* and stop requests, scenario changes and reloads run between the awaits  *)
(* of the task that publishes samples; stopping cancels that task, which   *)
(* notices at its next turn. The values of the samples are left out.       *)
(***************************************************************************)
EXTENDS Naturals, FiniteSets

CONSTANTS
    Sensors,   \* sensors the graph can name
    Defaults,  \* DEFAULT_PROFILES
    Simulable, \* sensors with a base mean and deviation
    Limited,   \* sensors with a trip threshold
    Scenarios, \* a subset of ScenarioType
    MaxDrift,  \* steps until the drift offset stays, 14.0 / 0.15
    MaxStarts, \* bound: starts
    Faults     \* a subset of FaultKinds

ScenarioType == {"NORMAL", "ANOMALY_40", "ANOMALY_70", "CRITICAL_SPIKE", "DRIFT"}
FaultKinds == {"graph", "publish"}

ASSUME GeneratorAssumption ==
    /\ Defaults \subseteq Sensors /\ Simulable \subseteq Sensors /\ Limited \subseteq Sensors
    /\ Defaults \cap Simulable # {}
    /\ "NORMAL" \in Scenarios /\ Scenarios \subseteq ScenarioType
    /\ MaxDrift \in Nat
    /\ MaxStarts \in Nat
    /\ Faults \subseteq FaultKinds

VARIABLES
    graph,     \* the sensors in the graph
    registry,  \* the generator's MonitorRegistry, empty until it is loaded
    profiles,  \* _profiles: the sensors that are simulated
    running,   \* _is_running
    scenario,  \* _scenario
    drift,     \* _drift_offset
    started,   \* starts so far; _task is the latest
    task,      \* the tasks: the await each is at, what is left of its round
    reloading  \* a reload request waits for the graph

control == <<running, scenario, drift, started>>
vars == <<graph, registry, profiles, running, scenario, drift, started, task, reloading>>

Tasks == 1..MaxStarts
Task == [at : {"none", "created", "load", "send", "sleep", "done"},
         cancelled : BOOLEAN, left : SUBSET Sensors]

Live(k) == task[k].at \notin {"none", "done"} /\ ~task[k].cancelled

Init ==
    /\ graph \in SUBSET Sensors
    /\ registry = {}
    /\ profiles = Defaults
    /\ running = FALSE /\ scenario = "NORMAL" /\ drift = 0 /\ started = 0
    /\ task = [k \in Tasks |-> [at |-> "none", cancelled |-> FALSE, left |-> {}]]
    /\ reloading = FALSE

\* Refreshing takes over what can be simulated, unless nothing can.
Simulated(known) == IF known \cap Simulable = {} THEN profiles ELSE known \cap Simulable

\* MonitorRegistry.load: an empty or unreachable graph leaves the defaults.
Loaded(known) == IF known = {} THEN Defaults ELSE known

-----------------------------------------------------------------------------
(* Requests. Starting a running generator only sets the scenario, and so   *)
(* does the scenario route, which starts one that is not running.          *)

SetScenario(s) ==
    /\ running
    /\ scenario' = s
    /\ drift' = IF s = "NORMAL" THEN 0 ELSE drift
    /\ UNCHANGED <<graph, registry, profiles, running, started, task, reloading>>

Start(s) ==
    /\ ~running
    /\ started < MaxStarts
    /\ running' = TRUE /\ scenario' = s /\ drift' = 0
    /\ started' = started + 1
    /\ task' = [task EXCEPT ![started + 1].at = "created"]
    /\ UNCHANGED <<graph, registry, profiles, reloading>>

\* Faulty: the loop is left to notice the flag.
StopByFlag ==
    /\ running
    /\ running' = FALSE
    /\ UNCHANGED <<graph, registry, profiles, scenario, drift, started, task, reloading>>

Stop ==
    /\ running
    /\ running' = FALSE
    /\ task' = [task EXCEPT ![started].cancelled = @ \/ task[started].at # "done"]
    /\ UNCHANGED <<graph, registry, profiles, scenario, drift, started, reloading>>

\* The reload route's refresh_profiles: a registry that was loaded once is
\* not loaded again.
Refresh ==
    /\ ~reloading
    /\ IF registry = {}
       THEN reloading' = TRUE /\ UNCHANGED profiles
       ELSE profiles' = Simulated(registry) /\ UNCHANGED reloading
    /\ UNCHANGED <<graph, registry, control, task>>

\* What the graph answers: itself, or nothing if it cannot be reached.
Answers == {graph} \cup IF "graph" \in Faults THEN {{}} ELSE {}

Refreshed ==
    /\ reloading
    /\ reloading' = FALSE
    /\ \E known \in Answers : registry' = Loaded(known)
    /\ profiles' = Simulated(registry')
    /\ UNCHANGED <<graph, control, task>>

EditGraph ==
    /\ \E s \in Sensors : graph' = IF s \in graph THEN graph \ {s} ELSE graph \cup {s}
    /\ UNCHANGED <<registry, profiles, control, task, reloading>>

-----------------------------------------------------------------------------
(* The task. A cancelled task gets CancelledError at whatever await it is. *)

Drifted == IF scenario = "DRIFT" /\ drift < MaxDrift THEN drift + 1 ELSE drift

Moves(k, at, left) == task' = [task EXCEPT ![k].at = at, ![k].left = left]

\* The loop goes on to the next sensor of its round, or to its sleep. A spike
\* of a sensor without a trip threshold is a TypeError: the task is over.
NextSample(k, left) ==
    \/ /\ left = {} \/ ~running
       /\ Moves(k, "sleep", {})
       /\ UNCHANGED <<running, drift>>
    \/ /\ running
       /\ \E s \in left :
             IF scenario = "CRITICAL_SPIKE" /\ s \notin Limited
             THEN Moves(k, "done", {}) /\ running' = FALSE /\ UNCHANGED drift
             ELSE Moves(k, "send", left \ {s}) /\ drift' = Drifted /\ UNCHANGED running

\* The head of the while loop.
Round(k, sensors) ==
    IF running THEN NextSample(k, sensors)
    ELSE Moves(k, "done", {}) /\ UNCHANGED <<running, drift>>

Begin(k) ==
    /\ Live(k) /\ task[k].at = "created"
    /\ IF registry = {}
       THEN Moves(k, "load", {}) /\ UNCHANGED <<profiles, running, drift>>
       ELSE profiles' = Simulated(registry) /\ Round(k, profiles')
    /\ UNCHANGED <<graph, registry, scenario, started, reloading>>

\* Faulty: a graph that does not answer ends the task.
LoadRaises(k) ==
    /\ Live(k) /\ task[k].at = "load"
    /\ \/ /\ registry' = Loaded(graph)
          /\ profiles' = Simulated(registry')
          /\ Round(k, profiles')
       \/ /\ "graph" \in Faults
          /\ Moves(k, "done", {})
          /\ UNCHANGED <<registry, profiles, running, drift>>
    /\ UNCHANGED <<graph, scenario, started, reloading>>

Load(k) ==
    /\ Live(k) /\ task[k].at = "load"
    /\ \E known \in Answers : registry' = Loaded(known)
    /\ profiles' = Simulated(registry')
    /\ Round(k, profiles')
    /\ UNCHANGED <<graph, scenario, started, reloading>>

Sent(k) ==
    /\ Live(k) /\ task[k].at = "send"
    /\ NextSample(k, task[k].left)
    /\ UNCHANGED <<graph, registry, profiles, scenario, started, reloading>>

\* Faulty: the failure is logged and the flag stays.
SendFailsSilently(k) ==
    /\ Live(k) /\ task[k].at = "send" /\ "publish" \in Faults
    /\ Moves(k, "done", {})
    /\ UNCHANGED <<graph, registry, profiles, control, reloading>>

\* A publication that fails ends the loop for good.
SendFails(k) ==
    /\ Live(k) /\ task[k].at = "send" /\ "publish" \in Faults
    /\ Moves(k, "done", {})
    /\ running' = FALSE
    /\ UNCHANGED <<graph, registry, profiles, scenario, drift, started, reloading>>

Wake(k) ==
    /\ Live(k) /\ task[k].at = "sleep"
    /\ Round(k, profiles)
    /\ UNCHANGED <<graph, registry, profiles, scenario, started, reloading>>

Cancelled(k) ==
    /\ task[k].cancelled /\ task[k].at # "done"
    /\ Moves(k, "done", {})
    /\ UNCHANGED <<graph, registry, profiles, control, reloading>>

TaskStep(k) == Begin(k) \/ Load(k) \/ Sent(k) \/ Wake(k) \/ Cancelled(k)

Next ==
    \/ \E s \in Scenarios : Start(s) \/ SetScenario(s)
    \/ Stop \/ Refresh \/ Refreshed \/ EditGraph
    \/ \E k \in Tasks : TaskStep(k) \/ SendFails(k)

Spec == Init /\ [][Next]_vars

\* The event loop runs the tasks; the broker and the graph answer or fail.
FairSpec == Spec /\ \A k \in Tasks : WF_vars(TaskStep(k))

-----------------------------------------------------------------------------
\* Every variable keeps its shape, the drift its limit; something is simulated.
TypeOK ==
    /\ graph \subseteq Sensors /\ registry \subseteq Sensors
    /\ profiles \subseteq Sensors /\ profiles # {}
    /\ running \in BOOLEAN
    /\ scenario \in ScenarioType
    /\ drift \in 0..MaxDrift
    /\ started \in 0..MaxStarts
    /\ task \in [Tasks -> Task]
    /\ \A k \in Tasks : task[k].at = "none" <=> k > started
    /\ reloading \in BOOLEAN

\* However quickly the simulator is stopped and started again, the samples of
\* two loops never mix: only the latest task can go on.
OneLoop == \A k \in Tasks : Live(k) => k = started

\* The status shown is true: running means there is a loop, stopped means that
\* none will publish again.
FlagIsTrue == running <=> \E k \in Tasks : Live(k)

\* A simulator that says it is running keeps publishing.
SamplesKeepComing == <>[]running => []<>(\E k \in Tasks : Live(k) /\ task[k].at = "send")
=============================================================================
