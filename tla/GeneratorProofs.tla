---------------------------- MODULE GeneratorProofs ----------------------------
(***************************************************************************)
(* Of all tasks that were ever started only the latest can publish, and    *)
(* the run flag tells whether it does: proved for any sensors, scenarios,  *)
(* faults and number of starts.                                            *)
(***************************************************************************)
EXTENDS Generator, TLAPS

Stages == {"none", "created", "load", "send", "sleep", "done"}

TasksOK ==
    /\ task \in [Tasks -> Task]
    /\ \A k \in Tasks : task[k].at = "none" <=> k > started
    /\ \A k \in Tasks : task[k].at = "none" => ~task[k].cancelled
    /\ OneLoop
    /\ FlagIsTrue

DataOK ==
    /\ graph \subseteq Sensors /\ registry \subseteq Sensors
    /\ profiles \subseteq Sensors /\ profiles # {}
    /\ scenario \in ScenarioType
    /\ drift \in 0..MaxDrift
    /\ reloading \in BOOLEAN

ControlOK == running \in BOOLEAN /\ started \in 0..MaxStarts

IInv == DataOK /\ ControlOK /\ TasksOK

\* What Moves does to the tasks: the one that moves keeps its cancellation.
LEMMA MovesTask ==
    ASSUME task \in [Tasks -> Task], NEW k \in Tasks,
           NEW at \in Stages, NEW left \in SUBSET Sensors, Moves(k, at, left)
    PROVE  /\ task' \in [Tasks -> Task]
           /\ task'[k].at = at /\ task'[k].cancelled = task[k].cancelled
           /\ \A j \in Tasks \ {k} : task'[j] = task[j]
<1>1. task[k] \in Task
  OBVIOUS
<1>2. task' = [task EXCEPT ![k] = [task[k] EXCEPT !.at = at, !.left = left]]
  BY DEF Moves
<1>3. /\ [task[k] EXCEPT !.at = at, !.left = left] \in Task
      /\ [task[k] EXCEPT !.at = at, !.left = left].at = at
      /\ [task[k] EXCEPT !.at = at, !.left = left].cancelled = task[k].cancelled
  BY <1>1 DEF Task, Stages
<1> QED
  BY <1>2, <1>3

\* A live task that moves on, or is done while the flag goes down, keeps the
\* tasks and the flag in step.
LEMMA MovesOK ==
    ASSUME ControlOK, TasksOK, NEW k \in Tasks, Live(k),
           NEW at \in {"load", "send", "sleep", "done"}, NEW left \in SUBSET Sensors,
           Moves(k, at, left), started' = started,
           running' = (at # "done")
    PROVE  ControlOK' /\ TasksOK'
<1>1. /\ task' \in [Tasks -> Task]
      /\ task'[k].at = at /\ task'[k].cancelled = task[k].cancelled
      /\ \A j \in Tasks \ {k} : task'[j] = task[j]
  BY MovesTask DEF TasksOK, Stages
<1>2. k = started /\ task[k].at # "none" /\ ~task[k].cancelled
  BY DEF TasksOK, OneLoop, Live
<1>3. ControlOK'
  BY DEF ControlOK
<1>4. (\A j \in Tasks : /\ task[j].at = "none" <=> j > started
                        /\ task[j].at = "none" => ~task[j].cancelled)'
  BY <1>1, <1>2 DEF TasksOK
<1>5. \A j \in Tasks \ {k} : ~Live(j)'
  BY <1>1, <1>2 DEF TasksOK, OneLoop, Live
<1>6. Live(k)' <=> at # "done"
  BY <1>1, <1>2 DEF Live
<1>7. OneLoop'
  BY <1>2, <1>5 DEF OneLoop, Tasks
<1>8. FlagIsTrue'
  BY <1>5, <1>6 DEF FlagIsTrue, Tasks
<1> QED
  BY <1>1, <1>3, <1>4, <1>7, <1>8 DEF TasksOK

\* Refreshing leaves something to simulate.
LEMMA SimulatedType ==
    ASSUME DataOK, NEW known \in SUBSET Sensors
    PROVE  Simulated(known) \subseteq Sensors /\ Simulated(known) # {}
BY GeneratorAssumption DEF DataOK, Simulated

LEMMA LoadedType ==
    ASSUME DataOK, NEW known \in Answers
    PROVE  Loaded(known) \subseteq Sensors
BY GeneratorAssumption DEF DataOK, Loaded, Answers

LEMMA DriftedType ==
    ASSUME DataOK PROVE Drifted \in 0..MaxDrift
BY GeneratorAssumption DEF DataOK, Drifted

\* What a round does to flag and tasks, wherever it begins.
LEMMA NextSampleOK ==
    ASSUME DataOK, ControlOK, TasksOK, NEW k \in Tasks, Live(k), started' = started,
           NEW left \in SUBSET Sensors, NextSample(k, left)
    PROVE  ControlOK' /\ TasksOK' /\ drift' \in 0..MaxDrift
<1>0. running
  BY DEF TasksOK, FlagIsTrue, Tasks
<1>1. CASE Moves(k, "sleep", {}) /\ UNCHANGED <<running, drift>>
  <2>1. running' = ("sleep" # "done")
    BY <1>0, <1>1 DEF ControlOK
  <2> QED
    BY <1>1, <2>1, MovesOK DEF DataOK
<1>2. CASE \E s \in left : Moves(k, "done", {}) /\ running' = FALSE /\ UNCHANGED drift
  <2>1. running' = ("done" # "done")
    BY <1>2
  <2> QED
    BY <1>2, <2>1, MovesOK DEF DataOK
<1>3. CASE \E s \in left : Moves(k, "send", left \ {s}) /\ drift' = Drifted /\ UNCHANGED running
  <2>1. PICK s \in left : Moves(k, "send", left \ {s})
    BY <1>3
  <2>2. running' = ("send" # "done")
    BY <1>0, <1>3 DEF ControlOK
  <2>3. ControlOK' /\ TasksOK'
    BY <2>1, <2>2, MovesOK
  <2> QED
    BY <1>3, <2>3, DriftedType
<1> QED
  BY <1>1, <1>2, <1>3 DEF NextSample

LEMMA RoundOK ==
    ASSUME DataOK, ControlOK, TasksOK, NEW k \in Tasks, Live(k), started' = started,
           NEW sensors \in SUBSET Sensors, Round(k, sensors)
    PROVE  ControlOK' /\ TasksOK' /\ drift' \in 0..MaxDrift
<1>0. running
  BY DEF TasksOK, FlagIsTrue, Tasks
<1> QED
  BY <1>0, NextSampleOK DEF Round

-----------------------------------------------------------------------------
LEMMA InitInv == Init => IInv
<1> SUFFICES ASSUME Init PROVE IInv
  OBVIOUS
<1>1. DataOK
  <2>1. Defaults \subseteq Sensors /\ Defaults # {} /\ 0 \in 0..MaxDrift
    BY GeneratorAssumption
  <2> QED
    BY <2>1 DEF Init, DataOK, ScenarioType
<1>2. ControlOK
  <2>1. 0 \in 0..MaxStarts
    BY GeneratorAssumption
  <2> QED
    BY <2>1 DEF Init, ControlOK
<1>3. TasksOK
  BY DEF Init, TasksOK, OneLoop, FlagIsTrue, Live, Tasks, Task
<1> QED
  BY <1>1, <1>2, <1>3 DEF IInv

\* If neither tasks nor flag change, what is said of them stays.
LEMMA TasksKept ==
    ASSUME TasksOK, ControlOK, UNCHANGED <<running, started, task>>
    PROVE  TasksOK' /\ ControlOK'
BY DEF TasksOK, ControlOK, OneLoop, FlagIsTrue, Live, Tasks

LEMMA StartInv ==
    ASSUME IInv, NEW s \in Scenarios, Start(s) PROVE IInv'
<1>n. PICK n \in Nat : n = started + 1
  BY GeneratorAssumption DEF IInv, ControlOK
<1>0. started \in Nat /\ started < MaxStarts /\ MaxStarts \in Nat
  BY GeneratorAssumption DEF IInv, ControlOK, Start
<1>1. n \in Tasks
  BY <1>0, <1>n DEF Tasks
<1>2. \A k \in Tasks : ~Live(k)
  BY DEF IInv, TasksOK, FlagIsTrue, Start
<1>3. task[n] \in Task /\ task \in [Tasks -> Task] /\ task[n].at = "none"
  BY <1>0, <1>1, <1>n DEF IInv, TasksOK
<1>4. /\ [task[n] EXCEPT !.at = "created"] \in Task
      /\ [task[n] EXCEPT !.at = "created"].at = "created"
      /\ [task[n] EXCEPT !.at = "created"].cancelled = task[n].cancelled
  BY <1>3 DEF Task
<1>5. task' = [task EXCEPT ![n] = [task[n] EXCEPT !.at = "created"]]
  BY <1>n DEF Start
<1>6. /\ task' \in [Tasks -> Task]
      /\ task'[n].at = "created" /\ task'[n].cancelled = task[n].cancelled
      /\ \A k \in Tasks \ {n} : task'[k] = task[k]
  BY <1>1, <1>3, <1>4, <1>5
<1>7. DataOK'
  BY GeneratorAssumption DEF IInv, DataOK, Start
<1>8. ControlOK'
  BY <1>0 DEF ControlOK, Start
<1>9. (\A k \in Tasks : /\ task[k].at = "none" <=> k > started
                        /\ task[k].at = "none" => ~task[k].cancelled)'
  <2>1. started' = n
    BY <1>n DEF Start
  <2>2. \A k \in Tasks : k \in Nat
    BY DEF Tasks
  <2> QED
    BY <1>0, <1>6, <1>n, <2>1, <2>2 DEF IInv, TasksOK
<1>10. \A k \in Tasks \ {n} : ~Live(k)'
  BY <1>2, <1>6 DEF Live
<1>11. OneLoop'
  BY <1>10, <1>n DEF OneLoop, Start, Tasks
<1>12. FlagIsTrue'
  <2>1. ~task[n].cancelled
    BY <1>1, <1>3 DEF IInv, TasksOK
  <2>2. Live(n)' /\ running'
    BY <1>6, <2>1 DEF Live, Start
  <2> QED
    BY <1>1, <2>2 DEF FlagIsTrue, Tasks
<1> QED
  BY <1>6, <1>7, <1>8, <1>9, <1>11, <1>12 DEF IInv, TasksOK

\* Stopping cancels the one live task.
LEMMA StopInv ==
    ASSUME IInv, Stop PROVE IInv'
<1>1. PICK k \in Tasks : Live(k)
  BY DEF IInv, TasksOK, FlagIsTrue, Stop
<1>2. k = started /\ task[k] \in Task /\ task \in [Tasks -> Task]
  BY <1>1 DEF IInv, TasksOK, OneLoop
<1>3. task[k].at # "none" /\ task[k].at # "done" /\ task[k].cancelled \in BOOLEAN
  BY <1>1, <1>2 DEF Live, Task
<1>4. /\ [task[k] EXCEPT !.cancelled = TRUE] \in Task
      /\ [task[k] EXCEPT !.cancelled = TRUE].at = task[k].at
      /\ [task[k] EXCEPT !.cancelled = TRUE].cancelled = TRUE
  BY <1>2 DEF Task
<1>5. task' = [task EXCEPT ![k] = [task[k] EXCEPT !.cancelled = TRUE]]
  <2>1. (task[k].cancelled \/ task[k].at # "done") = TRUE
    BY <1>3
  <2>2. task' = [task EXCEPT ![k].cancelled = task[k].cancelled \/ task[k].at # "done"]
    BY <1>2 DEF Stop
  <2> QED
    BY <2>1, <2>2
<1>6. /\ task' \in [Tasks -> Task]
      /\ task'[k].at = task[k].at /\ task'[k].cancelled = TRUE
      /\ \A j \in Tasks \ {k} : task'[j] = task[j]
  BY <1>2, <1>4, <1>5
<1>7. DataOK'
  BY DEF IInv, DataOK, Stop
<1>8. ControlOK'
  BY DEF IInv, ControlOK, Stop
<1>9. (\A j \in Tasks : /\ task[j].at = "none" <=> j > started
                        /\ task[j].at = "none" => ~task[j].cancelled)'
  BY <1>3, <1>6 DEF IInv, TasksOK, Stop
<1>10. \A j \in Tasks : ~Live(j)'
  <2>1. \A j \in Tasks \ {k} : ~Live(j)
    BY <1>2 DEF IInv, TasksOK, OneLoop
  <2> QED
    BY <1>6, <2>1 DEF Live
<1>11. OneLoop' /\ FlagIsTrue'
  BY <1>10 DEF OneLoop, FlagIsTrue, Stop, Tasks
<1> QED
  BY <1>6, <1>7, <1>8, <1>9, <1>11 DEF IInv, TasksOK

\* A cancelled task was not live, and is not when it is done.
LEMMA CancelledInv ==
    ASSUME IInv, NEW k \in Tasks, Cancelled(k) PROVE IInv'
<1>1. /\ task' \in [Tasks -> Task]
      /\ task'[k].at = "done" /\ task'[k].cancelled = task[k].cancelled
      /\ \A j \in Tasks \ {k} : task'[j] = task[j]
  <2>1. Moves(k, "done", {}) /\ {} \in SUBSET Sensors /\ "done" \in Stages
    BY DEF Cancelled, Stages
  <2> QED
    BY <2>1, MovesTask DEF IInv, TasksOK
<1>2. DataOK' /\ ControlOK'
  BY DEF IInv, DataOK, ControlOK, Cancelled, control
<1>3. (\A j \in Tasks : /\ task[j].at = "none" <=> j > started
                        /\ task[j].at = "none" => ~task[j].cancelled)'
  BY <1>1 DEF IInv, TasksOK, Cancelled, control
<1>4. \A j \in Tasks : Live(j)' <=> Live(j)
  BY <1>1 DEF Live, Cancelled
<1>5. OneLoop' /\ FlagIsTrue'
  BY <1>4 DEF IInv, TasksOK, OneLoop, FlagIsTrue, Cancelled, control, Tasks
<1> QED
  BY <1>1, <1>2, <1>3, <1>5 DEF IInv, TasksOK

LEMMA StepInv == IInv /\ [Next]_vars => IInv'
<1> SUFFICES ASSUME IInv, [Next]_vars PROVE IInv'
  OBVIOUS
<1> USE DEF IInv
<1>1. CASE UNCHANGED vars
  BY <1>1, TasksKept DEF vars, DataOK
<1>2. ASSUME NEW s \in Scenarios, Start(s) PROVE IInv'
  BY <1>2, StartInv
<1>3. ASSUME NEW s \in Scenarios, SetScenario(s) PROVE IInv'
  <2>1. TasksOK' /\ ControlOK'
    BY <1>3, TasksKept DEF SetScenario
  <2>2. s \in ScenarioType /\ 0 \in 0..MaxDrift
    BY GeneratorAssumption
  <2> QED
    BY <1>3, <2>1, <2>2 DEF SetScenario, DataOK
<1>4. CASE Stop
  BY <1>4, StopInv
<1>5. CASE Refresh
  <2>1. TasksOK' /\ ControlOK'
    BY <1>5, TasksKept DEF Refresh, control
  <2>2. profiles' \subseteq Sensors /\ profiles' # {}
    BY <1>5, SimulatedType DEF Refresh, DataOK
  <2> QED
    BY <1>5, <2>1, <2>2 DEF Refresh, DataOK, control
<1>6. CASE Refreshed
  <2>1. TasksOK' /\ ControlOK'
    BY <1>6, TasksKept DEF Refreshed, control
  <2>2. registry' \subseteq Sensors
    BY <1>6, LoadedType DEF Refreshed
  <2>3. profiles' \subseteq Sensors /\ profiles' # {}
    BY <1>6, <2>2, SimulatedType DEF Refreshed
  <2> QED
    BY <1>6, <2>1, <2>2, <2>3 DEF Refreshed, DataOK, control
<1>7. CASE EditGraph
  <2>1. TasksOK' /\ ControlOK'
    BY <1>7, TasksKept DEF EditGraph, control
  <2> QED
    BY <1>7, <2>1 DEF EditGraph, DataOK, control
<1>8. ASSUME NEW k \in Tasks, Begin(k) PROVE IInv'
  <2>1. CASE registry = {}
    <3>1. running
      BY <1>8 DEF Begin, TasksOK, FlagIsTrue
    <3>2. Live(k) /\ Moves(k, "load", {}) /\ running' = ("load" # "done") /\ started' = started
      BY <1>8, <2>1, <3>1 DEF Begin
    <3>3. ControlOK' /\ TasksOK'
      BY <3>2, MovesOK
    <3> QED
      BY <1>8, <2>1, <3>3 DEF Begin, DataOK
  <2>2. CASE registry # {}
    <3>1. profiles' \in SUBSET Sensors /\ profiles' # {}
      BY <1>8, <2>2, SimulatedType DEF Begin, DataOK
    <3>2. Live(k) /\ Round(k, profiles') /\ started' = started
      BY <1>8, <2>2 DEF Begin
    <3>3. ControlOK' /\ TasksOK' /\ drift' \in 0..MaxDrift
      BY <3>1, <3>2, RoundOK
    <3> QED
      BY <1>8, <3>1, <3>3 DEF Begin, DataOK
  <2> QED
    BY <2>1, <2>2
<1>9. ASSUME NEW k \in Tasks, Load(k) PROVE IInv'
  <2>1. registry' \in SUBSET Sensors
    BY <1>9, LoadedType DEF Load
  <2>2. profiles' \in SUBSET Sensors /\ profiles' # {}
    BY <1>9, <2>1, SimulatedType DEF Load
  <2>3. Live(k) /\ Round(k, profiles') /\ started' = started
    BY <1>9 DEF Load
  <2>4. ControlOK' /\ TasksOK' /\ drift' \in 0..MaxDrift
    BY <2>2, <2>3, RoundOK
  <2> QED
    BY <1>9, <2>1, <2>2, <2>4 DEF Load, DataOK
<1>10. ASSUME NEW k \in Tasks, Sent(k) PROVE IInv'
  <2>1. task[k].left \in SUBSET Sensors
    BY DEF TasksOK, Task
  <2>2. ControlOK' /\ TasksOK' /\ drift' \in 0..MaxDrift
    BY <1>10, <2>1, NextSampleOK DEF Sent
  <2> QED
    BY <1>10, <2>2 DEF Sent, DataOK
<1>11. ASSUME NEW k \in Tasks, Wake(k) PROVE IInv'
  <2>1. ControlOK' /\ TasksOK' /\ drift' \in 0..MaxDrift
    BY <1>11, RoundOK DEF Wake, DataOK
  <2> QED
    BY <1>11, <2>1 DEF Wake, DataOK
<1>12. ASSUME NEW k \in Tasks, SendFails(k) PROVE IInv'
  <2>1. Live(k) /\ Moves(k, "done", {}) /\ running' = ("done" # "done") /\ started' = started
    BY <1>12 DEF SendFails
  <2>2. ControlOK' /\ TasksOK'
    BY <2>1, MovesOK
  <2> QED
    BY <1>12, <2>2 DEF SendFails, DataOK
<1>13. ASSUME NEW k \in Tasks, Cancelled(k) PROVE IInv'
  BY <1>13, CancelledInv
<1> QED
  BY <1>1, <1>2, <1>3, <1>4, <1>5, <1>6, <1>7, <1>8, <1>9, <1>10, <1>11, <1>12, <1>13
  DEF Next, TaskStep

LEMMA Inductive == Spec => []IInv
BY InitInv, StepInv, PTL DEF Spec

-----------------------------------------------------------------------------
\* Every variable keeps its shape, the drift offset its limit, and there is
\* always something to simulate (refresh_profiles keeps the old profiles rather
\* than none).
THEOREM TypeCorrect == Spec => []TypeOK
<1>1. IInv => TypeOK
  BY DEF IInv, DataOK, ControlOK, TasksOK, TypeOK
<1> QED
  BY <1>1, Inductive, PTL

\* Only the latest task can go on publishing: stop cancels the one before (stop,
\* start).
THEOREM OneLoopAlways == Spec => []OneLoop
<1>1. IInv => OneLoop
  BY DEF IInv, TasksOK
<1> QED
  BY <1>1, Inductive, PTL

\* The status that is shown is true: is_running exactly while a task that is not
\* cancelled lives (status, _run_loop).
THEOREM FlagIsTrueAlways == Spec => []FlagIsTrue
<1>1. IInv => FlagIsTrue
  BY DEF IInv, TasksOK
<1> QED
  BY <1>1, Inductive, PTL
=============================================================================
