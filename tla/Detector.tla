------------------------------ MODULE Detector ------------------------------
(***************************************************************************)
(* AnomalyDetector and its MonitorRegistry: one consumer task judges the   *)
(* samples of telemetry.line1, requests reload the watch list from the     *)
(* graph and reset breakers, SSE streams are fed through bounded queues.   *)
(*                                                                         *)
(* All of it runs on one event loop: an action is what runs between two    *)
(* awaits. What a sample's value, window and thresholds make of it (NORMAL,*)
(* WARNING or TRIP) is a choice here.                                      *)
(***************************************************************************)
EXTENDS Naturals, Sequences

CONSTANTS
    Equip,        \* equipment ids
    Seeded,       \* equipment with a sensor and thresholds in the graph at first
    Defaults,     \* DEFAULT_PROFILES
    Reloaders,    \* reload requests that can be in progress at the same time
    Streams,      \* SSE connections
    MaxQueue,     \* Queue(maxsize=100)
    MaxRecent,    \* deque(maxlen=50)
    MaxRestored,  \* alerts read back after a restart, 30
    Edits,        \* what engineers do to the graph, a subset of {"add", "remove"}
    Faults        \* a subset of FaultKinds

FaultKinds == {"graph_read", "graph_write", "mongo", "restart"}

ASSUME DetectorAssumption ==
    /\ Seeded \subseteq Equip
    /\ Defaults \subseteq Equip
    /\ MaxQueue \in Nat \ {0}
    /\ MaxRestored \in Nat \ {0}
    /\ MaxRecent \in Nat /\ MaxRestored <= MaxRecent
    /\ Faults \subseteq FaultKinds

VARIABLES
    graph,     \* Sensor-[:MONITORS]->Equipment: the Mode of e's sensor, "none" without the edge
    profiles,  \* MonitorRegistry._profiles
    auto,      \* MonitorRegistry._auto_registered
    breaker,   \* _circuit_breakers: the state, "off" if there is none
    mode,      \* _circuit_breakers: what the sample is judged by
    task,      \* the consumer task, at one of the awaits of _process_sample
    reloads,   \* the profiles a reload request has read and not yet applied
    recent,    \* _recent_alerts
    stored,    \* early_warning_alerts, its last MaxRestored records
    streams,   \* _subscribers and their queues
    missed     \* history: equipment whose last rise ended without its alert

registryVars == <<graph, profiles, auto>>
alertVars == <<recent, stored, missed>>
vars == <<graph, profiles, auto, breaker, mode, task, reloads, recent, stored, streams, missed>>

CircuitState == {"NORMAL", "WARNING", "TRIP"}
\* Unwatched, judged by statistics only, by thresholds; or by a sensor that has
\* no metric name or no unit: upsert_node stores the properties it is given.
Mode == {"none", "stat", "limits", "bare"}
Profiles == [Equip -> Mode]
Watched == {e \in Equip : breaker[e] # "off"}

Idle == [step |-> "idle"]
Task == [step : {"register", "registered"}, eq : Equip]
            \cup [step : {"guide"}, eq : Equip, severity : {"WARNING", "TRIP"}, cb : Mode \cup {"listed"}]
            \cup [step : {"persist", "report"}, eq : Equip, severity : {"WARNING", "TRIP"}]
\* cb: the mode of the breaker whose alert is prepared, "listed" while that
\* breaker is the one in the table.
Preparing(e, s) == [step |-> "guide", eq |-> e, severity |-> s, cb |-> "listed"]
Unread == [e \in Equip |-> "unread"]

Alert == [eq : Equip, severity : {"WARNING", "TRIP"}]
Event == [kind : {"telemetry"}, eq : Equip, state : CircuitState]
             \cup [kind : {"alert"}, eq : Equip, state : {"WARNING", "TRIP"}]
             \cup [kind : {"refresh"}]
Telemetry(e, s) == [kind |-> "telemetry", eq |-> e, state |-> s]
Refresh == [kind |-> "refresh"]   \* circuit_reset, monitor_registered, registry_changed
NoEvent == [kind |-> "none"]

\* A response of /telemetry/stream: "waiting" until its generator first runs,
\* "gone" from the client's departure until the generator notices it. It is
\* fed while its queue is one of the subscribers.
Stream == [phase : {"closed", "waiting", "open", "gone"}, fed : BOOLEAN, queue : Seq(Event)]
Closed == [phase |-> "closed", fed |-> FALSE, queue |-> <<>>]

-----------------------------------------------------------------------------
\* put_nowait, for one subscriber: a full queue leaves the set.
Put(s, event) ==
    IF ~s.fed \/ event = NoEvent THEN s
    ELSE IF Len(s.queue) < MaxQueue
         THEN [s EXCEPT !.queue = Append(@, event)]
         ELSE [s EXCEPT !.fed = FALSE]

Broadcast(first, second) == streams' = [c \in Streams |-> Put(Put(streams[c], first), second)]

\* Faulty: a list without maxlen.
PushAll(s, item, max) == Append(s, item)

\* deque.append with a maxlen.
Push(s, item, max) == Append(IF Len(s) < max THEN s ELSE Tail(s), item)

Fallback == [e \in Equip |-> IF e \in Defaults THEN "limits" ELSE "none"]

\* MonitorRegistry.load: the graph, or the defaults if it is empty or fails.
Loaded ==
    {IF \A e \in Equip : graph[e] = "none" THEN Fallback ELSE graph}
        \cup (IF "graph_read" \in Faults THEN {Fallback} ELSE {})

\* start: reload_registry on an empty table of breakers.
Fresh(p) == [e \in Equip |-> IF p[e] = "none" THEN "off" ELSE "NORMAL"]
NoReloads == [r \in Reloaders |-> Unread]
AllClosed == [c \in Streams |-> Closed]

Init ==
    /\ graph = [e \in Equip |-> IF e \in Seeded THEN "limits" ELSE "none"]
    /\ recent = <<>> /\ stored = <<>>
    /\ \E p \in Loaded : profiles = p /\ mode = p /\ breaker = Fresh(p)
    /\ auto = {} /\ task = Idle /\ reloads = NoReloads /\ streams = AllClosed /\ missed = {}

-----------------------------------------------------------------------------
(* _process_sample. A sample of equipment that has no breaker although it  *)
(* was registered once (it is in auto) is dropped: no step.                *)

\* Faulty: the verdict on the new sample replaces a TRIP.
Unlatched(old, verdict) == verdict

Latched(old, verdict) == IF old = "TRIP" THEN "TRIP" ELSE verdict

\* Faulty: only the first rise of a breaker is announced.
RisesOnce(old, new) == old = "NORMAL" /\ new # "NORMAL"

Rises(old, new) == new # "NORMAL" /\ new # old

\* Faulty: the streams are told the verdict on the sample.
JudgeTellsVerdict(e, old, verdict, registered) ==
    LET new == Latched(old, verdict) IN
    /\ breaker' = [breaker EXCEPT ![e] = new]
    /\ IF Rises(old, new)
       THEN task' = Preparing(e, new) /\ Broadcast(registered, NoEvent)
       ELSE task' = Idle /\ Broadcast(registered, Telemetry(e, verdict))

\* From the window update to the alert or, without one, to the end.
Judge(e, old, verdict, registered) ==
    LET new == Latched(old, verdict) IN
    /\ breaker' = [breaker EXCEPT ![e] = new]
    /\ IF Rises(old, new)
       THEN task' = Preparing(e, new) /\ Broadcast(registered, NoEvent)
       ELSE task' = Idle /\ Broadcast(registered, Telemetry(e, new))

Sample(e) ==
    /\ task = Idle /\ breaker[e] # "off"
    /\ \E verdict \in CircuitState : Judge(e, breaker[e], verdict, NoEvent)
    /\ UNCHANGED <<registryVars, mode, reloads, alertVars>>

\* Faulty: the sample does not look whether there is a breaker.
UnknownSampleUnchecked(e) ==
    /\ task = Idle
    /\ e \notin auto
    /\ auto' = auto \cup {e}
    /\ task' = [step |-> "register", eq |-> e]
    /\ UNCHANGED <<graph, profiles, breaker, mode, reloads, alertVars, streams>>

\* get_or_auto_register, up to its await. Equipment that the registry knows
\* has a breaker (RegistryAgrees), so it does not come here.
UnknownSample(e) ==
    /\ task = Idle /\ breaker[e] = "off"
    /\ profiles[e] = "none" /\ e \notin auto
    /\ auto' = auto \cup {e}
    /\ task' = [step |-> "register", eq |-> e]
    /\ UNCHANGED <<graph, profiles, breaker, mode, reloads, alertVars, streams>>

\* auto_register_monitor: MERGE keeps the thresholds of a Sensor that is there,
\* with or without its edge, coalesce fills its names in. A failure is ignored.
RegisterInGraph ==
    /\ task.step = "register"
    /\ \/ \E m \in {"stat", "limits"} :
              graph' = [graph EXCEPT ![task.eq] = IF @ \in {"none", "bare"} THEN m ELSE @]
       \/ "graph_write" \in Faults /\ UNCHANGED graph
    /\ task' = [task EXCEPT !.step = "registered"]
    /\ UNCHANGED <<profiles, auto, breaker, mode, reloads, alertVars, streams>>

\* The rest, with a breaker made from the new profile, whatever a reload has
\* put in its place meanwhile.
Registered ==
    /\ task.step = "registered"
    /\ profiles' = [profiles EXCEPT ![task.eq] = "stat"]
    /\ mode' = [mode EXCEPT ![task.eq] = "stat"]
    /\ \E verdict \in CircuitState : Judge(task.eq, "NORMAL", verdict, Refresh)
    /\ UNCHANGED <<graph, auto, reloads, alertVars>>

\* What the breaker of the task, which the await may have outlived, is judged by.
Held == IF task.cb = "listed" THEN mode[task.eq] ELSE task.cb

\* _trigger_early_warning_alert: impact path and guide, both best effort, then
\* the alert.
Guide ==
    /\ task.step = "guide" /\ Held # "bare"
    /\ recent' = Push(recent, [eq |-> task.eq, severity |-> task.severity], MaxRecent)
    /\ missed' = missed \ {task.eq}
    /\ task' = [step |-> "persist", eq |-> task.eq, severity |-> task.severity]
    /\ UNCHANGED <<registryVars, breaker, mode, reloads, stored, streams>>

\* EarlyWarningAlert refuses a missing metric name or unit: the sample ends
\* here, neither alert nor sample is told, the breaker keeps its state. The
\* consumer reconnects after the record.
GuideRaises ==
    /\ task.step = "guide" /\ Held = "bare"
    /\ missed' = missed \cup {task.eq}
    /\ task' = Idle
    /\ UNCHANGED <<registryVars, breaker, mode, reloads, recent, stored, streams>>

Persist ==
    /\ task.step = "persist"
    /\ \/ stored' = Push(stored, [eq |-> task.eq, severity |-> task.severity], MaxRestored)
       \/ "mongo" \in Faults /\ UNCHANGED stored
    /\ task' = [task EXCEPT !.step = "report"]
    /\ UNCHANGED <<registryVars, breaker, mode, reloads, recent, streams, missed>>

\* The alert goes out, then the sample, with the state it had when judged.
Report ==
    /\ task.step = "report"
    /\ Broadcast([kind |-> "alert", eq |-> task.eq, state |-> task.severity],
                 Telemetry(task.eq, task.severity))
    /\ task' = Idle
    /\ UNCHANGED <<registryVars, breaker, mode, reloads, alertVars>>

-----------------------------------------------------------------------------
(* Requests.                                                               *)

ReloadRead(r) ==
    /\ reloads[r] = Unread
    /\ \E p \in Loaded : reloads' = [reloads EXCEPT ![r] = p]
    /\ UNCHANGED <<registryVars, breaker, mode, task, alertVars, streams>>

\* Faulty: equipment that left the profiles keeps its breaker.
ReloadKeepsRemoved(r) ==
    LET p == reloads[r] IN
    /\ p # Unread
    /\ profiles' = p
    /\ mode' = [e \in Equip |-> IF p[e] = "none" THEN mode[e] ELSE p[e]]
    /\ breaker' = [e \in Equip |->
                      IF p[e] # "none" /\ breaker[e] = "off" THEN "NORMAL" ELSE breaker[e]]
    /\ reloads' = [reloads EXCEPT ![r] = Unread]
    /\ UNCHANGED <<graph, auto, task, alertVars, streams>>

\* The rest of reload_registry: watched equipment keeps its state, a breaker
\* that leaves the table under an alert in preparation keeps its mode.
ReloadApply(r) ==
    LET p == reloads[r]
        removed == {e \in Watched : p[e] = "none"}
    IN
    /\ p # Unread
    /\ profiles' = p
    /\ mode' = p
    /\ breaker' = [e \in Equip |->
                      IF p[e] = "none" THEN "off" ELSE IF breaker[e] = "off" THEN "NORMAL" ELSE breaker[e]]
    /\ reloads' = [reloads EXCEPT ![r] = Unread]
    /\ task' = IF task.step = "guide" /\ task.eq \in removed /\ task.cb = "listed"
               THEN [task EXCEPT !.cb = mode[task.eq]] ELSE task
    /\ Broadcast(IF removed = {} THEN NoEvent ELSE Refresh, NoEvent)
    /\ UNCHANGED <<graph, auto, alertVars>>

ResetBreakers(targets) ==
    /\ breaker' = [e \in Equip |-> IF e \in targets THEN "NORMAL" ELSE breaker[e]]
    /\ Broadcast(Refresh, NoEvent)
    /\ UNCHANGED <<registryVars, mode, task, reloads, alertVars>>

\* reset_circuit_breaker: one breaker, which must exist, or all of them.
Reset ==
    /\ "reset" \in Edits
    /\ \/ \E e \in Watched : ResetBreakers({e})
       \/ ResetBreakers(Watched)

\* upsert_node and upsert_edge: a sensor counts from its edge on. Properties are
\* set or changed, never dropped. The thresholds may be no numbers.
AddSensor(e) ==
    /\ "add" \in Edits
    /\ \E m \in Mode \ {"none", graph[e]} :
          /\ m = "bare" => graph[e] = "none"
          /\ graph' = [graph EXCEPT ![e] = m]
    /\ UNCHANGED <<profiles, auto, breaker, mode, task, reloads, alertVars, streams>>

RemoveNode(e) ==
    /\ "remove" \in Edits /\ graph[e] # "none"
    /\ graph' = [graph EXCEPT ![e] = "none"]
    /\ UNCHANGED <<profiles, auto, breaker, mode, task, reloads, alertVars, streams>>

\* Faulty: the history is put back newest first.
RestoredNewestFirst == [i \in 1..Len(stored) |-> stored[Len(stored) + 1 - i]]

\* _load_alerts_from_mongo: newest first from the store, reversed.
Restored == stored

\* The process stops and starts; the unfinished sample may be lost.
Restart ==
    /\ "restart" \in Faults
    /\ \E p \in Loaded : profiles' = p /\ mode' = p /\ breaker' = Fresh(p)
    /\ auto' = {} /\ task' = Idle /\ reloads' = NoReloads /\ streams' = AllClosed /\ missed' = {}
    /\ \/ recent' = Restored
       \/ "mongo" \in Faults /\ recent' = <<>>
    /\ UNCHANGED <<graph, stored>>

-----------------------------------------------------------------------------
(* /telemetry/stream.                                                      *)

SetStream(c, s) ==
    /\ streams' = [streams EXCEPT ![c] = s]
    /\ UNCHANGED <<registryVars, breaker, mode, task, reloads, alertVars>>

Subscribe(c) ==
    /\ streams[c].phase = "closed"
    /\ SetStream(c, [phase |-> "waiting", fed |-> TRUE, queue |-> <<>>])

\* get_circuit_breakers: one breaker without a metric name or unit fails it.
Listable == \A e \in Watched : mode[e] # "bare"

\* The generator starts: the init event with all breakers, or its end.
Open(c) ==
    /\ streams[c].phase = "waiting"
    /\ SetStream(c, IF Listable THEN [streams[c] EXCEPT !.phase = "open"] ELSE Closed)

Deliver(c) ==
    /\ streams[c].phase = "open" /\ streams[c].queue # <<>>
    /\ SetStream(c, [streams[c] EXCEPT !.queue = Tail(@)])

Leave(c) == streams[c].phase \in {"waiting", "open"} /\ SetStream(c, [streams[c] EXCEPT !.phase = "gone"])

Unsubscribe(c) == streams[c].phase = "gone" /\ SetStream(c, Closed)

-----------------------------------------------------------------------------
ConsumerStep == RegisterInGraph \/ Registered \/ Guide \/ GuideRaises \/ Persist \/ Report

Server ==
    \/ \E e \in Equip : Sample(e) \/ UnknownSample(e) \/ AddSensor(e) \/ RemoveNode(e)
    \/ ConsumerStep
    \/ \E r \in Reloaders : ReloadRead(r) \/ ReloadApply(r)
    \/ Reset
    \/ \E c \in Streams : Subscribe(c) \/ Leave(c) \/ Unsubscribe(c)

Next == Server \/ Restart \/ \E c \in Streams : Open(c) \/ Deliver(c)

Spec == Init /\ [][Next]_vars

-----------------------------------------------------------------------------
StreamsOK ==
    /\ streams \in [Streams -> Stream]
    /\ \A c \in Streams : Len(streams[c].queue) <= MaxQueue

AlertsOK ==
    /\ recent \in Seq(Alert) /\ Len(recent) <= MaxRecent
    /\ stored \in Seq(Alert) /\ Len(stored) <= MaxRestored
    /\ missed \subseteq Equip

RegistryOK ==
    /\ graph \in Profiles /\ profiles \in Profiles /\ mode \in Profiles
    /\ auto \subseteq Equip
    /\ breaker \in [Equip -> CircuitState \cup {"off"}]
    /\ task \in Task \cup {Idle}
    /\ reloads \in [Reloaders -> Profiles \cup {Unread}]

\* Every variable keeps its shape, every buffer its bound.
TypeOK == RegistryOK /\ AlertsOK /\ StreamsOK

\* The registry and the table of breakers are two dictionaries, written by
\* reloads and by the consumer between its awaits: they always list the same
\* equipment, judged by the profile the registry holds.
RegistryAgrees ==
    \A e \in Equip : mode[e] = profiles[e] /\ (breaker[e] = "off" <=> mode[e] = "none")

\* While the consumer registers equipment, nobody else can have judged it: the
\* breaker it overwrites afterwards is at most a fresh one.
RegisterIsFresh ==
    task.step \in {"register", "registered"} => breaker[task.eq] \in {"off", "NORMAL"}

OfEquip(e) == {i \in 1..Len(recent) : recent[i].eq = e}
LastOf(e) == recent[CHOOSE i \in OfEquip(e) : \A j \in OfEquip(e) : j <= i].severity

\* A breaker that shows WARNING or TRIP has told so: its latest alert has that
\* severity, or is being prepared, or newer ones have pushed it out. Only a
\* sensor without names stays silent, and until its next rise with names.
AlertsTellTheState ==
    \A e \in Equip \ missed : breaker[e] \in {"WARNING", "TRIP"} =>
        \/ task.step = "guide" /\ task.eq = e /\ task.severity = breaker[e]
        \/ OfEquip(e) # {} /\ LastOf(e) = breaker[e]
        \/ OfEquip(e) = {} /\ Len(recent) = MaxRecent

\* The alert history users see and the one a restart brings back end alike
\* ("the history is kept in MongoDB and survives a restart"), while MongoDB
\* answers: only the alert just being stored may be missing.
HistorySurvives ==
    LET n == IF task.step = "persist" THEN Len(recent) - 1 ELSE Len(recent)
        m == Len(stored)
    IN \A i \in 0..MaxRestored - 1 : i < n /\ i < m => recent[n - i] = stored[m - i]

Due == IF task.step = "guide"
       THEN [eq |-> task.eq, severity |-> task.severity, named |-> Held # "bare"]
       ELSE [severity |-> "none"]

B == INSTANCE Breaker WITH level <- breaker, due <- Due, untold <- missed

\* The detector implements the breakers it promises (module Breaker): a TRIP
\* is only left by a reset, by leaving the watch list or by a restart, and
\* every rise is announced unless the sensor has no names just then.
ImplementsBreaker == B!Spec

\* "TRIP is held until a manual reset" (_process_sample), as long as the
\* equipment is in the graph.
TripHeldUntilReset ==
    [][\A e \in Equip : breaker[e] = "TRIP" /\ breaker'[e] # "TRIP" => graph[e] = "none" \/ Reset]_vars
=============================================================================
