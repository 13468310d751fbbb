--------------------------- MODULE DetectorProofs ---------------------------
(* Proofs about Detector, for every set of equipment, streams and reload      *)
(* requests, every buffer size and set of faults.                             *)
EXTENDS Detector, SequenceTheorems, TLAPS

\* A bounded deque stays within its bound.
LEMMA PushType ==
    ASSUME NEW S, NEW s \in Seq(S), NEW x \in S, NEW n \in Nat \ {0}, Len(s) <= n
    PROVE  Push(s, x, n) \in Seq(S) /\ Len(Push(s, x, n)) <= n
<1>1. CASE Len(s) < n
  BY <1>1, AppendProperties, LenProperties DEF Push
<1>2. CASE ~(Len(s) < n)
  <2>1. s # <<>>
    BY <1>2, LenProperties, EmptySeq
  <2>2. Tail(s) \in Seq(S) /\ Len(Tail(s)) = Len(s) - 1
    BY <2>1, HeadTailProperties
  <2> QED
    BY <1>2, <2>2, AppendProperties, LenProperties DEF Push
<1> QED
  BY <1>1, <1>2

\* A subscriber's queue never outgrows its maxsize: it is dropped instead.
LEMMA PutType ==
    ASSUME NEW s \in Stream, Len(s.queue) <= MaxQueue, NEW event \in Event \cup {NoEvent}
    PROVE  Put(s, event) \in Stream /\ Len(Put(s, event).queue) <= MaxQueue
<1>1. CASE ~s.fed \/ event = NoEvent
  BY <1>1 DEF Put
<1>2. CASE s.fed /\ event # NoEvent /\ Len(s.queue) < MaxQueue
  <2>1. s.queue \in Seq(Event) /\ event \in Event
    BY <1>2 DEF Stream
  <2>2. Append(s.queue, event) \in Seq(Event) /\ Len(Append(s.queue, event)) = Len(s.queue) + 1
    BY <2>1, AppendProperties
  <2>3. Put(s, event) = [s EXCEPT !.queue = Append(s.queue, event)]
    BY <1>2 DEF Put
  <2>4. Len(s.queue) \in Nat /\ MaxQueue \in Nat
    BY <2>1, LenProperties, DetectorAssumption
  <2> DEFINE q == Append(s.queue, event)
  <2>5. q \in Seq(Event) /\ Len(q) <= MaxQueue
    BY <1>2, <2>2, <2>4
  <2> HIDE DEF q
  <2>6. [s EXCEPT !.queue = q] \in Stream /\ [s EXCEPT !.queue = q].queue = q
    BY <2>5 DEF Stream
  <2>7. Put(s, event) = [s EXCEPT !.queue = q]
    BY <2>3 DEF q
  <2> QED
    BY <2>5, <2>6, <2>7
<1>3. CASE s.fed /\ event # NoEvent /\ ~(Len(s.queue) < MaxQueue)
  BY <1>3 DEF Put, Stream
<1> QED
  BY <1>1, <1>2, <1>3

\* Broadcasting keeps the streams in shape.
LEMMA BroadcastType ==
    ASSUME StreamsOK, NEW first \in Event \cup {NoEvent}, NEW second \in Event \cup {NoEvent},
           Broadcast(first, second)
    PROVE  StreamsOK'
<1> SUFFICES ASSUME NEW c \in Streams
             PROVE  LET s == Put(Put(streams[c], first), second)
                    IN s \in Stream /\ Len(s.queue) <= MaxQueue
  BY DEF Broadcast, StreamsOK
<1>1. streams[c] \in Stream /\ Len(streams[c].queue) <= MaxQueue
  BY DEF StreamsOK
<1>2. Put(streams[c], first) \in Stream /\ Len(Put(streams[c], first).queue) <= MaxQueue
  BY <1>1, PutType
<1> QED
  BY <1>2, PutType

\* The events that are sent are events.
LEMMA EventTypes ==
    /\ Refresh \in Event
    /\ \A e \in Equip, s \in CircuitState : Telemetry(e, s) \in Event
    /\ \A e \in Equip, s \in {"WARNING", "TRIP"} : [kind |-> "alert", eq |-> e, state |-> s] \in Event
  BY DEF Refresh, Telemetry, Event

-----------------------------------------------------------------------------
(* What each part of a step does to the part of the state it changes.         *)

\* Judging a sample of watched equipment keeps the types.
LEMMA JudgeType ==
    ASSUME RegistryOK, StreamsOK, NEW e \in Equip, NEW old \in CircuitState,
           NEW verdict \in CircuitState, NEW registered \in Event \cup {NoEvent},
           Judge(e, old, verdict, registered)
    PROVE  /\ breaker' \in [Equip -> CircuitState \cup {"off"}]
           /\ breaker'[e] \in CircuitState
           /\ \A d \in Equip : d # e => breaker'[d] = breaker[d]
           /\ task' \in Task \cup {Idle}
           /\ task'.step \in {"idle", "guide"}
           /\ StreamsOK'
<1> DEFINE new == Latched(old, verdict)
<1>1. new \in CircuitState
  BY DEF Latched, CircuitState
<1>2. breaker' = [breaker EXCEPT ![e] = new]
  BY DEF Judge
<1>3. /\ breaker' \in [Equip -> CircuitState \cup {"off"}]
      /\ breaker'[e] \in CircuitState
      /\ \A d \in Equip : d # e => breaker'[d] = breaker[d]
  BY <1>1, <1>2 DEF RegistryOK
<1>4. CASE Rises(old, new)
  <2>1. task' = Preparing(e, new) /\ Broadcast(registered, NoEvent)
    BY <1>4 DEF Judge
  <2>2. new \in {"WARNING", "TRIP"}
    BY <1>1, <1>4 DEF Rises, CircuitState
  <2>3. task' \in Task /\ task'.step = "guide"
    BY <2>1, <2>2 DEF Preparing, Task
  <2>4. StreamsOK'
    BY <2>1, BroadcastType
  <2> QED
    BY <1>3, <2>3, <2>4
<1>5. CASE ~Rises(old, new)
  <2>1. task' = Idle /\ Broadcast(registered, Telemetry(e, new))
    BY <1>5 DEF Judge
  <2>2. Telemetry(e, new) \in Event
    BY <1>1, EventTypes
  <2>3. StreamsOK'
    BY <2>1, <2>2, BroadcastType
  <2>4. task'.step = "idle"
    BY <2>1 DEF Idle
  <2> QED
    BY <1>3, <2>1, <2>3, <2>4
<1> QED
  BY <1>4, <1>5

\* A reload only ever notes the mode of the breaker it takes from the table.
LEMMA ReloadTask ==
    ASSUME RegistryOK, NEW r \in Reloaders, ReloadApply(r)
    PROVE  /\ task' \in Task \cup {Idle}
           /\ task'.step = task.step
           /\ task.step # "guide" => task' = task
           /\ task.step = "guide" => task'.eq = task.eq /\ task'.severity = task.severity
<1>1. CASE task' = task
  BY <1>1 DEF RegistryOK
<1>2. CASE task' # task
  <2>1. task.step = "guide" /\ task' = [task EXCEPT !.cb = mode[task.eq]]
    BY <1>2 DEF ReloadApply
  <2>2. task \in [step : {"guide"}, eq : Equip, severity : {"WARNING", "TRIP"}, cb : Mode \cup {"listed"}]
    BY <2>1 DEF RegistryOK, Task, Idle
  <2>3. mode[task.eq] \in Mode
    BY <2>2 DEF RegistryOK, Profiles
  <2> QED
    BY <2>1, <2>2, <2>3 DEF Task
<1> QED
  BY <1>1, <1>2

\* An alert in preparation belongs to a breaker of some mode.
LEMMA GuideTask ==
    ASSUME RegistryOK, task.step = "guide"
    PROVE  task \in [step : {"guide"}, eq : Equip, severity : {"WARNING", "TRIP"}, cb : Mode \cup {"listed"}]
  BY DEF RegistryOK, Task, Idle

\* The registry loads profiles.
LEMMA LoadedType == ASSUME graph \in Profiles PROVE Loaded \subseteq Profiles
  BY DEF Loaded, Fallback, Profiles, Mode

\* The breakers of a fresh table match the profiles they are made from.
LEMMA FreshType ==
    ASSUME NEW p \in Profiles
    PROVE  /\ Fresh(p) \in [Equip -> CircuitState \cup {"off"}]
           /\ Fresh(p) \in [Equip -> {"off", "NORMAL"}]
           /\ \A e \in Equip : Fresh(p)[e] = "off" <=> p[e] = "none"
  BY DEF Fresh, CircuitState

\* A stream that changes phase or loses its first event keeps its shape.
LEMMA SetStreamType ==
    ASSUME StreamsOK, NEW c \in Streams, NEW s \in Stream, Len(s.queue) <= MaxQueue, SetStream(c, s)
    PROVE  StreamsOK'
  BY DEF StreamsOK, SetStream

-----------------------------------------------------------------------------
(* Types.                                                                     *)

LEMMA InitType == Init => TypeOK
<1> SUFFICES ASSUME Init PROVE TypeOK
  OBVIOUS
<1>1. graph \in Profiles
  BY DEF Init, Profiles, Mode
<1>2. PICK p \in Loaded : profiles = p /\ mode = p /\ breaker = Fresh(p)
  BY DEF Init
<1>3. p \in Profiles
  BY <1>1, <1>2, LoadedType
<1>4. RegistryOK
  BY <1>1, <1>2, <1>3, FreshType DEF RegistryOK, Init, NoReloads
<1>5. AlertsOK
  <2>1. recent \in Seq(Alert) /\ Len(recent) = 0 /\ stored \in Seq(Alert) /\ Len(stored) = 0
    BY EmptySeq DEF Init
  <2> QED
    BY <2>1, DetectorAssumption DEF AlertsOK, Init
<1>6. StreamsOK
  <2>1. <<>> \in Seq(Event) /\ Len(<<>>) = 0
    BY EmptySeq
  <2> QED
    BY <2>1, DetectorAssumption DEF StreamsOK, Init, AllClosed, Closed, Stream
<1> QED
  BY <1>4, <1>5, <1>6 DEF TypeOK

\* Every step keeps the types, one action at a time.
LEMMA StepType == TypeOK /\ [Next]_vars => TypeOK'
<1> SUFFICES ASSUME TypeOK, [Next]_vars PROVE TypeOK'
  OBVIOUS
<1>0. RegistryOK /\ AlertsOK /\ StreamsOK
  BY DEF TypeOK
<1>1. ASSUME NEW e \in Equip, Sample(e) PROVE TypeOK'
  <2>1. PICK verdict \in CircuitState : Judge(e, breaker[e], verdict, NoEvent)
    BY <1>1 DEF Sample
  <2>2. breaker[e] \in CircuitState
    BY <1>0, <1>1 DEF Sample, RegistryOK
  <2>3. /\ breaker' \in [Equip -> CircuitState \cup {"off"}]
        /\ task' \in Task \cup {Idle}
        /\ StreamsOK'
    BY <1>0, <2>1, <2>2, JudgeType
  <2> QED
    BY <1>0, <1>1, <2>3 DEF Sample, TypeOK, RegistryOK, AlertsOK, registryVars, alertVars
<1>2. ASSUME NEW e \in Equip, UnknownSample(e) PROVE TypeOK'
  <2>1. task' \in Task
    BY <1>2 DEF UnknownSample, Task
  <2> QED
    BY <1>0, <1>2, <2>1 DEF UnknownSample, TypeOK, RegistryOK, AlertsOK, StreamsOK, alertVars
<1>3. CASE RegisterInGraph
  <2>1. task \in [step : {"register"}, eq : Equip]
    BY <1>0, <1>3 DEF RegisterInGraph, RegistryOK, Task, Idle
  <2>2. task' \in Task
    BY <1>3, <2>1 DEF RegisterInGraph, Task
  <2>3. graph' \in Profiles
    BY <1>0, <1>3 DEF RegisterInGraph, RegistryOK, Profiles, Mode
  <2> QED
    BY <1>0, <1>3, <2>2, <2>3 DEF RegisterInGraph, TypeOK, RegistryOK, AlertsOK, StreamsOK, alertVars
<1>4. CASE Registered
  <2>1. task.eq \in Equip
    BY <1>0, <1>4 DEF Registered, RegistryOK, Task, Idle
  <2>2. PICK verdict \in CircuitState : Judge(task.eq, "NORMAL", verdict, Refresh)
    BY <1>4 DEF Registered
  <2>3. /\ breaker' \in [Equip -> CircuitState \cup {"off"}]
        /\ task' \in Task \cup {Idle}
        /\ StreamsOK'
    BY <1>0, <2>1, <2>2, JudgeType, EventTypes DEF CircuitState
  <2>4. profiles' \in Profiles /\ mode' \in Profiles
    BY <1>0, <1>4 DEF Registered, RegistryOK, Profiles, Mode
  <2> QED
    BY <1>0, <1>4, <2>3, <2>4 DEF Registered, TypeOK, RegistryOK, AlertsOK, alertVars
<1>5. CASE Guide
  <2>1. task.eq \in Equip /\ task.severity \in {"WARNING", "TRIP"}
    BY <1>0, <1>5, GuideTask DEF Guide
  <2>2. task' \in Task
    BY <1>5, <2>1 DEF Guide, Task
  <2>3. [eq |-> task.eq, severity |-> task.severity] \in Alert
    BY <2>1 DEF Alert
  <2>4. recent' \in Seq(Alert) /\ Len(recent') <= MaxRecent
    BY <1>0, <1>5, <2>3, PushType, DetectorAssumption DEF Guide, AlertsOK
  <2> QED
    BY <1>0, <1>5, <2>2, <2>4 DEF Guide, TypeOK, RegistryOK, AlertsOK, StreamsOK, registryVars
<1>5a. CASE GuideRaises
  <2>1. task.eq \in Equip
    BY <1>0, <1>5a, GuideTask DEF GuideRaises
  <2> QED
    BY <1>0, <1>5a, <2>1 DEF GuideRaises, TypeOK, RegistryOK, AlertsOK, StreamsOK, registryVars
<1>6. CASE Persist
  <2>1. task \in [step : {"persist"}, eq : Equip, severity : {"WARNING", "TRIP"}]
    BY <1>0, <1>6 DEF Persist, RegistryOK, Task, Idle
  <2>2. task' \in Task
    BY <1>6, <2>1 DEF Persist, Task
  <2>3. [eq |-> task.eq, severity |-> task.severity] \in Alert
    BY <2>1 DEF Alert
  <2>4. stored' \in Seq(Alert) /\ Len(stored') <= MaxRestored
    BY <1>0, <1>6, <2>3, PushType, DetectorAssumption DEF Persist, AlertsOK
  <2> QED
    BY <1>0, <1>6, <2>2, <2>4 DEF Persist, TypeOK, RegistryOK, AlertsOK, StreamsOK, registryVars
<1>7. CASE Report
  <2>1. task.eq \in Equip /\ task.severity \in {"WARNING", "TRIP"}
    BY <1>0, <1>7 DEF Report, RegistryOK, Task, Idle
  <2>2. /\ [kind |-> "alert", eq |-> task.eq, state |-> task.severity] \in Event
        /\ Telemetry(task.eq, task.severity) \in Event
    BY <2>1, EventTypes DEF CircuitState
  <2>3. StreamsOK'
    BY <1>0, <1>7, <2>2, BroadcastType DEF Report
  <2> QED
    BY <1>0, <1>7, <2>3 DEF Report, TypeOK, RegistryOK, AlertsOK, registryVars, alertVars
<1>8. ASSUME NEW r \in Reloaders, ReloadRead(r) PROVE TypeOK'
  <2>1. PICK p \in Loaded : reloads' = [reloads EXCEPT ![r] = p]
    BY <1>8 DEF ReloadRead
  <2>2. p \in Profiles
    BY <1>0, <2>1, LoadedType DEF RegistryOK
  <2> QED
    BY <1>0, <1>8, <2>1, <2>2
       DEF ReloadRead, TypeOK, RegistryOK, AlertsOK, StreamsOK, registryVars, alertVars
<1>9. ASSUME NEW r \in Reloaders, ReloadApply(r) PROVE TypeOK'
  <2>1. reloads[r] \in Profiles
    BY <1>0, <1>9 DEF ReloadApply, RegistryOK
  <2>2. breaker' \in [Equip -> CircuitState \cup {"off"}]
    BY <1>0, <1>9 DEF ReloadApply, RegistryOK, CircuitState
  <2>3. StreamsOK'
    BY <1>0, <1>9, BroadcastType, EventTypes DEF ReloadApply
  <2>4. reloads' \in [Reloaders -> Profiles \cup {Unread}]
    BY <1>0, <1>9 DEF ReloadApply, RegistryOK
  <2>5. task' \in Task \cup {Idle}
    BY <1>0, <1>9, ReloadTask
  <2> QED
    BY <1>0, <1>9, <2>1, <2>2, <2>3, <2>4, <2>5 DEF ReloadApply, TypeOK, RegistryOK, AlertsOK, alertVars
<1>10. CASE Reset
  <2>1. PICK targets : ResetBreakers(targets)
    BY <1>10 DEF Reset
  <2>2. breaker' \in [Equip -> CircuitState \cup {"off"}]
    BY <1>0, <2>1 DEF ResetBreakers, RegistryOK, CircuitState
  <2>3. StreamsOK'
    BY <1>0, <2>1, BroadcastType, EventTypes DEF ResetBreakers
  <2> QED
    BY <1>0, <2>1, <2>2, <2>3 DEF ResetBreakers, TypeOK, RegistryOK, AlertsOK, registryVars, alertVars
<1>11. ASSUME NEW e \in Equip, AddSensor(e) \/ RemoveNode(e) PROVE TypeOK'
  <2>1. graph' \in Profiles
    BY <1>0, <1>11 DEF AddSensor, RemoveNode, RegistryOK, Profiles, Mode
  <2> QED
    BY <1>0, <1>11, <2>1
       DEF AddSensor, RemoveNode, TypeOK, RegistryOK, AlertsOK, StreamsOK, alertVars
<1>12. CASE Restart
  <2>1. PICK p \in Loaded : profiles' = p /\ mode' = p /\ breaker' = Fresh(p)
    BY <1>12 DEF Restart
  <2>2. p \in Profiles
    BY <1>0, <2>1, LoadedType DEF RegistryOK
  <2>3. RegistryOK'
    BY <1>0, <1>12, <2>1, <2>2, FreshType DEF Restart, RegistryOK, NoReloads
  <2>4. recent' \in Seq(Alert) /\ Len(recent') <= MaxRecent
    <3>1. recent' = stored \/ recent' = <<>>
      BY <1>12 DEF Restart, Restored
    <3>2. stored \in Seq(Alert) /\ Len(stored) <= MaxRestored /\ Len(stored) \in Nat
      BY <1>0, LenProperties DEF AlertsOK
    <3>3. CASE recent' = stored
      BY <3>2, <3>3, DetectorAssumption
    <3>4. CASE recent' = <<>>
      <4>1. recent' \in Seq(Alert) /\ Len(recent') = 0
        BY <3>4, EmptySeq
      <4> QED
        BY <4>1, DetectorAssumption
    <3> QED
      BY <3>1, <3>3, <3>4
  <2>5. StreamsOK'
    <3>1. <<>> \in Seq(Event) /\ Len(<<>>) = 0
      BY EmptySeq
    <3> QED
      BY <1>12, <3>1, DetectorAssumption DEF Restart, StreamsOK, AllClosed, Closed, Stream
  <2> QED
    BY <1>0, <1>12, <2>3, <2>4, <2>5 DEF Restart, TypeOK, AlertsOK
<1>13. ASSUME NEW c \in Streams, NEW s \in Stream, Len(s.queue) <= MaxQueue, SetStream(c, s)
       PROVE  TypeOK'
  <2>1. StreamsOK'
    BY <1>0, <1>13, SetStreamType
  <2> QED
    BY <1>0, <1>13, <2>1 DEF SetStream, TypeOK, RegistryOK, AlertsOK, registryVars, alertVars
<1>14. ASSUME NEW c \in Streams,
              Subscribe(c) \/ Open(c) \/ Deliver(c) \/ Leave(c) \/ Unsubscribe(c)
       PROVE  TypeOK'
  <2>1. streams[c] \in Stream /\ Len(streams[c].queue) <= MaxQueue
    BY <1>0 DEF StreamsOK
  <2>2. <<>> \in Seq(Event) /\ Len(<<>>) = 0 /\ 0 <= MaxQueue
    BY EmptySeq, DetectorAssumption
  <2>3. CASE Subscribe(c)
    BY <1>13, <2>2, <2>3 DEF Subscribe, Stream
  <2>4. CASE Open(c)
    <3>1. [streams[c] EXCEPT !.phase = "open"] \in Stream
      BY <2>1 DEF Stream
    <3>2. [streams[c] EXCEPT !.phase = "open"].queue = streams[c].queue
      BY <2>1 DEF Stream
    <3>3. Closed \in Stream /\ Len(Closed.queue) <= MaxQueue
      BY <2>2 DEF Closed, Stream
    <3> QED
      BY <1>13, <2>1, <2>4, <3>1, <3>2, <3>3 DEF Open
  <2>5. CASE Deliver(c)
    <3> DEFINE q == Tail(streams[c].queue)
    <3>1. streams[c].queue \in Seq(Event) /\ streams[c].queue # <<>>
      BY <2>1, <2>5 DEF Deliver, Stream
    <3>2. q \in Seq(Event) /\ Len(q) = Len(streams[c].queue) - 1
      BY <3>1, HeadTailProperties
    <3>3. Len(q) <= MaxQueue
      BY <2>1, <3>1, <3>2, LenProperties, DetectorAssumption
    <3>4. SetStream(c, [streams[c] EXCEPT !.queue = q])
      BY <2>5 DEF Deliver
    <3> HIDE DEF q
    <3>5. /\ [streams[c] EXCEPT !.queue = q] \in Stream
          /\ [streams[c] EXCEPT !.queue = q].queue = q
      BY <2>1, <3>2 DEF Stream
    <3> QED
      BY <1>13, <3>3, <3>4, <3>5
  <2>6. CASE Leave(c)
    <3>1. [streams[c] EXCEPT !.phase = "gone"] \in Stream
      BY <2>1 DEF Stream
    <3>2. [streams[c] EXCEPT !.phase = "gone"].queue = streams[c].queue
      BY <2>1 DEF Stream
    <3> QED
      BY <1>13, <2>1, <2>6, <3>1, <3>2 DEF Leave
  <2>7. CASE Unsubscribe(c)
    BY <1>13, <2>2, <2>7 DEF Unsubscribe, Closed, Stream
  <2> QED
    BY <1>14, <2>3, <2>4, <2>5, <2>6, <2>7
<1>15. CASE UNCHANGED vars
  BY <1>0, <1>15 DEF vars, TypeOK, RegistryOK, AlertsOK, StreamsOK
<1> QED
  BY <1>1, <1>2, <1>3, <1>4, <1>5, <1>5a, <1>6, <1>7, <1>8, <1>9, <1>10, <1>11, <1>12, <1>14, <1>15
     DEF Next, Server, ConsumerStep

\* Every variable keeps its shape, every buffer its bound, whatever reloads,
\* resets, restarts and the consumer's awaits do in whichever order.
THEOREM TypeCorrect == Spec => []TypeOK
  BY InitType, StepType, PTL DEF Spec

-----------------------------------------------------------------------------
(* The two dictionaries, and what the registration of equipment overwrites.   *)

Agreement == TypeOK /\ RegistryAgrees /\ RegisterIsFresh

LEMMA InitAgreement == Init => Agreement
<1> SUFFICES ASSUME Init PROVE RegistryAgrees /\ RegisterIsFresh
  BY InitType DEF Agreement
<1>1. graph \in Profiles
  BY DEF Init, Profiles, Mode
<1>2. PICK p \in Loaded : profiles = p /\ mode = p /\ breaker = Fresh(p)
  BY DEF Init
<1>3. p \in Profiles
  BY <1>1, <1>2, LoadedType
<1> QED
  BY <1>2, <1>3, FreshType DEF RegistryAgrees, RegisterIsFresh, Init, Idle

LEMMA StepAgreement == Agreement /\ [Next]_vars => Agreement'
<1> SUFFICES ASSUME Agreement, [Next]_vars PROVE RegistryAgrees' /\ RegisterIsFresh'
  BY StepType DEF Agreement
<1>0. RegistryOK /\ AlertsOK /\ StreamsOK /\ RegistryAgrees /\ RegisterIsFresh
  BY DEF Agreement, TypeOK
<1>1. ASSUME NEW e \in Equip, Sample(e) PROVE RegistryAgrees' /\ RegisterIsFresh'
  <2>1. PICK verdict \in CircuitState : Judge(e, breaker[e], verdict, NoEvent)
    BY <1>1 DEF Sample
  <2>2. breaker[e] \in CircuitState
    BY <1>0, <1>1 DEF Sample, RegistryOK
  <2>3. /\ breaker'[e] \in CircuitState
        /\ \A d \in Equip : d # e => breaker'[d] = breaker[d]
        /\ task'.step \in {"idle", "guide"}
    BY <1>0, <2>1, <2>2, JudgeType
  <2> QED
    BY <1>0, <1>1, <2>2, <2>3
       DEF Sample, RegistryAgrees, RegisterIsFresh, registryVars, CircuitState
<1>2. ASSUME NEW e \in Equip, UnknownSample(e) PROVE RegistryAgrees' /\ RegisterIsFresh'
  BY <1>0, <1>2 DEF UnknownSample, RegistryAgrees, RegisterIsFresh
<1>3. CASE RegisterInGraph
  <2>1. task'.eq = task.eq
    BY <1>0, <1>3 DEF RegisterInGraph, RegistryOK, Task, Idle
  <2> QED
    BY <1>0, <1>3, <2>1 DEF RegisterInGraph, RegistryAgrees, RegisterIsFresh
<1>4. CASE Registered
  <2>1. task.eq \in Equip
    BY <1>0, <1>4 DEF Registered, RegistryOK, Task, Idle
  <2>2. PICK verdict \in CircuitState : Judge(task.eq, "NORMAL", verdict, Refresh)
    BY <1>4 DEF Registered
  <2>3. /\ breaker'[task.eq] \in CircuitState
        /\ \A d \in Equip : d # task.eq => breaker'[d] = breaker[d]
        /\ task'.step \in {"idle", "guide"}
    BY <1>0, <2>1, <2>2, JudgeType, EventTypes DEF CircuitState
  <2>4. mode'[task.eq] = "stat" /\ profiles'[task.eq] = "stat"
    BY <1>0, <1>4, <2>1 DEF Registered, RegistryOK, Profiles
  <2>5. \A d \in Equip : d # task.eq => mode'[d] = mode[d] /\ profiles'[d] = profiles[d]
    BY <1>0, <1>4, <2>1 DEF Registered, RegistryOK, Profiles
  <2> QED
    BY <1>0, <2>1, <2>3, <2>4, <2>5 DEF RegistryAgrees, RegisterIsFresh, CircuitState
<1>5. CASE Guide \/ GuideRaises \/ Persist \/ Report
  <2>1. task'.step \in {"idle", "persist", "report"}
    BY <1>0, <1>5 DEF Guide, GuideRaises, Persist, Report, RegistryOK, Task, Idle
  <2> QED
    BY <1>0, <1>5, <2>1 DEF Guide, GuideRaises, Persist, Report, RegistryAgrees, RegisterIsFresh, registryVars
<1>6. ASSUME NEW r \in Reloaders, ReloadRead(r) PROVE RegistryAgrees' /\ RegisterIsFresh'
  BY <1>0, <1>6 DEF ReloadRead, RegistryAgrees, RegisterIsFresh, registryVars
<1>7. ASSUME NEW r \in Reloaders, ReloadApply(r) PROVE RegistryAgrees' /\ RegisterIsFresh'
  <2> DEFINE p == reloads[r]
  <2>1. profiles' = p /\ mode' = p /\ (task' = task \/ task'.step = "guide")
    BY <1>0, <1>7, ReloadTask DEF ReloadApply
  <2>2. \A e \in Equip : /\ breaker'[e] = "off" <=> p[e] = "none"
                         /\ breaker[e] \in {"off", "NORMAL"} => breaker'[e] \in {"off", "NORMAL"}
    BY <1>7 DEF ReloadApply
  <2>3. task.step \in {"register", "registered"} => task.eq \in Equip
    BY <1>0 DEF RegistryOK, Task, Idle
  <2> QED
    BY <1>0, <2>1, <2>2, <2>3 DEF RegistryAgrees, RegisterIsFresh
<1>8. CASE Reset
  <2>1. PICK targets \in SUBSET Watched : ResetBreakers(targets)
    BY <1>8 DEF Reset, Watched
  <2>2. /\ \A e \in Equip : /\ breaker'[e] = "off" <=> breaker[e] = "off"
                            /\ breaker[e] \in {"off", "NORMAL"} => breaker'[e] \in {"off", "NORMAL"}
        /\ profiles' = profiles /\ mode' = mode /\ task' = task
    BY <2>1 DEF ResetBreakers, Watched, registryVars
  <2>3. task.step \in {"register", "registered"} => task.eq \in Equip
    BY <1>0 DEF RegistryOK, Task, Idle
  <2> QED
    BY <1>0, <2>2, <2>3 DEF RegistryAgrees, RegisterIsFresh
<1>9. ASSUME NEW e \in Equip, AddSensor(e) \/ RemoveNode(e)
      PROVE  RegistryAgrees' /\ RegisterIsFresh'
  BY <1>0, <1>9 DEF AddSensor, RemoveNode, RegistryAgrees, RegisterIsFresh
<1>10. CASE Restart
  <2>1. PICK p \in Loaded : profiles' = p /\ mode' = p /\ breaker' = Fresh(p)
    BY <1>10 DEF Restart
  <2>2. p \in Profiles
    BY <1>0, <2>1, LoadedType DEF RegistryOK
  <2> QED
    BY <1>10, <2>1, <2>2, FreshType DEF Restart, RegistryAgrees, RegisterIsFresh, Idle
<1>11. ASSUME NEW c \in Streams,
              Subscribe(c) \/ Open(c) \/ Deliver(c) \/ Leave(c) \/ Unsubscribe(c)
       PROVE  RegistryAgrees' /\ RegisterIsFresh'
  BY <1>0, <1>11 DEF Subscribe, Open, Deliver, Leave, Unsubscribe, SetStream, registryVars,
                     RegistryAgrees, RegisterIsFresh
<1>12. CASE UNCHANGED vars
  BY <1>0, <1>12 DEF vars, RegistryAgrees, RegisterIsFresh
<1> QED
  BY <1>1, <1>2, <1>3, <1>4, <1>5, <1>6, <1>7, <1>8, <1>9, <1>10, <1>11, <1>12
     DEF Next, Server, ConsumerStep

LEMMA AgreementAlways == Spec => []Agreement
  BY InitAgreement, StepAgreement, PTL DEF Spec

\* Registry and breakers list the same equipment in every reachable state: no
\* breaker is left behind by a reload, none is missing after a registration.
THEOREM RegistryAgreesAlways == Spec => []RegistryAgrees
  BY AgreementAlways, PTL DEF Agreement

\* The breaker that a registration overwrites never holds a WARNING or TRIP.
THEOREM RegisterIsFreshAlways == Spec => []RegisterIsFresh
  BY AgreementAlways, PTL DEF Agreement

-----------------------------------------------------------------------------
(* The refinement: every step of the detector is a step of Breaker or none.   *)

LEMMA InitBreaker == Init => B!Init
<1> SUFFICES ASSUME Init PROVE B!Init
  OBVIOUS
<1>1. graph \in Profiles
  BY DEF Init, Profiles, Mode
<1>2. PICK p \in Loaded : breaker = Fresh(p)
  BY DEF Init
<1>3. breaker \in [Equip -> {"off", "NORMAL"}]
  BY <1>1, <1>2, LoadedType, FreshType
<1>4. Due = [severity |-> "none"]
  BY DEF Init, Due, Idle
<1> QED
  BY <1>3, <1>4 DEF B!Init, B!NoAlert, Init

\* What Judge does to the breaker and to the pending alert is what Breaker's
\* Judge does, when the breaker it replaces shows old, or is a fresh one.
LEMMA JudgeRefines ==
    ASSUME RegistryOK, NEW e \in Equip, NEW old \in CircuitState, NEW verdict \in CircuitState,
           NEW registered, Judge(e, old, verdict, registered),
           task.step # "guide", UNCHANGED missed,
           breaker[e] = old \/ (breaker[e] \in {"off", "NORMAL"} /\ old = "NORMAL")
    PROVE  B!Next
<1> DEFINE new == Latched(old, verdict)
<1>1. new \in CircuitState /\ (old = "TRIP" => new = "TRIP")
  BY DEF Latched, CircuitState
<1>2. Due = [severity |-> "none"]
  BY DEF Due
<1>3. breaker[e] = "TRIP" => new = "TRIP"
  BY <1>1
<1>4. breaker' = [breaker EXCEPT ![e] = new]
  BY DEF Judge
<1>5. Rises(old, new) <=> new # "NORMAL" /\ new # breaker[e]
  BY <1>1 DEF Rises, CircuitState
<1>6. IF new # "NORMAL" /\ new # breaker[e]
      THEN \E b \in BOOLEAN : Due' = [eq |-> e, severity |-> new, named |-> b]
      ELSE Due' = [severity |-> "none"]
  <2>1. CASE Rises(old, new)
    <3>1. task' = Preparing(e, new)
      BY <2>1 DEF Judge
    <3>2. Due' = [eq |-> e, severity |-> new, named |-> Held' # "bare"]
      BY <3>1 DEF Due, Preparing
    <3> QED
      BY <1>5, <2>1, <3>2
  <2>2. CASE ~Rises(old, new)
    BY <1>5, <2>2 DEF Judge, Due, Idle
  <2> QED
    BY <2>1, <2>2
<1>7. B!Judge(e, new)
  BY <1>2, <1>3, <1>4, <1>6 DEF B!Judge, B!NoAlert
<1> QED
  BY <1>1, <1>7 DEF B!Next, B!CircuitState, CircuitState

LEMMA StepBreaker == Agreement /\ [Next]_vars => [B!Next]_(B!breakerVars)
<1> SUFFICES ASSUME Agreement, [Next]_vars PROVE B!Next \/ UNCHANGED <<breaker, Due, missed>>
  BY DEF B!breakerVars
<1>0. RegistryOK /\ RegisterIsFresh
  BY DEF Agreement, TypeOK
<1>1. ASSUME NEW e \in Equip, Sample(e) PROVE B!Next
  <2>1. PICK verdict \in CircuitState : Judge(e, breaker[e], verdict, NoEvent)
    BY <1>1 DEF Sample
  <2>2. breaker[e] \in CircuitState /\ task.step # "guide"
    BY <1>0, <1>1 DEF Sample, RegistryOK, Idle
  <2>3. missed' = missed
    BY <1>1 DEF Sample, alertVars
  <2> QED
    BY <1>0, <2>1, <2>2, <2>3, JudgeRefines
<1>2. ASSUME NEW e \in Equip, UnknownSample(e) PROVE UNCHANGED <<breaker, Due, missed>>
  BY <1>2 DEF UnknownSample, Due, Idle, alertVars
<1>3. CASE RegisterInGraph
  <2>1. task'.step = "registered"
    BY <1>0, <1>3 DEF RegisterInGraph, RegistryOK, Task, Idle
  <2> QED
    BY <1>3, <2>1 DEF RegisterInGraph, Due, alertVars
<1>4. CASE Registered
  <2>1. task.eq \in Equip /\ task.step # "guide"
    BY <1>0, <1>4 DEF Registered, RegistryOK, Task, Idle
  <2>2. PICK verdict \in CircuitState : Judge(task.eq, "NORMAL", verdict, Refresh)
    BY <1>4 DEF Registered
  <2>3. breaker[task.eq] \in {"off", "NORMAL"}
    BY <1>0, <1>4 DEF Registered, RegisterIsFresh
  <2>4. missed' = missed
    BY <1>4 DEF Registered, alertVars
  <2> QED
    BY <1>0, <2>1, <2>2, <2>3, <2>4, JudgeRefines DEF CircuitState
<1>5. CASE Guide
  <2>1. task.severity \in {"WARNING", "TRIP"}
    BY <1>0, <1>5, GuideTask DEF Guide
  <2>2. Due = [eq |-> task.eq, severity |-> task.severity, named |-> TRUE]
    BY <1>5 DEF Guide, Due
  <2>3. Due' = [severity |-> "none"]
    BY <1>5 DEF Guide, Due
  <2>4. B!Announce
    BY <1>5, <2>1, <2>2, <2>3 DEF Guide, B!Announce, B!NoAlert
  <2> QED
    BY <2>4 DEF B!Next
<1>5a. CASE GuideRaises
  <2>1. task.severity \in {"WARNING", "TRIP"}
    BY <1>0, <1>5a, GuideTask DEF GuideRaises
  <2>2. Due = [eq |-> task.eq, severity |-> task.severity, named |-> FALSE]
    BY <1>5a DEF GuideRaises, Due
  <2>3. Due' = [severity |-> "none"]
    BY <1>5a DEF GuideRaises, Due, Idle
  <2>4. B!Miss
    BY <1>5a, <2>1, <2>2, <2>3 DEF GuideRaises, B!Miss, B!NoAlert
  <2> QED
    BY <2>4 DEF B!Next
<1>6. CASE Persist
  <2>1. task'.step = "report"
    BY <1>0, <1>6 DEF Persist, RegistryOK, Task, Idle
  <2> QED
    BY <1>6, <2>1 DEF Persist, Due
<1>7. CASE Report
  BY <1>7 DEF Report, Due, Idle, alertVars
<1>8. ASSUME NEW r \in Reloaders, ReloadRead(r) PROVE UNCHANGED <<breaker, Due, missed>>
  BY <1>8 DEF ReloadRead, Due, Held, alertVars
<1>9. ASSUME NEW r \in Reloaders, ReloadApply(r) PROVE B!Next
  <2> DEFINE watched == {e \in Equip : reloads[r][e] # "none"}
  <2>1. breaker' = [e \in Equip |-> IF e \notin watched THEN "off"
                                    ELSE IF breaker[e] = "off" THEN "NORMAL" ELSE breaker[e]]
    BY <1>9 DEF ReloadApply
  <2>2. ASSUME task.step = "guide"
        PROVE  Due # [severity |-> "none"] /\ \E b \in BOOLEAN : Due' = [Due EXCEPT !.named = b]
    <3>1. /\ Due = [eq |-> task.eq, severity |-> task.severity, named |-> Held # "bare"]
          /\ Due' = [eq |-> task.eq, severity |-> task.severity, named |-> Held' # "bare"]
      BY <1>0, <1>9, <2>2, ReloadTask DEF Due
    <3>2. Due' = [Due EXCEPT !.named = (Held' # "bare")]
      BY <3>1
    <3>3. Due # [severity |-> "none"]
      <4>1. task.severity \in {"WARNING", "TRIP"}
        BY <1>0, <2>2, GuideTask
      <4> QED
        BY <3>1, <4>1
    <3> QED
      BY <3>2, <3>3
  <2>2a. task.step # "guide" => Due' = Due
    BY <1>0, <1>9, <2>2a, ReloadTask DEF Due
  <2>2b. Due' = Due \/ (Due # B!NoAlert /\ \E b \in BOOLEAN : Due' = [Due EXCEPT !.named = b])
    BY <2>2, <2>2a DEF B!NoAlert
  <2>3. B!Rewatch(watched)
    BY <1>9, <2>1, <2>2b DEF B!Rewatch, ReloadApply, alertVars
  <2> QED
    BY <2>3 DEF B!Next
<1>10. CASE Reset
  <2>1. PICK targets \in SUBSET Watched : ResetBreakers(targets)
    BY <1>10 DEF Reset, Watched
  <2>2. targets \in SUBSET Equip /\ \A e \in targets : breaker[e] # "off"
    BY <2>1 DEF Watched
  <2>3. B!Reset(targets)
    BY <2>1, <2>2 DEF ResetBreakers, Due, Held, alertVars, B!Reset
  <2> QED
    BY <2>2, <2>3 DEF B!Next
<1>11. ASSUME NEW e \in Equip, AddSensor(e) \/ RemoveNode(e) PROVE UNCHANGED <<breaker, Due, missed>>
  BY <1>11 DEF AddSensor, RemoveNode, Due, Held, alertVars
<1>12. CASE Restart
  <2>1. PICK p \in Loaded : breaker' = Fresh(p)
    BY <1>12 DEF Restart
  <2>2. breaker' \in [Equip -> {"off", "NORMAL"}]
    BY <1>0, <2>1, LoadedType, FreshType DEF RegistryOK
  <2>3. Due' = [severity |-> "none"]
    BY <1>12 DEF Restart, Due, Idle
  <2> QED
    BY <1>12, <2>2, <2>3 DEF Restart, B!Next, B!Restart, B!NoAlert
<1>13. ASSUME NEW c \in Streams,
              Subscribe(c) \/ Open(c) \/ Deliver(c) \/ Leave(c) \/ Unsubscribe(c)
       PROVE  UNCHANGED <<breaker, Due, missed>>
  BY <1>13 DEF Subscribe, Open, Deliver, Leave, Unsubscribe, SetStream, Due, Held, alertVars
<1>14. CASE UNCHANGED vars
  BY <1>14 DEF vars, Due, Held
<1> QED
  BY <1>1, <1>2, <1>3, <1>4, <1>5, <1>5a, <1>6, <1>7, <1>8, <1>9, <1>10, <1>11, <1>12, <1>13, <1>14
     DEF Next, Server, ConsumerStep

\* The detector implements its breakers: for any number of machines, reloads,
\* streams and faults, a TRIP is only left by a reset, a reload without the
\* equipment or a restart, and each rise is announced once or, when its sensor
\* has no names just then, not at all.
THEOREM Refinement == Spec => ImplementsBreaker
  BY InitBreaker, StepBreaker, AgreementAlways, PTL DEF Spec, ImplementsBreaker, B!Spec

-----------------------------------------------------------------------------
(* Alerts: what the breakers show is in the alert history, and the history *)
(* that is stored ends like the one shown.                                 *)

IsPush(t, s, x, n) ==
    /\ Len(t) = IF Len(s) < n THEN Len(s) + 1 ELSE n
    /\ t[Len(t)] = x
    /\ Len(s) < n => \A i \in 1..Len(s) : t[i] = s[i]
    /\ Len(s) = n => \A i \in 1..n - 1 : t[i] = s[i + 1]

\* What a bounded deque holds after an append.
LEMMA PushElements ==
    ASSUME NEW S, NEW s \in Seq(S), NEW x \in S, NEW n \in Nat \ {0}, Len(s) <= n
    PROVE  Push(s, x, n) \in Seq(S) /\ IsPush(Push(s, x, n), s, x, n)
<1> USE DEF IsPush
<1> DEFINE t == Push(s, x, n)
<1>0. Len(s) \in Nat
  BY LenProperties
<1>1. CASE Len(s) < n
  <2>1. t = Append(s, x)
    BY <1>1 DEF Push
  <2> QED
    BY <1>0, <1>1, <2>1, AppendProperties
<1>2. CASE ~(Len(s) < n)
  <2>1. t = Append(Tail(s), x) /\ Len(s) = n
    BY <1>0, <1>2 DEF Push
  <2>2. s # <<>>
    BY <2>1, EmptySeq
  <2>3. Tail(s) \in Seq(S) /\ Len(Tail(s)) = n - 1 /\ \A i \in 1..n - 1 : Tail(s)[i] = s[i + 1]
    BY <2>1, <2>2, HeadTailProperties
  <2>4. t \in Seq(S) /\ Len(t) = n /\ t[n] = x /\ \A i \in 1..n - 1 : t[i] = Tail(s)[i]
    BY <2>1, <2>3, AppendProperties
  <2> QED
    BY <1>0, <1>2, <2>1, <2>3, <2>4
<1> QED
  BY <1>1, <1>2

\* The same of the history of alerts, as the step that appends needs it.
LEMMA AlertsPushed ==
    ASSUME NEW s \in Seq(Alert), NEW x \in Alert, NEW n \in Nat \ {0}, Len(s) <= n
    PROVE  /\ Len(Push(s, x, n)) = IF Len(s) < n THEN Len(s) + 1 ELSE n
           /\ Push(s, x, n)[Len(Push(s, x, n))] = x
           /\ Len(s) < n => \A i \in 1..Len(s) : Push(s, x, n)[i] = s[i]
           /\ Len(s) = n => \A i \in 1..n - 1 : Push(s, x, n)[i] = s[i + 1]
<1> DEFINE A == Alert
<1>0. s \in Seq(A) /\ x \in A
  OBVIOUS
<1> HIDE DEF A
<1>1. IsPush(Push(s, x, n), s, x, n)
  BY <1>0, PushElements
<1> QED
  BY <1>1 DEF IsPush

-----------------------------------------------------------------------------
(* The inductive invariant behind AlertsTellTheState.                         *)

Pending(e) == task.step = "guide" /\ task.eq = e /\ task.severity = breaker[e]

Told(e) == \E i \in 1..Len(recent) :
    /\ recent[i].eq = e /\ recent[i].severity = breaker[e]
    /\ \A j \in 1..Len(recent) : j > i => recent[j].eq # e

Forgotten(e) == Len(recent) = MaxRecent /\ \A j \in 1..Len(recent) : recent[j].eq # e

\* While an alert is prepared nobody raises its breaker further.
GuideIsCurrent ==
    task.step = "guide" => breaker[task.eq] \in {task.severity, "NORMAL", "off"}

AlertInv ==
    /\ GuideIsCurrent
    /\ \A e \in Equip \ missed :
          breaker[e] \in {"WARNING", "TRIP"} => Pending(e) \/ Told(e) \/ Forgotten(e)

LEMMA AlertInvSuffices == AlertsOK /\ AlertInv => AlertsTellTheState
<1> SUFFICES ASSUME AlertsOK, AlertInv, NEW e \in Equip \ missed, breaker[e] \in {"WARNING", "TRIP"}, ~Pending(e)
             PROVE  \/ OfEquip(e) # {} /\ LastOf(e) = breaker[e]
                    \/ OfEquip(e) = {} /\ Len(recent) = MaxRecent
  BY DEF AlertsTellTheState, Pending
<1>0. Len(recent) \in Nat
  BY LenProperties DEF AlertsOK
<1>1. CASE Told(e)
  <2>1. PICK i \in 1..Len(recent) :
            /\ recent[i].eq = e /\ recent[i].severity = breaker[e]
            /\ \A j \in 1..Len(recent) : j > i => recent[j].eq # e
    BY <1>1 DEF Told
  <2>2. i \in OfEquip(e) /\ \A j \in OfEquip(e) : j <= i
    BY <1>0, <2>1 DEF OfEquip
  <2>3. \A k \in OfEquip(e) : (\A j \in OfEquip(e) : j <= k) => k = i
    BY <1>0, <2>2 DEF OfEquip
  <2>4. (CHOOSE k \in OfEquip(e) : \A j \in OfEquip(e) : j <= k) = i
    BY <2>2, <2>3
  <2> QED
    BY <2>1, <2>2, <2>4 DEF LastOf
<1>2. CASE Forgotten(e)
  BY <1>2 DEF Forgotten, OfEquip
<1> QED
  BY <1>1, <1>2 DEF AlertInv

\* A step that leaves alerts and task alone and raises no breaker.
LEMMA NothingRises ==
    ASSUME AlertInv, RegistryOK, UNCHANGED alertVars, task'.step = task.step,
           task.step = "guide" => task'.eq = task.eq /\ task'.severity = task.severity,
           \A e \in Equip : breaker'[e] = breaker[e] \/ breaker'[e] \in {"off", "NORMAL"}
    PROVE  AlertInv'
<1>1. GuideIsCurrent'
  <2>1. task.step = "guide" => task.eq \in Equip
    BY DEF RegistryOK, Task, Idle
  <2> QED
    BY <2>1 DEF AlertInv, GuideIsCurrent
<1>2. ASSUME NEW e \in Equip \ missed, breaker'[e] \in {"WARNING", "TRIP"}
      PROVE  (Pending(e) \/ Told(e) \/ Forgotten(e))'
  <2>1. breaker'[e] = breaker[e]
    BY <1>2
  <2>2. Pending(e) \/ Told(e) \/ Forgotten(e)
    BY <1>2, <2>1 DEF AlertInv
  <2> QED
    BY <2>1, <2>2 DEF Pending, Told, Forgotten, alertVars
<1> QED
  BY <1>1, <1>2 DEF AlertInv, alertVars

\* A step of the consumer that prepares no alert, or gives one up, and leaves
\* breakers and alerts alone.
LEMMA NothingIsPrepared ==
    ASSUME AlertInv, UNCHANGED <<breaker, recent>>, task'.step # "guide",
           IF task.step = "guide" THEN missed' = missed \cup {task.eq} ELSE missed' = missed
    PROVE  AlertInv'
<1>1. GuideIsCurrent'
  BY DEF GuideIsCurrent
<1>2. ASSUME NEW e \in Equip \ missed', breaker'[e] \in {"WARNING", "TRIP"}
      PROVE  (Pending(e) \/ Told(e) \/ Forgotten(e))'
  <2>1. e \notin missed /\ ~Pending(e)
    BY <1>2 DEF Pending
  <2>2. Told(e) \/ Forgotten(e)
    BY <1>2, <2>1 DEF AlertInv
  <2> QED
    BY <2>2 DEF Told, Forgotten
<1> QED
  BY <1>1, <1>2 DEF AlertInv

\* A breaker that is judged upwards starts an alert; any other keeps its own.
LEMMA JudgeTells ==
    ASSUME AlertInv, RegistryOK, NEW e \in Equip, NEW old \in CircuitState,
           NEW verdict \in CircuitState, NEW registered, Judge(e, old, verdict, registered),
           breaker[e] = old \/ old = "NORMAL",
           task.step # "guide", UNCHANGED alertVars
    PROVE  AlertInv'
<1> DEFINE new == Latched(old, verdict)
<1>1. breaker' = [breaker EXCEPT ![e] = new] /\ new \in CircuitState
  BY DEF Judge, Latched
<1>2. breaker'[e] = new /\ \A d \in Equip : d # e => breaker'[d] = breaker[d]
  BY <1>1 DEF RegistryOK
<1>3. Rises(old, new) => task'.step = "guide" /\ task'.eq = e /\ task'.severity = new
  BY DEF Judge, Preparing
<1>4. ~Rises(old, new) => task'.step # "guide"
  BY DEF Judge, Idle
<1>5. GuideIsCurrent'
  BY <1>2, <1>3, <1>4 DEF GuideIsCurrent
<1>6. ASSUME NEW d \in Equip \ missed, breaker'[d] \in {"WARNING", "TRIP"}
      PROVE  (Pending(d) \/ Told(d) \/ Forgotten(d))'
  <2>1. CASE breaker'[d] = breaker[d]
    <3>1. Told(d) \/ Forgotten(d)
      BY <1>6, <2>1 DEF AlertInv, Pending
    <3> QED
      BY <2>1, <3>1 DEF Told, Forgotten, alertVars
  <2>2. CASE breaker'[d] # breaker[d]
    <3>1. d = e /\ new # "NORMAL"
      BY <1>2, <1>6, <2>2
    <3>2. new # old
      BY <1>2, <2>2, <3>1
    <3>3. Rises(old, new)
      BY <3>1, <3>2 DEF Rises
    <3> QED
      BY <1>2, <1>3, <3>1, <3>3 DEF Pending
  <2> QED
    BY <2>1, <2>2
<1> QED
  BY <1>5, <1>6 DEF AlertInv, alertVars

\* The alert enters the history: its breaker is told, the others stay told or
\* are forgotten with the alert that is pushed out.
LEMMA GuideTells == ASSUME AlertInv, TypeOK, Guide PROVE AlertInv'
<1> DEFINE x == [eq |-> task.eq, severity |-> task.severity]
           n == Len(recent)
<1>1. task.step = "guide" /\ task.eq \in Equip /\ task.severity \in {"WARNING", "TRIP"}
  BY GuideTask DEF Guide, TypeOK
<1>2. x \in Alert /\ recent \in Seq(Alert) /\ n \in Nat /\ n <= MaxRecent /\ MaxRecent \in Nat \ {0}
  <2>1. x \in Alert
    BY <1>1 DEF Alert
  <2>2. recent \in Seq(Alert) /\ n \in Nat /\ n <= MaxRecent
    BY LenProperties DEF TypeOK, AlertsOK
  <2>3. MaxRecent \in Nat \ {0}
    BY DetectorAssumption
  <2> QED
    BY <2>1, <2>2, <2>3
<1>3. recent' = Push(recent, x, MaxRecent) /\ breaker' = breaker /\ task'.step = "persist"
  BY <1>1 DEF Guide
<1>4. /\ Len(recent') = IF n < MaxRecent THEN n + 1 ELSE MaxRecent
      /\ recent'[Len(recent')] = x
      /\ n < MaxRecent => \A i \in 1..n : recent'[i] = recent[i]
      /\ n = MaxRecent => \A i \in 1..MaxRecent - 1 : recent'[i] = recent[i + 1]
  <2> HIDE DEF x, n
  <2>1. recent \in Seq(Alert) /\ x \in Alert /\ Len(recent) <= MaxRecent /\ MaxRecent \in Nat \ {0}
    BY <1>2 DEF n
  <2>2. /\ Len(Push(recent, x, MaxRecent)) = IF Len(recent) < MaxRecent THEN Len(recent) + 1 ELSE MaxRecent
        /\ Push(recent, x, MaxRecent)[Len(Push(recent, x, MaxRecent))] = x
        /\ Len(recent) < MaxRecent => \A i \in 1..Len(recent) : Push(recent, x, MaxRecent)[i] = recent[i]
        /\ Len(recent) = MaxRecent => \A i \in 1..MaxRecent - 1 : Push(recent, x, MaxRecent)[i] = recent[i + 1]
    BY <2>1, AlertsPushed
  <2>3. recent' = Push(recent, x, MaxRecent)
    BY <1>3
  <2> QED
    BY <2>2, <2>3 DEF n
<1>5. Len(recent') \in Nat \ {0} /\ x.eq = task.eq /\ x.severity = task.severity
  BY <1>2, <1>4
<1>6. ASSUME NEW e \in Equip \ missed', breaker'[e] \in {"WARNING", "TRIP"}
      PROVE  (Told(e) \/ Forgotten(e))'
  <2>0. e # task.eq => e \notin missed
    BY <1>6 DEF Guide
  <2>1. CASE e = task.eq
    <3>1. task.severity = breaker'[e]
      BY <1>3, <1>6, <2>1 DEF AlertInv, GuideIsCurrent, Guide
    <3>2. recent'[Len(recent')].eq = e /\ recent'[Len(recent')].severity = breaker'[e]
      BY <1>4, <1>5, <2>1, <3>1
    <3>3. \A j \in 1..Len(recent') : ~(j > Len(recent'))
      BY <1>5
    <3> QED
      BY <1>5, <3>2, <3>3 DEF Told
  <2>2. CASE e # task.eq /\ Told(e)
    <3>1. PICK i \in 1..n : /\ recent[i].eq = e /\ recent[i].severity = breaker[e]
                            /\ \A j \in 1..n : j > i => recent[j].eq # e
      BY <2>2 DEF Told
    <3>2. CASE n < MaxRecent
      <4>1. Len(recent') = n + 1 /\ recent'[n + 1].eq # e
        BY <1>4, <1>5, <2>2, <3>2
      <4>2. i \in 1..Len(recent') /\ recent'[i].eq = e /\ recent'[i].severity = breaker'[e]
        BY <1>2, <1>3, <1>4, <3>1, <3>2, <4>1
      <4>3. \A j \in 1..Len(recent') : j > i => recent'[j].eq # e
        BY <1>2, <1>4, <3>1, <3>2, <4>1
      <4> QED
        BY <4>2, <4>3 DEF Told
    <3>3. CASE n = MaxRecent
      <4>1. Len(recent') = n /\ recent'[n].eq # e
        BY <1>4, <1>5, <2>2, <3>3
      <4>2. \A j \in 1..Len(recent') : j > i - 1 => recent'[j].eq # e
        <5> SUFFICES ASSUME NEW j \in 1..n, j > i - 1 PROVE recent'[j].eq # e
          BY <4>1
        <5>1. CASE j = n
          BY <4>1, <5>1
        <5>2. CASE j \in 1..n - 1
          <6>1. recent'[j] = recent[j + 1] /\ j + 1 \in 1..n /\ j + 1 > i
            BY <1>2, <1>4, <3>3, <5>2
          <6> QED
            BY <3>1, <6>1
        <5> QED
          BY <1>2, <5>1, <5>2
      <4>3. CASE i = 1
        BY <1>4, <3>3, <4>1, <4>2, <4>3 DEF Forgotten
      <4>4. CASE i # 1
        <5>1. i - 1 \in 1..n - 1 /\ recent'[i - 1] = recent[i]
          BY <1>2, <1>4, <3>1, <3>3, <4>4
        <5>2. i - 1 \in 1..Len(recent') /\ recent'[i - 1].eq = e /\ recent'[i - 1].severity = breaker'[e]
          BY <1>2, <1>3, <3>1, <4>1, <5>1
        <5> QED
          BY <4>2, <5>2 DEF Told
      <4> QED
        BY <4>3, <4>4
    <3> QED
      BY <1>2, <3>2, <3>3
  <2>3. CASE e # task.eq /\ Forgotten(e)
    <3>1. n = MaxRecent /\ \A j \in 1..n : recent[j].eq # e
      BY <2>3 DEF Forgotten
    <3>2. Len(recent') = n /\ recent'[n].eq # e
      BY <1>4, <1>5, <2>3, <3>1
    <3>3. \A j \in 1..n - 1 : recent'[j].eq # e
      BY <1>2, <1>4, <3>1
    <3> QED
      BY <1>2, <3>1, <3>2, <3>3 DEF Forgotten
  <2> QED
    BY <1>3, <1>6, <2>0, <2>1, <2>2, <2>3 DEF AlertInv, Pending
<1> QED
  BY <1>3, <1>6 DEF AlertInv, GuideIsCurrent

LEMMA StepAlertInv == TypeOK /\ AlertInv /\ [Next]_vars => AlertInv'
<1> SUFFICES ASSUME TypeOK, AlertInv, [Next]_vars PROVE AlertInv'
  OBVIOUS
<1>0. RegistryOK
  BY DEF TypeOK
<1>1. ASSUME NEW e \in Equip, Sample(e) PROVE AlertInv'
  <2>1. PICK verdict \in CircuitState : Judge(e, breaker[e], verdict, NoEvent)
    BY <1>1 DEF Sample
  <2>2. breaker[e] \in CircuitState /\ task.step # "guide"
    BY <1>0, <1>1 DEF Sample, RegistryOK, Idle
  <2> QED
    BY <1>0, <1>1, <2>1, <2>2, JudgeTells DEF Sample
<1>2. ASSUME NEW e \in Equip, UnknownSample(e) PROVE AlertInv'
  BY <1>2, NothingIsPrepared DEF UnknownSample, Idle, alertVars
<1>3. CASE RegisterInGraph
  <2>1. task.step = "register" /\ task'.step = "registered"
    BY <1>0, <1>3 DEF RegisterInGraph, RegistryOK, Task, Idle
  <2> QED
    BY <1>3, <2>1, NothingIsPrepared DEF RegisterInGraph, alertVars
<1>4. CASE Registered
  <2>1. task.eq \in Equip /\ task.step # "guide" /\ UNCHANGED alertVars
    BY <1>0, <1>4 DEF Registered, RegistryOK, Task, Idle
  <2>2. PICK verdict \in CircuitState : Judge(task.eq, "NORMAL", verdict, Refresh)
    BY <1>4 DEF Registered
  <2> QED
    BY <1>0, <2>1, <2>2, JudgeTells DEF CircuitState
<1>5. CASE Guide
  BY <1>5, GuideTells
<1>5a. CASE GuideRaises
  <2>1. task.step = "guide" /\ task'.step = "idle"
    BY <1>5a DEF GuideRaises, Idle
  <2> QED
    BY <1>5a, <2>1, NothingIsPrepared DEF GuideRaises
<1>6. CASE Persist
  <2>1. task.step = "persist" /\ task'.step = "report"
    BY <1>0, <1>6 DEF Persist, RegistryOK, Task, Idle
  <2> QED
    BY <1>6, <2>1, NothingIsPrepared DEF Persist
<1>7. CASE Report
  BY <1>7, NothingIsPrepared DEF Report, Idle, alertVars
<1>8. ASSUME NEW r \in Reloaders, ReloadRead(r) PROVE AlertInv'
  BY <1>0, <1>8, NothingRises DEF ReloadRead
<1>9. ASSUME NEW r \in Reloaders, ReloadApply(r) PROVE AlertInv'
  <2>1. \A e \in Equip : breaker'[e] = breaker[e] \/ breaker'[e] \in {"off", "NORMAL"}
    BY <1>9 DEF ReloadApply
  <2>2. /\ task'.step = task.step
        /\ task.step = "guide" => task'.eq = task.eq /\ task'.severity = task.severity
    BY <1>0, <1>9, ReloadTask
  <2> QED
    BY <1>0, <1>9, <2>1, <2>2, NothingRises DEF ReloadApply
<1>10. CASE Reset
  <2>1. PICK targets : ResetBreakers(targets)
    BY <1>10 DEF Reset
  <2>2. \A e \in Equip : breaker'[e] = breaker[e] \/ breaker'[e] \in {"off", "NORMAL"}
    BY <2>1 DEF ResetBreakers
  <2> QED
    BY <1>0, <2>1, <2>2, NothingRises DEF ResetBreakers
<1>11. ASSUME NEW e \in Equip, AddSensor(e) \/ RemoveNode(e) PROVE AlertInv'
  BY <1>0, <1>11, NothingRises DEF AddSensor, RemoveNode
<1>12. CASE Restart
  <2>1. PICK p \in Loaded : breaker' = Fresh(p)
    BY <1>12 DEF Restart
  <2>2. breaker' \in [Equip -> {"off", "NORMAL"}]
    BY <1>0, <2>1, LoadedType, FreshType DEF RegistryOK
  <2>3. \A e \in Equip : ~(breaker'[e] \in {"WARNING", "TRIP"})
    BY <2>2
  <2> QED
    BY <1>12, <2>3 DEF Restart, Idle, AlertInv, GuideIsCurrent
<1>13. ASSUME NEW c \in Streams,
              Subscribe(c) \/ Open(c) \/ Deliver(c) \/ Leave(c) \/ Unsubscribe(c)
       PROVE  AlertInv'
  <2>1. UNCHANGED <<breaker, task, alertVars>>
    BY <1>13 DEF Subscribe, Open, Deliver, Leave, Unsubscribe, SetStream
  <2> QED
    BY <1>0, <2>1, NothingRises
<1>14. CASE UNCHANGED vars
  BY <1>0, <1>14, NothingRises DEF vars, alertVars
<1> QED
  BY <1>1, <1>2, <1>3, <1>4, <1>5, <1>5a, <1>6, <1>7, <1>8, <1>9, <1>10, <1>11, <1>12, <1>13, <1>14
     DEF Next, Server, ConsumerStep

LEMMA InitAlertInv == Init => AlertInv
<1> SUFFICES ASSUME Init PROVE AlertInv
  OBVIOUS
<1>1. B!Init
  BY InitBreaker
<1>2. \A e \in Equip : ~(breaker[e] \in {"WARNING", "TRIP"})
  BY <1>1 DEF B!Init
<1> QED
  BY <1>2 DEF AlertInv, GuideIsCurrent, Init, Idle

\* Whatever awaits, reloads, resets and restarts come between judging a sample
\* and recording its alert: a breaker that shows WARNING or TRIP has its alert
\* in the history, or on its way there, unless its last rise had no names.
THEOREM AlertsTellTheStateAlways == Spec => []AlertsTellTheState
<1>1. TypeOK /\ AlertInv /\ [Next]_vars => (TypeOK /\ AlertInv)'
  BY StepType, StepAlertInv
<1>2. Init => TypeOK /\ AlertInv
  BY InitType, InitAlertInv
<1>3. TypeOK /\ AlertInv => AlertsTellTheState
  BY AlertInvSuffices DEF TypeOK
<1> QED
  BY <1>1, <1>2, <1>3, PTL DEF Spec

-----------------------------------------------------------------------------
(* The stored history.                                                        *)

Shown == IF task.step = "persist" THEN Len(recent) - 1 ELSE Len(recent)

SameTail == \A i \in 0..MaxRestored - 1 :
    i < Shown /\ i < Len(stored) => recent[Shown - i] = stored[Len(stored) - i]

\* The alert being stored is the last one shown.
HistoryInv ==
    /\ SameTail
    /\ task.step = "persist" =>
           /\ recent # <<>>
           /\ recent[Len(recent)] = [eq |-> task.eq, severity |-> task.severity]

LEMMA HistoryInvSuffices == HistoryInv => HistorySurvives
  BY DEF HistoryInv, SameTail, Shown, HistorySurvives

\* A step that touches neither history nor an alert being stored.
LEMMA HistoryKept ==
    ASSUME HistoryInv, UNCHANGED <<recent, stored>>,
           task' = task \/ (task.step # "persist" /\ task'.step # "persist")
    PROVE  HistoryInv'
  BY DEF HistoryInv, SameTail, Shown

LEMMA GuideKeepsHistory == ASSUME HistoryInv, TypeOK, Guide PROVE HistoryInv'
<1> DEFINE x == [eq |-> task.eq, severity |-> task.severity]
           n == Len(recent)
           R == Push(recent, x, MaxRecent)
<1>1. task.step = "guide" /\ task.eq \in Equip /\ task.severity \in {"WARNING", "TRIP"}
  BY GuideTask DEF Guide, TypeOK
<1>2. x \in Alert
  BY <1>1 DEF Alert
<1>3. recent \in Seq(Alert) /\ n \in Nat /\ n <= MaxRecent /\ MaxRecent \in Nat \ {0}
  BY LenProperties, DetectorAssumption DEF TypeOK, AlertsOK
<1>4. /\ recent' = R /\ stored' = stored
      /\ task'.step = "persist" /\ task'.eq = task.eq /\ task'.severity = task.severity
  BY <1>1 DEF Guide
<1> HIDE DEF x
<1>5. /\ R \in Seq(Alert)
      /\ Len(R) = IF n < MaxRecent THEN n + 1 ELSE MaxRecent
      /\ R[Len(R)] = x
      /\ n < MaxRecent => \A i \in 1..n : R[i] = recent[i]
      /\ n = MaxRecent => \A i \in 1..MaxRecent - 1 : R[i] = recent[i + 1]
  <2>1. Push(recent, x, MaxRecent) \in Seq(Alert) /\ IsPush(Push(recent, x, MaxRecent), recent, x, MaxRecent)
    BY <1>2, <1>3, PushElements
  <2> QED
    BY ONLY <1>3, <2>1 DEF IsPush
<1> HIDE DEF R, n
<1>6. Shown = n /\ Shown' = Len(R) - 1
  BY <1>1, <1>4 DEF Shown, n
<1>7. ASSUME NEW i \in Nat, i < Len(R) - 1 PROVE i < n /\ R[Len(R) - 1 - i] = recent[n - i]
  <2>1. CASE n < MaxRecent
    BY <1>3, <1>5, <1>7, <2>1
  <2>2. CASE n = MaxRecent
    <3>1. Len(R) - 1 - i \in 1..MaxRecent - 1 /\ Len(R) - 1 - i + 1 = n - i
      BY <1>3, <1>5, <1>7, <2>2
    <3> QED
      BY <1>3, <1>5, <1>7, <2>2, <3>1
  <2> QED
    BY <1>3, <2>1, <2>2
<1>8. SameTail'
  <2> SUFFICES ASSUME NEW i \in 0..MaxRestored - 1, i < Shown', i < Len(stored)
               PROVE  R[Shown' - i] = stored[Len(stored) - i]
    BY <1>4 DEF SameTail
  <2>1. i \in Nat /\ i < n /\ R[Shown' - i] = recent[n - i]
    BY <1>6, <1>7
  <2> QED
    BY <1>6, <2>1 DEF HistoryInv, SameTail
<1>9. recent' # <<>> /\ recent'[Len(recent')] = [eq |-> task'.eq, severity |-> task'.severity]
  <2>1. Len(R) > 0 /\ x = [eq |-> task'.eq, severity |-> task'.severity]
    BY <1>3, <1>4, <1>5 DEF x
  <2> QED
    BY <1>4, <1>5, <2>1, EmptySeq
<1> QED
  BY <1>8, <1>9 DEF HistoryInv

LEMMA PersistKeepsHistory ==
    ASSUME HistoryInv, TypeOK, Persist, "mongo" \notin Faults
    PROVE  HistoryInv'
<1> DEFINE x == [eq |-> task.eq, severity |-> task.severity]
           m == Len(stored)
           S == Push(stored, x, MaxRestored)
           n == Len(recent)
<1>1. task \in [step : {"persist"}, eq : Equip, severity : {"WARNING", "TRIP"}]
  BY DEF Persist, TypeOK, RegistryOK, Task, Idle
<1>2. x \in Alert
  BY <1>1 DEF Alert
<1>3. /\ stored \in Seq(Alert) /\ m \in Nat /\ m <= MaxRestored /\ MaxRestored \in Nat \ {0}
      /\ n \in Nat
  BY LenProperties, DetectorAssumption DEF TypeOK, AlertsOK
<1>4. stored' = S /\ recent' = recent /\ task'.step = "report"
  BY <1>1 DEF Persist
<1>5. recent[n] = x
  BY <1>1 DEF HistoryInv
<1> HIDE DEF x
<1>6. /\ Len(S) = IF m < MaxRestored THEN m + 1 ELSE MaxRestored
      /\ S[Len(S)] = x
      /\ m < MaxRestored => \A i \in 1..m : S[i] = stored[i]
      /\ m = MaxRestored => \A i \in 1..MaxRestored - 1 : S[i] = stored[i + 1]
  <2>1. IsPush(Push(stored, x, MaxRestored), stored, x, MaxRestored)
    BY <1>2, <1>3, PushElements
  <2> QED
    BY ONLY <1>3, <2>1 DEF IsPush
<1>7. Shown = n - 1 /\ Shown' = n
  BY <1>1, <1>4 DEF Shown
<1> HIDE DEF S, m, n
<1>8. SameTail'
  <2> SUFFICES ASSUME NEW i \in 0..MaxRestored - 1, i < n, i < Len(S)
               PROVE  recent[n - i] = S[Len(S) - i]
    BY <1>4, <1>7 DEF SameTail
  <2>1. CASE i = 0
    BY <1>3, <1>5, <1>6, <2>1
  <2>2. CASE i # 0
    <3> DEFINE k == i - 1
    <3>1. k \in 0..MaxRestored - 1 /\ k < n - 1 /\ k < m
      BY <1>3, <1>6, <2>2
    <3>2. recent[n - 1 - k] = stored[m - k]
      BY <1>7, <3>1 DEF HistoryInv, SameTail, m
    <3>3. n - 1 - k = n - i
      BY <1>3
    <3>4. S[Len(S) - i] = stored[m - k]
      <4>1. CASE m < MaxRestored
        BY <1>3, <1>6, <2>2, <4>1
      <4>2. CASE m = MaxRestored
        <5>1. Len(S) - i \in 1..MaxRestored - 1 /\ Len(S) - i + 1 = m - k
          BY <1>3, <1>6, <2>2, <4>2
        <5> QED
          BY <1>6, <4>2, <5>1
      <4> QED
        BY <1>3, <4>1, <4>2
    <3> QED
      BY <3>2, <3>3, <3>4
  <2> QED
    BY <2>1, <2>2
<1> QED
  BY <1>4, <1>8 DEF HistoryInv

LEMMA StepHistoryInv ==
    ASSUME "mongo" \notin Faults
    PROVE  TypeOK /\ HistoryInv /\ [Next]_vars => HistoryInv'
<1> SUFFICES ASSUME TypeOK, HistoryInv, [Next]_vars PROVE HistoryInv'
  OBVIOUS
<1>0. RegistryOK
  BY DEF TypeOK
<1>1. ASSUME NEW e \in Equip, Sample(e) PROVE HistoryInv'
  <2>1. PICK verdict \in CircuitState : Judge(e, breaker[e], verdict, NoEvent)
    BY <1>1 DEF Sample
  <2>2. breaker[e] \in CircuitState /\ StreamsOK
    BY <1>0, <1>1 DEF Sample, RegistryOK, TypeOK
  <2>3. task'.step \in {"idle", "guide"}
    BY <1>0, <2>1, <2>2, JudgeType
  <2> QED
    BY <1>1, <2>3, HistoryKept DEF Sample, Idle, alertVars
<1>2. ASSUME NEW e \in Equip, UnknownSample(e) PROVE HistoryInv'
  BY <1>2, HistoryKept DEF UnknownSample, Idle, alertVars
<1>3. CASE RegisterInGraph
  <2>1. task.step = "register" /\ task'.step = "registered"
    BY <1>0, <1>3 DEF RegisterInGraph, RegistryOK, Task, Idle
  <2> QED
    BY <1>3, <2>1, HistoryKept DEF RegisterInGraph, alertVars
<1>4. CASE Registered
  <2>1. task.eq \in Equip /\ task.step # "persist" /\ StreamsOK
    BY <1>0, <1>4 DEF Registered, RegistryOK, Task, Idle, TypeOK
  <2>2. PICK verdict \in CircuitState : Judge(task.eq, "NORMAL", verdict, Refresh)
    BY <1>4 DEF Registered
  <2>3. task'.step \in {"idle", "guide"}
    BY <1>0, <2>1, <2>2, JudgeType, EventTypes DEF CircuitState
  <2> QED
    BY <1>4, <2>1, <2>3, HistoryKept DEF Registered, alertVars
<1>5. CASE Guide
  BY <1>5, GuideKeepsHistory
<1>5a. CASE GuideRaises
  BY <1>5a, HistoryKept DEF GuideRaises, Idle
<1>6. CASE Persist
  BY <1>6, PersistKeepsHistory
<1>7. CASE Report
  BY <1>7, HistoryKept DEF Report, Idle, alertVars
<1>8. ASSUME NEW r \in Reloaders, ReloadRead(r) \/ ReloadApply(r) PROVE HistoryInv'
  <2>1. CASE ReloadRead(r)
    BY <2>1, HistoryKept DEF ReloadRead, alertVars
  <2>2. CASE ReloadApply(r)
    <3>1. task' = task \/ (task.step # "persist" /\ task'.step # "persist")
      BY <1>0, <2>2, ReloadTask
    <3> QED
      BY <2>2, <3>1, HistoryKept DEF ReloadApply, alertVars
  <2> QED
    BY <1>8, <2>1, <2>2
<1>9. CASE Reset
  BY <1>9, HistoryKept DEF Reset, ResetBreakers, alertVars
<1>10. ASSUME NEW e \in Equip, AddSensor(e) \/ RemoveNode(e) PROVE HistoryInv'
  BY <1>10, HistoryKept DEF AddSensor, RemoveNode, alertVars
<1>11. CASE Restart
  <2>1. recent' = stored /\ stored' = stored /\ task'.step = "idle"
    BY <1>11 DEF Restart, Restored, Idle
  <2>2. Shown' = Len(stored)
    BY <2>1 DEF Shown
  <2> QED
    BY <2>1, <2>2 DEF HistoryInv, SameTail
<1>12. ASSUME NEW c \in Streams,
              Subscribe(c) \/ Open(c) \/ Deliver(c) \/ Leave(c) \/ Unsubscribe(c)
       PROVE  HistoryInv'
  <2>1. UNCHANGED <<task, alertVars>>
    BY <1>12 DEF Subscribe, Open, Deliver, Leave, Unsubscribe, SetStream
  <2> QED
    BY <2>1, HistoryKept DEF alertVars
<1>13. CASE UNCHANGED vars
  BY <1>13, HistoryKept DEF vars, alertVars
<1> QED
  BY <1>1, <1>2, <1>3, <1>4, <1>5, <1>5a, <1>6, <1>7, <1>8, <1>9, <1>10, <1>11, <1>12, <1>13
     DEF Next, Server, ConsumerStep

LEMMA InitHistoryInv == Init => HistoryInv
<1> SUFFICES ASSUME Init PROVE HistoryInv
  OBVIOUS
<1>1. Len(recent) = 0 /\ Len(stored) = 0 /\ task.step = "idle"
  BY EmptySeq DEF Init, Idle
<1> QED
  BY <1>1, DetectorAssumption DEF HistoryInv, SameTail, Shown

\* While MongoDB answers, the history shown and the one a restart would bring
\* back end alike: stored alerts are neither lost, doubled nor reordered.
THEOREM HistorySurvivesAlways == ASSUME "mongo" \notin Faults PROVE Spec => []HistorySurvives
<1>1. TypeOK /\ HistoryInv /\ [Next]_vars => (TypeOK /\ HistoryInv)'
  BY StepType, StepHistoryInv
<1>2. Init => TypeOK /\ HistoryInv
  BY InitType, InitHistoryInv
<1>3. HistoryInv => HistorySurvives
  BY HistoryInvSuffices
<1> QED
  BY <1>1, <1>2, <1>3, PTL DEF Spec
=============================================================================
