----------------------------- MODULE Dashboard -----------------------------
(***************************************************************************)
(* The early warning page on top of Detector: its event stream, the card   *)
(* of each breaker, and the list it fetches again when the stream says     *)
(* that breakers were reset or the watch list changed. Answers to such     *)
(* requests and stream events travel apart, so they overtake each other.   *)
(* The restart of the server is left out.                                  *)
(***************************************************************************)
EXTENDS Detector

CONSTANT MaxFetches  \* bound: requests for the list in flight, per page

ASSUME DashboardAssumption == MaxFetches \in Nat \ {0}

VARIABLES
    view,    \* circuitBreakers: the state on each card, "off" without a card
    fetches  \* the list requests of a page, with the answers under way

pageVars == <<view, fetches>>
dashboardVars == <<vars, pageVars>>

View == [Equip -> CircuitState \cup {"off"}]
Empty == [e \in Equip |-> "off"]
NoFetch == [step |-> "none", list |-> Empty]
NoFetches == [i \in 1..MaxFetches |-> NoFetch]

PageInit == view = [c \in Streams |-> Empty] /\ fetches = [c \in Streams |-> NoFetches]

Ask(c) == \E i \in 1..MaxFetches :
    /\ fetches[c][i] = NoFetch
    /\ fetches' = [fetches EXCEPT ![c][i].step = "asked"]

\* The page loads: it asks for the list and opens the stream.
Visit(c) == Subscribe(c) /\ Ask(c) /\ UNCHANGED view

\* The init event replaces all cards.
ShowInit(c) ==
    /\ Open(c)
    /\ view' = [view EXCEPT ![c] = breaker]
    /\ UNCHANGED fetches

\* A sample of equipment without a card is ignored.
ShowEvent(c) ==
    LET event == Head(streams[c].queue) IN
    /\ Deliver(c)
    /\ CASE event.kind = "telemetry" ->
              /\ view' = IF view[c][event.eq] = "off" THEN view
                         ELSE [view EXCEPT ![c][event.eq] = event.state]
              /\ UNCHANGED fetches
         [] event.kind = "refresh" -> Ask(c) /\ UNCHANGED view
         [] OTHER -> UNCHANGED pageVars

Answer(c, i) ==
    /\ fetches[c][i].step = "asked"
    /\ fetches' = [fetches EXCEPT ![c][i] = [step |-> "answered", list |-> breaker]]
    /\ UNCHANGED <<vars, view>>

ShowAnswer(c, i) ==
    /\ fetches[c][i].step = "answered"
    /\ view' = [view EXCEPT ![c] = fetches[c][i].list]
    /\ fetches' = [fetches EXCEPT ![c][i] = NoFetch]
    /\ UNCHANGED vars

ClosePage(c) ==
    /\ Leave(c)
    /\ view' = [view EXCEPT ![c] = Empty]
    /\ fetches' = [fetches EXCEPT ![c] = NoFetches]

Page(c) ==
    \/ Visit(c) \/ ShowInit(c) \/ ShowEvent(c) \/ ClosePage(c)
    \/ \E i \in 1..MaxFetches : Answer(c, i) \/ ShowAnswer(c, i)

Elsewhere ==
    /\ \/ \E e \in Equip : Sample(e) \/ UnknownSample(e) \/ AddSensor(e) \/ RemoveNode(e)
       \/ ConsumerStep \/ Reset
       \/ \E r \in Reloaders : ReloadRead(r) \/ ReloadApply(r)
       \/ \E c \in Streams : Unsubscribe(c)
    /\ UNCHANGED pageVars

DashboardInit == Init /\ PageInit
DashboardNext == Elsewhere \/ \E c \in Streams : Page(c)

\* Telemetry of every equipment keeps coming, the consumer's awaits end, an
\* accepted reload is carried out, and the network delivers.
DashboardFairness ==
    /\ \A e \in Equip : SF_dashboardVars((Sample(e) \/ UnknownSample(e)) /\ UNCHANGED pageVars)
    /\ WF_dashboardVars(ConsumerStep /\ UNCHANGED pageVars)
    /\ \A r \in Reloaders : WF_dashboardVars(ReloadApply(r) /\ UNCHANGED pageVars)
    /\ \A c \in Streams :
          /\ WF_dashboardVars(ShowInit(c)) /\ WF_dashboardVars(ShowEvent(c))
          /\ \A i \in 1..MaxFetches : WF_dashboardVars(Answer(c, i) \/ ShowAnswer(c, i))

DashboardSpec == DashboardInit /\ [][DashboardNext]_dashboardVars /\ DashboardFairness

-----------------------------------------------------------------------------
Fed(c) == streams[c].phase = "open" /\ streams[c].fed

\* A TRIP that lasts ends up on the card, for as long as the page's stream is
\* fed: neither late answers nor samples judged meanwhile hide it for good.
TripIsShown == \A c \in Streams, e \in Equip :
    <>[](breaker[e] = "TRIP" /\ Fed(c) /\ view[c][e] # "off") => <>[](view[c][e] = "TRIP")
=============================================================================
