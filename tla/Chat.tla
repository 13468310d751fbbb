-------------------------------- MODULE Chat --------------------------------
(***************************************************************************)
(* ChatService: sessions and their messages in MongoDB, and the streams    *)
(* that answer questions. Streams and deletions of one session overlap;    *)
(* an action is what runs between two awaits. What is retrieved, the       *)
(* prompt's wording and the answer's text are left out.                    *)
(***************************************************************************)
EXTENDS Naturals, FiniteSets

CONSTANTS
    Sessions,   \* session ids; an id is never reused
    Streams,    \* answers that can be streamed at the same time
    Deleters,   \* delete requests that can be in progress at the same time
    MaxHistory, \* HISTORY_TURNS
    MaxClock,   \* bound: messages written
    Faults      \* a subset of FaultKinds

FaultKinds == {"call", "llm", "disconnect", "restart"}

ASSUME ChatAssumption ==
    /\ MaxHistory \in Nat \ {0}
    /\ MaxClock \in Nat
    /\ Faults \subseteq FaultKinds

VARIABLES
    session,   \* chat_sessions: whether the record is there
    title,     \* its title: the question it names, 0 for the default
    messages,  \* chat_messages
    clock,     \* created_at of the latest message
    emptied,   \* history: the clock when its messages were last deleted, 0 if never
    stream,    \* ask_stream: the await it is at, and its locals
    deleter    \* delete_session: the await it is at

vars == <<session, title, messages, clock, emptied, stream, deleter>>

Role == {"user", "assistant"}

\* A message; turn tells in the model which question it belongs to, by the time
\* that question was asked.
Message == [session : Sessions, role : Role, turn : Nat, at : Nat]

Steps == {"idle", "retrieve", "impact", "history", "question", "llm", "answer", "title"}
Outcomes == {"none", "done", "error", "gone"}   \* its last event, "gone" if nobody listened
Stream == [step : Steps, session : Sessions, told : Outcomes,
           history : SUBSET Message, turn : Nat, at : Nat]

Deleter == [step : {"idle", "found", "purged"}, session : Sessions]

Of(s) == {m \in messages : m.session = s}

Init ==
    /\ session = [s \in Sessions |-> "none"]
    /\ title = [s \in Sessions |-> 0]
    /\ messages = {}
    /\ clock = 0
    /\ emptied = [s \in Sessions |-> 0]
    /\ stream \in [Streams -> [step : {"idle"}, session : Sessions, told : {"none"},
                               history : {{}}, turn : {0}, at : {0}]]
    /\ deleter \in [Deleters -> [step : {"idle"}, session : Sessions]]

storeUnchanged == <<session, title, messages, emptied>>

CreateSession(s) ==
    /\ session[s] = "none"
    /\ session' = [session EXCEPT ![s] = "open"]
    /\ UNCHANGED <<title, messages, clock, emptied, stream, deleter>>

-----------------------------------------------------------------------------
(* ask_stream                                                              *)

At(r, step) == stream[r].step = step
Go(r, next) == stream' = [stream EXCEPT ![r].step = next]

\* The stream is over and its locals are gone.
Ends(r, event) ==
    stream' = [stream EXCEPT ![r] = [step |-> "idle", session |-> stream[r].session,
                                     told |-> event, history |-> {}, turn |-> 0, at |-> 0]]

\* The stored question is part of the prompt, with the history before it.
ToModel(r) == stream' = [stream EXCEPT ![r].step = "llm", ![r].history = {}]

\* Two messages of one stream, and the last of them may still come.
Begun == {r \in Streams : stream[r].step \in {"retrieve", "impact", "history"}}
Answering == {r \in Streams : stream[r].step \in {"question", "llm"}}
RoomForTurn == clock + 2 * Cardinality(Begun) + Cardinality(Answering) + 2 <= MaxClock

\* A session that is not there is an error; a blank question ends the stream
\* without an event.
Ask(r, s) ==
    /\ At(r, "idle") /\ RoomForTurn
    /\ \E next \in IF session[s] = "open" THEN {"retrieve", "blank"} ELSE {"refused"} :
          stream' = [stream EXCEPT ![r] =
              [step |-> IF next = "retrieve" THEN next ELSE "idle", session |-> s,
               told |-> IF next = "refused" THEN "error" ELSE "none",
               history |-> {}, turn |-> 0, at |-> 0]]
    /\ UNCHANGED <<storeUnchanged, clock, deleter>>

Retrieve(r) ==
    /\ At(r, "retrieve")
    /\ Go(r, "impact")
    /\ UNCHANGED <<storeUnchanged, clock, deleter>>

\* The impact analysis finds something, nothing, or fails and is ignored: the
\* stream has a graph event or not, and goes on.
Impact(r) ==
    /\ At(r, "impact")
    /\ Go(r, "history")
    /\ UNCHANGED <<storeUnchanged, clock, deleter>>

\* find_by_session: sorted by created_at ascending, the first n.
Oldest(s, n) == {m \in Of(s) : Cardinality({k \in Of(s) : k.at < m.at}) < n}

\* The question's message is built right after the history was read.
History(r) ==
    /\ At(r, "history")
    /\ clock' = clock + 1
    /\ stream' = [stream EXCEPT ![r].step = "question",
                                ![r].history = Oldest(stream[r].session, MaxHistory),
                                ![r].turn = clock + 1, ![r].at = clock + 1]
    /\ UNCHANGED <<storeUnchanged, deleter>>

Written(r, role) ==
    [session |-> stream[r].session, role |-> role, turn |-> stream[r].turn, at |-> stream[r].at]

\* Faulty: a question that cannot be stored is answered all the same.
SaveQuestionOrNot(r) ==
    /\ At(r, "question")
    /\ \/ messages' = messages \cup {Written(r, "user")}
       \/ "call" \in Faults /\ UNCHANGED messages
    /\ ToModel(r)
    /\ UNCHANGED <<session, title, clock, emptied, deleter>>

\* Faulty: the session takes its title from a question nobody has answered.
SaveQuestionAndTitle(r) ==
    /\ At(r, "question")
    /\ messages' = messages \cup {Written(r, "user")}
    /\ title' = [title EXCEPT ![stream[r].session] = stream[r].turn]
    /\ ToModel(r)
    /\ UNCHANGED <<session, clock, emptied, deleter>>

SaveQuestion(r) ==
    /\ At(r, "question")
    /\ messages' = messages \cup {Written(r, "user")}
    /\ ToModel(r)
    /\ UNCHANGED <<session, title, clock, emptied, deleter>>

\* The model has said everything, also if that is nothing.
LlmEnds(r) ==
    /\ At(r, "llm")
    /\ clock' = clock + 1
    /\ stream' = [stream EXCEPT ![r].step = "answer", ![r].at = clock + 1]
    /\ UNCHANGED <<storeUnchanged, deleter>>

\* Faulty: a failing language model ends the stream without an event.
LlmFailsSilently(r) ==
    /\ At(r, "llm") /\ "llm" \in Faults
    /\ Ends(r, "none")
    /\ UNCHANGED <<storeUnchanged, clock, deleter>>

LlmFails(r) ==
    /\ At(r, "llm") /\ "llm" \in Faults
    /\ Ends(r, "error")
    /\ UNCHANGED <<storeUnchanged, clock, deleter>>

\* Faulty: an answer that cannot be stored is reported as done.
SaveAnswerOrNot(r) ==
    /\ At(r, "answer")
    /\ \/ messages' = messages \cup {Written(r, "assistant")}
       \/ "call" \in Faults /\ UNCHANGED messages
    /\ Go(r, "title")
    /\ UNCHANGED <<session, title, clock, emptied, deleter>>

SaveAnswer(r) ==
    /\ At(r, "answer")
    /\ messages' = messages \cup {Written(r, "assistant")}
    /\ Go(r, "title")
    /\ UNCHANGED <<session, title, clock, emptied, deleter>>

\* The session may be gone: NotFound, an error event after the stored answer.
SetTitle(r) ==
    LET s == stream[r].session IN
    /\ At(r, "title")
    /\ IF session[s] = "open"
       THEN /\ title' = [title EXCEPT ![s] = stream[r].turn]
            /\ stream' = [stream EXCEPT ![r].step = "idle", ![r].told = "done"]
       ELSE Ends(r, "error") /\ UNCHANGED title
    /\ UNCHANGED <<session, messages, clock, emptied, deleter>>

\* A call raises, with or without its effect; the route sends the error.
CallFails(r) ==
    /\ "call" \in Faults
    /\ \/ /\ stream[r].step \in {"retrieve", "history", "question", "answer", "title"}
          /\ UNCHANGED <<messages, title>>
       \/ /\ stream[r].step \in {"question", "answer"}
          /\ messages' = messages \cup
                {Written(r, IF At(r, "question") THEN "user" ELSE "assistant")}
          /\ UNCHANGED title
       \/ /\ At(r, "title") /\ session[stream[r].session] = "open"
          /\ title' = [title EXCEPT ![stream[r].session] = stream[r].turn]
          /\ UNCHANGED messages
    /\ Ends(r, "error")
    /\ UNCHANGED <<session, clock, emptied, deleter>>

\* The client goes away: the generator is cancelled at whatever await it is. An
\* insert it was waiting for may be carried out all the same (first SaveQuestion
\* or SaveAnswer, then this).
Disconnect(r) ==
    /\ stream[r].step # "idle" /\ "disconnect" \in Faults
    /\ Ends(r, "gone")
    /\ UNCHANGED <<storeUnchanged, clock, deleter>>

-----------------------------------------------------------------------------
(* delete_session                                                          *)

BeginDelete(x, s) ==
    /\ deleter[x].step = "idle" /\ session[s] = "open"
    /\ deleter' = [deleter EXCEPT ![x] = [step |-> "found", session |-> s]]
    /\ UNCHANGED <<storeUnchanged, clock, stream>>

\* delete_by_session
Emptied(s) ==
    /\ messages' = messages \ Of(s)
    /\ emptied' = [emptied EXCEPT ![s] = clock]

Purge(x) ==
    /\ deleter[x].step = "found"
    /\ Emptied(deleter[x].session)
    /\ deleter' = [deleter EXCEPT ![x].step = "purged"]
    /\ UNCHANGED <<session, title, clock, stream>>

\* delete_by_id: NotFound if another request was faster.
DeleteSession(x) ==
    /\ deleter[x].step = "purged"
    /\ session' = [session EXCEPT ![deleter[x].session] = "gone"]
    /\ deleter' = [deleter EXCEPT ![x].step = "idle"]
    /\ UNCHANGED <<title, messages, clock, emptied, stream>>

\* A call of the deletion raises, with or without its effect: the request ends,
\* and the session may stay, with its title and without its messages.
DeleteFails(x) ==
    /\ "call" \in Faults /\ deleter[x].step # "idle"
    /\ deleter' = [deleter EXCEPT ![x].step = "idle"]
    /\ \/ UNCHANGED <<session, messages, emptied>>
       \/ deleter[x].step = "found" /\ Emptied(deleter[x].session) /\ UNCHANGED session
       \/ /\ deleter[x].step = "purged"
          /\ session' = [session EXCEPT ![deleter[x].session] = "gone"]
          /\ UNCHANGED <<messages, emptied>>
    /\ UNCHANGED <<title, clock, stream>>

\* The API stops and starts: streams and deletions end where they are.
Restart ==
    /\ "restart" \in Faults
    /\ stream' = [r \in Streams |-> [step |-> "idle", session |-> stream[r].session, told |-> "gone",
                                     history |-> {}, turn |-> 0, at |-> 0]]
    /\ deleter' = [x \in Deleters |-> [deleter[x] EXCEPT !.step = "idle"]]
    /\ UNCHANGED <<storeUnchanged, clock>>

Answer(r) ==
    \/ Retrieve(r) \/ Impact(r) \/ History(r) \/ SaveQuestion(r)
    \/ LlmEnds(r) \/ LlmFails(r) \/ SaveAnswer(r) \/ SetTitle(r)

Next ==
    \/ \E s \in Sessions : CreateSession(s)
    \/ \E r \in Streams :
          \/ \E s \in Sessions : Ask(r, s)
          \/ Answer(r) \/ CallFails(r) \/ Disconnect(r)
    \/ \E x \in Deleters :
          \/ \E s \in Sessions : BeginDelete(x, s)
          \/ Purge(x) \/ DeleteSession(x) \/ DeleteFails(x)
    \/ Restart

Spec == Init /\ [][Next]_vars

-----------------------------------------------------------------------------
\* Every variable keeps its shape; nothing is dated later than the clock.
TypeOK ==
    /\ session \in [Sessions -> {"none", "open", "gone"}]
    /\ title \in [Sessions -> 0..clock]
    /\ messages \subseteq Message
    /\ \A m \in messages : m.turn <= m.at /\ m.at <= clock
    /\ clock \in Nat
    /\ emptied \in [Sessions -> 0..clock]
    /\ stream \in [Streams -> Stream]
    /\ \A r \in Streams : stream[r].at <= clock /\ stream[r].turn <= stream[r].at
    /\ deleter \in [Deleters -> Deleter]

Question(s, t) == [session |-> s, role |-> "user", turn |-> t, at |-> t]

\* A turn begun after the last time the session was emptied: a deletion that
\* came to no end (one of its calls raised, the API stopped) leaves a session
\* that is open, is asked again, and has lost what was there before.
Kept(s, t) == t > emptied[s]

\* Every answer a user finds in a session has its question before it, whatever
\* failed, was cancelled, was half deleted or overlapped.
AnswersHaveQuestions ==
    \A m \in messages : m.role = "assistant" /\ Kept(m.session, m.turn) =>
        Question(m.session, m.turn) \in messages /\ m.turn < m.at

\* The done event tells the truth: question and answer are stored.
DoneIsStored ==
    \A r \in Streams :
        LET s == stream[r].session IN
        stream[r].told = "done" /\ Kept(s, stream[r].turn) =>
            /\ Question(s, stream[r].turn) \in messages
            /\ Written(r, "assistant") \in messages

\* A session is named after a question of its own that was answered.
TitleIsAnswered ==
    \A s \in Sessions : Kept(s, title[s]) =>
        /\ Question(s, title[s]) \in messages
        /\ \E m \in Of(s) : m.role = "assistant" /\ m.turn = title[s]

\* A client that listens to the end is told how the stream ended, done or with
\* an error, wherever a call raised: none ends halfway in silence.
EndIsTold ==
    [][\A r \in Streams : stream[r].step # "idle" /\ stream'[r].step = "idle" =>
           stream'[r].told # "none"]_vars

\* "The number of recent turns in the prompt" (HISTORY_TURNS): what is passed on
\* when it is read is the end of the conversation, not its beginning.
HistoryIsRecent ==
    [][\A r \in Streams : At(r, "history") /\ stream'[r].step = "question" =>
           \A m \in Of(stream[r].session) : m \notin stream'[r].history =>
               \A k \in stream'[r].history : m.at < k.at]_vars
=============================================================================
