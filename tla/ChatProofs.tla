------------------------------ MODULE ChatProofs ------------------------------
(***************************************************************************)
(* Among the turns begun after a session was last emptied every answer has *)
(* its question, and the done event and the title tell the truth: proved   *)
(* for any sessions, streams, deletions and faults.                        *)
(***************************************************************************)
EXTENDS Chat, TLAPS

Prompted == {"llm", "answer", "title"}

\* What a stream knows at the await it is at: its question is stored from the
\* model's turn on, its answer once it has been written.
StreamOK(r) ==
    /\ stream[r].step = "question" => stream[r].at = stream[r].turn
    /\ stream[r].step \in {"answer", "title"} => stream[r].turn < stream[r].at
    /\ stream[r].told = "done" => stream[r].step = "idle"
    /\ Kept(stream[r].session, stream[r].turn) =>
          /\ stream[r].step \in Prompted \/ stream[r].told = "done" =>
                Question(stream[r].session, stream[r].turn) \in messages
          /\ stream[r].step = "title" \/ stream[r].told = "done" =>
                Written(r, "assistant") \in messages

StreamInv == \A r \in Streams : StreamOK(r)

IInv == TypeOK /\ StreamInv /\ AnswersHaveQuestions /\ TitleIsAnswered

\* A turn that is kept after a step was so before, with its messages.
Survives ==
    /\ \A s \in Sessions, t \in Nat : Kept(s, t)' => Kept(s, t)
    /\ \A m \in messages : Kept(m.session, m.turn)' => m \in messages'

-----------------------------------------------------------------------------
LEMMA StreamsKept ==
    ASSUME TypeOK, StreamInv, Survives,
           NEW r \in Streams, stream'[r] = stream[r]
    PROVE  StreamOK(r)'
<1> DEFINE s == stream[r].session
           t == stream[r].turn
<1>1. s \in Sessions /\ t \in Nat /\ stream'[r].session = s /\ stream'[r].turn = t
  BY DEF TypeOK, Stream
<1>2. StreamOK(r)
  BY DEF StreamInv
<1>3. Kept(s, t)' => Kept(s, t)
  BY <1>1 DEF Survives
<1>4. ASSUME Kept(s, t)', Question(s, t) \in messages PROVE Question(s, t) \in messages'
  <2>1. Question(s, t).session = s /\ Question(s, t).turn = t
    BY DEF Question
  <2>2. Kept(Question(s, t).session, Question(s, t).turn)'
    BY <1>4, <2>1 DEF Kept, Question
  <2> QED
    BY <1>4, <2>2 DEF Survives
<1>5. ASSUME Kept(s, t)', Written(r, "assistant") \in messages PROVE Written(r, "assistant") \in messages'
  <2>1. PICK m \in messages : m = Written(r, "assistant")
    BY <1>5
  <2>2. m.session = s /\ m.turn = t
    BY <2>1 DEF Written
  <2>3. Kept(m.session, m.turn)'
    BY <1>5, <2>2 DEF Kept
  <2>4. m \in messages'
    BY <2>3 DEF Survives
  <2> QED
    BY <2>1, <2>4
<1>6. Written(r, "assistant")' = Written(r, "assistant") /\ Question(s, t)' = Question(s, t)
  BY DEF Written, Question
<1>7. /\ stream[r].step = "question" => stream[r].at = stream[r].turn
      /\ stream[r].step \in {"answer", "title"} => stream[r].turn < stream[r].at
      /\ stream[r].told = "done" => stream[r].step = "idle"
  BY <1>2 DEF StreamOK
<1>8. ASSUME Kept(s, t)'
      PROVE  /\ stream[r].step \in Prompted \/ stream[r].told = "done" => Question(s, t) \in messages'
             /\ stream[r].step = "title" \/ stream[r].told = "done" => Written(r, "assistant") \in messages'
  BY <1>2, <1>3, <1>4, <1>5, <1>8 DEF StreamOK
<1> QED
  BY <1>1, <1>6, <1>7, <1>8 DEF StreamOK, Kept, Prompted

\* Answers and titles of intact sessions keep what they rest on.
LEMMA TurnsKept ==
    ASSUME TypeOK, Survives, AnswersHaveQuestions, TitleIsAnswered,
           messages' \subseteq messages, title' = title
    PROVE  AnswersHaveQuestions' /\ TitleIsAnswered'
<1>0. ASSUME NEW s \in Sessions, NEW t \in Nat, Kept(s, t)', Question(s, t) \in messages
      PROVE  Question(s, t) \in messages'
  <2>1. Kept(Question(s, t).session, Question(s, t).turn)'
    BY <1>0 DEF Kept, Question
  <2> QED
    BY <1>0, <2>1 DEF Survives
<1>1. AnswersHaveQuestions'
  <2> SUFFICES ASSUME NEW m \in messages', m.role = "assistant", Kept(m.session, m.turn)'
               PROVE  Question(m.session, m.turn) \in messages' /\ m.turn < m.at
    BY DEF AnswersHaveQuestions, Kept, Question
  <2>1. m \in messages /\ m.session \in Sessions /\ m.turn \in Nat
    BY DEF TypeOK, Message
  <2>2. Kept(m.session, m.turn)
    BY <2>1 DEF Survives
  <2>3. Question(m.session, m.turn) \in messages /\ m.turn < m.at
    BY <2>1, <2>2 DEF AnswersHaveQuestions
  <2> QED
    BY <1>0, <2>1, <2>3
<1>2. TitleIsAnswered'
  <2> SUFFICES ASSUME NEW s \in Sessions, Kept(s, title[s])'
               PROVE  /\ Question(s, title[s]) \in messages'
                      /\ \E m \in Of(s)' : m.role = "assistant" /\ m.turn = title[s]
    BY DEF TitleIsAnswered, Question, Kept
  <2>0. title[s] \in Nat /\ Kept(s, title[s])
    BY DEF TypeOK, Survives, Kept
  <2>1. Question(s, title[s]) \in messages
    BY <2>0 DEF TitleIsAnswered
  <2>2. PICK m \in Of(s) : m.role = "assistant" /\ m.turn = title[s]
    BY <2>0 DEF TitleIsAnswered
  <2>3. m \in messages /\ Kept(m.session, m.turn)'
    BY <2>2 DEF Of, Kept
  <2>4. m \in messages'
    BY <2>3 DEF Survives
  <2>5. Question(s, title[s]) \in messages'
    BY <1>0, <2>0, <2>1 DEF Kept
  <2> QED
    BY <2>2, <2>4, <2>5 DEF Of
<1> QED
  BY <1>1, <1>2

\* Where nothing is emptied and nothing lost, every kept turn survives.
LEMMA NothingEmptied ==
    ASSUME emptied' = emptied, messages \subseteq messages' PROVE Survives
  BY DEF Survives, Kept

\* A step of stream r that writes nothing and makes it q.
SilentStep(r, q) ==
    /\ q \in Stream /\ stream' = [stream EXCEPT ![r] = q]
    /\ session' = session /\ title' = title /\ messages' = messages /\ deleter' = deleter
    /\ emptied' = emptied
    /\ clock' \in Nat /\ clock <= clock' /\ q.at <= clock' /\ q.turn <= q.at
    /\ q.step = "question" => q.at = q.turn
    /\ q.step \in {"answer", "title"} => q.turn < q.at
    /\ q.told # "done" /\ q.step # "title"
    /\ q.step \in Prompted =>
          /\ q.session = stream[r].session /\ q.turn = stream[r].turn
          /\ stream[r].step \in Prompted

LEMMA Silent ==
    ASSUME IInv, NEW r \in Streams, NEW q, SilentStep(r, q)
    PROVE  IInv'
<1> USE DEF IInv, SilentStep
<1>1. stream'[r] = q /\ \A k \in Streams \ {r} : stream'[k] = stream[k]
  BY DEF TypeOK
<1>2. Survives
  BY NothingEmptied
<1>3. TypeOK'
  <2>1. stream' \in [Streams -> Stream]
    BY DEF TypeOK
  <2>2. \A m \in messages' : m.at <= clock'
    BY DEF TypeOK, Message
  <2>3. title' \in [Sessions -> 0..clock'] /\ emptied' \in [Sessions -> 0..clock']
    BY DEF TypeOK
  <2>4. \A k \in Streams : stream'[k].at <= clock' /\ stream'[k].turn <= stream'[k].at
    BY <1>1 DEF TypeOK, Stream
  <2> QED
    BY <2>1, <2>2, <2>3, <2>4 DEF TypeOK
<1>4. StreamOK(r)'
  <2>1. Kept(q.session, q.turn)' => Kept(q.session, q.turn)
    BY DEF Kept
  <2>2. StreamOK(r)
    BY DEF StreamInv
  <2>3. q.step \in Prompted /\ Kept(q.session, q.turn) => Question(q.session, q.turn) \in messages
    BY <2>2 DEF StreamOK
  <2> QED
    BY <1>1, <2>1, <2>3 DEF StreamOK, Kept, Question
<1>5. StreamInv'
  BY <1>1, <1>2, <1>4, StreamsKept DEF StreamInv
<1>7. AnswersHaveQuestions' /\ TitleIsAnswered'
  BY <1>2, TurnsKept
<1> QED
  BY <1>3, <1>5, <1>7

\* A step of stream r that writes its message of this role, the question or the
\* answer to it, and makes it q.
WriteStep(r, q, role) ==
    /\ q \in Stream /\ stream' = [stream EXCEPT ![r] = q]
    /\ session' = session /\ title' = title /\ clock' = clock /\ deleter' = deleter
    /\ emptied' = emptied
    /\ messages' = messages \cup {Written(r, role)}
    /\ stream[r].step = (IF role = "user" THEN "question" ELSE "answer")
    /\ q.session = stream[r].session /\ q.at <= clock /\ q.turn <= q.at
    /\ q.step \in {IF role = "user" THEN "llm" ELSE "title", "idle"}
    /\ q.step # "idle" => q.turn = stream[r].turn /\ q.at = stream[r].at
    /\ q.told # "done"

LEMMA Writes ==
    ASSUME IInv, NEW r \in Streams, NEW q, NEW role \in Role, WriteStep(r, q, role)
    PROVE  IInv'
<1> USE DEF IInv, WriteStep
<1> DEFINE s == stream[r].session
           new == Written(r, role)
<1>0. StreamOK(r) /\ stream[r] \in Stream /\ s \in Sessions
  BY DEF StreamInv, TypeOK, Stream
<1>1. stream'[r] = q /\ \A k \in Streams \ {r} : stream'[k] = stream[k]
  BY DEF TypeOK
<1>2. Survives
  BY NothingEmptied
<1>3. new \in Message /\ new.session = s /\ new.role = role
      /\ new.turn = stream[r].turn /\ new.at = stream[r].at
      /\ new.turn <= new.at /\ new.at <= clock
  BY <1>0 DEF Written, Message, TypeOK, Stream
<1>4. TypeOK'
  <2>1. stream' \in [Streams -> Stream]
    BY DEF TypeOK
  <2>2. messages' \subseteq Message /\ \A m \in messages' : m.turn <= m.at /\ m.at <= clock'
    BY <1>3 DEF TypeOK
  <2>3. \A k \in Streams : stream'[k].at <= clock' /\ stream'[k].turn <= stream'[k].at
    BY <1>1 DEF TypeOK
  <2> QED
    BY <2>1, <2>2, <2>3 DEF TypeOK
<1>5. role = "user" => new = Question(s, stream[r].turn)
  BY <1>0 DEF StreamOK, Written, Question
<1>6. role = "assistant" /\ Kept(s, stream[r].turn) =>
          Question(s, stream[r].turn) \in messages /\ stream[r].turn < stream[r].at
  BY <1>0 DEF StreamOK, Prompted
<1>7. StreamOK(r)'
  <2>1. q.turn = stream[r].turn /\ Kept(q.session, q.turn)' => Kept(s, stream[r].turn)
    BY DEF Kept
  <2>2. CASE q.step = "idle"
    BY <1>1, <2>2 DEF StreamOK, Prompted
  <2>3. CASE role = "user" /\ q.step = "llm"
    <3>1. Question(q.session, q.turn) \in messages'
      BY <1>5, <2>3
    <3> QED
      BY <1>1, <2>3, <3>1 DEF StreamOK, Prompted, Question, Kept
  <2>4. CASE role = "assistant" /\ q.step = "title"
    <3>1. q.turn < q.at
      BY <1>0, <2>4 DEF StreamOK
    <3>2. Kept(s, stream[r].turn) => Question(q.session, q.turn) \in messages'
      BY <1>6, <2>4
    <3>3. Written(r, "assistant")' \in messages'
      <4>1. Written(r, "assistant")' = new
        BY <1>1, <2>4 DEF Written
      <4> QED
        BY <4>1
    <3> QED
      BY <1>1, <2>1, <2>4, <3>1, <3>2, <3>3 DEF StreamOK, Prompted, Question, Kept
  <2> QED
    BY <2>2, <2>3, <2>4 DEF Role
<1>8. StreamInv'
  BY <1>1, <1>2, <1>7, StreamsKept DEF StreamInv
<1>10. AnswersHaveQuestions'
  <2> SUFFICES ASSUME NEW m \in messages', m.role = "assistant", Kept(m.session, m.turn)
               PROVE  Question(m.session, m.turn) \in messages /\ m.turn < m.at
    BY DEF AnswersHaveQuestions, Kept, Question
  <2>1. CASE m \in messages
    BY <2>1 DEF AnswersHaveQuestions
  <2>2. CASE m = new
    BY <1>3, <1>6, <2>2
  <2> QED
    BY <2>1, <2>2
<1>11. TitleIsAnswered'
  <2> SUFFICES ASSUME NEW t \in Sessions, Kept(t, title[t])
               PROVE  /\ Question(t, title[t]) \in messages
                      /\ \E m \in Of(t) : m.role = "assistant" /\ m.turn = title[t]
    BY DEF TitleIsAnswered, Kept, Question, Of
  <2> QED
    BY DEF TitleIsAnswered
<1> QED
  BY <1>4, <1>8, <1>10, <1>11

\* A step of stream r, whose answer is stored, that names the session and makes
\* the stream q.
TitleStep(r, q) ==
    /\ q \in Stream /\ stream' = [stream EXCEPT ![r] = q]
    /\ session' = session /\ messages' = messages /\ clock' = clock /\ deleter' = deleter
    /\ emptied' = emptied
    /\ stream[r].step = "title"
    /\ title' = [title EXCEPT ![stream[r].session] = stream[r].turn]
    /\ q.step = "idle" /\ q.session = stream[r].session
    /\ q.at <= clock /\ q.turn <= q.at
    /\ q.told = "done" => q.turn = stream[r].turn /\ q.at = stream[r].at

LEMMA Titles ==
    ASSUME IInv, NEW r \in Streams, NEW q, TitleStep(r, q)
    PROVE  IInv'
<1> USE DEF IInv, TitleStep
<1> DEFINE s == stream[r].session
<1>0. StreamOK(r) /\ stream[r] \in Stream /\ s \in Sessions
  BY DEF StreamInv, TypeOK, Stream
<1>1. stream'[r] = q /\ \A k \in Streams \ {r} : stream'[k] = stream[k]
  BY DEF TypeOK
<1>2. Survives
  BY NothingEmptied
<1>3. TypeOK'
  <2>1. stream' \in [Streams -> Stream]
    BY DEF TypeOK
  <2>2. stream[r].turn \in 0..clock
    BY <1>0 DEF TypeOK, Stream
  <2>3. title' \in [Sessions -> 0..clock]
    BY <1>0, <2>2 DEF TypeOK
  <2>4. \A k \in Streams : stream'[k].at <= clock' /\ stream'[k].turn <= stream'[k].at
    BY <1>1 DEF TypeOK
  <2> QED
    BY <2>1, <2>3, <2>4 DEF TypeOK
<1>4. Kept(s, stream[r].turn) => /\ Question(s, stream[r].turn) \in messages
                                 /\ Written(r, "assistant") \in messages
  BY <1>0 DEF StreamOK, Prompted
<1>5. StreamOK(r)'
  <2>1. q.told = "done" => Written(r, "assistant")' = Written(r, "assistant")
    BY <1>1 DEF Written
  <2>2. q.told = "done" /\ Kept(q.session, q.turn)' => Kept(s, stream[r].turn)
    BY DEF Kept
  <2> QED
    BY <1>1, <1>4, <2>1, <2>2 DEF StreamOK, Prompted, Question, Kept
<1>6. StreamInv'
  BY <1>1, <1>2, <1>5, StreamsKept DEF StreamInv
<1>9. AnswersHaveQuestions'
  BY DEF AnswersHaveQuestions, Kept, Question
<1>10. TitleIsAnswered'
  <2> SUFFICES ASSUME NEW t \in Sessions, Kept(t, title'[t])
               PROVE  /\ Question(t, title'[t]) \in messages
                      /\ \E m \in Of(t) : m.role = "assistant" /\ m.turn = title'[t]
    BY DEF TitleIsAnswered, Kept, Question, Of
  <2>1. CASE t = s
    <3>1. title'[t] = stream[r].turn
      BY <1>0, <2>1 DEF TypeOK
    <3>2. /\ Written(r, "assistant") \in Of(t)
          /\ Written(r, "assistant").role = "assistant"
          /\ Written(r, "assistant").turn = title'[t]
      BY <1>4, <2>1, <3>1 DEF Written, Of
    <3> QED
      BY <1>4, <2>1, <3>1, <3>2
  <2>2. CASE t # s
    <3>1. title'[t] = title[t]
      BY <2>2 DEF TypeOK
    <3> QED
      BY <3>1 DEF TitleIsAnswered
  <2> QED
    BY <2>1, <2>2
<1> QED
  BY <1>3, <1>6, <1>9, <1>10

-----------------------------------------------------------------------------
LEMMA InitInv == Init => IInv
<1> SUFFICES ASSUME Init PROVE IInv
  OBVIOUS
<1>1. stream \in [Streams -> Stream]
  BY DEF Init, Stream, Steps, Outcomes
<1>2. \A r \in Streams : /\ stream[r].step = "idle" /\ stream[r].told = "none"
                          /\ stream[r].turn = 0 /\ stream[r].at = 0
  BY DEF Init
<1>3. deleter \in [Deleters -> Deleter] /\ \A x \in Deleters : deleter[x].step = "idle"
  BY DEF Init, Deleter
<1>4. TypeOK
  BY <1>1, <1>2, <1>3 DEF Init, TypeOK
<1>5. StreamInv
  BY <1>2 DEF StreamInv, StreamOK, Prompted
<1>7. AnswersHaveQuestions /\ TitleIsAnswered
  BY DEF Init, AnswersHaveQuestions, TitleIsAnswered, Kept
<1> QED
  BY <1>4, <1>5, <1>7 DEF IInv

\* A step that writes no message and no title and changes no stream, but may
\* empty a session or what is known of it.
LEMMA StoreStep ==
    ASSUME IInv, TypeOK', Survives, messages' \subseteq messages, title' = title, stream' = stream
    PROVE  IInv'
<1> USE DEF IInv
<1>1. StreamInv'
  BY StreamsKept DEF StreamInv
<1>2. AnswersHaveQuestions' /\ TitleIsAnswered'
  BY TurnsKept
<1> QED
  BY <1>1, <1>2

\* The turns begun until now are no longer kept once the session is emptied.
LEMMA EmptiedSurvives ==
    ASSUME TypeOK, NEW s \in Sessions, Emptied(s)
    PROVE  /\ Survives /\ messages' \subseteq messages
           /\ emptied' \in [Sessions -> 0..clock]
<1>0. clock \in Nat /\ emptied \in [Sessions -> 0..clock]
  BY DEF TypeOK
<1>1. /\ emptied' \in [Sessions -> 0..clock] /\ emptied'[s] = clock
      /\ \A t \in Sessions \ {s} : emptied'[t] = emptied[t]
  BY <1>0 DEF Emptied
<1>2. \A t \in Sessions : emptied[t] \in Nat /\ emptied[t] <= emptied'[t]
  BY <1>0, <1>1
<1>3. \A t \in Sessions, n \in Nat : Kept(t, n)' => Kept(t, n)
  BY <1>0, <1>1, <1>2 DEF Kept
<1>4. ASSUME NEW m \in messages, Kept(m.session, m.turn)' PROVE m \in messages'
  <2>1. m.session \in Sessions /\ m.turn \in Nat /\ m.turn <= clock
    BY DEF TypeOK, Message
  <2>2. m.session # s
    BY <1>0, <1>1, <1>4, <2>1 DEF Kept
  <2> QED
    BY <2>2 DEF Emptied, Of
<1> QED
  BY <1>1, <1>3, <1>4 DEF Survives, Emptied

LEMMA CreateInv ==
    ASSUME IInv, NEW s \in Sessions, CreateSession(s) PROVE IInv'
<1>1. TypeOK'
  BY DEF IInv, TypeOK, CreateSession
<1>2. Survives
  BY NothingEmptied DEF CreateSession
<1> QED
  BY <1>1, <1>2, StoreStep DEF CreateSession

LEMMA BeginDeleteInv ==
    ASSUME IInv, NEW x \in Deleters, NEW s \in Sessions, BeginDelete(x, s)
    PROVE  IInv'
<1> USE DEF BeginDelete, storeUnchanged
<1>1. deleter' \in [Deleters -> Deleter]
  BY DEF IInv, TypeOK, Deleter
<1>2. TypeOK'
  BY <1>1 DEF IInv, TypeOK
<1>3. Survives
  BY NothingEmptied
<1> QED
  BY <1>2, <1>3, StoreStep

\* The calls of a deletion, with or without an answer.
LEMMA DeletionInv ==
    ASSUME IInv, NEW x \in Deleters, Purge(x) \/ DeleteSession(x) \/ DeleteFails(x)
    PROVE  IInv'
<1> DEFINE s == deleter[x].session
<1>0. deleter[x] \in Deleter /\ s \in Sessions
  BY DEF IInv, TypeOK, Deleter
<1>1. deleter' \in [Deleters -> Deleter] /\ UNCHANGED <<title, clock, stream>>
  BY <1>0 DEF IInv, TypeOK, Deleter, Purge, DeleteSession, DeleteFails
<1>2. session' \in [Sessions -> {"none", "open", "gone"}]
  BY <1>0 DEF IInv, TypeOK, Purge, DeleteSession, DeleteFails
<1>3. (Emptied(s) \/ UNCHANGED <<messages, emptied>>)
  BY DEF Purge, DeleteSession, DeleteFails
<1>4. Survives /\ messages' \subseteq messages /\ emptied' \in [Sessions -> 0..clock]
  BY <1>0, <1>3, EmptiedSurvives, NothingEmptied DEF IInv, TypeOK
<1>5. TypeOK'
  BY <1>1, <1>2, <1>4 DEF IInv, TypeOK
<1> QED
  BY <1>1, <1>4, <1>5, StoreStep

-----------------------------------------------------------------------------
\* What is known of the stream before any of its steps.
LEMMA Before ==
    ASSUME IInv, NEW r \in Streams
    PROVE  /\ stream[r] \in Stream /\ stream[r].session \in Sessions
           /\ stream[r].step \in Steps
           /\ stream[r].turn \in Nat /\ stream[r].at \in Nat /\ clock \in Nat
           /\ stream[r].turn <= stream[r].at /\ stream[r].at <= clock
           /\ stream[r].step # "idle" => stream[r].told # "done"
<1> USE DEF IInv
<1>1. stream[r] \in Stream
  BY DEF TypeOK
<1>2. StreamOK(r)
  BY DEF StreamInv
<1> QED
  BY <1>1, <1>2 DEF TypeOK, Stream, StreamOK

\* The record of a stream that is over.
Over(r, event) == [step |-> "idle", session |-> stream[r].session,
                   told |-> event, history |-> {}, turn |-> 0, at |-> 0]

LEMMA OverIsStream ==
    ASSUME IInv, NEW r \in Streams, NEW event \in Outcomes
    PROVE  Over(r, event) \in Stream
BY Before DEF Over, Stream, Steps, Outcomes

LEMMA AskInv ==
    ASSUME IInv, NEW r \in Streams, NEW s \in Sessions, Ask(r, s) PROVE IInv'
<1> USE DEF storeUnchanged
<1>1. PICK next \in IF session[s] = "open" THEN {"retrieve", "blank"} ELSE {"refused"} :
          stream' = [stream EXCEPT ![r] =
              [step |-> IF next = "retrieve" THEN next ELSE "idle", session |-> s,
               told |-> IF next = "refused" THEN "error" ELSE "none",
               history |-> {}, turn |-> 0, at |-> 0]]
  BY DEF Ask
<1> DEFINE q == [step |-> IF next = "retrieve" THEN next ELSE "idle", session |-> s,
                 told |-> IF next = "refused" THEN "error" ELSE "none",
                 history |-> {}, turn |-> 0, at |-> 0]
<1>2. q \in Stream
  BY DEF Stream, Steps, Outcomes
<1>3. q.step # "idle" => session[s] = "open"
  BY <1>1
<1>4. q.step \notin Prompted \cup {"question"} /\ q.told # "done"
  BY DEF Prompted
<1> HIDE DEF q
<1>5. q.session = s /\ q.turn = 0 /\ q.at = 0
  BY DEF q
<1>6. UNCHANGED <<session, title, messages, emptied, deleter, clock>> /\ stream' = [stream EXCEPT ![r] = q]
  BY <1>1 DEF Ask, q
<1>7. clock \in Nat
  BY DEF IInv, TypeOK
<1>9. SilentStep(r, q)
  BY <1>2, <1>3, <1>4, <1>5, <1>6, <1>7 DEF SilentStep, Prompted
<1> QED
  BY <1>9, Silent

LEMMA GoesOn ==
    ASSUME IInv, NEW r \in Streams, Retrieve(r) \/ Impact(r) PROVE IInv'
<1> USE DEF storeUnchanged
<1>0. PICK next \in {"impact", "history"} :
          stream' = [stream EXCEPT ![r] = [stream[r] EXCEPT !.step = next]]
  BY DEF Retrieve, Impact, Go
<1> DEFINE q == [stream[r] EXCEPT !.step = next]
<1>1. stream[r].step # "idle" /\ UNCHANGED <<session, title, messages, emptied, deleter, clock>>
  BY DEF Retrieve, Impact, At
<1>2. q \in Stream /\ q.step = next /\ q.session = stream[r].session
      /\ q.told = stream[r].told /\ q.turn = stream[r].turn /\ q.at = stream[r].at
  BY Before DEF Stream, Steps
<1> HIDE DEF q
<1>3. stream' = [stream EXCEPT ![r] = q]
  BY <1>0 DEF q
<1>9. SilentStep(r, q)
  BY <1>1, <1>2, <1>3, Before DEF SilentStep, Prompted
<1> QED
  BY <1>9, Silent

LEMMA HistoryInv ==
    ASSUME IInv, NEW r \in Streams, History(r) PROVE IInv'
<1> USE DEF storeUnchanged
<1> DEFINE q == [stream[r] EXCEPT !.step = "question",
                     !.history = Oldest(stream[r].session, MaxHistory),
                     !.turn = clock + 1, !.at = clock + 1]
<1>1. stream[r].step = "history" /\ UNCHANGED <<session, title, messages, emptied, deleter>>
      /\ clock' = clock + 1 /\ clock' \in Nat /\ clock <= clock'
  BY Before DEF History, At
<1>2. Oldest(stream[r].session, MaxHistory) \in SUBSET Message
  BY DEF IInv, TypeOK, Oldest, Of
<1>3. q \in Stream /\ q.step = "question" /\ q.session = stream[r].session
      /\ q.told = stream[r].told /\ q.turn = clock' /\ q.at = clock'
  BY <1>1, <1>2, Before DEF Stream, Steps
<1>4. stream' = [stream EXCEPT ![r] = q]
  BY DEF History
<1> HIDE DEF q
<1>5. q.step # "idle" /\ q.told # "done"
  BY <1>1, <1>3, Before
<1>9. SilentStep(r, q)
  BY <1>1, <1>3, <1>4, <1>5 DEF SilentStep, Prompted
<1> QED
  BY <1>9, Silent

LEMMA LlmEndsInv ==
    ASSUME IInv, NEW r \in Streams, LlmEnds(r) PROVE IInv'
<1> USE DEF storeUnchanged
<1> DEFINE q == [stream[r] EXCEPT !.step = "answer", !.at = clock + 1]
<1>1. stream[r].step = "llm" /\ UNCHANGED <<session, title, messages, emptied, deleter>>
      /\ clock' = clock + 1 /\ clock' \in Nat /\ clock <= clock'
  BY Before DEF LlmEnds, At
<1>2. q \in Stream /\ q.step = "answer" /\ q.session = stream[r].session
      /\ q.told = stream[r].told /\ q.turn = stream[r].turn /\ q.at = clock'
  BY <1>1, Before DEF Stream, Steps
<1>3. stream' = [stream EXCEPT ![r] = q]
  BY DEF LlmEnds
<1> HIDE DEF q
<1>4. q.turn < q.at /\ q.turn <= q.at /\ q.told # "done"
  BY <1>1, <1>2, Before
<1>9. SilentStep(r, q)
  BY <1>1, <1>2, <1>3, <1>4 DEF SilentStep, Prompted
<1> QED
  BY <1>9, Silent

\* A stream that ends without an answer, whatever it was waiting for.
LEMMA EndsInv ==
    ASSUME IInv, NEW r \in Streams, NEW event \in {"error", "gone"}, Ends(r, event),
           UNCHANGED <<session, title, messages, clock, emptied, deleter>>
    PROVE  IInv'
<1> DEFINE q == Over(r, event)
<1>1. q \in Stream
  BY OverIsStream DEF Outcomes
<1>2. q.step = "idle" /\ q.told = event /\ q.turn = 0 /\ q.at = 0
  BY DEF Over
<1>3. stream' = [stream EXCEPT ![r] = q]
  BY DEF Ends, Over
<1> HIDE DEF q
<1>9. SilentStep(r, q)
  BY <1>1, <1>2, <1>3, Before DEF SilentStep, Prompted
<1> QED
  BY <1>9, Silent

\* Both writes of a message, and a write that succeeds although the call raises.
LEMMA SavesInv ==
    ASSUME IInv, NEW r \in Streams, NEW role \in Role,
           stream[r].step = (IF role = "user" THEN "question" ELSE "answer"),
           messages' = messages \cup {Written(r, role)},
           UNCHANGED <<session, title, clock, emptied, deleter>>,
           \/ role = "user" /\ ToModel(r)
           \/ role = "assistant" /\ Go(r, "title")
           \/ Ends(r, "error")
    PROVE  IInv'
<1>1. CASE role = "user" /\ ToModel(r)
  <2> DEFINE q == [stream[r] EXCEPT !.step = "llm", !.history = {}]
  <2>1. q \in Stream /\ q.step = "llm" /\ q.session = stream[r].session
        /\ q.told = stream[r].told /\ q.turn = stream[r].turn /\ q.at = stream[r].at
    BY Before DEF Stream, Steps
  <2>2. stream' = [stream EXCEPT ![r] = q]
    BY <1>1 DEF ToModel
  <2> HIDE DEF q
  <2>3. q.told # "done" /\ q.at <= clock /\ q.turn <= q.at
    BY <2>1, <1>1, Before
  <2>9. WriteStep(r, q, role)
    BY <1>1, <2>1, <2>2, <2>3 DEF WriteStep
  <2> QED
    BY <2>9, Writes
<1>2. CASE role = "assistant" /\ Go(r, "title")
  <2> DEFINE q == [stream[r] EXCEPT !.step = "title"]
  <2>1. q \in Stream /\ q.step = "title" /\ q.session = stream[r].session
        /\ q.told = stream[r].told /\ q.turn = stream[r].turn /\ q.at = stream[r].at
    BY Before DEF Stream, Steps
  <2>2. stream' = [stream EXCEPT ![r] = q]
    BY <1>2 DEF Go
  <2> HIDE DEF q
  <2>3. q.told # "done" /\ q.at <= clock /\ q.turn <= q.at
    BY <2>1, <1>2, Before
  <2>9. WriteStep(r, q, role)
    BY <1>2, <2>1, <2>2, <2>3 DEF WriteStep
  <2> QED
    BY <2>9, Writes
<1>3. CASE Ends(r, "error")
  <2> DEFINE q == Over(r, "error")
  <2>1. q \in Stream
    BY OverIsStream DEF Outcomes
  <2>2. q.step = "idle" /\ q.told = "error" /\ q.turn = 0 /\ q.at = 0
        /\ q.session = stream[r].session
    BY DEF Over
  <2>3. stream' = [stream EXCEPT ![r] = q]
    BY <1>3 DEF Ends, Over
  <2> HIDE DEF q
  <2>9. WriteStep(r, q, role)
    BY <2>1, <2>2, <2>3, Before DEF WriteStep
  <2> QED
    BY <2>9, Writes
<1> QED
  BY <1>1, <1>2, <1>3

LEMMA TitledInv ==
    ASSUME IInv, NEW r \in Streams, stream[r].step = "title",
           title' = [title EXCEPT ![stream[r].session] = stream[r].turn],
           UNCHANGED <<session, messages, clock, emptied, deleter>>,
           \/ stream' = [stream EXCEPT ![r].step = "idle", ![r].told = "done"]
           \/ Ends(r, "error")
    PROVE  IInv'
<1>1. CASE stream' = [stream EXCEPT ![r].step = "idle", ![r].told = "done"]
  <2> DEFINE q == [stream[r] EXCEPT !.step = "idle", !.told = "done"]
  <2>1. q \in Stream /\ q.step = "idle" /\ q.session = stream[r].session
        /\ q.turn = stream[r].turn /\ q.at = stream[r].at
    BY Before DEF Stream, Steps, Outcomes
  <2>2. stream' = [stream EXCEPT ![r] = q]
    BY <1>1
  <2> HIDE DEF q
  <2>9. TitleStep(r, q)
    BY <2>1, <2>2, Before DEF TitleStep
  <2> QED
    BY <2>9, Titles
<1>2. CASE Ends(r, "error")
  <2> DEFINE q == Over(r, "error")
  <2>1. q \in Stream
    BY OverIsStream DEF Outcomes
  <2>2. q.step = "idle" /\ q.told = "error" /\ q.turn = 0 /\ q.at = 0
        /\ q.session = stream[r].session
    BY DEF Over
  <2>3. stream' = [stream EXCEPT ![r] = q]
    BY <1>2 DEF Ends, Over
  <2> HIDE DEF q
  <2>9. TitleStep(r, q)
    BY <2>1, <2>2, <2>3, Before DEF TitleStep
  <2> QED
    BY <2>9, Titles
<1> QED
  BY <1>1, <1>2

LEMMA FailsInv ==
    ASSUME IInv, NEW r \in Streams, CallFails(r) PROVE IInv'
<1>1. Ends(r, "error") /\ UNCHANGED <<session, clock, emptied, deleter>>
  BY DEF CallFails
<1>2. CASE UNCHANGED <<messages, title>>
  BY <1>1, <1>2, EndsInv
<1>3. CASE /\ stream[r].step \in {"question", "answer"}
           /\ messages' = messages \cup
                {Written(r, IF At(r, "question") THEN "user" ELSE "assistant")}
           /\ UNCHANGED title
  <2> DEFINE role == IF At(r, "question") THEN "user" ELSE "assistant"
  <2>1. role \in Role /\ stream[r].step = (IF role = "user" THEN "question" ELSE "answer")
    BY <1>3 DEF Role, At
  <2>2. messages' = messages \cup {Written(r, role)}
    BY <1>3
  <2> HIDE DEF role
  <2> QED
    BY <1>1, <1>3, <2>1, <2>2, SavesInv
<1>4. CASE /\ At(r, "title")
           /\ title' = [title EXCEPT ![stream[r].session] = stream[r].turn]
           /\ UNCHANGED messages
  BY <1>1, <1>4, TitledInv DEF At
<1> QED
  BY <1>2, <1>3, <1>4 DEF CallFails

\* The streams of a stopped API are over; what was stored stays.
LEMMA RestartInv == ASSUME IInv, Restart PROVE IInv'
<1> USE DEF Restart, storeUnchanged
<1>1. \A r \in Streams : /\ stream'[r].step = "idle" /\ stream'[r].told = "gone"
                          /\ stream'[r].turn = 0 /\ stream'[r].at = 0
  OBVIOUS
<1>2. ASSUME NEW r \in Streams PROVE stream'[r] \in Stream
  <2>1. stream'[r] = Over(r, "gone")
    BY DEF Over
  <2> QED
    BY <2>1, OverIsStream DEF Outcomes
<1>3. stream' \in [Streams -> Stream]
  BY <1>2
<1>4. deleter' \in [Deleters -> Deleter]
  BY DEF IInv, TypeOK, Deleter
<1>5. TypeOK'
  BY <1>1, <1>3, <1>4 DEF IInv, TypeOK
<1>6. StreamInv'
  BY <1>1 DEF StreamInv, StreamOK, Prompted
<1>7. Survives
  BY NothingEmptied
<1>8. AnswersHaveQuestions' /\ TitleIsAnswered'
  BY <1>7, TurnsKept DEF IInv
<1> QED
  BY <1>5, <1>6, <1>8 DEF IInv

LEMMA StepInv == IInv /\ [Next]_vars => IInv'
<1> SUFFICES ASSUME IInv, [Next]_vars PROVE IInv'
  OBVIOUS
<1>1. CASE UNCHANGED vars
  BY <1>1 DEF IInv, vars, TypeOK, StreamInv, StreamOK, AnswersHaveQuestions,
              TitleIsAnswered, Kept, Of, Question, Written
<1>2. ASSUME NEW s \in Sessions, CreateSession(s) PROVE IInv'
  BY <1>2, CreateInv
<1>3. ASSUME NEW r \in Streams, NEW s \in Sessions, Ask(r, s) PROVE IInv'
  BY <1>3, AskInv
<1>4. ASSUME NEW r \in Streams, Answer(r) PROVE IInv'
  <2>1. CASE Retrieve(r) \/ Impact(r)
    BY <2>1, GoesOn
  <2>2. CASE History(r)
    BY <2>2, HistoryInv
  <2>3. CASE SaveQuestion(r)
    BY <2>3, SavesInv DEF SaveQuestion, At, Role
  <2>4. CASE LlmEnds(r)
    BY <2>4, LlmEndsInv
  <2>5. CASE LlmFails(r)
    BY <2>5, EndsInv DEF LlmFails, storeUnchanged
  <2>6. CASE SaveAnswer(r)
    BY <2>6, SavesInv DEF SaveAnswer, At, Role
  <2>7. CASE SetTitle(r)
    <3>1. CASE session[stream[r].session] = "open"
      BY <2>7, <3>1, TitledInv DEF SetTitle, At
    <3>2. CASE session[stream[r].session] # "open"
      BY <2>7, <3>2, EndsInv DEF SetTitle
    <3> QED
      BY <3>1, <3>2
  <2> QED
    BY <1>4, <2>1, <2>2, <2>3, <2>4, <2>5, <2>6, <2>7 DEF Answer
<1>5. ASSUME NEW r \in Streams, CallFails(r) PROVE IInv'
  BY <1>5, FailsInv
<1>6. ASSUME NEW r \in Streams, Disconnect(r) PROVE IInv'
  BY <1>6, EndsInv DEF Disconnect, storeUnchanged
<1>7. ASSUME NEW x \in Deleters, NEW s \in Sessions, BeginDelete(x, s) PROVE IInv'
  BY <1>7, BeginDeleteInv
<1>8. ASSUME NEW x \in Deleters, Purge(x) \/ DeleteSession(x) \/ DeleteFails(x) PROVE IInv'
  BY <1>8, DeletionInv
<1>9. CASE Restart
  BY <1>9, RestartInv
<1> QED
  BY <1>1, <1>2, <1>3, <1>4, <1>5, <1>6, <1>7, <1>8, <1>9 DEF Next

\* Streams, failures, clients that go away and deletions in any order preserve
\* the invariant.
THEOREM Inductive == Spec => []IInv
BY InitInv, StepInv, PTL DEF Spec

\* Every variable keeps its shape, and nothing is dated later than the clock.
THEOREM TypeCorrect == Spec => []TypeOK
<1>1. IInv => TypeOK
  BY DEF IInv
<1> QED
  BY <1>1, Inductive, PTL

\* ask_stream stores the question before it asks the model, so no answer is
\* without its question, unless the session was emptied after it was asked.
THEOREM AnswersHaveQuestionsAlways == Spec => []AnswersHaveQuestions
<1>1. IInv => AnswersHaveQuestions
  BY DEF IInv
<1> QED
  BY <1>1, Inductive, PTL

\* The done event comes last: when the client sees it both messages are stored.
THEOREM DoneIsStoredAlways == Spec => []DoneIsStored
<1>1. IInv => DoneIsStored
  BY DEF IInv, StreamInv, StreamOK, DoneIsStored
<1> QED
  BY <1>1, Inductive, PTL

\* The title is set after the answer is stored: it names an answered question.
THEOREM TitleIsAnsweredAlways == Spec => []TitleIsAnswered
<1>1. IInv => TitleIsAnswered
  BY DEF IInv
<1> QED
  BY <1>1, Inductive, PTL

-----------------------------------------------------------------------------
\* Every way a stream leaves its last await tells the client how it ended, or
\* finds that nobody listens.
THEOREM EndIsToldAlways == Spec => EndIsTold
<1> DEFINE Told == \A r \in Streams :
               stream[r].step # "idle" /\ stream'[r].step = "idle" => stream'[r].told # "none"
<1>1. IInv /\ [Next]_vars => Told
  <2> SUFFICES ASSUME IInv, [Next]_vars, NEW r \in Streams,
                      stream[r].step # "idle", stream'[r].step = "idle"
               PROVE  stream'[r].told # "none"
    OBVIOUS
  <2>0. stream \in [Streams -> Stream]
    BY DEF IInv, TypeOK
  <2>1. ASSUME NEW k \in Streams, NEW q, stream' = [stream EXCEPT ![k] = q],
               q.step # "idle" \/ q.told # "none" \/ stream[k].step = "idle"
        PROVE  stream'[r].told # "none"
    BY <2>0, <2>1
  <2>2. ASSUME NEW k \in Streams, NEW event, event # "none", Ends(k, event)
        PROVE  stream'[r].told # "none"
    BY <2>1, <2>2 DEF Ends
  <2>3. ASSUME NEW k \in Streams, NEW s \in Sessions, Ask(k, s) PROVE stream'[r].told # "none"
    <3>1. PICK q : stream' = [stream EXCEPT ![k] = q]
      BY <2>3 DEF Ask
    <3>2. stream[k].step = "idle"
      BY <2>3 DEF Ask, At
    <3> QED
      BY <2>1, <3>1, <3>2
  <2>4. ASSUME NEW k \in Streams, NEW next \in Steps \ {"idle"}, Go(k, next)
        PROVE  stream'[r].told # "none"
    <3> DEFINE q == [stream[k] EXCEPT !.step = next]
    <3>1. q.step = next /\ stream' = [stream EXCEPT ![k] = q]
      BY <2>0, <2>4 DEF Go, Stream
    <3> HIDE DEF q
    <3> QED
      BY <2>1, <3>1
  <2>5. ASSUME NEW k \in Streams, History(k) PROVE stream'[r].told # "none"
    <3> DEFINE q == [stream[k] EXCEPT !.step = "question",
                         !.history = Oldest(stream[k].session, MaxHistory),
                         !.turn = clock + 1, !.at = clock + 1]
    <3>1. q.step = "question" /\ stream' = [stream EXCEPT ![k] = q]
      BY <2>0, <2>5 DEF History, Stream
    <3> HIDE DEF q
    <3> QED
      BY <2>1, <3>1
  <2>6. ASSUME NEW k \in Streams, ToModel(k) PROVE stream'[r].told # "none"
    <3> DEFINE q == [stream[k] EXCEPT !.step = "llm", !.history = {}]
    <3>1. q.step = "llm" /\ stream' = [stream EXCEPT ![k] = q]
      BY <2>0, <2>6 DEF ToModel, Stream
    <3> HIDE DEF q
    <3> QED
      BY <2>1, <3>1
  <2>7. ASSUME NEW k \in Streams, LlmEnds(k) PROVE stream'[r].told # "none"
    <3> DEFINE q == [stream[k] EXCEPT !.step = "answer", !.at = clock + 1]
    <3>1. q.step = "answer" /\ stream' = [stream EXCEPT ![k] = q]
      BY <2>0, <2>7 DEF LlmEnds, Stream
    <3> HIDE DEF q
    <3> QED
      BY <2>1, <3>1
  <2>8. ASSUME NEW k \in Streams, SetTitle(k) PROVE stream'[r].told # "none"
    <3> DEFINE q == [stream[k] EXCEPT !.step = "idle", !.told = "done"]
    <3>1. q.told = "done"
      BY <2>0 DEF Stream
    <3>2. stream' = [stream EXCEPT ![k] = q] \/ Ends(k, "error")
      BY <2>8 DEF SetTitle
    <3> HIDE DEF q
    <3> QED
      BY <2>1, <2>2, <3>1, <3>2
  <2>9. ASSUME NEW k \in Streams, LlmFails(k) \/ CallFails(k) \/ Disconnect(k)
        PROVE  stream'[r].told # "none"
    BY <2>2, <2>9 DEF LlmFails, CallFails, Disconnect
  <2>10. ASSUME NEW k \in Streams, Retrieve(k) \/ Impact(k) \/ SaveQuestion(k) \/ SaveAnswer(k)
         PROVE  stream'[r].told # "none"
    BY <2>4, <2>6, <2>10 DEF Retrieve, Impact, SaveQuestion, SaveAnswer, Steps
  <2>11. CASE Restart
    BY <2>11 DEF Restart
  <2>12. CASE \/ UNCHANGED vars
              \/ \E s \in Sessions : CreateSession(s)
              \/ \E x \in Deleters : \/ \E s \in Sessions : BeginDelete(x, s)
                                     \/ Purge(x) \/ DeleteSession(x) \/ DeleteFails(x)
    BY <2>12 DEF vars, CreateSession, BeginDelete, Purge, DeleteSession, DeleteFails
  <2> QED
    BY <2>3, <2>5, <2>7, <2>8, <2>9, <2>10, <2>11, <2>12 DEF Next, Answer
<1>2. IInv /\ [Next]_vars => [Told]_vars
  BY <1>1
<1>3. [][Told]_vars => EndIsTold
  BY DEF EndIsTold
<1> QED
  BY <1>2, <1>3, Inductive, PTL DEF Spec
================================================================================
