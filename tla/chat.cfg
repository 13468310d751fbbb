SPECIFICATION Spec
CONSTANTS
    s1 = s1
    r1 = r1
    r2 = r2
    x1 = x1
    x2 = x2
    Sessions = {s1}
    Streams = {r1, r2}
    Deleters = {x1, x2}
    MaxHistory = 2
    MaxClock = 6
    Faults = {"call", "llm", "disconnect", "restart"}
INVARIANTS AnswersHaveQuestions DoneIsStored TitleIsAnswered
PROPERTY EndIsTold
CHECK_DEADLOCK FALSE
