SPECIFICATION Spec
CONSTANTS
    k1 = k1
    k2 = k2
    Runs = {k1, k2}
    Formal = {k1}
    MaxStreams = 1
    MaxDisturbances = 2
INVARIANTS TypeOK  AnswersBacked
PROPERTIES AnswerKept RunsEndSettled
\* With every run settled nothing is left to do.
CHECK_DEADLOCK FALSE
