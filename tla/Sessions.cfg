SPECIFICATION Safety
CONSTANTS
    Requests = {r1, r2, r3}
    Ids = {s1, s2}
    Timeout = 1
    Slack = 1
    MaxClock = 2
    MaxAnswers = 2
SYMMETRY Symmetry
INVARIANTS
    TypeOK
    SequentialRepliesMatch
    OwnSweepSpares
    MissingMeansDead
    LiveProcessesHeld
PROPERTIES
    SweepsCatchIdle
CHECK_DEADLOCK FALSE
