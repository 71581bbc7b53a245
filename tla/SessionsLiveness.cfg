SPECIFICATION Spec
CONSTANTS
    Requests = {r1, r2, r3}
    Ids = {s1}
    Timeout = 1
    Slack = 1
    MaxClock = 2
    MaxAnswers = 2
PROPERTIES
    DeadSessionsForgotten
    RequestsEnd
CHECK_DEADLOCK FALSE
