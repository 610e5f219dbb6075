CONSTANTS
    c1 = c1
    c2 = c2
    Client = {c1, c2}
    Sent <- Requests
    LoginLimit = 1
    RefreshLimit = 2
    DefaultLimit = 3
    Ttl = 2
    MaxTime = 3
    MaxSent = 3
    MaxStops = 1
SYMMETRY Alike
SPECIFICATION Spec
INVARIANTS TypeOK AnswersAsDocumented LoginBudget RefusalsEarned
CHECK_DEADLOCK FALSE
