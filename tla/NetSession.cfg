SPECIFICATION FairSpec
CONSTANTS
    a = a
    b = b
    e1 = e1
    e2 = e2
    e3 = e3
    NULL = NULL
    Node = {a, b}
    Endpoint = {e1, e2, e3}
    Home <- MCHome
    MaxKCP = 2
    MaxEvent = 2
INVARIANT ApplicationKnowsSessions
PROPERTIES
    HalfOpenEnds
    ExchangeEnds
CHECK_DEADLOCK FALSE
