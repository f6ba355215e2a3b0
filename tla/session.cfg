SPECIFICATION FairSpec
CONSTANTS
    Browsers = {b1, b2}
    Nobody = Nobody
    Timeout = 1
    SeedsRepeat = FALSE
    Named = {b2}
    MaxTime = 2
    MaxSession = 2
    MaxRestarts = 1
INVARIANTS
    SessionsNotShared
PROPERTIES
    CookieOutlivesSession
    ImplementsStore
    RequestsAnswered
\* A server that has died for the last time does nothing more.
CHECK_DEADLOCK FALSE
