SPECIFICATION Spec
CONSTANTS
    Tokens = {t1, t2, t3}
    NoToken = NoToken
    Keep = Keep
    Requests = {r1, r2}
    NoRequest = NoRequest
    MaxFailed = 2
    MaxStamp = 1
SYMMETRY Symmetry
INVARIANTS
    LogoutEndsTheSession
CHECK_DEADLOCK FALSE
