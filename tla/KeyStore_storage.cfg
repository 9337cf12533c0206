SPECIFICATION Spec
CONSTANTS
    Pubs = {k1, k2}
    Passwords = {p, q}
    NoPassword = NoPassword
    Renames = {TRUE}
    Delays = {1}
    MaxNow = 2
    MaxMasters = 2
INVARIANT KeysOpen
INVARIANT UnlockedReads
INVARIANT KeysSurvive
