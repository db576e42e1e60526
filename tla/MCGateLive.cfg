CONSTANTS
    NoToken = NoToken
    Requests = {r1, r2}
    Restores = {s1}
    Users = {u1}
    MaxCrashes = 2
    Procs = {p1, p2}
    NoProc = NoProc
    Stagings = {staging1}
    Interval = 5
    Patience = 2

SPECIFICATION PartsSpec

INVARIANTS
    StartsUpgrade
    ServesBrieflyWithoutLease

PROPERTIES
    GateServesEveryone
    KeepsPromise
    OwnersStagingKept
