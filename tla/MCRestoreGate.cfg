CONSTANTS
    NoToken = NoToken
    Requests = {r1, r2}
    Restores = {s1, s2}
    Users = {u1, u2}
    MaxCrashes = 1

SPECIFICATION BoundedSpec

SYMMETRY Symmetry

INVARIANTS
    HandlersSeeOneDatabase
    RestoreRevokesSessions
    AcknowledgedWritesRecoverable
    CutoverStaysAuthorized

PROPERTIES
    NoResurrection
