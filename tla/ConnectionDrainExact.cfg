CONSTANTS
    Writers = {r1}
    Restores = {s1}
    MaxConnections = 2

SPECIFICATION DrainSpec

INVARIANT
    RecoveryArchiveIsExact
