CONSTANTS
    Dumps = {d1, d2, d3}
    Retention = 1
    MaxCrashes = 1
    Writers = {w1, w2}
    Restores = {t1, t2}
    MaxConnections = 2

SPECIFICATION PartsSpec

SYMMETRY Symmetry

INVARIANTS
    InFlightArchiveKept
    NewestArchivesKept
    SuccessHadArchive
    PartialsReclaimed
    StraysPassRoomyDrains
    RecoveryLacksOnlyAbandoned
