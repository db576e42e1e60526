CONSTANTS
    Vms = {v1, v2}
    NoVm = NoVm
    Requests = {r1, r2}
    o1 = o1
    NoOwner = NoOwner
    Owners = {o1, NoOwner}
    t1 = t1
    Tags = {t1}
    NoTag = NoTag
    Same = Same
    FirstDisks = {d1, d2}
    NoDisk = NoDisk
    Edits <- SmallEdits

SPECIFICATION FairSpec

INVARIANTS
    BulkReportIsTrue
    NoWriteIsLost
    LogAccountsForRow
    ScoreIsCurrent

PROPERTIES
    EveryRequestEnds
