CONSTANTS
    Accents = {orange, violet, blue}
    DefaultAccent = orange
    Unknown = Unknown
    MaxChoices = 3
    k1 = k1
    k2 = k2
    k3 = k3
    Keys = {k1, k2, k3}
    Default <- ThreeColumns
    OldKey = k0
    NewKey = k2
    GoneKey = gone
    MaxEdits = 2
    MaxVisits = 2
    Vms = {v1, v2}
    Dates = {d1}
    NotDue = NotDue
    Unacked = Unacked
    MaxCalls = 2
    MaxChanges = 1
    Unused = Unused

SPECIFICATION PagesSpec

SYMMETRY Symmetry

INVARIANTS
    ChoiceSettles
    EveryColumnOnce
    EditsAreSaved
    ListIsServers

CHECK_DEADLOCK FALSE
