CONSTANTS
    v1 = v1
    v2 = v2
    v3 = v3
    v4 = v4
    n1 = n1
    n2 = n2
    c1 = c1
    c2 = c2
    e1 = e1
    o1 = o1
    o2 = o2
    Ids = {v1, v2, v3, v4}
    Inventories <- TwoVms
    Files <- SomeFiles
    Clusters = {c1, c2}
    Texts = {n1, n2, e1, o1, o2}
    Owners = {o2}
    Blank = Blank
    Ips = {ip1, ip2, ip3, ip4}
    MaxNetworks = 2
    MaxMentions = 2
    NoVm = NoVm
    Gone = Gone
    NoFile = NoFile
    MaxPreviews = 2
    MaxCommits = 2
    MaxEdits = 1

SPECIFICATION MCSpec

PROPERTY AddressesOnlyAdded

CHECK_DEADLOCK FALSE
