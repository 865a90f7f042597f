SPECIFICATION FairReadbackSpec
CONSTANTS
    conn = conn
    site = site
    fan = fan
    ahu = ahu
    demo = demo
    Dis = {conn, site, fan, ahu, demo}
    NoDis = NoDis
    Value = {1}
    Conn = conn
    Site = site
    Fixture = demo
    Fed <- MCFed
    Unfed <- MCUnfed
    Own <- MCOwn
    Equips <- MCEquips
    EquipOf <- MCEquipOf
    NumLibs = 1
    MaxRuns = 2
    MaxLate = 1
    LateKinds = {"equip"}
    MaxBridgeStarts = 1
    Unseen = Unseen
    NoTags = NoTags
INVARIANTS NoDuplicates DoneMeansProvisioned BridgedTagsWhole EquipRefResolves
PROPERTY ReadbackFollows
CHECK_DEADLOCK FALSE
