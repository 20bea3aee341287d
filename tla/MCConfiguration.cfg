SPECIFICATION Spec
CONSTANTS
    None = None
    Adapters = {"direct", "elfin_ew11"}
    Hosts = {"near", "far"}
    Slaves = {247}
    Names = {"House", "house"}
    Prefixes = {"house", ""}
    Attached <- MCAttached
    Slug <- MCSlug
    left = left
    right = right
    Tabs <- MCTabs
    OldProtocols = {"tcp"}
    MaxInverters = 2
    MaxOpened = 2
SYMMETRY TabsAlike
INVARIANTS
    TypeOK
    InvertersDistinct
PROPERTIES
    ChangesContained
CHECK_DEADLOCK FALSE
