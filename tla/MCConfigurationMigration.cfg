SPECIFICATION Spec
CONSTANTS
    None = None
    Adapters = {"direct", "elfin_ew11"}
    Hosts = {"near", "far"}
    Slaves = {247}
    Names = {"House", "house"}
    Prefixes = {"house", ""}
    Attached <- MCAttached
    Slug <- MCSlug
    left = left
    right = right
    Tabs <- MCTabs
    OldProtocols = {"tcp"}
    MaxInverters = 2
    MaxOpened = 0
PROPERTIES
    MigrationKeepsInverters
CHECK_DEADLOCK FALSE
