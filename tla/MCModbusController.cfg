SPECIFICATION Spec
CONSTANTS
    soc = soc
    power = power
    version = version
    None = None
    Addresses <- MCAddresses
    Values <- MCValues
    Entities <- MCEntities
    AddressesOf <- MCAddressesOf
    PollTypeOf <- MCPollTypeOf
    Profile <- MCProfile
    MaxRead = 4
    FailedPollsForDisconnection = 2
    MaxChanges = 1
INVARIANTS
    TypeOK
    TracksListeners
    ConnectionConsistent
    ShowsAvailability
    SnapshotConsistent
    RequestAdmissible
PROPERTIES
    KeepsPromise
CHECK_DEADLOCK FALSE
