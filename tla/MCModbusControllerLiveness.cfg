SPECIFICATION FairSpec
CONSTANTS
    soc = soc
    power = power
    version = version
    None = None
    Addresses <- PairAddresses
    Values <- PairValues
    Entities <- PairEntities
    AddressesOf <- PairAddressesOf
    PollTypeOf <- PairPollTypeOf
    Profile <- PlainProfile
    MaxRead = 3
    FailedPollsForDisconnection = 2
    MaxChanges = 1
PROPERTIES
    WriteOutlivesPoll
    RefreshEnds
    ComesBack
    GoesAway
    Converges
CHECK_DEADLOCK FALSE
