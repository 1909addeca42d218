CONSTANTS
    Setups <- Various
    Sources <- TwoSources
    Default <- Universe
    Index <- Indexes
    MaxFaults = 2
SPECIFICATION FairSpec
INVARIANTS
    TypeOK
    ServesSynced
    ServesReachable
    ServesWithSecrets
PROPERTIES
    EventuallyServes
CHECK_DEADLOCK FALSE
