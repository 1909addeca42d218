CONSTANTS
    Instances = {n1, n2}
    Keys = {0, 1, 2}
    AppsRoot = 0
    MaxPuts = 2
    MaxFaults = 1
    AppId <- OneApp
    Answering = {n2}
    NoCall = NoCall
CONSTRAINTS FolderOnce OneFault OneLate
SPECIFICATION CallFairSpec
INVARIANTS
    TypeOK
    NoSilentLoss
    AttemptsBounded
    CallTypeOK
    GoneStaysGone
PROPERTIES
    QueueSpec
    AnsweredFirst
    QueueDrains
