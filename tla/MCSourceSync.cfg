CONSTANTS
    daemon = daemon
    command = command
    mesosphere = mesosphere
    mantl = mantl
    Procs = {daemon, command}
    Daemons = {daemon}
    Forced = {command}
    Sources = {mesosphere, mantl}
    GitSources = {mesosphere}
    Index <- TwoIndexes
    Files = {1, 2}
    Trees <- OneFileOrTwo
    Faults = {"get", "walk"}
    MaxRev = 2
    MaxFaults = 1
    None = None
CONSTRAINTS OneFault OneEdited
SPECIFICATION FairSpec
INVARIANTS
    TypeOK
    TimestampMeansComplete
    AloneIsFresh
PROPERTIES
    NoRegressionAlone
    RepositoriesSpec
    EventuallySynced
CHECK_DEADLOCK FALSE
