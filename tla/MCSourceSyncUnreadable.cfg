CONSTANTS
    daemon = daemon
    command = command
    mesosphere = mesosphere
    mantl = mantl
    Procs = {daemon}
    Daemons = {daemon}
    Forced = {}
    Sources = {mantl}
    GitSources = {}
    Index <- OneIndex
    Files = {1, 2}
    Trees <- TwoFiles
    Faults = {"walk"}
    MaxRev = 1
    MaxFaults = 0
    None = None
SPECIFICATION Spec
INVARIANTS
    StampedExists
CHECK_DEADLOCK FALSE
