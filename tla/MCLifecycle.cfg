CONSTANTS
    Workers = {w1, w2, w3}
    Packages = {kafka, nginx}
    FrameworkPkgs = {kafka}
    AppIds = {a, b}
    Operations = {"install", "uninstall", "shutdown"}
    Scenarios = {{"error", "status", "refuse", "zookeeper", "mesos"}, {"error"}, {}}
    None = None
SPECIFICATION Spec
SYMMETRY Symmetry
INVARIANTS
    TypeOK
    UninstallsDistinct
    SuccessIsClean
    CreatedMeansInstalled
PROPERTIES
    SparesOthers
CHECK_DEADLOCK FALSE
