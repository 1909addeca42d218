CONSTANTS
    Workers = {w1, w2}
    Packages = {kafka, nginx}
    FrameworkPkgs = {kafka}
    AppIds = {a, b}
    Operations = {"install", "uninstall"}
    Scenarios = {{"status"}}
    None = None
SPECIFICATION Spec
PROPERTIES
    NotFoundMeansAbsent
CHECK_DEADLOCK FALSE
