CONSTANTS
    Workers = {w1, w2}
    Packages = {kafka, nginx}
    FrameworkPkgs = {kafka}
    AppIds = {a}
    Operations = {"install", "uninstall"}
    Scenarios = {{"zookeeper"}}
    None = None
SPECIFICATION FairSpec
PROPERTIES
    StateRemoved
CHECK_DEADLOCK FALSE
