CONSTANTS
    Workers = {w1, w2}
    Packages = {kafka, nginx}
    FrameworkPkgs = {kafka}
    AppIds = {a}
    Operations = {"install", "uninstall"}
    Scenarios = {{}}
    None = None
SPECIFICATION FairSpec
PROPERTIES
    FrameworkRemoved
CHECK_DEADLOCK FALSE
