CONSTANTS
    Nodes <- MCNodes
    Root = 0
    Parent <- MCParent
    Above <- MCAbove
    Deleters = {c1, c2, c3}
SPECIFICATION FairSpec
INVARIANTS
    TypeOK
    QuietRemoval
PROPERTIES
    RemovalSpec
    DeleteEnds
CHECK_DEADLOCK FALSE
