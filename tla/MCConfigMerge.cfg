CONSTANTS
    r1 = r1
    r2 = r2
    Requests = {r1, r2}
    Shapes <- AnyAndSharing
    Api = Api
    Nobody = Nobody
SPECIFICATION Spec
INVARIANTS
    TypeOK
    MergedAsLayered
    ApiIntact
    SharedWrites
CHECK_DEADLOCK FALSE
