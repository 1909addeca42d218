CONSTANTS
    v1 = v1
    v2 = v2
    Repos = {0, 1}
    Indexes = {1, 2}
    Files = {2, 3, 5}
    Versions = {v1, v2}
    Names <- SecondMayPanic
    Texts = {a, b, Empty}
    Trees <- BasesAndOverlays
    Wanted = {v1, None}
    Syncs = {s1, s2}
    MaxSyncs = 2
    Absent = Absent
    Empty = Empty
    Malformed = Malformed
    None = None
CONSTRAINT Undecided
SYMMETRY Sym
SPECIFICATION Spec
INVARIANTS
    TypeOK
    FilesWereCurrent
    SupportedHasOptions
    ListedIsComplete
    RequestHonoured
    NewestChosen
PROPERTY RepositoriesSpec
CHECK_DEADLOCK FALSE
