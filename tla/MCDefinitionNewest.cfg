CONSTANTS
    v1 = v1
    v2 = v2
    Repos = {0}
    Indexes = {9, 10}
    Files = {2, 3, 5}
    Versions = {v1, v2}
    Names <- TwoNames
    Texts = {a}
    Trees <- JustBase
    Wanted = {None}
    Syncs = {s1}
    MaxSyncs = 1
    Absent = Absent
    Empty = Empty
    Malformed = Malformed
    None = None
SPECIFICATION Spec
INVARIANTS
    NewestChosen
CHECK_DEADLOCK FALSE
