SPECIFICATION Spec
CONSTANTS
    b1 = b1
    v1 = v1
    v2 = v2
    v3 = v3
    f1 = f1
    Businesses = {b1}
    Providers <- ProvidersOf
    Venues = {v1, v2, v3}
    Unknown = {f1}
    Edited = {"category", "option", "value"}
    MaxEdits = 1
SYMMETRY Symmetry
INVARIANT TypeOK
INVARIANT SyncedAsOrdered
INVARIANT NothingStranded
