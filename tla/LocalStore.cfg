CONSTANTS
    f = f
    g = g
    Field <- MCField
    Masks <- AnyMask
    MaxWrites = 3
    MaxVersion = 4
SPECIFICATION Spec
INVARIANTS
    TypeOK
    SyncedCopyIsTheServers
    ViewSettles
    DistinctWritesAreApplied
PROPERTY CacheNeverGoesBack
