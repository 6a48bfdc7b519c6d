\* A seal, backups that run before and while it does, and the server.
CONSTANTS
    Ids = {i1}
    None = None
    i1 = i1
    s1 = s1
    Seals = {s1}
    Named = Named
    Foreign = Foreign
    MaxSnapshots = 2
    MaxFaults = 2
    RemoteKeep = 1
SPECIFICATION Spec
INVARIANTS
    TypeOK
    SealSeesTorn
    SealedIsRestored
    NothingLeftBehind
    QuietSealPasses
PROPERTIES
    ForeignSpared
