\* Two archivers, the cloud backup, a restore and the server on one collection.
CONSTANTS
    Ids = {i1}
    None = None
    i1 = i1
    a1 = a1
    a2 = a2
    Archivers = {a1, a2}
    MaxSnapshots = 2
    MaxFaults = 2
    Retention = 1
    RemoteKeep = 1
SYMMETRY ArchiverSymmetry
SPECIFICATION Spec
INVARIANTS
    TypeOK
    LatestRecoverable
    
    PointerProven
PROPERTIES
    
    CopiedBeforeDeleted
