\* Two indexers, two models, a refused record ahead of the others.
CONSTANTS
    RecordCount = 3
    Poison = {1}
    Models = {ma, mb}
    Dims = {1}
    Workers = {w1, w2}
    None = None
    ma = ma
    mb = mb
    w1 = w1
    w2 = w2
    PageSize = 2
    Limit = 2
    MaxFailures = 1
SPECIFICATION FairSpec
INVARIANTS
    TypeOK
    MarkedHasVector
    
PROPERTIES
    EventuallyIndexed
