\* A client that scans and searches while an indexer works and records arrive.
CONSTANTS
    RecordCount = 3
    Poison = {}
    Models = {ma, mb}
    Dims = {1}
    Workers = {w1}
    None = None
    ma = ma
    mb = mb
    w1 = w1
    PageSize = 2
    Limit = 2
    MaxFailures = 1
    Foreign = {2}
    Matching <- MCMatching
    TopK = 2
    LexicalMax = 6
SYMMETRY ModelSymmetry
SPECIFICATION RetrievalSpec
INVARIANTS
    RetrievalTypeOK
    ScanComplete
    VectorHidesUnindexed
    WordsReachAll
