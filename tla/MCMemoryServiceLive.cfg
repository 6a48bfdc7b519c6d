\* Writes that outlive their callers: what still must happen.
CONSTANTS
    Clients = {c1, c2}
    Ids = {i1, i2}
    Bodies = {b1}
    NoBody = NoBody
    SeqPoint = SeqPoint
    Consumers = {k1}
    c1 = c1
    c2 = c2
    i1 = i1
    i2 = i2
    i3 = i3
    b1 = b1
    b2 = b2
    k1 = k1
    Limit = 1
    ScrollCap = 2
    MaxTime = 1
    MaxCalls = 3
    MaxCrashes = 1
    MaxAcks = 0
    LateWrites = TRUE
SPECIFICATION FairSpec
PROPERTIES
    PutAnswered
    
