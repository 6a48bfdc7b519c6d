\* Two concurrent puts of two ids with conflicting contents, one consumer.
CONSTANTS
    Clients = {c1, c2}
    Ids = {i1, i2, i3}
    Bodies = {b1, b2}
    NoBody = NoBody
    SeqPoint = SeqPoint
    Consumers = {k1}
    c1 = c1
    c2 = c2
    i1 = i1
    i2 = i2
    i3 = i3
    b1 = b1
    b2 = b2
    k1 = k1
    Limit = 1
    ScrollCap = 3
    MaxTime = 1
    MaxCalls = 3
    MaxCrashes = 2
    MaxAcks = 1
    LateWrites = FALSE
SPECIFICATION Spec
SYMMETRY ClientSymmetry
INVARIANTS
    AnsweredPutIsStored
    ClockCoversRaw
    NoSkip
    AckedWasDelivered
PROPERTIES
    ImplementsStream
