\* Two syncers over an event and a malformed file, one of them killed.
CONSTANTS
    Events = {e1}
    Malformed = {m1}
    Undecodable = {}
    Hooks = {h1}
    Syncers = {s1, s2}
    None = None
    e1 = e1
    e2 = e2
    e3 = e3
    m1 = m1
    u1 = u1
    h1 = h1
    h2 = h2
    s1 = s1
    s2 = s2
    MaxItems = 2
    MaxSent = 1
    MaxTries = 2
    MaxKills = 1
    MaxOutages = 1
SPECIFICATION FairSpec
INVARIANTS
    SentIsStored
    QuarantineExact
PROPERTIES
    ImplementsOutbox
    EventuallyStored
