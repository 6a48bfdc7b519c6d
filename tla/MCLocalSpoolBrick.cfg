\* A file that is not UTF-8 ahead of a captured event.
CONSTANTS
    Events = {e1}
    Malformed = {}
    Undecodable = {u1}
    Hooks = {h1}
    Syncers = {s1}
    None = None
    e1 = e1
    e2 = e2
    e3 = e3
    m1 = m1
    u1 = u1
    h1 = h1
    h2 = h2
    s1 = s1
    s2 = s2
    MaxItems = 2
    MaxSent = 1
    MaxTries = 2
    MaxKills = 0
    MaxOutages = 0
SPECIFICATION FairSpec
PROPERTIES
    EventuallyStored
