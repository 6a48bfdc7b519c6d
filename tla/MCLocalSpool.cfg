\* Two hooks, one syncer, two events each captured up to twice.
CONSTANTS
    Events = {e1, e2}
    Malformed = {}
    Undecodable = {}
    Hooks = {h1, h2}
    Syncers = {s1}
    None = None
    e1 = e1
    e2 = e2
    e3 = e3
    m1 = m1
    u1 = u1
    h1 = h1
    h2 = h2
    s1 = s1
    s2 = s2
    MaxItems = 2
    MaxSent = 1
    MaxTries = 2
    MaxKills = 1
    MaxOutages = 1
SYMMETRY HookSymmetry
SPECIFICATION Spec
INVARIANTS
    PromisedNeverLost
    
