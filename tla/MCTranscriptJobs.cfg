\* A transcript queued up to twice, behind a malformed job and one whose
\* transcript is gone, with one kill or power loss.
CONSTANTS
    Transcripts = {t1}
    Missing = {x1}
    Bad = {b1}
    Invalid = {}
    Hooks = {h1}
    Daemons = {d1}
    None = None
    t1 = t1
    t2 = t2
    x1 = x1
    b1 = b1
    h1 = h1
    h2 = h2
    d1 = d1
    d2 = d2
    ChunkTurns = 2
    MaxJobs = 2
    MaxTurns = 4
    MaxQueues = 2
    MaxFailures = 1
SPECIFICATION FairSpec
INVARIANTS
    QueuedKept

    
