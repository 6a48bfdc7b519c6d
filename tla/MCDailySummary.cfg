\* A timer and an operator, two conversations, a failure.
CONSTANTS
    Keys <- MCKeys
    Transcripts <- MCTranscripts
    Refused <- NoKeys
    Timer = Timer
    Operator = Operator
    None = None
    Lookback = 2
    MaxSessions = 2
    MergeFit = 2
    MaxChunks = 3
    Length <- MCLength
    LastDay = 2
    MaxManual = 1
    MaxFaults = 1
SPECIFICATION FairSpec
INVARIANTS
    TypeOK
    CompletedIsCaptured
PROPERTIES
    SummarisedOnce
    EntriesStay
    
