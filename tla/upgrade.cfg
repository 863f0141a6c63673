CONSTANTS
    Latest = 1
    Size = 2
    SectorLen = 2
    LastLen = 1
    Tries = 2
    MaxBacklog = 2
    OneAtATime = TRUE
    Junk = Junk
    None = None
SPECIFICATION FairSpec
INVARIANT IndexFollows
PROPERTY BootsVerified
PROPERTY RecordsWhatIsThere
PROPERTY TimeoutBites
