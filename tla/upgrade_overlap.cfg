CONSTANTS
    Latest = 2
    Size = 2
    SectorLen = 2
    LastLen = 1
    Tries = 2
    MaxBacklog = 1
    OneAtATime = FALSE
    Junk = Junk
    None = None
SPECIFICATION Spec
PROPERTY BootsVerified
