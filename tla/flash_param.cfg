CONSTANTS
    v1 = v1
    v2 = v2
    v3 = v3
    Blank = Blank
    Torn = Torn
    NoValue = NoValue
    Default = v1
    Value <- MCValue
SPECIFICATION MCSpec
INVARIANT FlashInv
INVARIANT FactoryBoots
PROPERTY BootReadsIntact
PROPERTY LiveSlotUntouched
PROPERTY AtomicSave
