CONSTANTS
    Byte <- MCByte
    Size = 4
    Half = 4
    AA = 5
    B55 = 1
    Ext2Len = 1
    Ext4Len = 2
    CrcLen = 1
    BufMax = 5
    IdxMod = 3
    TimeoutTime = 2
    Crc <- MCCrc
    IsArray <- MCIsArray
    Sent <- MCSent
    Noise <- MCNoise
    MaxSpent = 3
SPECIFICATION FairSpec
PROPERTIES
    RingIsFifo
    ReadsWhatIsThere
    GoodFrameAccepted
    FrameEnds
