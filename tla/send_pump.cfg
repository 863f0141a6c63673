CONSTANTS
    reg = reg
    a = a
    b = b
    Msg <- MCMsg
    Register <- MCRegister
    QueueMax = 2
    CoreQLen = 3
    MaxOther = 2
SPECIFICATION FairSpec
INVARIANT OnePump
INVARIANT SentOnce
PROPERTY StopsOnlyOffline
PROPERTY HeadLeaves
