CONSTANTS
    reg = reg
    a = a
    b = b
    Msg <- MCMsg
    Register <- MCRegister
    QueueMax = 2
    CoreQLen = 3
    MaxOther = 2
SPECIFICATION Spec
INVARIANT EmptyQueueHandled
