CONSTANTS
    m1 = m1
    m2 = m2
    a1 = a1
    a2 = a2
    b1 = b1
    b2 = b2
    Msg <- MCMsg
    Says <- MCSays
    Mode = {"WORK_NORMAL", "WORK_AP_ERR", "UPGRADE"}
    QueueMax = 3
    EventMax = 2
    LineMax = 2
SPECIFICATION MCSpec
CHECK_DEADLOCK FALSE
INVARIANT SubscriberKnows
PROPERTY AnswerIsForHead
PROPERTY StallsOnlyByAnswer
PROPERTY HeadLeaves
