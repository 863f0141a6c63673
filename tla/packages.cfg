\* Pairing and the session with the server, over the same package reader.
SPECIFICATION Spec
CONSTANTS
    Size = 5
    Requests <- AppRequests
    Timeout = 2
    MaxEvents = 2
    MaxAsked = 3
    NoReader = NoReader
    Segment = 4
    Width = 4
    Frames <- ServerFrames
    MaxFlight = 2
    MaxPings = 2
    MaxPosted = 1
    MaxSent = 1
    MaxFault = 1
\* A device at work, and a session with a quiet server, may rest.
CHECK_DEADLOCK FALSE
INVARIANT NoNullBuffer
INVARIANT StartedOnce
INVARIANT QuietAtWork
INVARIANT PairingServes
INVARIANT FramesIntact
INVARIANT PingsBalance
PROPERTY PairingEnds
PROPERTY DeadPeerNoticed
