CONSTANTS
    Scenes <- RecoveryScenes
SPECIFICATION FairSpec
PROPERTY Reconnects
