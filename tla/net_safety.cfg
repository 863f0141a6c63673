CONSTANTS
    Scenes <- SafetyScenes
SPECIFICATION Spec
CONSTRAINT NotForced
INVARIANT NormalAlive
PROPERTY PairingHolds
