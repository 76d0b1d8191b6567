SPECIFICATION Spec
CONSTANTS
    MaxConnects = 2
    MaxCloses = 1
    MaxMessages = 1
    MaxParts = 1
    ControlFrames = FALSE
INVARIANTS
    HandlesInUseAreAlive
