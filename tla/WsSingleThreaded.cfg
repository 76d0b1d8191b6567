SPECIFICATION Spec
CONSTANTS
    MaxConnects = 1
    MaxCloses = 1
    MaxMessages = 1
    MaxParts = 1
    ControlFrames = FALSE
INVARIANTS
    SingleThreadedUse
