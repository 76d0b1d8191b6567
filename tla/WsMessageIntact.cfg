SPECIFICATION Spec
CONSTANTS
    MaxConnects = 2
    MaxCloses = 0
    MaxMessages = 2
    MaxParts = 2
    ControlFrames = FALSE
INVARIANTS
    MessageIntact
