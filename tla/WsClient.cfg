SPECIFICATION Spec
CONSTANTS
    MaxConnects = 3
    MaxCloses = 1
    MaxMessages = 2
    MaxParts = 2
    ControlFrames = TRUE
INVARIANTS
    TypeOK
    DamageConfined
    InServerOrder
    HandlesAliveWithoutOverlap
