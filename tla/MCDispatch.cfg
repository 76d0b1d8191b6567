SPECIFICATION MCSpec
CONSTANTS
    Threads = {ws, poll}
    NoThread = NoThread
    Messages = {m1, m2, m3, m4}
    NoId = NoId
    EndMessages = {m4}
    kMaxSeenIds = 2
    MaxDelivered = 6
INVARIANTS
    DispatchTypeOK
    SeenInStep
    WindowIsRecent
    NoRepeatInWindow
