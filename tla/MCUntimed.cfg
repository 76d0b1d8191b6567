SPECIFICATION UntimedSpec
CONSTANTS
    Main = Main
    Poller = Poller
    User = User
    Threads = {Main, Poller}
    NoThread = NoThread
    Messages = {1, 2}
    NoId = 0
    EndMessages = {2}
    kMaxSeenIds = 3
    kMaxHandshakeFails = 2
    Options <- DualMode
    MaxRuns = 1
    MaxDisconnects = 1
PROPERTIES
    StopEndsRun
