SPECIFICATION Spec
CONSTANTS
    Main = Main
    Poller = Poller
    User = User
    Threads = {Main, Poller}
    NoThread = NoThread
    Messages = {1, 2, 3}
    NoId = 0
    EndMessages = {3}
    kMaxSeenIds = 3
    kMaxHandshakeFails = 2
    Options <- DualMode
    MaxRuns = 1
    MaxDisconnects = 0
INVARIANTS
    DualCountsAll
