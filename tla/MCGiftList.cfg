SPECIFICATION Spec
CONSTANTS
    Main = Main
    Poller = Poller
    User = User
    Threads = {Main, Poller}
    NoThread = NoThread
    Messages = {1}
    NoId = 0
    EndMessages = {1}
    kMaxSeenIds = 3
    kMaxHandshakeFails = 2
    Options <- DualMode
    MaxRuns = 1
    MaxDisconnects = 0
INVARIANTS
    NetExclusive
