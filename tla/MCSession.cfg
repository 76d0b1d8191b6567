SPECIFICATION Spec
CONSTANTS
    Main = Main
    Poller = Poller
    User = User
    Threads = {Main, Poller}
    NoThread = NoThread
    Messages = {1, 2, 3}
    NoId = 0
    EndMessages = {3}
    kMaxSeenIds = 3
    kMaxHandshakeFails = 2
    Options <- AllModes
    MaxRuns = 2
    MaxDisconnects = 1
CONSTRAINTS
    SecondRunIsSimple
    NoGiftListInDual
INVARIANTS
    TypeOK
    CallbacksSerialized
    NetSerialized
    PollNeverSkips
    PollingGapless
    TransportsOutlastFailures
PROPERTIES
    FlagsOneWay
    LiveEndStopsTransports
    ImplementsEventStream
