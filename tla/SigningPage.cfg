SPECIFICATION PageSpec
CONSTANTS
    Names = {ttwid}
    Values = {v1}
    Absent = Absent
    EvalFails = TRUE
    MaxRuntimes = 2
    MaxFailures = 1
    kMaxJobs = 1
    kMaxTimers = 1
    MaxTimerId = 2
    MaxJobs = 1
    Listeners = {f}
    Watched = {"readystatechange"}
    MaxOps = 3
INVARIANTS
    TypeOK
    OnlyFinishedEngineSigns
    EvaluatesInOwnContext
    LeaksOnePerFailure
    DrainEmptiesOrGivesUp
    EachListenerOnce
PROPERTIES
    EngineReused
    ImplementsTaskQueue
    NothingDeferredRuns
