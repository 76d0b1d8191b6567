----------------------------- MODULE EventLoop -----------------------------
(***************************************************************************)
(* The asynchrony of the signer's page.  The shim queues the timers of the *)
(* SDK whatever their delay, QuickJS the jobs of its promises; neither     *)
(* runs by itself.  QuickJsSigner's drain() runs jobs first, then timers,  *)
(* up to a limit of each.                                                  *)
(***************************************************************************)
EXTENDS Naturals, Sequences, SequencesExt

CONSTANTS
    kMaxJobs,   \* jobs one drain() runs (40)
    kMaxTimers, \* timers one drain() runs (5000)
    MaxTimerId, \* bound: ids one page hands out
    MaxJobs     \* bound: jobs pending at once

ASSUME LoopAssumption ==
    /\ kMaxJobs \in Nat /\ kMaxTimers \in Nat
    /\ MaxTimerId \in Nat /\ MaxJobs \in Nat

VARIABLES
    timerQueue, \* __timerQueue: ids
    timerId,    \* __timerId
    jobs,       \* how many jobs QuickJS has pending
    draining,   \* where drain() is: "no", "jobs", "timers", "done" or "failed"
    turns,      \* of its loop: i, then safety
    inTask,     \* whether that loop is inside a job or a timer's function
    lastTimer   \* history: the id of the timer that fired last

queueVars == <<timerQueue, timerId, jobs, lastTimer>>
drainVars == <<draining, turns, inTask>>
loopVars == <<queueVars, drainVars>>

LoopInit ==
    /\ timerQueue = <<>> /\ timerId = 0 /\ jobs = 0 /\ lastTimer = 0
    /\ draining = "no" /\ turns = 0 /\ inTask = FALSE

\* A new runtime evaluates the shim afresh.
LoopReset ==
    /\ timerQueue' = <<>> /\ timerId' = 0 /\ jobs' = 0 /\ lastTimer' = 0
    /\ draining' = "no" /\ turns' = 0 /\ inTask' = FALSE

-----------------------------------------------------------------------------
(* What a script, a job or a timer's function may call.                    *)

\* setTimeout() and setInterval(): the delay is stored and never looked at.
setTimeout ==
    /\ timerId < MaxTimerId
    /\ timerId' = timerId + 1
    /\ timerQueue' = Append(timerQueue, timerId')
    /\ UNCHANGED <<jobs, lastTimer, drainVars>>

\* setTimeout() of what is no function; requestAnimationFrame() and
\* requestIdleCallback(), which call theirs at once.
TakeTimerId ==
    /\ timerId < MaxTimerId
    /\ timerId' = timerId + 1
    /\ UNCHANGED <<timerQueue, jobs, lastTimer, drainVars>>

\* clearTimeout() and clearInterval() of a timer that is queued; of any other
\* they change nothing.
clearTimeout(id) ==
    /\ \E i \in DOMAIN timerQueue :
           timerQueue[i] = id /\ timerQueue' = RemoveAt(timerQueue, i)
    /\ UNCHANGED <<timerId, jobs, lastTimer, drainVars>>

\* queueMicrotask(), or a promise that settles.
QueueJob ==
    /\ jobs < MaxJobs
    /\ jobs' = jobs + 1
    /\ UNCHANGED <<timerQueue, timerId, lastTimer, drainVars>>

Defers ==
    \/ setTimeout \/ TakeTimerId \/ QueueJob
    \/ \E id \in 1..timerId : clearTimeout(id)

-----------------------------------------------------------------------------
(* drain(), and __drainDeferredTimeouts() that it calls.                   *)

BeginDrain ==
    /\ draining = "no"
    /\ draining' = "jobs" /\ turns' = 0
    /\ UNCHANGED <<queueVars, inTask>>

\* JS_ExecutePendingJob() takes the oldest job.
ExecutePendingJob ==
    /\ draining = "jobs" /\ ~inTask
    /\ turns < kMaxJobs /\ jobs > 0
    /\ jobs' = jobs - 1
    /\ turns' = turns + 1 /\ inTask' = TRUE
    /\ UNCHANGED <<timerQueue, timerId, lastTimer, draining>>

\* It returns 0 when there is none.
JobsDone ==
    /\ draining = "jobs" /\ ~inTask
    /\ turns >= kMaxJobs \/ jobs = 0
    /\ draining' = "timers" /\ turns' = 0
    /\ UNCHANGED <<queueVars, inTask>>

\* The engine fails in a job: a negative result ends the loop over the jobs.
JobFails ==
    /\ draining = "jobs" /\ inTask
    /\ draining' = "timers" /\ turns' = 0 /\ inTask' = FALSE
    /\ UNCHANGED queueVars

\* The engine fails before it calls __drainDeferredTimeouts(), unnoticed.
TimersFail ==
    /\ draining = "timers" /\ ~inTask /\ turns = 0
    /\ draining' = "failed"
    /\ UNCHANGED <<queueVars, turns, inTask>>

TimersLeft_NoLimit == timerQueue # <<>>

TimersLeft == timerQueue # <<>> /\ turns < kMaxTimers

FireTimer_Pop ==
    /\ draining = "timers" /\ ~inTask
    /\ TimersLeft
    /\ lastTimer' = Last(timerQueue)
    /\ timerQueue' = Front(timerQueue)
    /\ turns' = turns + 1 /\ inTask' = TRUE
    /\ UNCHANGED <<timerId, jobs, draining>>

FireTimer ==
    /\ draining = "timers" /\ ~inTask
    /\ TimersLeft
    /\ lastTimer' = Head(timerQueue)
    /\ timerQueue' = Tail(timerQueue)
    /\ turns' = turns + 1 /\ inTask' = TRUE
    /\ UNCHANGED <<timerId, jobs, draining>>

\* The job or the function returns; what a function throws is caught.
TaskReturns ==
    /\ inTask
    /\ inTask' = FALSE
    /\ UNCHANGED <<queueVars, draining, turns>>

TimersDone ==
    /\ draining = "timers" /\ ~inTask
    /\ ~TimersLeft
    /\ draining' = "done"
    /\ UNCHANGED <<queueVars, turns, inTask>>

DrainSteps == ExecutePendingJob \/ JobsDone \/ FireTimer \/ TaskReturns \/ TimersDone

DrainReturns ==
    /\ draining \in {"done", "failed"}
    /\ draining' = "no"
    /\ UNCHANGED <<queueVars, turns, inTask>>

-----------------------------------------------------------------------------

\* A drain() ends although what it runs may queue more: it runs no more jobs
\* and timers than its limits, and gives up on a timer only at the limit.
DrainEmptiesOrGivesUp ==
    /\ draining = "jobs" => turns <= kMaxJobs
    /\ draining \in {"timers", "done"} => turns <= kMaxTimers
    /\ draining = "done" => timerQueue = <<>> \/ turns = kMaxTimers

Timers == INSTANCE TaskQueue WITH
    created <- timerId, waiting <- ToSet(timerQueue), last <- lastTimer

\* Timers run in the order of their creation, each at most once, and never
\* after they were cleared: __timerQueue implements TaskQueue.
ImplementsTaskQueue == Timers!Spec
=============================================================================
