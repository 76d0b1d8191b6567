---------------------------- MODULE SigningPage ----------------------------
(***************************************************************************)
(* The signer with the page it keeps: Signer's calls, the page's event     *)
(* loop, which drain() turns while the signer is initialised and at no     *)
(* other time, and the request sign() makes for the SDK to intercept.      *)
(* What a script of the SDK does is left open; a sign() is over when the    *)
(* stack of its request is empty, or when an exception leaves it.           *)
(***************************************************************************)
EXTENDS Signer, EventLoop, FakeXhr

CONSTANT MaxOps \* bound: calls of the shim between two steps of the signer

ASSUME PageAssumption == MaxOps \in Nat

VARIABLES
    signing, \* whether sign() has made its request
    ops      \* calls of the shim since the last step of the signer

pageVars == <<vars, loopVars, xhrVars, signing, ops>>
requestVars == <<xhrVars, signing>>

PageInit == Init /\ LoopInit /\ XhrInit /\ signing = FALSE /\ ops = 0

AtSetupStep == pc = "setup" /\ done < Len(SetupSteps)

\* The calls of drain() in ensure_initialized().
DrainDue_AlsoSigning ==
    (AtSetupStep /\ SetupSteps[done + 1] = "drain") \/ (pc = "sign" /\ ~signing)

DrainDue == AtSetupStep /\ SetupSteps[done + 1] = "drain"

-----------------------------------------------------------------------------
(* The steps of the signer.                                                *)

\* Those that evaluate nothing, or whose script keeps to itself.
OutsidePage ==
    /\ \/ \E n \in Names, v \in Values \cup {Absent} : HttpReceives(n, v)
       \/ Call \/ NewRuntimeFails \/ NewContext \/ NewContextFails
       \/ SetupStepThrows \/ Initialized \/ SetCookies \/ Destroy \/ Resting
    /\ UNCHANGED <<loopVars, requestVars, ops>>

NewPage ==
    /\ NewRuntime
    /\ LoopReset /\ NewXhr(<<>>) /\ signing' = FALSE /\ ops' = 0

ScriptEnds ==
    /\ SetupStep /\ ~DrainDue
    /\ ops' = 0
    /\ UNCHANGED <<loopVars, requestVars>>

DrainEnds ==
    /\ DrainReturns
    /\ SetupStep /\ DrainDue
    /\ ops' = 0
    /\ UNCHANGED requestVars

\* sign() creates its request, opens and sends it.
BeginSign ==
    /\ pc = "sign" /\ ~signing
    /\ NewXhr(<<[op |-> "call", frames |-> OpenFrames], [op |-> "call", frames |-> SendFrames]>>)
    /\ signing' = TRUE /\ ops' = 0
    /\ UNCHANGED <<vars, loopVars>>

\* The request is garbage then: what still holds it never runs.
EndSign ==
    /\ signing /\ (stack = <<>> \/ EvalFails)
    /\ Sign
    /\ NewXhr(<<>>) /\ signing' = FALSE /\ ops' = 0
    /\ UNCHANGED loopVars

-----------------------------------------------------------------------------
(* What goes on in the page meanwhile.                                     *)

\* The SDK may have replaced the method: its function runs before the shim's
\* and after it, or does without.
CallMethod ==
    /\ Top("call")
    /\ \E frames \in {<<>>, Head(stack).frames} : Pop(<<Function>> \o frames \o <<Function>>)
    /\ UNCHANGED <<readyState, handlers, listeners, arrays>>

RequestStep ==
    /\ CallMethod \/ XhrSteps \/ FunctionReturns
    /\ UNCHANGED <<vars, loopVars, signing, ops>>

\* A function of the SDK uses the request.
RequestUsed ==
    /\ Top("function") /\ ops < MaxOps
    /\ UsesXhr
    /\ ops' = ops + 1
    /\ UNCHANGED <<vars, loopVars, signing>>

\* A script of the SDK runs, or a function of it: a job, a timer's, a listener.
SdkRuns ==
    \/ AtSetupStep /\ ~DrainDue /\ done >= Len(ShimSteps)
    \/ inTask
    \/ Top("function")

SdkDefers ==
    /\ SdkRuns /\ ops < MaxOps
    /\ Defers
    /\ ops' = ops + 1
    /\ UNCHANGED <<vars, requestVars>>

Drain ==
    /\ \/ DrainDue /\ BeginDrain
       \/ DrainSteps
       \/ EvalFails /\ (JobFails \/ TimersFail)
    /\ UNCHANGED <<vars, requestVars, ops>>

PageNext ==
    \/ OutsidePage \/ NewPage \/ ScriptEnds \/ DrainEnds \/ BeginSign \/ EndSign
    \/ RequestStep \/ RequestUsed \/ SdkDefers \/ Drain

PageSpec == PageInit /\ [][PageNext]_pageVars

-----------------------------------------------------------------------------

\* What the SDK defers once the signer is initialised never runs: no call turns
\* the event loop, so a signature has to be complete when send() returns, and
\* jobs and timers pile up.
NothingDeferredRuns ==
    [][initialized_ => ~inTask' /\ lastTimer' = lastTimer /\ jobs' >= jobs]_pageVars
=============================================================================
