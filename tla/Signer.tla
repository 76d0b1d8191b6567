------------------------------- MODULE Signer -------------------------------
(***************************************************************************)
(* QuickJsSigner with the cookies it signs with: its lazy initialisation,  *)
(* which may fail at any step and is tried again by the next call;         *)
(* set_cookies(), which assigns the HTTP client's Cookie header to         *)
(* document.cookie of the DOM shim; sign().  A call is what signed_url()   *)
(* and build_ws_url() make of them, one after the other, under net_mu_.    *)
(*                                                                         *)
(* Runtimes are numbered from 1, 0 is the null pointer; a context goes by  *)
(* the number of its runtime.                                              *)
(***************************************************************************)
EXTENDS Naturals, Sequences, FiniteSets

CONSTANTS
    Names, Values, \* of cookies
    Absent,        \* of a name that has no cookie
    EvalFails,     \* whether the engine may fail: memory, stack, unreadable or bad script
    MaxRuntimes,   \* bound: runtimes made
    MaxFailures    \* bound: initialisations that throw

ASSUME SignerAssumption ==
    /\ IsFiniteSet(Names) /\ Absent \notin Values
    /\ EvalFails \in BOOLEAN /\ MaxRuntimes \in Nat /\ MaxFailures \in Nat

kSdkFiles == <<"dw-index.js", "browser.sg.js", "webmssdk.js", "webmssdk_ex.js",
               "secsdk-lastest.umd.js">>

\* What ensure_initialized() evaluates, in order.
ShimSteps == <<"stderr-stub", "hybrid-fake-dom.js", "global-alias">>
SetupSteps == ShimSteps \o kSdkFiles \o <<"drain", "acrawler-init", "drain">>

VARIABLES
    initialized_,
    rt, ctx, \* impl_->rt, impl_->ctx
    live,    \* the runtimes made and not freed
    made,    \* how many were made
    done,    \* how many of SetupSteps runtime rt has behind it
    jar,     \* __cookieJar of runtime rt, without the two cookies of the shim
    http,    \* the cookies of HttpClient
    header,  \* the argument of set_cookies(): pairs in curl's order
    pc,      \* what comes next
    failures \* history: initialisations that threw

engineVars == <<initialized_, rt, ctx, live, made, done>>
vars == <<engineVars, jar, http, header, pc, failures>>

Jars == [Names -> Values \cup {Absent}]
Empty == [n \in Names |-> Absent]
Stored(cookies) == {n \in Names : cookies[n] # Absent}
Pairs == [name : Names, value : Values]

\* options.cookies seeds the HTTP client.
Init ==
    /\ initialized_ = FALSE /\ rt = 0 /\ ctx = 0
    /\ live = {} /\ made = 0 /\ done = 0
    /\ jar = Empty /\ http \in Jars /\ header = <<>>
    /\ pc = "away" /\ failures = 0

\* A response of the server sets a cookie or lets one expire; one that comes
\* during a call counts as coming after it, since a call reads the cookies first.
HttpReceives(n, v) ==
    /\ pc = "away"
    /\ http' = [http EXCEPT ![n] = v]
    /\ UNCHANGED <<engineVars, jar, header, pc, failures>>

\* cookie_header() lists the cookies in an order of curl's.
Headers ==
    {[i \in DOMAIN order |-> [name |-> order[i], value |-> http[order[i]]]] :
        order \in {o \in [1..Cardinality(Stored(http)) -> Stored(http)] :
                       \A i, j \in DOMAIN o : o[i] = o[j] => i = j}}

-----------------------------------------------------------------------------
(* A call: cookie_header(), then set_cookies() begins.                     *)

Call_Afresh ==
    /\ pc = "away"
    /\ header' \in Headers
    /\ pc' = "runtime"
    /\ UNCHANGED <<engineVars, jar, http, failures>>

Call ==
    /\ pc = "away"
    /\ header' \in Headers
    /\ pc' = IF initialized_ THEN "cookies" ELSE "runtime"
    /\ UNCHANGED <<engineVars, jar, http, failures>>

\* An exception leaves ensure_initialized() and, with it, the call.
Throws ==
    /\ EvalFails /\ failures < MaxFailures
    /\ pc' = "away" /\ failures' = failures + 1

\* The member is overwritten: a runtime of an earlier attempt is lost.
NewRuntime ==
    /\ pc = "runtime" /\ made < MaxRuntimes
    /\ made' = made + 1 /\ rt' = made'
    /\ live' = live \cup {rt'}
    /\ done' = 0 /\ jar' = Empty
    /\ pc' = "context"
    /\ UNCHANGED <<initialized_, ctx, http, header, failures>>

NewRuntimeFails ==
    /\ pc = "runtime"
    /\ rt' = 0
    /\ Throws
    /\ UNCHANGED <<initialized_, ctx, live, made, done, jar, http, header>>

NewContext_Initialized ==
    /\ pc = "context"
    /\ ctx' = rt /\ initialized_' = TRUE
    /\ pc' = "setup"
    /\ UNCHANGED <<rt, live, made, done, jar, http, header, failures>>

NewContext ==
    /\ pc = "context"
    /\ ctx' = rt
    /\ pc' = "setup"
    /\ UNCHANGED <<initialized_, rt, live, made, done, jar, http, header, failures>>

NewContextFails_Ignored ==
    /\ EvalFails
    /\ pc = "context"
    /\ ctx' = 0
    /\ pc' = "setup"
    /\ UNCHANGED <<initialized_, rt, live, made, done, jar, http, header, failures>>

NewContextFails ==
    /\ pc = "context"
    /\ ctx' = 0
    /\ Throws
    /\ UNCHANGED <<initialized_, rt, live, made, done, jar, http, header>>

\* The SDK may store cookies of its own while it runs.
SdkStores == jar' = jar \/ \E p \in Pairs : jar' = [jar EXCEPT ![p.name] = p.value]

\* The next script; a file of the SDK that is not there is skipped.  Neither
\* that nor, window being a proxy that knows every name, a byted_acrawler that
\* was never defined is an error.
SetupStep_OneMore ==
    /\ pc = "setup" /\ done <= Len(SetupSteps)
    /\ done' = done + 1
    /\ UNCHANGED <<initialized_, rt, ctx, live, made, jar, http, header, pc, failures>>

SetupStep ==
    /\ pc = "setup" /\ done < Len(SetupSteps)
    /\ done' = done + 1
    /\ IF done' <= Len(ShimSteps) THEN UNCHANGED jar ELSE SdkStores
    /\ UNCHANGED <<initialized_, rt, ctx, live, made, http, header, pc, failures>>

\* drain() swallows what goes wrong; the other steps throw.
SetupStepThrows ==
    /\ pc = "setup" /\ done < Len(SetupSteps)
    /\ SetupSteps[done + 1] # "drain"
    /\ Throws
    /\ UNCHANGED <<engineVars, jar, http, header>>

Initialized ==
    /\ pc = "setup" /\ done = Len(SetupSteps)
    /\ initialized_' = TRUE
    /\ pc' = "cookies"
    /\ UNCHANGED <<rt, ctx, live, made, done, jar, http, header, failures>>

-----------------------------------------------------------------------------
(* The rest of set_cookies(), and sign().                                  *)

\* __setCookie(): of what is assigned to document.cookie, the part before the
\* first ";" is a cookie.
Assign(cookies, assigned) ==
    IF assigned = <<>> THEN cookies
    ELSE [cookies EXCEPT ![assigned[1].name] = assigned[1].value]

\* A failure goes unnoticed: the scripts catch it, and so does eval().
SetCookies ==
    /\ pc = "cookies"
    /\ jar' = Assign(jar, header) \/ (EvalFails /\ jar' = jar)
    /\ pc' = "sign"
    /\ UNCHANGED <<engineVars, http, header, failures>>

\* The SDK signs the request with the cookies in the jar; or sign() throws.
Sign ==
    /\ pc = "sign"
    /\ SdkStores
    /\ pc' = "away"
    /\ UNCHANGED <<engineVars, http, header, failures>>

Destroy_KeepsRuntime ==
    /\ pc = "away"
    /\ rt' = 0 /\ ctx' = 0
    /\ pc' = "destroyed"
    /\ UNCHANGED <<initialized_, live, made, done, jar, http, header, failures>>

\* ~QuickJsSigner()
Destroy ==
    /\ pc = "away"
    /\ live' = live \ {rt}
    /\ rt' = 0 /\ ctx' = 0
    /\ pc' = "destroyed"
    /\ UNCHANGED <<initialized_, made, done, jar, http, header, failures>>

\* Where the bound on runtimes, or the end of the signer, lets a behaviour stop.
Resting ==
    /\ pc = "destroyed" \/ (pc = "runtime" /\ made = MaxRuntimes)
    /\ UNCHANGED vars

Next ==
    \/ \E n \in Names, v \in Values \cup {Absent} : HttpReceives(n, v)
    \/ Call
    \/ NewRuntime \/ NewRuntimeFails
    \/ NewContext \/ NewContextFails
    \/ SetupStep \/ SetupStepThrows \/ Initialized
    \/ SetCookies \/ Sign
    \/ Destroy
    \/ Resting

Spec == Init /\ [][Next]_vars

-----------------------------------------------------------------------------

\* Types.
TypeOK ==
    /\ initialized_ \in BOOLEAN
    /\ made \in 0..MaxRuntimes /\ rt \in 0..made /\ ctx \in 0..made
    /\ live \subseteq 1..made
    /\ done \in 0..Len(SetupSteps)
    /\ jar \in Jars /\ http \in Jars /\ header \in Seq(Pairs)
    /\ pc \in {"away", "runtime", "context", "setup", "cookies", "sign", "destroyed"}
    /\ failures \in 0..MaxFailures

\* However often ensure_initialized() failed and was tried again, cookies are
\* set and requests signed only in an engine that went through the whole setup.
OnlyFinishedEngineSigns ==
    pc \in {"cookies", "sign"} => initialized_ /\ done = Len(SetupSteps)

\* Scripts are evaluated in a context of the current runtime, which is alive:
\* not in one that an attempt left behind, nor through the null pointer.
EvaluatesInOwnContext ==
    pc \in {"setup", "cookies", "sign"} => ctx = rt /\ rt \in live

\* The engine is made once: when it is initialised its runtime is not replaced
\* until the signer is destroyed.
EngineReused == [][initialized_ => initialized_' /\ (rt' = rt \/ pc' = "destroyed")]_vars

\* What failed initialisations leave behind: at most a runtime each, over and
\* above the current one; the destructor frees that.
LeaksOnePerFailure ==
    Cardinality(live) <= failures + IF rt = 0 THEN 0 ELSE 1

\* The comment of set_cookies(): "so the SDK signs with the same cookies as
\* the HTTP client".
SignsWithSameCookies ==
    pc = "sign" => \A i \in DOMAIN header : jar[header[i].name] = header[i].value
=============================================================================
