----------------------------- MODULE FakeWindow -----------------------------
(***************************************************************************)
(* The window of the shim: a proxy that answers every name the SDK asks    *)
(* for, beside the global object of the engine, which knows nothing of it,  *)
(* and what the scripts of the SDK do with both.                            *)
(***************************************************************************)
EXTENDS Naturals, Sequences, FiniteSetsExt

CONSTANTS
    NativeBuiltins, \* what the engine defines, and the shim's own globals
    BrowserAPIs,    \* what the shim has a stub for
    SafeProxied,    \* those of them that are given out behind a safeProxy()
    FunctionProps,  \* what the target of the proxy has for being a function: name, prototype,
    Permanent,      \* those of them that cannot be deleted,
    PrototypeProps, \* and what it inherits from Function.prototype: name, call
    ScriptNames,    \* what scripts assign and delete,
    ScriptValues    \* and what they assign

acrawler == "byted_acrawler"

\* A value, directly or behind a safeProxy().
Value(what, of) == [what |-> what, of |-> of, proxied |-> FALSE]
Undefined == Value("nullish", "undefined")
windowProxy == Value("window", "window")

\* No value, of a name that was deleted or never there.
NoValue == Value("none", "none")

ASSUME WindowAssumption ==
    /\ SafeProxied \subseteq BrowserAPIs /\ Permanent \subseteq FunctionProps
    /\ acrawler \notin NativeBuiltins \cup BrowserAPIs \cup FunctionProps \cup PrototypeProps
    /\ NoValue \notin ScriptValues

VARIABLES
    target,  \* the function under the proxy, with what is stored in it
    apis,    \* browserAPIs
    globals, \* what was assigned to globalThis
    script   \* history: the steps of the scripts

windowVars == <<target, apis, globals, script>>

SelfReferences == {"window", "self", "globalThis"}

\* null and undefined; 0, "", NaN and false.
Truthy(value) == value.proxied \/ value.what \notin {"nullish", "falsy"}

\* What stands for anything unknown: a function that may be called.
Stub(name) == [Value("function", name) EXCEPT !.proxied = TRUE]

\* Primitive values cannot be proxied, and null and undefined become a stub.
safeProxy(value) ==
    IF value.what = "nullish" THEN Stub("safeProxy")
    ELSE IF value.what \in {"primitive", "falsy"} THEN value
    ELSE [value EXCEPT !.proxied = TRUE]

WindowInit ==
    /\ target = [n \in FunctionProps |-> Value("function's", n)]
    /\ apis = [n \in BrowserAPIs |-> Value("api", n)]
    /\ globals = [n \in {} |-> Undefined]
    /\ script = <<>>

-----------------------------------------------------------------------------
(* What a name of the window means.                                        *)

\* A name of the target reads as its own value, or as Function.prototype's.
InTarget == DOMAIN target \cup PrototypeProps
OfTarget(name) == IF name \in DOMAIN target THEN target[name] ELSE Value("inherited", name)

WindowHas(name) == name \in SelfReferences \cup NativeBuiltins \cup BrowserAPIs \cup InTarget

WindowGet(name) ==
    IF name \in SelfReferences THEN windowProxy
    ELSE IF name \in NativeBuiltins THEN Value("builtin", name)
    ELSE IF name \in InTarget THEN OfTarget(name)
    ELSE IF name \in SafeProxied THEN safeProxy(apis[name])
    ELSE IF name \in BrowserAPIs THEN apis[name]
    ELSE Stub(name)

GlobalGet(name) == IF name \in DOMAIN globals THEN globals[name] ELSE Undefined

\* How the signer looks for the SDK once its scripts have run.
AcrawlerFound_IfDefined ==
    IF acrawler \in DOMAIN globals THEN globals[acrawler] ELSE WindowGet(acrawler)

AcrawlerFound ==
    IF Truthy(GlobalGet(acrawler)) THEN GlobalGet(acrawler) ELSE WindowGet(acrawler)

\* "byted_acrawler not found" is thrown.
AcrawlerMissed == ~Truthy(AcrawlerFound)

-----------------------------------------------------------------------------
(* What scripts do.                                                        *)

\* object[name] = value
Stored(object, name, value) ==
    [n \in DOMAIN object \cup {name} |-> IF n = name THEN value ELSE object[n]]

Records(op, name, value) ==
    script' = Append(script, [op |-> op, name |-> name, value |-> value])

WindowSet_TargetOnly(name, value) ==
    /\ target' = Stored(target, name, value)
    /\ Records("set", name, value)
    /\ UNCHANGED <<apis, globals>>

WindowSet(name, value) ==
    /\ IF name \in BrowserAPIs
       THEN apis' = Stored(apis, name, value) /\ UNCHANGED target
       ELSE target' = Stored(target, name, value) /\ UNCHANGED apis
    /\ Records("set", name, value)
    /\ UNCHANGED globals

\* Object.defineProperty() with a value that may be changed and deleted: there is no
\* trap for it, so that the target gets the name of a stub too.
WindowDefine(name, value) ==
    /\ name \notin Permanent
    /\ target' = Stored(target, name, value)
    /\ Records("define", name, value)
    /\ UNCHANGED <<apis, globals>>

\* Nor for this: it is the target that loses the name.
WindowDelete(name) ==
    /\ name \notin Permanent
    /\ target' = [n \in DOMAIN target \ {name} |-> target[n]]
    /\ Records("delete", name, NoValue)
    /\ UNCHANGED <<apis, globals>>

GlobalSet(name, value) ==
    /\ globals' = Stored(globals, name, value)
    /\ Records("setGlobal", name, value)
    /\ UNCHANGED <<target, apis>>

ScriptStep ==
    \E name \in ScriptNames :
        \/ WindowDelete(name)
        \/ \E value \in ScriptValues :
               WindowSet(name, value) \/ WindowDefine(name, value) \/ GlobalSet(name, value)

WindowSpec == WindowInit /\ [][ScriptStep]_windowVars

-----------------------------------------------------------------------------

\* What the last of the steps of these kinds gave a name.
StepsOf(ops, name) == {i \in 1..Len(script) : script[i].op \in ops /\ script[i].name = name}

LastGiven(ops, name, otherwise) ==
    IF StepsOf(ops, name) = {} THEN otherwise ELSE script[Max(StepsOf(ops, name))].value

\* The steps that reach the target: a stub is assigned to elsewhere.
TargetOps(name) == {"define", "delete"} \cup (IF name \in BrowserAPIs THEN {} ELSE {"set"})

\* What a script may expect of a name's own value, and of a stub.
Own(name) ==
    LastGiven(TargetOps(name), name, IF name \in FunctionProps THEN Value("function's", name) ELSE NoValue)

ApiNow(name) == LastGiven({"set"}, name, Value("api", name))

\* The names in question.
Names ==
    UNION {SelfReferences, NativeBuiltins, BrowserAPIs, FunctionProps, PrototypeProps, ScriptNames}

\* Of a name that is no builtin: what was last assigned or defined, until it is
\* deleted; then what every function inherits; then its stub; then a stand-in.
MeaningOf(name) ==
    IF Own(name) # NoValue THEN Own(name)
    ELSE IF name \in PrototypeProps THEN Value("inherited", name)
    ELSE IF name \in SafeProxied THEN safeProxy(ApiNow(name))
    ELSE IF name \in BrowserAPIs THEN ApiNow(name)
    ELSE Stub(name)

IsKnown(name) == Own(name) # NoValue \/ name \in PrototypeProps \cup BrowserAPIs

\* A name of the window reads as its last assignment or definition says, whatever
\* other scripts did: but a builtin cannot be replaced; what is defined, or what the
\* function under the proxy has, hides a stub and all that is assigned to it until
\* it is deleted; and what goes through globalThis is not seen.  "in" tells the names
\* that have no more than a stand-in.
WindowReads ==
    /\ \A n \in SelfReferences : WindowGet(n) = windowProxy /\ WindowHas(n)
    /\ \A n \in NativeBuiltins \ SelfReferences :
           WindowGet(n) = Value("builtin", n) /\ WindowHas(n)
    /\ \A n \in Names \ (SelfReferences \cup NativeBuiltins) :
           WindowGet(n) = MeaningOf(n) /\ (WindowHas(n) <=> IsKnown(n))

\* The signer finds a byted_acrawler that an SDK's script gave globalThis if it is
\* truthy, else what was given the window last; without any it goes on with the
\* window's stand-in.  So the exception for its absence is thrown only if a script
\* gave the window a falsy one, and never for a script that did not load.
AcrawlerFoundIfGiven ==
    LET global == LastGiven({"setGlobal"}, acrawler, Undefined)
        given == Own(acrawler)
    IN  /\ AcrawlerFound =
               IF Truthy(global) THEN global ELSE IF given # NoValue THEN given ELSE Stub(acrawler)
        /\ AcrawlerMissed => StepsOf({"set", "define"}, acrawler) # {} /\ ~Truthy(given)
=============================================================================
