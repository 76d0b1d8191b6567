----------------------------- MODULE TextProofs -----------------------------
(***************************************************************************)
(* The shim's window after any scripts, the URL of sign() after anything   *)
(* the SDK does to its request, and the events of any message; and what is *)
(* encoded can be read again: queries, base64 and UTF-8, of any length.    *)
(* An induction is over the set of the numbers, or sequences, for which    *)
(* the claim holds.                                                        *)
(***************************************************************************)
EXTENDS MCTextFunctions, SequenceTheorems, WellFoundedInduction, TLAPS

\* What CHOOSE finds.
LEMMA MaxIs ==
    ASSUME NEW S, S \subseteq Nat, NEW x \in S, \A y \in S : y <= x
    PROVE  Max(S) = x
  <1>1. \A y \in S : (\A z \in S : y >= z) => y = x
    OBVIOUS
  <1>2. \A z \in S : x >= z
    OBVIOUS
  <1> QED
    BY <1>1, <1>2 DEF Max

-----------------------------------------------------------------------------
(* The window is a function of its history                                 *)

\* The steps that scripts make.
RecordedSteps ==
    [op : {"set", "define", "setGlobal"}, name : ScriptNames, value : ScriptValues]
        \cup [op : {"delete"}, name : ScriptNames, value : {NoValue}]

\* The steps of some kinds have a last one.
HasLast ==
    \A ops, name : StepsOf(ops, name) # {} =>
        \E i \in StepsOf(ops, name) : \A j \in StepsOf(ops, name) : j <= i

HistoryInv == script \in Seq(RecordedSteps) /\ HasLast

\* The target holds a name's own value, if it has one.
TargetInv == \A n : /\ n \in DOMAIN target <=> Own(n) # NoValue
                    /\ n \in DOMAIN target => target[n] = Own(n)

WindowInv ==
    /\ HistoryInv
    /\ TargetInv
    /\ apis = [n \in BrowserAPIs |-> ApiNow(n)]
    /\ \A n : GlobalGet(n) = LastGiven({"setGlobal"}, n, Undefined)

LEMMA WindowInvInit == WindowInit => WindowInv
  <1> SUFFICES ASSUME WindowInit
               PROVE  WindowInv
    OBVIOUS
  <1>1. script = <<>> /\ Len(script) = 0
    BY DEF WindowInit
  <1>2. \A ops, name : StepsOf(ops, name) = {}
    BY <1>1 DEF StepsOf
  <1>3. HistoryInv
    <2>1. script \in Seq(RecordedSteps)
      BY <1>1, EmptySeq
    <2> QED
      BY <1>2, <2>1 DEF HistoryInv, HasLast
  <1>4. \A ops, name, otherwise : LastGiven(ops, name, otherwise) = otherwise
    BY <1>2 DEF LastGiven
  <1>5. TargetInv
    <2>1. /\ DOMAIN target = FunctionProps
          /\ \A n \in FunctionProps : target[n] = Value("function's", n)
      BY DEF WindowInit
    <2>2. \A n : Value("function's", n) # NoValue
      BY DEF Value, NoValue
    <2>3. \A n : Own(n) = IF n \in FunctionProps THEN Value("function's", n) ELSE NoValue
      BY <1>4 DEF Own
    <2> QED
      BY <2>1, <2>2, <2>3 DEF TargetInv
  <1>6. apis = [n \in BrowserAPIs |-> ApiNow(n)]
    BY <1>4 DEF WindowInit, ApiNow
  <1>7. \A n : GlobalGet(n) = LastGiven({"setGlobal"}, n, Undefined)
    BY <1>4 DEF WindowInit, GlobalGet
  <1> QED
    BY <1>3, <1>5, <1>6, <1>7 DEF WindowInv

\* A step that is recorded is the last of its kind, and of no other.
LEMMA Recorded ==
    ASSUME HistoryInv, NEW op, NEW name, NEW value,
           [op |-> op, name |-> name, value |-> value] \in RecordedSteps,
           Records(op, name, value)
    PROVE  /\ HistoryInv'
           /\ \A ops, n, otherwise :
                  LastGiven(ops, n, otherwise)' =
                      IF op \in ops /\ name = n THEN value ELSE LastGiven(ops, n, otherwise)
  <1> DEFINE step == [op |-> op, name |-> name, value |-> value]
             k == Len(script)
  <1>1. /\ script \in Seq(RecordedSteps) /\ HasLast /\ k \in Nat
        /\ script' = Append(script, step) /\ step \in RecordedSteps
        /\ step.op = op /\ step.name = name /\ step.value = value
    BY DEF HistoryInv, Records
  <1> HIDE DEF step
  <1>2. /\ script' \in Seq(RecordedSteps) /\ Len(script') = k + 1
        /\ script'[k + 1] = step
        /\ \A i \in 1..k : script'[i] = script[i]
    <2> HIDE DEF RecordedSteps
    <2> QED
      BY <1>1, AppendProperties
  <1> HIDE DEF k
  <1>3. \A ops, n : StepsOf(ops, n) \subseteq 1..k
    BY DEF StepsOf, k
  <1>4. ASSUME NEW ops, NEW n
        PROVE  StepsOf(ops, n)' =
                   StepsOf(ops, n) \cup (IF op \in ops /\ name = n THEN {k + 1} ELSE {})
    <2>1. \A i \in 1..(k + 1) : i \in 1..k \/ i = k + 1
      BY <1>1
    <2>2. \A i \in 1..k : i \in 1..(k + 1)
      BY <1>1
    <2>3. k + 1 \in 1..(k + 1)
      BY <1>1
    <2>4. StepsOf(ops, n) = {i \in 1..k : script[i].op \in ops /\ script[i].name = n}
      BY DEF StepsOf, k
    <2>5. StepsOf(ops, n)' = {i \in 1..(k + 1) : script'[i].op \in ops /\ script'[i].name = n}
      BY <1>2 DEF StepsOf
    <2> QED
      BY <1>1, <1>2, <2>1, <2>2, <2>3, <2>4, <2>5
  <1>5. ASSUME NEW ops, NEW n
        PROVE  StepsOf(ops, n)' # {} =>
                   \E i \in StepsOf(ops, n)' : \A j \in StepsOf(ops, n)' : j <= i
    <2>1. CASE op \in ops /\ name = n
      <3>1. /\ k + 1 \in StepsOf(ops, n)'
            /\ \A j \in StepsOf(ops, n)' : j \in 1..k \/ j = k + 1
        BY <1>3, <1>4, <2>1
      <3>2. \A j \in StepsOf(ops, n)' : j <= k + 1
        BY <1>1, <3>1
      <3> QED
        BY <3>1, <3>2
    <2>2. CASE ~(op \in ops /\ name = n)
      BY <1>1, <1>4, <2>2 DEF HasLast
    <2> QED
      BY <2>1, <2>2
  <1>6. ASSUME NEW ops, NEW n, NEW otherwise
        PROVE  LastGiven(ops, n, otherwise)' =
                   IF op \in ops /\ name = n THEN value ELSE LastGiven(ops, n, otherwise)
    <2>1. CASE op \in ops /\ name = n
      <3>1. /\ k + 1 \in StepsOf(ops, n)'
            /\ \A j \in StepsOf(ops, n)' : j \in 1..k \/ j = k + 1
        BY <1>3, <1>4, <2>1
      <3>2. StepsOf(ops, n)' \subseteq Nat /\ \A j \in StepsOf(ops, n)' : j <= k + 1
        BY <1>1, <3>1
      <3>3. Max(StepsOf(ops, n)') = k + 1
        BY <3>1, <3>2, MaxIs
      <3> QED
        BY <1>1, <1>2, <2>1, <3>1, <3>3 DEF LastGiven
    <2>2. CASE ~(op \in ops /\ name = n)
      <3>1. StepsOf(ops, n)' = StepsOf(ops, n)
        BY <1>4, <2>2
      <3>2. CASE StepsOf(ops, n) = {}
        BY <2>2, <3>1, <3>2 DEF LastGiven
      <3>3. CASE StepsOf(ops, n) # {}
        <4>1. PICK i \in StepsOf(ops, n) : \A j \in StepsOf(ops, n) : j <= i
          BY <1>1, <3>3 DEF HasLast
        <4>2. i \in 1..k /\ StepsOf(ops, n) \subseteq Nat
          BY <1>1, <1>3
        <4>3. Max(StepsOf(ops, n)) = i
          BY <4>1, <4>2, MaxIs
        <4>4. script'[i] = script[i]
          BY <1>2, <4>2
        <4> QED
          BY <2>2, <3>1, <3>3, <4>3, <4>4 DEF LastGiven
      <3> QED
        BY <3>2, <3>3
    <2> QED
      BY <2>1, <2>2
  <1>7. HistoryInv'
    BY <1>2, <1>5 DEF HistoryInv, HasLast
  <1> QED
    BY <1>6, <1>7

\* What a step changes of what scripts expect.
LEMMA Expected ==
    ASSUME WindowInv, NEW op, NEW name, NEW value,
           [op |-> op, name |-> name, value |-> value] \in RecordedSteps,
           Records(op, name, value)
    PROVE  /\ HistoryInv'
           /\ \A n : Own(n)' = IF op \in TargetOps(n) /\ name = n THEN value ELSE Own(n)
           /\ \A n : ApiNow(n)' = IF op = "set" /\ name = n THEN value ELSE ApiNow(n)
           /\ \A n, otherwise : LastGiven({"setGlobal"}, n, otherwise)' =
                  IF op = "setGlobal" /\ name = n THEN value
                  ELSE LastGiven({"setGlobal"}, n, otherwise)
  <1>1. /\ HistoryInv'
        /\ \A ops, n, otherwise :
               LastGiven(ops, n, otherwise)' =
                   IF op \in ops /\ name = n THEN value ELSE LastGiven(ops, n, otherwise)
    BY Recorded DEF WindowInv
  <1>2. \A n : TargetOps(n)' = TargetOps(n)
    BY DEF TargetOps
  <1>3. \A n : Own(n)' = IF op \in TargetOps(n) /\ name = n THEN value ELSE Own(n)
    BY <1>1, <1>2, Zenon DEF Own
  <1>4. \A n : ApiNow(n)' = IF op = "set" /\ name = n THEN value ELSE ApiNow(n)
    BY <1>1 DEF ApiNow
  <1> QED
    BY <1>1, <1>3, <1>4

\* A value that is stored in the target is the name's own.
LEMMA TargetStores ==
    ASSUME TargetInv, NEW name, NEW value, value # NoValue,
           target' = Stored(target, name, value),
           \A n : Own(n)' = IF name = n THEN value ELSE Own(n)
    PROVE  TargetInv'
  <1> DEFINE stored == Stored(target, name, value)
  <1>1. /\ DOMAIN stored = DOMAIN target \cup {name}
        /\ \A n \in DOMAIN target \cup {name} :
               stored[n] = IF n = name THEN value ELSE target[n]
    BY DEF Stored
  <1>2. target' = stored
    OBVIOUS
  <1> HIDE DEF stored
  <1> QED
    BY <1>1, <1>2 DEF TargetInv

\* What is not stored in the target changes nothing of it.
LEMMA TargetStays ==
    ASSUME TargetInv, target' = target, \A n : Own(n)' = Own(n)
    PROVE  TargetInv'
  BY DEF TargetInv

LEMMA WindowSetStep ==
    ASSUME WindowInv, NEW name \in ScriptNames, NEW value \in ScriptValues, WindowSet(name, value)
    PROVE  WindowInv'
  <1>1. /\ HistoryInv'
        /\ \A n : Own(n)' = IF "set" \in TargetOps(n) /\ name = n THEN value ELSE Own(n)
        /\ \A n : ApiNow(n)' = IF name = n THEN value ELSE ApiNow(n)
        /\ \A n, otherwise : LastGiven({"setGlobal"}, n, otherwise)' =
               LastGiven({"setGlobal"}, n, otherwise)
    <2>1. Records("set", name, value)
      BY DEF WindowSet
    <2>2. [op |-> "set", name |-> name, value |-> value] \in RecordedSteps
      BY DEF RecordedSteps
    <2> QED
      BY <2>1, <2>2, Expected
  <1>2. \A n : GlobalGet(n)' = LastGiven({"setGlobal"}, n, Undefined)'
    BY <1>1 DEF WindowInv, WindowSet, GlobalGet, Undefined, Value
  <1>3. value # NoValue
    BY WindowAssumption
  <1>4. CASE name \in BrowserAPIs
    <2>1. target' = target /\ apis' = Stored(apis, name, value)
      BY <1>4 DEF WindowSet
    <2>2. "set" \notin TargetOps(name)
      BY <1>4 DEF TargetOps
    <2>3. TargetInv'
      BY <1>1, <2>1, <2>2, TargetStays DEF WindowInv
    <2>4. apis = [n \in BrowserAPIs |-> ApiNow(n)]
      BY DEF WindowInv
    <2>5. BrowserAPIs \cup {name} = BrowserAPIs
      BY <1>4
    <2>6. apis' = [n \in BrowserAPIs |-> ApiNow(n)']
      BY <1>1, <2>1, <2>4, <2>5 DEF Stored
    <2> QED
      BY <1>1, <1>2, <2>3, <2>6 DEF WindowInv
  <1>5. CASE name \notin BrowserAPIs
    <2>1. target' = Stored(target, name, value) /\ apis' = apis
      BY <1>5 DEF WindowSet
    <2>2. "set" \in TargetOps(name)
      BY <1>5 DEF TargetOps
    <2>3. TargetInv'
      BY <1>1, <1>3, <2>1, <2>2, TargetStores DEF WindowInv
    <2>4. apis' = [n \in BrowserAPIs |-> ApiNow(n)']
      BY <1>1, <1>5, <2>1 DEF WindowInv
    <2> QED
      BY <1>1, <1>2, <2>3, <2>4 DEF WindowInv
  <1> QED
    BY <1>4, <1>5

\* A step that is not an assignment leaves the stubs and the global object.
LEMMA StubsStay ==
    ASSUME WindowInv, apis' = apis, globals' = globals,
           \A n : ApiNow(n)' = ApiNow(n),
           \A n, otherwise : LastGiven({"setGlobal"}, n, otherwise)' =
               LastGiven({"setGlobal"}, n, otherwise)
    PROVE  /\ apis' = [n \in BrowserAPIs |-> ApiNow(n)']
           /\ \A n : GlobalGet(n)' = LastGiven({"setGlobal"}, n, Undefined)'
  <1>1. apis' = [n \in BrowserAPIs |-> ApiNow(n)']
    BY DEF WindowInv
  <1>2. \A n : GlobalGet(n)' = LastGiven({"setGlobal"}, n, Undefined)'
    BY DEF WindowInv, GlobalGet, Undefined, Value
  <1> QED
    BY <1>1, <1>2

LEMMA WindowDefineStep ==
    ASSUME WindowInv, NEW name \in ScriptNames, NEW value \in ScriptValues,
           WindowDefine(name, value)
    PROVE  WindowInv'
  <1>1. /\ HistoryInv'
        /\ \A n : Own(n)' = IF "define" \in TargetOps(n) /\ name = n THEN value ELSE Own(n)
        /\ \A n : ApiNow(n)' = ApiNow(n)
        /\ \A n, otherwise : LastGiven({"setGlobal"}, n, otherwise)' =
               LastGiven({"setGlobal"}, n, otherwise)
    <2>1. Records("define", name, value)
      BY DEF WindowDefine
    <2>2. [op |-> "define", name |-> name, value |-> value] \in RecordedSteps
      BY DEF RecordedSteps
    <2> QED
      BY <2>1, <2>2, Expected
  <1>2. TargetInv'
    <2>1. value # NoValue /\ "define" \in TargetOps(name)
      BY WindowAssumption DEF TargetOps
    <2>2. target' = Stored(target, name, value)
      BY DEF WindowDefine
    <2> QED
      BY <1>1, <2>1, <2>2, TargetStores DEF WindowInv
  <1>3. apis' = apis /\ globals' = globals
    BY DEF WindowDefine
  <1> QED
    BY <1>1, <1>2, <1>3, StubsStay DEF WindowInv

LEMMA WindowDeleteStep ==
    ASSUME WindowInv, NEW name \in ScriptNames, WindowDelete(name)
    PROVE  WindowInv'
  <1>1. /\ HistoryInv'
        /\ \A n : Own(n)' = IF "delete" \in TargetOps(n) /\ name = n THEN NoValue ELSE Own(n)
        /\ \A n : ApiNow(n)' = ApiNow(n)
        /\ \A n, otherwise : LastGiven({"setGlobal"}, n, otherwise)' =
               LastGiven({"setGlobal"}, n, otherwise)
    <2>1. Records("delete", name, NoValue)
      BY DEF WindowDelete
    <2>2. [op |-> "delete", name |-> name, value |-> NoValue] \in RecordedSteps
      BY DEF RecordedSteps
    <2> QED
      BY <2>1, <2>2, Expected
  <1>2. TargetInv'
    <2>1. "delete" \in TargetOps(name)
      BY DEF TargetOps
    <2>2. /\ DOMAIN target' = DOMAIN target \ {name}
          /\ \A n \in DOMAIN target \ {name} : target'[n] = target[n]
      BY DEF WindowDelete
    <2> QED
      BY <1>1, <2>1, <2>2 DEF WindowInv, TargetInv
  <1>3. apis' = apis /\ globals' = globals
    BY DEF WindowDelete
  <1> QED
    BY <1>1, <1>2, <1>3, StubsStay DEF WindowInv

LEMMA GlobalSetStep ==
    ASSUME WindowInv, NEW name \in ScriptNames, NEW value \in ScriptValues, GlobalSet(name, value)
    PROVE  WindowInv'
  <1>1. /\ HistoryInv'
        /\ \A n : Own(n)' = IF "setGlobal" \in TargetOps(n) /\ name = n THEN value ELSE Own(n)
        /\ \A n : ApiNow(n)' = ApiNow(n)
        /\ \A n, otherwise : LastGiven({"setGlobal"}, n, otherwise)' =
               IF name = n THEN value ELSE LastGiven({"setGlobal"}, n, otherwise)
    <2>1. Records("setGlobal", name, value)
      BY DEF GlobalSet
    <2>2. [op |-> "setGlobal", name |-> name, value |-> value] \in RecordedSteps
      BY DEF RecordedSteps
    <2> QED
      BY <2>1, <2>2, Expected
  <1>2. TargetInv'
    <2>1. \A n : "setGlobal" \notin TargetOps(n)
      BY DEF TargetOps
    <2>2. target' = target
      BY DEF GlobalSet
    <2> QED
      BY <1>1, <2>1, <2>2, TargetStays DEF WindowInv
  <1>3. apis' = [n \in BrowserAPIs |-> ApiNow(n)']
    BY <1>1 DEF WindowInv, GlobalSet
  <1>4. \A n : GlobalGet(n)' = LastGiven({"setGlobal"}, n, Undefined)'
    <2> DEFINE stored == Stored(globals, name, value)
    <2>1. /\ DOMAIN stored = DOMAIN globals \cup {name}
          /\ \A n \in DOMAIN globals \cup {name} :
                 stored[n] = IF n = name THEN value ELSE globals[n]
      BY DEF Stored
    <2>2. \A n : GlobalGet(n)' = IF name = n THEN value ELSE GlobalGet(n)
      <3>1. globals' = stored
        BY DEF GlobalSet
      <3> HIDE DEF stored
      <3> QED
        BY <2>1, <3>1 DEF GlobalGet, Undefined, Value
    <2>3. Undefined' = Undefined
      BY DEF Undefined, Value
    <2> QED
      BY <1>1, <2>2, <2>3 DEF WindowInv
  <1> QED
    BY <1>1, <1>2, <1>3, <1>4 DEF WindowInv

LEMMA WindowInvStep == WindowInv /\ [ScriptStep]_windowVars => WindowInv'
  <1> SUFFICES ASSUME WindowInv, [ScriptStep]_windowVars
               PROVE  WindowInv'
    OBVIOUS
  <1>1. CASE ScriptStep
    BY <1>1, WindowSetStep, WindowDefineStep, WindowDeleteStep, GlobalSetStep DEF ScriptStep
  <1>2. CASE UNCHANGED windowVars
    <2>1. target' = target /\ apis' = apis /\ globals' = globals /\ script' = script
      BY <1>2 DEF windowVars
    <2>2. \A ops, name : StepsOf(ops, name)' = StepsOf(ops, name)
      BY <2>1 DEF StepsOf
    <2>3. \A ops, name, otherwise :
              LastGiven(ops, name, otherwise)' = LastGiven(ops, name, otherwise)
      BY <2>1, <2>2 DEF LastGiven
    <2>4. HistoryInv'
      BY <2>1, <2>2 DEF WindowInv, HistoryInv, HasLast
    <2>5. \A n : Own(n)' = Own(n) /\ ApiNow(n)' = ApiNow(n)
      <3>1. \A n : TargetOps(n)' = TargetOps(n)
        BY DEF TargetOps
      <3> QED
        BY <2>3, <3>1, Zenon DEF Own, ApiNow
    <2>6. TargetInv'
      BY <2>1, <2>5, TargetStays DEF WindowInv
    <2> QED
      BY <2>1, <2>3, <2>4, <2>5, <2>6, StubsStay DEF WindowInv
  <1> QED
    BY <1>1, <1>2

LEMMA WindowIsItsHistory == WindowSpec => []WindowInv
  BY WindowInvInit, WindowInvStep, PTL DEF WindowSpec

\* What a name that is no builtin reads as.
LEMMA MeansWhatWasGiven ==
    ASSUME WindowInv, NEW n, n \notin SelfReferences \cup NativeBuiltins
    PROVE  WindowGet(n) = MeaningOf(n) /\ (WindowHas(n) <=> IsKnown(n))
  <1>1. /\ n \in DOMAIN target <=> Own(n) # NoValue
        /\ n \in DOMAIN target => target[n] = Own(n)
    BY DEF WindowInv, TargetInv
  <1>2. n \in BrowserAPIs => apis[n] = ApiNow(n)
    BY DEF WindowInv
  <1>3. n \in SafeProxied => n \in BrowserAPIs
    BY WindowAssumption
  <1>4. WindowHas(n) <=> IsKnown(n)
    BY <1>1 DEF WindowHas, IsKnown, InTarget
  <1>5. WindowGet(n) = MeaningOf(n)
    BY <1>1, <1>2, <1>3, Zenon DEF WindowGet, MeaningOf, InTarget, OfTarget
  <1> QED
    BY <1>4, <1>5

LEMMA ReadsFollow == WindowInv => WindowReads
  <1> SUFFICES ASSUME WindowInv
               PROVE  WindowReads
    OBVIOUS
  <1>1. /\ \A n \in SelfReferences : WindowGet(n) = windowProxy /\ WindowHas(n)
        /\ \A n \in NativeBuiltins \ SelfReferences :
               WindowGet(n) = Value("builtin", n) /\ WindowHas(n)
    BY DEF WindowGet, WindowHas
  <1>2. \A n \in Names \ (SelfReferences \cup NativeBuiltins) :
            WindowGet(n) = MeaningOf(n) /\ (WindowHas(n) <=> IsKnown(n))
    BY MeansWhatWasGiven
  <1> QED
    BY <1>1, <1>2 DEF WindowReads

\* A value of its own that no function has comes from a script.
LEMMA OwnIsGiven ==
    ASSUME WindowInv, NEW n, n \notin FunctionProps, Own(n) # NoValue
    PROVE  StepsOf({"set", "define"}, n) # {}
  <1> DEFINE steps == StepsOf(TargetOps(n), n)
  <1>1. steps # {} /\ Own(n) = script[Max(steps)].value
    BY DEF Own, LastGiven
  <1>2. /\ steps \subseteq 1..Len(script) /\ steps \subseteq Nat
        /\ \A i \in steps : script[i].op \in TargetOps(n) /\ script[i].name = n
    BY DEF StepsOf, WindowInv, HistoryInv
  <1>3. PICK i \in steps : \A j \in steps : j <= i
    BY <1>1 DEF WindowInv, HistoryInv, HasLast
  <1> HIDE DEF steps
  <1>4. Max(steps) = i /\ i \in 1..Len(script)
    BY <1>2, <1>3, MaxIs
  <1>5. script[i] \in RecordedSteps
    <2> HIDE DEF RecordedSteps
    <2> QED
      BY <1>4, ElementOfSeq DEF WindowInv, HistoryInv
  <1>6. script[i].op # "delete"
    BY <1>1, <1>4, <1>5 DEF RecordedSteps
  <1>7. script[i].op \in {"set", "define"} /\ script[i].name = n
    BY <1>2, <1>3, <1>6 DEF TargetOps
  <1> QED
    BY <1>4, <1>7 DEF StepsOf

LEMMA AcrawlerIsGiven == WindowInv => AcrawlerFoundIfGiven
  <1> SUFFICES ASSUME WindowInv
               PROVE  AcrawlerFoundIfGiven
    OBVIOUS
  <1> DEFINE global == LastGiven({"setGlobal"}, acrawler, Undefined)
             given == Own(acrawler)
             stub == Stub(acrawler)
  <1>1. acrawler \notin SelfReferences
    BY DEF acrawler, SelfReferences
  <1> HIDE DEF acrawler
  <1>2. acrawler \notin NativeBuiltins \cup BrowserAPIs \cup FunctionProps \cup PrototypeProps
        /\ acrawler \notin SafeProxied
    BY WindowAssumption
  <1>3. GlobalGet(acrawler) = global
    BY DEF WindowInv
  <1>4. WindowGet(acrawler) = IF given # NoValue THEN given ELSE stub
    BY <1>1, <1>2, MeansWhatWasGiven, Zenon DEF MeaningOf
  <1>5. Truthy(stub)
    BY DEF Stub, Value, Truthy
  <1>6. given # NoValue => StepsOf({"set", "define"}, acrawler) # {}
    BY <1>2, OwnIsGiven
  <1> HIDE DEF global, given, stub
  <1>7. AcrawlerFound = IF Truthy(global) THEN global ELSE IF given # NoValue THEN given ELSE stub
    BY <1>3, <1>4, Zenon DEF AcrawlerFound
  <1>8. AcrawlerMissed => given # NoValue /\ ~Truthy(given)
    BY <1>5, <1>7, Zenon DEF AcrawlerMissed
  <1> QED
    BY <1>6, <1>7, <1>8, Zenon DEF AcrawlerFoundIfGiven, global, given, stub

\* Whatever scripts assign, define and delete, in any order, and for any builtins and
\* stubs and whatever functions have: a name of the window means what WindowReads says.
THEOREM NamesMeanWhatWasSet == WindowSpec => []WindowReads
  BY WindowIsItsHistory, ReadsFollow, PTL

\* Whatever scripts do, and with whatever values: the signer finds the byted_acrawler
\* they gave, and misses it only if what they gave the window is falsy.
THEOREM AcrawlerIsFoundIfGiven == WindowSpec => []AcrawlerFoundIfGiven
  BY WindowIsItsHistory, AcrawlerIsGiven, PTL

-----------------------------------------------------------------------------
(* The URL that sign() returns                                             *)

RequestInv ==
    /\ requested \in Seq([op : {"open"}, url : [SignatureParams -> Signatures \cup {Missing}]]
                             \cup [op : {"setRequestHeader"}, name : SignatureParams])
    /\ DOMAIN _headers \cap SignatureParams = {}
    /\ \/ _url = Unsigned /\ \A i \in 1..Len(requested) : requested[i].op # "open"
       \/ \E i \in 1..Len(requested) :
              /\ requested[i].op = "open" /\ requested[i].url = _url
              /\ \A j \in 1..Len(requested) : requested[j].op = "open" => j <= i

LEMMA RequestInvInit == RequestInit => RequestInv
  <1> SUFFICES ASSUME RequestInit
               PROVE  RequestInv
    OBVIOUS
  <1>1. requested = <<>> /\ Len(requested) = 0 /\ _url = Unsigned
    BY DEF RequestInit
  <1>2. DOMAIN _headers = {}
    BY DEF RequestInit
  <1> QED
    BY <1>1, <1>2, EmptySeq DEF RequestInv

LEMMA RequestInvStep == RequestInv /\ [RequestStep]_requestVars => RequestInv'
  <1> SUFFICES ASSUME RequestInv, [RequestStep]_requestVars
               PROVE  RequestInv'
    OBVIOUS
  <1> DEFINE steps == [op : {"open"}, url : [SignatureParams -> Signatures \cup {Missing}]]
                          \cup [op : {"setRequestHeader"}, name : SignatureParams]
             n == Len(requested)
  <1>1. requested \in Seq(steps) /\ n \in Nat
    BY DEF RequestInv
  <1>2. ASSUME NEW step \in steps, requested' = Append(requested, step)
        PROVE  /\ requested' \in Seq(steps) /\ Len(requested') = n + 1
               /\ requested'[n + 1] = step
               /\ \A i \in 1..n : requested'[i] = requested[i]
    <2> HIDE DEF steps
    <2> QED
      BY <1>1, <1>2, AppendProperties
  <1>3. ASSUME NEW signature \in [SignatureParams -> Signatures \cup {Missing}], open(signature)
        PROVE  RequestInv'
    <2> DEFINE step == [op |-> "open", url |-> signature]
    <2>1. step \in steps /\ step.op = "open" /\ step.url = signature
      OBVIOUS
    <2>2. /\ requested' = Append(requested, step)
          /\ _url' = signature /\ _headers' = _headers
      BY <1>3 DEF open
    <2>3. /\ requested' \in Seq(steps) /\ Len(requested') = n + 1
          /\ requested'[n + 1] = step
      BY <1>2, <2>1, <2>2
    <2> HIDE DEF step
    <2>4. \E i \in 1..Len(requested') :
              /\ requested'[i].op = "open" /\ requested'[i].url = _url'
              /\ \A j \in 1..Len(requested') : requested'[j].op = "open" => j <= i
      <3> HIDE DEF n
      <3>1. n + 1 \in 1..(n + 1) /\ \A j \in 1..(n + 1) : j <= n + 1
        BY <1>1
      <3> QED
        BY <2>1, <2>2, <2>3, <3>1
    <2> QED
      BY <2>2, <2>3, <2>4 DEF RequestInv
  <1>4. ASSUME NEW name \in SignatureParams, NEW value \in Signatures, setRequestHeader(name, value)
        PROVE  RequestInv'
    <2> DEFINE step == [op |-> "setRequestHeader", name |-> name]
    <2>1. step \in steps /\ step.op # "open"
      OBVIOUS
    <2>2. /\ requested' = Append(requested, step)
          /\ _url' = _url
          /\ DOMAIN _headers' = DOMAIN _headers \cup {toLowerCase(name)}
      BY <1>4 DEF setRequestHeader, WithHeader
    <2>3. toLowerCase(name) \notin SignatureParams
      BY DEF toLowerCase, SignatureParams
    <2>4. /\ requested' \in Seq(steps) /\ Len(requested') = n + 1
          /\ requested'[n + 1] = step
          /\ \A i \in 1..n : requested'[i] = requested[i]
      BY <1>2, <2>1, <2>2
    <2> HIDE DEF step, n
    <2>5. \A i \in 1..(n + 1) : i \in 1..n \/ i = n + 1
      BY <1>1
    <2>6. \A i \in 1..n : i \in 1..(n + 1)
      BY <1>1
    <2>7. CASE _url = Unsigned /\ \A i \in 1..n : requested[i].op # "open"
      <3>1. \A i \in 1..Len(requested') : requested'[i].op # "open"
        BY <2>1, <2>4, <2>5, <2>7
      <3> QED
        BY <2>2, <2>3, <2>4, <2>7, <3>1 DEF RequestInv
    <2>8. CASE \E i \in 1..n :
                   /\ requested[i].op = "open" /\ requested[i].url = _url
                   /\ \A j \in 1..n : requested[j].op = "open" => j <= i
      <3>1. PICK i \in 1..n :
                   /\ requested[i].op = "open" /\ requested[i].url = _url
                   /\ \A j \in 1..n : requested[j].op = "open" => j <= i
        BY <2>8
      <3>2. /\ i \in 1..Len(requested')
            /\ requested'[i].op = "open" /\ requested'[i].url = _url'
        BY <2>2, <2>4, <2>6, <3>1
      <3>3. \A j \in 1..Len(requested') : requested'[j].op = "open" => j <= i
        BY <2>1, <2>4, <2>5, <3>1
      <3> QED
        BY <2>2, <2>3, <2>4, <3>2, <3>3 DEF RequestInv
    <2> QED
      BY <2>7, <2>8 DEF RequestInv, n
  <1>5. CASE UNCHANGED requestVars
    BY <1>5 DEF requestVars, RequestInv
  <1> QED
    BY <1>3, <1>4, <1>5 DEF RequestStep

LEMMA UrlIsTheLastOpened == RequestInv => LastOpenedIsReturned
  <1> SUFFICES ASSUME RequestInv
               PROVE  LastOpenedIsReturned
    OBVIOUS
  <1> DEFINE opens == {i \in 1..Len(requested) : requested[i].op = "open"}
  <1>1. Header("X-Bogus") = Missing
    BY DEF RequestInv, Header, SignatureParams
  <1>2. SignedUrl = _url
    BY <1>1 DEF SignedUrl
  <1>3. Len(requested) \in Nat
    BY DEF RequestInv
  <1>4. CASE _url = Unsigned /\ \A i \in 1..Len(requested) : requested[i].op # "open"
    BY <1>2, <1>4 DEF LastOpenedIsReturned
  <1>5. CASE \E i \in 1..Len(requested) :
                 /\ requested[i].op = "open" /\ requested[i].url = _url
                 /\ \A j \in 1..Len(requested) : requested[j].op = "open" => j <= i
    <2>1. PICK i \in opens :
                 /\ requested[i].url = _url
                 /\ \A j \in opens : j <= i
      BY <1>5
    <2>2. opens \subseteq Nat
      BY <1>3
    <2> HIDE DEF opens
    <2>3. Max(opens) = i /\ opens # {}
      BY <2>1, <2>2, MaxIs
    <2> USE DEF opens
    <2> QED
      BY <1>2, <2>1, <2>3 DEF LastOpenedIsReturned
  <1> QED
    BY <1>4, <1>5 DEF RequestInv

\* Why BothParamsCarried fails: whatever signatures the SDK puts into the URL or the
\* headers of the request, and however often, sign() returns the URL that was opened
\* last, and none that came in a header.
THEOREM HeadersNeverSign == RequestSpec => []LastOpenedIsReturned
  BY RequestInvInit, RequestInvStep, UrlIsTheLastOpened, PTL DEF RequestSpec

-----------------------------------------------------------------------------
(* Events                                                                  *)

\* A picture is there if there is a URL in either image.
LEMMA PictureIfAny ==
    ASSUME NEW S, NEW image \in Seq(S), NEW otherwise \in Seq(S), Preferred(image, otherwise) = Blank
    PROVE  image \o otherwise = <<>>
  BY DEF Preferred, Blank

EventFields ==
    {"user", "comment", "gift", "gift_streaking", "gift_icon_url", "like_count", "member_count",
     "viewer_count", "control_action"}

\* The event of a message that was not recognised, or did not decode.
LEMMA NothingOf ==
    /\ DOMAIN NewEvent = EventFields \cup {"type"}
    /\ NewEvent.type = "Unknown" /\ \A f \in EventFields : NewEvent[f] = Blank
  BY DEF NewEvent, EventFields

\* What parse_event() begins with for a message that has a user.
LEMMA WithUser ==
    ASSUME NEW type, NEW user
    PROVE  LET ev == [NewEvent EXCEPT !.type = type, !.user = user]
           IN  /\ DOMAIN ev = EventFields \cup {"type"}
               /\ ev.type = type /\ ev.user = user
               /\ \A f \in EventFields \ {"user"} : ev[f] = Blank
  BY NothingOf DEF EventFields

\* The event, by the kind of message, as the fields that are assigned.
LEMMA EventsAre ==
    ASSUME NEW m, m.method \in Methods
    PROVE  LET ev == Decoded(m.method, m)
           IN  /\ DOMAIN ev = EventFields \cup {"type"}
               /\ ev.type # "Unknown"
               /\ \A f \in EventFields : ev[f] # Blank => f \in RelevantFields(ev.type)
               /\ ev.type = "LiveEnd" => m.method = "WebcastControlMessage" /\ m.action # 1
               /\ ev.user \in {Blank, fill_user(m)}
               /\ ev.gift # Blank => ev.gift_icon_url = GiftIcon(m)
  <1> DEFINE ev == Decoded(m.method, m)
             Holds(e) ==
                /\ DOMAIN e = EventFields \cup {"type"}
                /\ e.type # "Unknown"
                /\ \A f \in EventFields : e[f] # Blank => f \in RelevantFields(e.type)
                /\ e.type = "LiveEnd" => m.method = "WebcastControlMessage" /\ m.action # 1
                /\ e.user \in {Blank, fill_user(m)}
                /\ e.gift # Blank => e.gift_icon_url = GiftIcon(m)
  <1>1. CASE m.method = "WebcastChatMessage"
    <2> DEFINE e == [NewEvent EXCEPT !.type = "Comment", !.user = fill_user(m)]
    <2>1. ev = [e EXCEPT !.comment = <<m.value>>]
      BY <1>1 DEF Decoded, Assign, UserMessages
    <2>2. /\ DOMAIN e = EventFields \cup {"type"}
          /\ e.type = "Comment" /\ e.user = fill_user(m)
          /\ \A f \in EventFields \ {"user"} : e[f] = Blank
      BY WithUser
    <2> HIDE DEF e
    <2>3. Holds([e EXCEPT !.comment = <<m.value>>])
      BY <2>2 DEF EventFields, RelevantFields
    <2> QED
      BY <2>1, <2>3
  <1>2. CASE m.method = "WebcastGiftMessage"
    <2> DEFINE e == [NewEvent EXCEPT !.type = "Gift", !.user = fill_user(m)]
    <2>1. ev = [e EXCEPT !.gift = <<m.value>>, !.gift_streaking = <<m.repeat_end = 0>>,
                        !.gift_icon_url = GiftIcon(m)]
      BY <1>2 DEF Decoded, Assign, UserMessages
    <2>2. /\ DOMAIN e = EventFields \cup {"type"}
          /\ e.type = "Gift" /\ e.user = fill_user(m)
          /\ \A f \in EventFields \ {"user"} : e[f] = Blank
      BY WithUser
    <2> HIDE DEF e
    <2>3. Holds([e EXCEPT !.gift = <<m.value>>, !.gift_streaking = <<m.repeat_end = 0>>,
                        !.gift_icon_url = GiftIcon(m)])
      BY <2>2 DEF EventFields, RelevantFields
    <2> QED
      BY <2>1, <2>3
  <1>3. CASE m.method = "WebcastLikeMessage"
    <2> DEFINE e == [NewEvent EXCEPT !.type = "Like", !.user = fill_user(m)]
    <2>1. ev = [e EXCEPT !.like_count = <<m.value>>]
      BY <1>3 DEF Decoded, Assign, UserMessages
    <2>2. /\ DOMAIN e = EventFields \cup {"type"}
          /\ e.type = "Like" /\ e.user = fill_user(m)
          /\ \A f \in EventFields \ {"user"} : e[f] = Blank
      BY WithUser
    <2> HIDE DEF e
    <2>3. Holds([e EXCEPT !.like_count = <<m.value>>])
      BY <2>2 DEF EventFields, RelevantFields
    <2> QED
      BY <2>1, <2>3
  <1>4. CASE m.method = "WebcastMemberMessage"
    <2> DEFINE e == [NewEvent EXCEPT !.type = "Join", !.user = fill_user(m)]
    <2>1. ev = [e EXCEPT !.member_count = <<m.value>>]
      BY <1>4 DEF Decoded, Assign, UserMessages
    <2>2. /\ DOMAIN e = EventFields \cup {"type"}
          /\ e.type = "Join" /\ e.user = fill_user(m)
          /\ \A f \in EventFields \ {"user"} : e[f] = Blank
      BY WithUser
    <2> HIDE DEF e
    <2>3. Holds([e EXCEPT !.member_count = <<m.value>>])
      BY <2>2 DEF EventFields, RelevantFields
    <2> QED
      BY <2>1, <2>3
  <1>5. CASE m.method = "WebcastSocialMessage"
    <2> DEFINE e == [NewEvent EXCEPT !.type = "Social", !.user = fill_user(m)]
    <2>1. ev = [e EXCEPT !.type = SocialType(m), !.member_count = <<m.value>>]
      BY <1>5 DEF Decoded, Assign, UserMessages
    <2>2. /\ DOMAIN e = EventFields \cup {"type"}
          /\ e.type = "Social" /\ e.user = fill_user(m)
          /\ \A f \in EventFields \ {"user"} : e[f] = Blank
      BY WithUser
    <2> HIDE DEF e
    <2>3. Holds([e EXCEPT !.type = SocialType(m), !.member_count = <<m.value>>])
      BY <2>2 DEF EventFields, RelevantFields, SocialType
    <2> QED
      BY <2>1, <2>3
  <1>6. CASE m.method = "WebcastSubNotifyMessage"
    <2> DEFINE e == [NewEvent EXCEPT !.type = "Subscribe", !.user = fill_user(m)]
    <2>1. ev = e
      BY <1>6 DEF Decoded, Assign, UserMessages
    <2>2. /\ DOMAIN e = EventFields \cup {"type"}
          /\ e.type = "Subscribe" /\ e.user = fill_user(m)
          /\ \A f \in EventFields \ {"user"} : e[f] = Blank
      BY WithUser
    <2> HIDE DEF e
    <2>3. Holds(e)
      BY <2>2 DEF EventFields, RelevantFields
    <2> QED
      BY <2>1, <2>3
  <1>7. CASE m.method = "WebcastRoomUserSeqMessage"
    <2>1. ev = [NewEvent EXCEPT !.type = "RoomUserSeq", !.viewer_count = <<m.value>>]
      BY <1>7 DEF Decoded, Assign, UserMessages
    <2>2. Holds([NewEvent EXCEPT !.type = "RoomUserSeq", !.viewer_count = <<m.value>>])
      BY <1>7, NothingOf DEF EventFields, RelevantFields
    <2> QED
      BY <2>1, <2>2
  <1>8. CASE m.method = "WebcastControlMessage"
    <2>1. ev = [NewEvent EXCEPT !.type = ControlType(m), !.control_action = <<m.action>>]
      BY <1>8 DEF Decoded, Assign, UserMessages
    <2>2. Holds([NewEvent EXCEPT !.type = ControlType(m), !.control_action = <<m.action>>])
      BY <1>8, NothingOf DEF EventFields, RelevantFields, ControlType
    <2> QED
      BY <2>1, <2>2
  <1>9. m.method \in {"WebcastChatMessage", "WebcastGiftMessage", "WebcastLikeMessage",
                      "WebcastMemberMessage", "WebcastSocialMessage", "WebcastSubNotifyMessage",
                      "WebcastRoomUserSeqMessage", "WebcastControlMessage"}
    BY DEF Methods, UserMessages, OtherMessages
  <1> HIDE DEF ev, Holds
  <1> QED
    BY <1>1, <1>2, <1>3, <1>4, <1>5, <1>6, <1>7, <1>8, <1>9, Zenon

\* For a message of any kind and content, with any lists of URLs for its images.
LEMMA EveryEventHoldsItsFields ==
    ASSUME NEW m, NEW S, m.avatar_thumb \in Seq(S), m.avatar_medium \in Seq(S),
           m.image \in Seq(S), m.icon \in Seq(S)
    PROVE  HoldsItsFields(m)
  <1> DEFINE ev == parse_event(m.method, m)
  <1>1. CASE ~m.decodes \/ m.method \notin Methods
    <2>1. ev = NewEvent
      BY <1>1 DEF parse_event
    <2>2. Range(ev.user) = {}
      BY <2>1 DEF Range, NewEvent, Blank
    <2> HIDE DEF ev
    <2> QED
      BY <1>1, <2>1, <2>2, NothingOf DEF HoldsItsFields, ev, EventFields
  <1>2. CASE m.decodes /\ m.method \in Methods
    <2>1. ev = Decoded(m.method, m)
      BY <1>2 DEF parse_event
    <2>2. /\ DOMAIN ev = EventFields \cup {"type"}
          /\ ev.type # "Unknown"
          /\ \A f \in EventFields : ev[f] # Blank => f \in RelevantFields(ev.type)
          /\ ev.type = "LiveEnd" => m.method = "WebcastControlMessage" /\ m.action # 1
          /\ ev.user \in {Blank, fill_user(m)}
          /\ ev.gift # Blank => ev.gift_icon_url = GiftIcon(m)
      BY <1>2, <2>1, EventsAre
    <2> HIDE DEF ev
    <2>3. \A user \in Range(ev.user) :
              user.avatar_url = Preferred(m.avatar_thumb, m.avatar_medium)
      <3>1. Range(Blank) = {}
        BY DEF Range, Blank
      <3>2. \A user \in Range(fill_user(m)) :
                user.avatar_url = Preferred(m.avatar_thumb, m.avatar_medium)
        BY DEF Range, fill_user
      <3> QED
        BY <2>2, <3>1, <3>2
    <2>4. \A user \in Range(ev.user) :
              user.avatar_url = Blank => m.avatar_thumb \o m.avatar_medium = <<>>
      BY <2>3, PictureIfAny
    <2>5. ev.gift # Blank /\ ev.gift_icon_url = Blank
              => ~m.has_gift \/ m.image \o m.icon = <<>>
      BY <2>2, PictureIfAny DEF GiftIcon
    <2>6. \A f \in DOMAIN ev \ {"type"} : ev[f] # Blank => f \in RelevantFields(ev.type)
      BY <2>2
    <2> QED
      BY <1>2, <2>2, <2>4, <2>5, <2>6 DEF HoldsItsFields, ev
  <1> QED
    BY <1>1, <1>2

\* The inputs of a kind are what that kind has.
InputInv == kind \in DOMAIN Elements => input \in Seq(Elements[kind])

LEMMA InputInvStep == InputInv /\ [Next]_textVars => InputInv'
  <1> SUFFICES ASSUME InputInv, [Next]_textVars
               PROVE  InputInv'
    OBVIOUS
  <1> HIDE DEF Elements
  <1>1. CASE Grow
    <2>1. /\ kind' = kind /\ kind \in DOMAIN Elements /\ input \in Seq(Elements[kind])
          /\ \E e \in Elements[kind] : input' = Append(input, e)
      BY <1>1 DEF Grow, InputInv
    <2>2. input' \in Seq(Elements[kind])
      BY <2>1, AppendProperties
    <2> QED
      BY <2>1, <2>2 DEF InputInv, Elements
  <1>2. CASE ScriptGoes \/ RequestGoes \/ Full \/ UNCHANGED textVars
    <2>1. UNCHANGED <<kind, input>>
      BY <1>2 DEF ScriptGoes, RequestGoes, Full, textVars, inputVars
    <2> QED
      BY <2>1 DEF InputInv, Elements
  <1> QED
    BY <1>1, <1>2 DEF Next

\* Nothing has been given at first.
LEMMA InputInvInit == Init => InputInv
  BY EmptySeq DEF Init, InputInv

\* No URL, one, or two make a list.
LEMMA PicturesAreLists ==
    ASSUME NEW S, NEW url \in S, NEW other \in S
    PROVE  /\ <<>> \in Seq(S) /\ <<url>> \in Seq(S) /\ <<url, other>> \in Seq(S)
  OBVIOUS

\* An event carries the fields of its type, and pictures where its message has some;
\* what did not decode leaves nothing in it and ends nothing.
THEOREM EventsOfAnyMessage == Spec => []EventsHoldTheirFields
  <1>1. Init => InputInv
    BY InputInvInit
  <1>2. InputInv => EventsHoldTheirFields
    <2> SUFFICES ASSUME InputInv, kind = "event", input # <<>>
                 PROVE  HoldsItsFields(input[1])
      BY DEF EventsHoldTheirFields
    <2>1. input[1] \in Elements["event"]
      <3>1. "event" \in DOMAIN Elements
        BY DEF Elements
      <3> HIDE DEF Elements
      <3> QED
        BY <3>1 DEF InputInv
    <2>2. PICK method : input[1] \in MessagesOf(method)
      BY <2>1 DEF Elements
    <2> DEFINE S == {"thumb", "medium", "image", "icon", "second"}
    <2>3. /\ Pictures("thumb") = {<<>>, <<"thumb">>, <<"thumb", "second">>}
          /\ Pictures("image") = {<<>>, <<"image">>, <<"image", "second">>}
      BY DEF Pictures
    <2>4. /\ input[1].avatar_thumb \in Seq(S) /\ input[1].avatar_medium \in Seq(S)
          /\ input[1].image \in Seq(S) /\ input[1].icon \in Seq(S)
      <3>1. /\ input[1].avatar_thumb \in Pictures("thumb") /\ input[1].image \in Pictures("image")
            /\ input[1].avatar_medium \in {<<>>, <<"medium">>} /\ input[1].icon \in {<<>>, <<"icon">>}
        BY <2>2 DEF MessagesOf
      <3>2. /\ "thumb" \in S /\ "medium" \in S /\ "image" \in S /\ "icon" \in S /\ "second" \in S
        OBVIOUS
      <3> HIDE DEF S
      <3>3. input[1].avatar_thumb \in Seq(S)
        <4>1. <<>> \in Seq(S) /\ <<"thumb">> \in Seq(S) /\ <<"thumb", "second">> \in Seq(S)
          BY <3>2, PicturesAreLists
        <4> QED
          BY <2>3, <3>1, <4>1, Zenon
      <3>4. input[1].image \in Seq(S)
        <4>1. <<>> \in Seq(S) /\ <<"image">> \in Seq(S) /\ <<"image", "second">> \in Seq(S)
          BY <3>2, PicturesAreLists
        <4> QED
          BY <2>3, <3>1, <4>1, Zenon
      <3>5. input[1].avatar_medium \in Seq(S)
        <4>1. <<>> \in Seq(S) /\ <<"medium">> \in Seq(S)
          BY <3>2, PicturesAreLists
        <4> QED
          BY <3>1, <4>1, Zenon
      <3>6. input[1].icon \in Seq(S)
        <4>1. <<>> \in Seq(S) /\ <<"icon">> \in Seq(S)
          BY <3>2, PicturesAreLists
        <4> QED
          BY <3>1, <4>1, Zenon
      <3> QED
        BY <3>3, <3>4, <3>5, <3>6
    <2> HIDE DEF S
    <2> QED
      BY <2>4, EveryEventHoldsItsFields
  <1> QED
    BY <1>1, <1>2, InputInvStep, PTL DEF Spec

-----------------------------------------------------------------------------
(* Inductions and loops                                                    *)

\* A set of numbers with 0 and the successor of each of its numbers has them all.
LEMMA NumbersBySet ==
    ASSUME NEW S, 0 \in S, \A n \in Nat : n \in S => n + 1 \in S
    PROVE  \A n \in Nat : n \in S
  <1> DEFINE R == {ss \in Nat \X Nat : ss[1] < ss[2]}
             Rest == Nat \ S
  <1>1. IsWellFoundedOn(R, Nat)
    BY NatLessThanWellFounded DEF OpToRel
  <1> SUFFICES ASSUME Rest # {}
               PROVE  FALSE
    OBVIOUS
  <1> HIDE DEF R
  <1>2. PICK x \in Rest : \A y \in Rest : ~(<<y, x>> \in R)
    BY <1>1, WFMin
  <1>3. x \in Nat /\ x # 0 /\ x - 1 \in Nat
    OBVIOUS
  <1>4. <<x - 1, x>> \in R
    BY <1>3 DEF R
  <1>5. x - 1 \in S
    BY <1>2, <1>3, <1>4
  <1> QED
    BY <1>3, <1>5

\* A set of sequences with the empty one and every extension of its sequences
\* has them all.
LEMMA SequencesBySet ==
    ASSUME NEW E, NEW S, <<>> \in S,
           \A s \in Seq(E) : \A e \in E : s \in S => Append(s, e) \in S
    PROVE  \A s \in Seq(E) : s \in S
  <1> DEFINE N == {n \in Nat : \A s \in Seq(E) : Len(s) = n => s \in S}
  <1>1. 0 \in N
    BY EmptySeq
  <1>2. ASSUME NEW n \in Nat, n \in N
        PROVE  n + 1 \in N
    <2>1. ASSUME NEW s \in Seq(E), Len(s) = n + 1
          PROVE  s \in S
      <3>1. s # <<>>
        BY <2>1
      <3>2. PICK t \in Seq(E), e \in E : s = Append(t, e)
        BY <3>1, SequenceEmptyOrAppend
      <3>3. Len(t) = n
        BY <2>1, <3>2, AppendProperties, LenProperties
      <3>4. t \in S
        BY <1>2, <3>3
      <3> QED
        BY <3>2, <3>4
    <2> QED
      BY <2>1
  <1> HIDE DEF N
  <1>3. \A n \in Nat : n \in N
    BY <1>1, <1>2, NumbersBySet
  <1> QED
    BY <1>3, LenProperties DEF N

\* The values of a loop, from the first and from that of the round before.
IsLoop(f, T, n, base, Step) ==
    /\ f \in [0..n -> T]
    /\ f[0] = base
    /\ \A i \in 1..n : f[i] = Step[<<i, f[i - 1]>>]

\* A loop of n rounds has a value after each.
LEMMA LoopHasValues ==
    ASSUME NEW T, NEW n \in Nat, NEW base \in T, NEW Step \in [(1..n) \X T -> T]
    PROVE  \E f : IsLoop(f, T, n, base, Step)
  <1> DEFINE Good(f, k) ==
                 f[0] = base /\ \A i \in 1..k : f[i] = Step[<<i, f[i - 1]>>]
             S == {k \in Nat : k <= n => \E f \in [0..k -> T] : Good(f, k)}
  <1>1. 0 \in S
    <2> DEFINE f == [i \in 0..0 |-> base]
    <2>1. f \in [0..0 -> T] /\ Good(f, 0)
      OBVIOUS
    <2> QED
      BY <2>1
  <1>2. ASSUME NEW k \in Nat, k \in S
        PROVE  k + 1 \in S
    <2> SUFFICES ASSUME k + 1 <= n
                 PROVE  \E f \in [0..(k + 1) -> T] : Good(f, k + 1)
      OBVIOUS
    <2>1. PICK g \in [0..k -> T] : Good(g, k)
      BY <1>2
    <2>2. g[k] \in T /\ Step[<<k + 1, g[k]>>] \in T
      OBVIOUS
    <2> DEFINE f == [i \in 0..(k + 1) |-> IF i <= k THEN g[i] ELSE Step[<<k + 1, g[k]>>]]
    <2>3. f \in [0..(k + 1) -> T]
      BY <2>2
    <2>4. f[0] = base
      BY <2>1
    <2>5. ASSUME NEW i \in 1..(k + 1)
          PROVE  f[i] = Step[<<i, f[i - 1]>>]
      <3>1. i - 1 \in 0..k /\ f[i - 1] = g[i - 1]
        OBVIOUS
      <3>2. CASE i <= k
        BY <2>1, <3>1, <3>2
      <3>3. CASE i = k + 1
        <4>1. f[k + 1] = Step[<<k + 1, g[k]>>] /\ f[i - 1] = g[k]
          BY <3>1, <3>3
        <4> HIDE DEF f
        <4> QED
          BY <3>3, <4>1
      <3> QED
        BY <3>2, <3>3
    <2> QED
      BY <2>3, <2>4, <2>5
  <1> HIDE DEF S
  <1>3. n \in S
    BY <1>1, <1>2, NumbersBySet
  <1>4. PICK f \in [0..n -> T] : Good(f, n)
    BY <1>3 DEF S
  <1> QED
    BY <1>4 DEF IsLoop

\* A loop that begins in a set and never leaves it stays there.
LEMMA LoopStays ==
    ASSUME NEW T, NEW n \in Nat, NEW f, f[0] \in T,
           \A i \in 1..n : f[i - 1] \in T => f[i] \in T
    PROVE  \A i \in 0..n : f[i] \in T
  <1> DEFINE S == {i \in Nat : i <= n => f[i] \in T}
  <1>1. 0 \in S
    OBVIOUS
  <1>2. ASSUME NEW i \in Nat, i \in S
        PROVE  i + 1 \in S
    <2> SUFFICES ASSUME i + 1 <= n
                 PROVE  f[i + 1] \in T
      OBVIOUS
    <2>1. i + 1 \in 1..n /\ (i + 1) - 1 = i /\ f[i] \in T
      BY <1>2
    <2> QED
      BY <2>1
  <1> HIDE DEF S
  <1>3. \A i \in Nat : i \in S
    BY <1>1, <1>2, NumbersBySet
  <1> QED
    BY <1>3 DEF S

\* Two loops that begin alike and go on alike are alike.
GoAlike(f, g, n) ==
    f[0] = g[0] /\ \A i \in 1..n : f[i - 1] = g[i - 1] => f[i] = g[i]

\* By induction over how far they agree.
LEMMA LoopsAgree ==
    ASSUME NEW n \in Nat, NEW f, NEW g, GoAlike(f, g, n)
    PROVE  \A i \in 0..n : f[i] = g[i]
  <1> DEFINE S == {i \in Nat : i <= n => f[i] = g[i]}
  <1>1. 0 \in S
    BY DEF GoAlike
  <1>2. ASSUME NEW i \in Nat, i \in S
        PROVE  i + 1 \in S
    <2> SUFFICES ASSUME i + 1 <= n
                 PROVE  f[i + 1] = g[i + 1]
      OBVIOUS
    <2>1. i + 1 \in 1..n /\ (i + 1) - 1 = i /\ f[i] = g[i]
      BY <1>2
    <2> QED
      BY <2>1 DEF GoAlike
  <1> HIDE DEF S
  <1>3. \A i \in Nat : i \in S
    BY <1>1, <1>2, NumbersBySet
  <1> QED
    BY <1>3 DEF S

-----------------------------------------------------------------------------
(* Queries                                                                 *)

Byte == 0..255

\* What one character is encoded as.
LEMMA EncodedCharIs ==
    ASSUME NEW c \in Byte
    PROVE  /\ EncodedChar(c) \in Seq(Byte)
           /\ c \in Unreserved => EncodedChar(c) = <<c>>
           /\ c \notin Unreserved =>
                  EncodedChar(c) = <<Percent, hex(c \div 16), hex(c % 16)>>
           /\ hex(c \div 16) \in Byte /\ hex(c % 16) \in Byte
           /\ FromHex(hex(c \div 16)) * 16 + FromHex(hex(c % 16)) = c
  <1> DEFINE q == c \div 16
             r == c % 16
  <1>1. q \in 0..15 /\ r \in 0..15 /\ c = q * 16 + r
    BY DEF Byte
  <1> HIDE DEF q, r
  <1>2. \A n \in 0..15 : hex(n) \in Byte /\ FromHex(hex(n)) = n
    BY DEF hex, FromHex, Byte
  <1>3. hex(q) \in Byte /\ hex(r) \in Byte /\ FromHex(hex(q)) * 16 + FromHex(hex(r)) = c
    BY <1>1, <1>2
  <1>4. /\ hex(c \div 16) \in Byte /\ hex(c % 16) \in Byte
        /\ FromHex(hex(c \div 16)) * 16 + FromHex(hex(c % 16)) = c
    BY <1>3 DEF q, r
  <1>5. EncodedChar(c) \in Seq(Byte)
    <2>1. Percent \in Byte
      BY DEF Percent, Byte
    <2> QED
      BY <1>4, <2>1 DEF EncodedChar
  <1> QED
    BY <1>4, <1>5 DEF EncodedChar

\* The loop of append_encoded().
LEMMA EncodedLoop ==
    ASSUME NEW s \in Seq(Byte)
    PROVE  \E f : /\ f[0] = <<>>
                  /\ \A i \in 1..Len(s) : f[i] = f[i - 1] \o EncodedChar(s[i])
                  /\ \A i \in 0..Len(s) : f[i] \in Seq(Byte)
                  /\ Encoded(s) = f[Len(s)]
  <1> DEFINE n == Len(s)
             T == Seq(Byte)
             e == <<>>
             Step == [p \in (1..n) \X T |-> p[2] \o EncodedChar(s[p[1]])]
             Is(f) == f = [i \in 0..n |-> IF i = 0 THEN <<>>
                                          ELSE f[i - 1] \o EncodedChar(s[i])]
             text == CHOOSE f : Is(f)
  <1>1. n \in Nat /\ \A i \in 1..n : s[i] \in Byte /\ EncodedChar(s[i]) \in T
    BY LenProperties, ElementOfSeq, EncodedCharIs
  <1>2. Step \in [(1..n) \X T -> T]
    BY <1>1, ConcatProperties
  <1>3. e \in T
    BY EmptySeq
  <1>4. Encoded(s) = text[n]
    BY DEF Encoded
  <1>5. ASSUME NEW i \in 1..n, NEW t \in T
        PROVE  Step[<<i, t>>] = t \o EncodedChar(s[i])
    OBVIOUS
  <1>6. ASSUME NEW t \in T, NEW i \in 1..n
        PROVE  t \o EncodedChar(s[i]) \in T
    BY <1>1, ConcatProperties
  <1> HIDE DEF n, T, e, Step
  <1>7. PICK g : IsLoop(g, T, n, e, Step)
    BY <1>1, <1>2, <1>3, LoopHasValues
  <1>8. ASSUME NEW i \in 0..n
        PROVE  g[i] = IF i = 0 THEN <<>> ELSE g[i - 1] \o EncodedChar(s[i])
    <2>1. CASE i = 0
      BY <1>7, <2>1 DEF e, IsLoop
    <2>2. CASE i # 0
      <3>1. i \in 1..n /\ g[i - 1] \in T
        BY <1>1, <1>7, <2>2 DEF IsLoop
      <3> QED
        BY <1>5, <1>7, <2>2, <3>1 DEF IsLoop
    <2> QED
      BY <2>1, <2>2
  <1>9. Is(g)
    <2>1. g = [i \in 0..n |-> g[i]]
      BY <1>7 DEF IsLoop
    <2> QED
      BY <1>8, <2>1
  <1>10. Is(text)
    BY <1>9
  <1> HIDE DEF text
  <1>11. \A i \in 0..n : text[i] = IF i = 0 THEN <<>> ELSE text[i - 1] \o EncodedChar(s[i])
    BY <1>10
  <1> HIDE DEF Is
  <1>12. text[0] = <<>> /\ \A i \in 1..n : text[i] = text[i - 1] \o EncodedChar(s[i])
    <2>1. 0 \in 0..n /\ \A i \in 1..n : i \in 0..n /\ i # 0
      BY <1>1
    <2> QED
      BY <1>11, <2>1
  <1>13. \A i \in 0..n : text[i] \in T
    <2>1. text[0] \in T
      BY <1>3, <1>12 DEF e
    <2>2. \A i \in 1..n : text[i - 1] \in T => text[i] \in T
      BY <1>6, <1>12
    <2> QED
      BY <1>1, <2>1, <2>2, LoopStays
  <1>14. /\ text[0] = <<>>
         /\ \A i \in 1..Len(s) : text[i] = text[i - 1] \o EncodedChar(s[i])
         /\ \A i \in 0..Len(s) : text[i] \in Seq(Byte)
         /\ Encoded(s) = text[Len(s)]
    BY <1>4, <1>12, <1>13 DEF n, T
  <1> QED
    BY <1>14

\* What append_encoded() appends, character by character.
LEMMA EncodedIs ==
    /\ Encoded(<<>>) = <<>>
    /\ \A s \in Seq(Byte) : Encoded(s) \in Seq(Byte)
    /\ \A s \in Seq(Byte) : \A c \in Byte :
           Encoded(Append(s, c)) = Encoded(s) \o EncodedChar(c)
  <1>1. Encoded(<<>>) = <<>>
    BY EncodedLoop, EmptySeq
  <1>2. ASSUME NEW s \in Seq(Byte)
        PROVE  Encoded(s) \in Seq(Byte)
    <2>1. Len(s) \in 0..Len(s)
      BY LenProperties
    <2> QED
      BY <2>1, EncodedLoop
  <1>3. ASSUME NEW s \in Seq(Byte), NEW c \in Byte
        PROVE  Encoded(Append(s, c)) = Encoded(s) \o EncodedChar(c)
    <2> DEFINE t == Append(s, c)
               n == Len(s)
    <2>1. /\ t \in Seq(Byte) /\ n \in Nat /\ Len(t) = n + 1
          /\ t[n + 1] = c /\ \A i \in 1..n : t[i] = s[i]
      BY AppendProperties, LenProperties
    <2>2. PICK f : /\ f[0] = <<>>
                   /\ \A i \in 1..n : f[i] = f[i - 1] \o EncodedChar(s[i])
                   /\ Encoded(s) = f[n]
      BY EncodedLoop
    <2>3. PICK g : /\ g[0] = <<>>
                   /\ \A i \in 1..(n + 1) : g[i] = g[i - 1] \o EncodedChar(t[i])
                   /\ Encoded(t) = g[n + 1]
      <3> HIDE DEF n, t
      <3> QED
        BY <2>1, EncodedLoop
    <2> HIDE DEF n, t
    <2>4. ASSUME NEW i \in 1..n, f[i - 1] = g[i - 1]
          PROVE  f[i] = g[i]
      <3>1. i \in 1..(n + 1) /\ t[i] = s[i]
        BY <2>1
      <3> QED
        BY <2>2, <2>3, <2>4, <3>1
    <2>5. \A i \in 0..n : f[i] = g[i]
      <3>1. GoAlike(f, g, n)
        BY <2>2, <2>3, <2>4 DEF GoAlike
      <3> QED
        BY <2>1, <3>1, LoopsAgree
    <2>6. f[n] = g[n] /\ n + 1 \in 1..(n + 1) /\ (n + 1) - 1 = n
      BY <2>1, <2>5
    <2> QED
      BY <2>1, <2>2, <2>3, <2>6 DEF t
  <1> QED
    BY <1>1, <1>2, <1>3

\* Readers of queries, and the one that has read nothing.
Readers == [params : Seq(Seq(Seq(Int))), sides : Seq(Seq(Int)), text : Seq(Int), escape : Seq(Int)]

Nothing == Reading(<<>>, <<>>, <<>>, <<>>)

\* The server begins to read with what a reader can be.
LEMMA NothingIsReader == Nothing \in Readers
  BY DEF Nothing, Reading, Readers

\* What a character does to a reader.
LEMMA ReadCharIs ==
    ASSUME NEW r \in Readers, NEW c \in Int
    PROVE  /\ Len(r.escape) = 1 =>
                  ReadChar(r, c) = Reading(r.params, r.sides, r.text, Append(r.escape, c))
           /\ Len(r.escape) > 1 =>
                  ReadChar(r, c) = Reading(r.params, r.sides,
                      Append(r.text, FromHex(r.escape[2]) * 16 + FromHex(c)), <<>>)
           /\ Len(r.escape) = 0 /\ c = Percent =>
                  ReadChar(r, c) = Reading(r.params, r.sides, r.text, <<c>>)
           /\ Len(r.escape) = 0 /\ c = Ampersand =>
                  ReadChar(r, c) =
                      Reading(Append(r.params, Append(r.sides, r.text)), <<>>, <<>>, <<>>)
           /\ Len(r.escape) = 0 /\ c = Equals =>
                  ReadChar(r, c) = Reading(r.params, Append(r.sides, r.text), <<>>, <<>>)
           /\ Len(r.escape) = 0 /\ c \notin {Percent, Ampersand, Equals} =>
                  ReadChar(r, c) = Reading(r.params, r.sides,
                      Append(r.text, IF c = 43 THEN 32 ELSE c), <<>>)
  <1> DEFINE n == Len(r.escape)
  <1>1. n \in Nat
    BY LenProperties DEF Readers
  <1> HIDE DEF n
  <1>2. Percent # Ampersand /\ Percent # Equals /\ Ampersand # Equals
    BY DEF Percent, Ampersand, Equals
  <1>3. n = 1 => ReadChar(r, c) = Reading(r.params, r.sides, r.text, Append(r.escape, c))
    BY DEF ReadChar, n
  <1>4. n > 1 => ReadChar(r, c) = Reading(r.params, r.sides,
                      Append(r.text, FromHex(r.escape[2]) * 16 + FromHex(c)), <<>>)
    BY DEF ReadChar, n
  <1>5. n = 0 /\ c = Percent => ReadChar(r, c) = Reading(r.params, r.sides, r.text, <<c>>)
    BY <1>2 DEF ReadChar, n
  <1>6. n = 0 /\ c = Ampersand =>
            ReadChar(r, c) =
                      Reading(Append(r.params, Append(r.sides, r.text)), <<>>, <<>>, <<>>)
    BY <1>2 DEF ReadChar, n
  <1>7. n = 0 /\ c = Equals =>
            ReadChar(r, c) = Reading(r.params, Append(r.sides, r.text), <<>>, <<>>)
    BY <1>2 DEF ReadChar, n
  <1>8. n = 0 /\ c \notin {Percent, Ampersand, Equals} =>
            ReadChar(r, c) = Reading(r.params, r.sides,
                Append(r.text, IF c = 43 THEN 32 ELSE c), <<>>)
    BY <1>2 DEF ReadChar, n
  <1> QED
    BY <1>3, <1>4, <1>5, <1>6, <1>7, <1>8 DEF n

\* A character takes a reader to a reader.
LEMMA ReadCharIsReader ==
    ASSUME NEW r \in Readers, NEW c \in Int
    PROVE  ReadChar(r, c) \in Readers
  <1>1. /\ r.params \in Seq(Seq(Seq(Int))) /\ r.sides \in Seq(Seq(Int))
        /\ r.text \in Seq(Int) /\ r.escape \in Seq(Int)
    BY DEF Readers
  <1>2. Len(r.escape) \in Nat
    BY <1>1
  <1>3. ASSUME NEW t \in Seq(Int), NEW e \in Seq(Int)
        PROVE  Reading(r.params, r.sides, t, e) \in Readers
    BY <1>1, <1>3 DEF Readers, Reading
  <1>4. ASSUME NEW x \in Int
        PROVE  /\ Reading(r.params, r.sides, Append(r.text, x), <<>>) \in Readers
               /\ Reading(r.params, r.sides, r.text, <<x>>) \in Readers
               /\ Reading(r.params, r.sides, r.text, Append(r.escape, x)) \in Readers
    <2>1. /\ Append(r.text, x) \in Seq(Int) /\ Append(r.escape, x) \in Seq(Int)
          /\ <<x>> \in Seq(Int) /\ <<>> \in Seq(Int)
      BY <1>1
    <2> QED
      BY <1>1, <1>3, <2>1
  <1>5. Reading(Append(r.params, Append(r.sides, r.text)), <<>>, <<>>, <<>>) \in Readers
    <2>1. Append(r.sides, r.text) \in Seq(Seq(Int))
      BY <1>1, AppendProperties
    <2>2. Append(r.params, Append(r.sides, r.text)) \in Seq(Seq(Seq(Int)))
      BY <1>1, <2>1, AppendProperties
    <2> QED
      BY <2>2, EmptySeq DEF Readers, Reading
  <1>6. Reading(r.params, Append(r.sides, r.text), <<>>, <<>>) \in Readers
    <2>1. Append(r.sides, r.text) \in Seq(Seq(Int))
      BY <1>1, AppendProperties
    <2> QED
      BY <1>1, <2>1, EmptySeq DEF Readers, Reading
  <1>7. CASE Len(r.escape) = 1
    BY <1>4, <1>7, ReadCharIs
  <1>8. CASE Len(r.escape) > 1
    <2>1. r.escape[2] \in Int
      BY <1>1, <1>8
    <2>2. FromHex(r.escape[2]) * 16 + FromHex(c) \in Int
      BY <2>1 DEF FromHex
    <2> QED
      BY <1>4, <1>8, <2>2, ReadCharIs
  <1>9. CASE Len(r.escape) = 0
    <2>1. (IF c = 43 THEN 32 ELSE c) \in Int
      OBVIOUS
    <2>2. CASE c = Percent
      <3>1. ReadChar(r, c) = Reading(r.params, r.sides, r.text, <<c>>)
        BY <1>9, <2>2, ReadCharIs, Zenon
      <3> QED
        BY <1>4, <3>1, Zenon
    <2>3. CASE c = Ampersand
      <3>1. ReadChar(r, c) =
                Reading(Append(r.params, Append(r.sides, r.text)), <<>>, <<>>, <<>>)
        BY <1>9, <2>3, ReadCharIs, Zenon
      <3> QED
        BY <1>5, <3>1, Zenon
    <2>4. CASE c = Equals
      <3>1. ReadChar(r, c) = Reading(r.params, Append(r.sides, r.text), <<>>, <<>>)
        BY <1>9, <2>4, ReadCharIs, Zenon
      <3> QED
        BY <1>6, <3>1, Zenon
    <2>5. CASE c \notin {Percent, Ampersand, Equals}
      <3> DEFINE x == IF c = 43 THEN 32 ELSE c
      <3>1. ReadChar(r, c) = Reading(r.params, r.sides, Append(r.text, x), <<>>)
        BY <1>9, <2>5, ReadCharIs, Zenon
      <3> HIDE DEF x
      <3>2. x \in Int
        BY <2>1 DEF x
      <3> QED
        BY <1>4, <3>1, <3>2, Zenon
    <2> QED
      BY <2>2, <2>3, <2>4, <2>5
  <1>10. Len(r.escape) = 0 \/ Len(r.escape) = 1 \/ Len(r.escape) > 1
    <2> DEFINE n == Len(r.escape)
    <2>1. n \in Nat
      BY <1>2
    <2> HIDE DEF n
    <2>2. n = 0 \/ n = 1 \/ n > 1
      BY <2>1
    <2> QED
      BY <2>2 DEF n
  <1> QED
    BY <1>7, <1>8, <1>9, <1>10

\* The loop that reads a query.
LEMMA ReadUpToLoop ==
    ASSUME NEW s \in Seq(Int)
    PROVE  \E f : /\ f[0] = Nothing
                  /\ \A i \in 1..Len(s) : f[i] = ReadChar(f[i - 1], s[i])
                  /\ \A i \in 0..Len(s) : f[i] \in Readers
                  /\ ReadUpTo(s) = f[Len(s)]
  <1> DEFINE n == Len(s)
             T == Readers
             e == Nothing
             Step == [p \in (1..n) \X T |-> ReadChar(p[2], s[p[1]])]
             Is(f) == f = [i \in 0..n |-> IF i = 0 THEN Nothing
                                          ELSE ReadChar(f[i - 1], s[i])]
             text == CHOOSE f : Is(f)
  <1>1. n \in Nat /\ \A i \in 1..n : s[i] \in Int
    BY LenProperties, ElementOfSeq
  <1>2. Step \in [(1..n) \X T -> T]
    BY <1>1, ReadCharIsReader
  <1>3. e \in T
    BY NothingIsReader
  <1>4. ReadUpTo(s) = text[n]
    BY DEF ReadUpTo, Nothing
  <1>5. ASSUME NEW i \in 1..n, NEW t \in T
        PROVE  Step[<<i, t>>] = ReadChar(t, s[i])
    OBVIOUS
  <1>6. ASSUME NEW t \in T, NEW i \in 1..n
        PROVE  ReadChar(t, s[i]) \in T
    BY <1>1, ReadCharIsReader
  <1> HIDE DEF n, T, e, Step
  <1>7. PICK g : IsLoop(g, T, n, e, Step)
    BY <1>1, <1>2, <1>3, LoopHasValues
  <1>8. ASSUME NEW i \in 0..n
        PROVE  g[i] = IF i = 0 THEN Nothing ELSE ReadChar(g[i - 1], s[i])
    <2>1. CASE i = 0
      BY <1>7, <2>1 DEF e, IsLoop
    <2>2. CASE i # 0
      <3>1. i \in 1..n /\ g[i - 1] \in T
        BY <1>1, <1>7, <2>2 DEF IsLoop
      <3> QED
        BY <1>5, <1>7, <2>2, <3>1 DEF IsLoop
    <2> QED
      BY <2>1, <2>2
  <1>9. Is(g)
    <2>1. g = [i \in 0..n |-> g[i]]
      BY <1>7 DEF IsLoop
    <2> QED
      BY <1>8, <2>1
  <1>10. Is(text)
    BY <1>9
  <1> HIDE DEF text
  <1>11. \A i \in 0..n : text[i] = IF i = 0 THEN Nothing ELSE ReadChar(text[i - 1], s[i])
    BY <1>10
  <1> HIDE DEF Is
  <1>12. text[0] = Nothing /\ \A i \in 1..n : text[i] = ReadChar(text[i - 1], s[i])
    <2>1. 0 \in 0..n /\ \A i \in 1..n : i \in 0..n /\ i # 0
      BY <1>1
    <2> QED
      BY <1>11, <2>1
  <1>13. \A i \in 0..n : text[i] \in T
    <2>1. text[0] \in T
      BY <1>3, <1>12 DEF e
    <2>2. \A i \in 1..n : text[i - 1] \in T => text[i] \in T
      BY <1>6, <1>12
    <2> QED
      BY <1>1, <2>1, <2>2, LoopStays
  <1>14. /\ text[0] = Nothing
         /\ \A i \in 1..Len(s) : text[i] = ReadChar(text[i - 1], s[i])
         /\ \A i \in 0..Len(s) : text[i] \in Readers
         /\ ReadUpTo(s) = text[Len(s)]
    BY <1>4, <1>12, <1>13 DEF n, T
  <1> QED
    BY <1>14

\* How it is read, character by character.
LEMMA ReadUpToIs ==
    /\ ReadUpTo(<<>>) = Nothing
    /\ \A s \in Seq(Int) : ReadUpTo(s) \in Readers
    /\ \A s \in Seq(Int) : \A c \in Int :
           ReadUpTo(Append(s, c)) = ReadChar(ReadUpTo(s), c)
  <1>1. ReadUpTo(<<>>) = Nothing
    BY ReadUpToLoop, EmptySeq
  <1>2. ASSUME NEW s \in Seq(Int)
        PROVE  ReadUpTo(s) \in Readers
    <2>1. Len(s) \in 0..Len(s)
      BY LenProperties
    <2> QED
      BY <2>1, ReadUpToLoop
  <1>3. ASSUME NEW s \in Seq(Int), NEW c \in Int
        PROVE  ReadUpTo(Append(s, c)) = ReadChar(ReadUpTo(s), c)
    <2> DEFINE t == Append(s, c)
               n == Len(s)
    <2>1. /\ t \in Seq(Int) /\ n \in Nat /\ Len(t) = n + 1
          /\ t[n + 1] = c /\ \A i \in 1..n : t[i] = s[i]
      BY AppendProperties, LenProperties
    <2>2. PICK f : /\ f[0] = Nothing
                   /\ \A i \in 1..n : f[i] = ReadChar(f[i - 1], s[i])
                   /\ ReadUpTo(s) = f[n]
      BY ReadUpToLoop
    <2>3. PICK g : /\ g[0] = Nothing
                   /\ \A i \in 1..(n + 1) : g[i] = ReadChar(g[i - 1], t[i])
                   /\ ReadUpTo(t) = g[n + 1]
      <3> HIDE DEF n, t
      <3> QED
        BY <2>1, ReadUpToLoop
    <2> HIDE DEF n, t
    <2>4. ASSUME NEW i \in 1..n, f[i - 1] = g[i - 1]
          PROVE  f[i] = g[i]
      <3>1. i \in 1..(n + 1) /\ t[i] = s[i]
        BY <2>1
      <3> QED
        BY <2>2, <2>3, <2>4, <3>1
    <2>5. \A i \in 0..n : f[i] = g[i]
      <3>1. GoAlike(f, g, n)
        BY <2>2, <2>3, <2>4 DEF GoAlike
      <3> QED
        BY <2>1, <3>1, LoopsAgree
    <2>6. f[n] = g[n] /\ n + 1 \in 1..(n + 1) /\ (n + 1) - 1 = n
      BY <2>1, <2>5
    <2> QED
      BY <2>1, <2>2, <2>3, <2>6 DEF t
  <1> QED
    BY <1>1, <1>2, <1>3

\* Names and values are strings of bytes.
Parameters == [name : Seq(Byte), value : Seq(Byte)]

\* What is before a name is a query, or nothing.
Before(out) == IF out = <<>> THEN out ELSE Append(out, Ampersand)

\* A parameter is encoded behind what is there.
LEMMA AppendParamIsQuery ==
    ASSUME NEW out \in Seq(Byte), NEW p \in Parameters
    PROVE  /\ Before(out) \in Seq(Byte) /\ p.name \in Seq(Byte) /\ p.value \in Seq(Byte)
           /\ Append(Before(out) \o Encoded(p.name), Equals) \in Seq(Byte)
           /\ Before(out) \o Encoded(p.name) \in Seq(Byte)
           /\ AppendParam(out, p) \in Seq(Byte)
           /\ AppendParam(out, p) =
                  Append(Before(out) \o Encoded(p.name), Equals) \o Encoded(p.value)
           /\ AppendParam(out, p) # <<>>
  <1> DEFINE b == Before(out)
             n == Encoded(p.name)
             v == Encoded(p.value)
             head == Append(b \o n, Equals)
  <1>1. p.name \in Seq(Byte) /\ p.value \in Seq(Byte)
    BY DEF Parameters
  <1>2. n \in Seq(Byte) /\ v \in Seq(Byte)
    BY <1>1, EncodedIs
  <1>3. Ampersand \in Byte /\ Equals \in Byte
    BY DEF Ampersand, Equals, Byte
  <1>4. b \in Seq(Byte)
    BY <1>3, AppendProperties DEF Before
  <1>5. AppendParam(out, p) = head \o v
    BY DEF AppendParam, append_encoded, Before
  <1> HIDE DEF b, n, v
  <1>6. b \o n \in Seq(Byte)
    BY <1>2, <1>4, ConcatProperties
  <1>7. head \in Seq(Byte) /\ Len(head) = Len(b \o n) + 1
    BY <1>3, <1>6, AppendProperties
  <1>8. Len(b \o n) \in Nat /\ Len(v) \in Nat
    BY <1>2, <1>6, LenProperties
  <1> HIDE DEF head
  <1>9. head \o v \in Seq(Byte) /\ Len(head \o v) = Len(head) + Len(v)
    BY <1>2, <1>7, ConcatProperties
  <1>10. Len(head \o v) > 0
    BY <1>7, <1>8, <1>9
  <1>11. head \o v # <<>>
    BY <1>10
  <1> QED
    BY <1>1, <1>4, <1>5, <1>6, <1>7, <1>9, <1>11 DEF head, b, n, v

\* The loop of encode_query().
LEMMA QueryLoop ==
    ASSUME NEW s \in Seq(Parameters)
    PROVE  \E f : /\ f[0] = <<>>
                  /\ \A i \in 1..Len(s) : f[i] = AppendParam(f[i - 1], s[i])
                  /\ \A i \in 0..Len(s) : f[i] \in Seq(Byte)
                  /\ encode_query(s) = f[Len(s)]
  <1> DEFINE n == Len(s)
             T == Seq(Byte)
             e == <<>>
             Step == [p \in (1..n) \X T |-> AppendParam(p[2], s[p[1]])]
             Is(f) == f = [i \in 0..n |-> IF i = 0 THEN <<>>
                                          ELSE AppendParam(f[i - 1], s[i])]
             text == CHOOSE f : Is(f)
  <1>1. n \in Nat /\ \A i \in 1..n : s[i] \in Parameters
    BY LenProperties, ElementOfSeq
  <1>2. Step \in [(1..n) \X T -> T]
    BY <1>1, AppendParamIsQuery
  <1>3. e \in T
    BY EmptySeq
  <1>4. encode_query(s) = text[n]
    BY DEF encode_query
  <1>5. ASSUME NEW i \in 1..n, NEW t \in T
        PROVE  Step[<<i, t>>] = AppendParam(t, s[i])
    OBVIOUS
  <1>6. ASSUME NEW t \in T, NEW i \in 1..n
        PROVE  AppendParam(t, s[i]) \in T
    BY <1>1, AppendParamIsQuery
  <1> HIDE DEF n, T, e, Step
  <1>7. PICK g : IsLoop(g, T, n, e, Step)
    BY <1>1, <1>2, <1>3, LoopHasValues
  <1>8. ASSUME NEW i \in 0..n
        PROVE  g[i] = IF i = 0 THEN <<>> ELSE AppendParam(g[i - 1], s[i])
    <2>1. CASE i = 0
      BY <1>7, <2>1 DEF e, IsLoop
    <2>2. CASE i # 0
      <3>1. i \in 1..n /\ g[i - 1] \in T
        BY <1>1, <1>7, <2>2 DEF IsLoop
      <3> QED
        BY <1>5, <1>7, <2>2, <3>1 DEF IsLoop
    <2> QED
      BY <2>1, <2>2
  <1>9. Is(g)
    <2>1. g = [i \in 0..n |-> g[i]]
      BY <1>7 DEF IsLoop
    <2> QED
      BY <1>8, <2>1
  <1>10. Is(text)
    BY <1>9
  <1> HIDE DEF text
  <1>11. \A i \in 0..n : text[i] = IF i = 0 THEN <<>> ELSE AppendParam(text[i - 1], s[i])
    BY <1>10
  <1> HIDE DEF Is
  <1>12. text[0] = <<>> /\ \A i \in 1..n : text[i] = AppendParam(text[i - 1], s[i])
    <2>1. 0 \in 0..n /\ \A i \in 1..n : i \in 0..n /\ i # 0
      BY <1>1
    <2> QED
      BY <1>11, <2>1
  <1>13. \A i \in 0..n : text[i] \in T
    <2>1. text[0] \in T
      BY <1>3, <1>12 DEF e
    <2>2. \A i \in 1..n : text[i - 1] \in T => text[i] \in T
      BY <1>6, <1>12
    <2> QED
      BY <1>1, <2>1, <2>2, LoopStays
  <1>14. /\ text[0] = <<>>
         /\ \A i \in 1..Len(s) : text[i] = AppendParam(text[i - 1], s[i])
         /\ \A i \in 0..Len(s) : text[i] \in Seq(Byte)
         /\ encode_query(s) = text[Len(s)]
    BY <1>4, <1>12, <1>13 DEF n, T
  <1> QED
    BY <1>14

\* What encode_query() gives, parameter by parameter.
LEMMA QueryIs ==
    /\ encode_query(<<>>) = <<>>
    /\ \A s \in Seq(Parameters) : encode_query(s) \in Seq(Byte)
    /\ \A s \in Seq(Parameters) : \A c \in Parameters :
           encode_query(Append(s, c)) = AppendParam(encode_query(s), c)
  <1>1. encode_query(<<>>) = <<>>
    BY QueryLoop, EmptySeq
  <1>2. ASSUME NEW s \in Seq(Parameters)
        PROVE  encode_query(s) \in Seq(Byte)
    <2>1. Len(s) \in 0..Len(s)
      BY LenProperties
    <2> QED
      BY <2>1, QueryLoop
  <1>3. ASSUME NEW s \in Seq(Parameters), NEW c \in Parameters
        PROVE  encode_query(Append(s, c)) = AppendParam(encode_query(s), c)
    <2> DEFINE t == Append(s, c)
               n == Len(s)
    <2>1. /\ t \in Seq(Parameters) /\ n \in Nat /\ Len(t) = n + 1
          /\ t[n + 1] = c /\ \A i \in 1..n : t[i] = s[i]
      BY AppendProperties, LenProperties
    <2>2. PICK f : /\ f[0] = <<>>
                   /\ \A i \in 1..n : f[i] = AppendParam(f[i - 1], s[i])
                   /\ encode_query(s) = f[n]
      BY QueryLoop
    <2>3. PICK g : /\ g[0] = <<>>
                   /\ \A i \in 1..(n + 1) : g[i] = AppendParam(g[i - 1], t[i])
                   /\ encode_query(t) = g[n + 1]
      <3> HIDE DEF n, t
      <3> QED
        BY <2>1, QueryLoop
    <2> HIDE DEF n, t
    <2>4. ASSUME NEW i \in 1..n, f[i - 1] = g[i - 1]
          PROVE  f[i] = g[i]
      <3>1. i \in 1..(n + 1) /\ t[i] = s[i]
        BY <2>1
      <3> QED
        BY <2>2, <2>3, <2>4, <3>1
    <2>5. \A i \in 0..n : f[i] = g[i]
      <3>1. GoAlike(f, g, n)
        BY <2>2, <2>3, <2>4 DEF GoAlike
      <3> QED
        BY <2>1, <3>1, LoopsAgree
    <2>6. f[n] = g[n] /\ n + 1 \in 1..(n + 1) /\ (n + 1) - 1 = n
      BY <2>1, <2>5
    <2> QED
      BY <2>1, <2>2, <2>3, <2>6 DEF t
  <1> QED
    BY <1>1, <1>2, <1>3

\* A byte is a number, so that a reader reads strings of bytes.
LEMMA BytesAreNumbers == Seq(Byte) \subseteq Seq(Int)
  <1> DEFINE I == Int
  <1>1. Byte \subseteq I
    BY DEF Byte
  <1> HIDE DEF I
  <1>2. \A s \in Seq(Byte) : s \in Seq(I)
    BY <1>1, SeqMonotonic
  <1> QED
    BY <1>2 DEF I

\* An encoded character is read as itself.
LEMMA ReadsEncodedChar ==
    ASSUME NEW q \in Seq(Byte), NEW c \in Byte, NEW r \in Readers,
           ReadUpTo(q) = r, r.escape = <<>>
    PROVE  ReadUpTo(q \o EncodedChar(c)) = Reading(r.params, r.sides, Append(r.text, c), <<>>)
  <1>1. q \in Seq(Int) /\ c \in Int
    BY BytesAreNumbers DEF Byte
  <1>2. CASE c \in Unreserved
    <2>1. q \o EncodedChar(c) = Append(q, c)
      <3>1. EncodedChar(c) = <<c>>
        BY <1>2, EncodedCharIs
      <3> QED
        BY <1>1, <3>1, AppendIsConcat
    <2>2. ReadUpTo(Append(q, c)) = ReadChar(r, c)
      BY <1>1, ReadUpToIs
    <2>3. c \notin {Percent, Ampersand, Equals} /\ c # 43
      BY <1>2 DEF Unreserved, Percent, Ampersand, Equals
    <2>4. Len(r.escape) = 0
      OBVIOUS
    <2>5. ReadChar(r, c) = Reading(r.params, r.sides, Append(r.text, c), <<>>)
      BY <1>1, <2>3, <2>4, ReadCharIs
    <2> QED
      BY <2>1, <2>2, <2>5
  <1>3. CASE c \notin Unreserved
    <2> DEFINE a == hex(c \div 16)
               b == hex(c % 16)
               r1 == Reading(r.params, r.sides, r.text, <<Percent>>)
               r2 == Reading(r.params, r.sides, r.text, Append(<<Percent>>, a))
    <2>1. /\ EncodedChar(c) = <<Percent, a, b>>
          /\ a \in Int /\ b \in Int /\ FromHex(a) * 16 + FromHex(b) = c
      <3>1. /\ EncodedChar(c) = <<Percent, a, b>>
            /\ a \in Byte /\ b \in Byte /\ FromHex(a) * 16 + FromHex(b) = c
        BY <1>3, EncodedCharIs
      <3> HIDE DEF a, b
      <3> QED
        BY <3>1 DEF Byte
    <2>2. Percent \in Int
      BY DEF Percent
    <2> HIDE DEF a, b
    <2>3. q \o EncodedChar(c) = Append(Append(Append(q, Percent), a), b)
      BY <1>1, <2>1, <2>2
    <2>4. /\ Append(q, Percent) \in Seq(Int)
          /\ Append(Append(q, Percent), a) \in Seq(Int)
      BY <1>1, <2>1, <2>2, AppendProperties
    <2>5. ReadUpTo(Append(q, Percent)) = r1
      <3>1. ReadUpTo(Append(q, Percent)) = ReadChar(r, Percent)
        BY <1>1, <2>2, ReadUpToIs
      <3>2. Len(r.escape) = 0
        OBVIOUS
      <3> QED
        BY <2>2, <3>1, <3>2, ReadCharIs
    <2>6. ReadUpTo(Append(Append(q, Percent), a)) = r2
      <3>1. ReadUpTo(Append(Append(q, Percent), a)) = ReadChar(r1, a)
        BY <2>1, <2>4, <2>5, ReadUpToIs
      <3>2. r1 \in Readers
        BY <2>4, <2>5, ReadUpToIs
      <3>3. Len(r1.escape) = 1 /\ Append(r1.escape, a) = Append(<<Percent>>, a)
        <4>1. r1.escape = <<Percent>>
          BY DEF Reading
        <4>2. <<Percent>> \in Seq(Int) /\ Len(<<Percent>>) = 1
          BY <2>2
        <4> QED
          BY <4>1, <4>2
      <3>4. ReadChar(r1, a) = Reading(r1.params, r1.sides, r1.text, Append(r1.escape, a))
        BY <2>1, <3>2, <3>3, ReadCharIs
      <3>5. r1.params = r.params /\ r1.sides = r.sides /\ r1.text = r.text
        BY DEF Reading
      <3> HIDE DEF r1
      <3> QED
        BY <3>1, <3>3, <3>4, <3>5
    <2>7. ReadUpTo(Append(Append(Append(q, Percent), a), b)) = ReadChar(r2, b)
      BY <2>1, <2>4, <2>6, ReadUpToIs
    <2>8. ReadChar(r2, b) = Reading(r.params, r.sides, Append(r.text, c), <<>>)
      <3>1. r2 \in Readers
        BY <2>1, <2>4, <2>6, ReadUpToIs
      <3>2. Len(r2.escape) > 1 /\ r2.escape[2] = a
        <4>1. <<Percent>> \in Seq(Int) /\ Len(<<Percent>>) = 1
          BY <2>2
        <4>2. r2.escape = Append(<<Percent>>, a)
          BY DEF Reading
        <4> HIDE DEF r2
        <4> QED
          BY <2>1, <4>1, <4>2, AppendProperties
      <3>3. ReadChar(r2, b) = Reading(r2.params, r2.sides,
                Append(r2.text, FromHex(r2.escape[2]) * 16 + FromHex(b)), <<>>)
        BY <2>1, <3>1, <3>2, ReadCharIs
      <3>4. r2.params = r.params /\ r2.sides = r.sides /\ r2.text = r.text
        BY DEF Reading
      <3> HIDE DEF r2
      <3> QED
        BY <2>1, <3>2, <3>3, <3>4
    <2> QED
      BY <2>3, <2>7, <2>8
  <1> QED
    BY <1>2, <1>3

\* An encoded text is read as that text.
LEMMA ReadsEncoded ==
    ASSUME NEW q \in Seq(Byte), NEW r \in Readers, ReadUpTo(q) = r, r.escape = <<>>
    PROVE  \A s \in Seq(Byte) :
               ReadUpTo(q \o Encoded(s)) = Reading(r.params, r.sides, r.text \o s, <<>>)
  <1> DEFINE S == {s \in Seq(Byte) :
                 ReadUpTo(q \o Encoded(s)) = Reading(r.params, r.sides, r.text \o s, <<>>)}
  <1>1. r.text \in Seq(Int) /\ r.params = r.params
    BY DEF Readers
  <1>2. <<>> \in S
    <2>1. q \o Encoded(<<>>) = q
      BY EncodedIs, ConcatEmptySeq
    <2>2. r.text \o <<>> = r.text
      BY <1>1, ConcatEmptySeq
    <2>3. r = Reading(r.params, r.sides, r.text, <<>>)
      BY DEF Readers, Reading
    <2> QED
      BY <2>1, <2>2, <2>3, EmptySeq
  <1>3. ASSUME NEW s \in Seq(Byte), NEW c \in Byte, s \in S
        PROVE  Append(s, c) \in S
    <2> DEFINE p == q \o Encoded(s)
               t == Reading(r.params, r.sides, r.text \o s, <<>>)
    <2>1. Encoded(s) \in Seq(Byte) /\ EncodedChar(c) \in Seq(Byte)
      BY EncodedIs, EncodedCharIs
    <2>2. p \in Seq(Byte) /\ ReadUpTo(p) = t
      BY <1>3, <2>1, ConcatProperties
    <2>3. q \o Encoded(Append(s, c)) = p \o EncodedChar(c)
      <3>1. Encoded(Append(s, c)) = Encoded(s) \o EncodedChar(c)
        BY EncodedIs
      <3> HIDE DEF p
      <3>2. p \o EncodedChar(c) = q \o (Encoded(s) \o EncodedChar(c))
        BY <2>1, ConcatAssociative DEF p
      <3> QED
        BY <3>1, <3>2
    <2>4. t \in Readers
      BY <2>2, BytesAreNumbers, ReadUpToIs
    <2>5. /\ t.escape = <<>> /\ t.params = r.params /\ t.sides = r.sides
          /\ t.text = r.text \o s
      BY DEF Reading
    <2> HIDE DEF p, t
    <2>6. ReadUpTo(p \o EncodedChar(c)) = Reading(t.params, t.sides, Append(t.text, c), <<>>)
      BY <2>2, <2>4, <2>5, ReadsEncodedChar
    <2>7. Append(r.text \o s, c) = r.text \o Append(s, c)
      <3> DEFINE I == Int
                 u == r.text
      <3>1. s \in Seq(I) /\ c \in I /\ u \in Seq(I) /\ <<c>> \in Seq(I)
        BY <1>1, BytesAreNumbers DEF Byte
      <3> HIDE DEF I, u
      <3>2. u \o s \in Seq(I)
        BY <3>1, ConcatProperties
      <3>3. Append(u \o s, c) = (u \o s) \o <<c>> /\ Append(s, c) = s \o <<c>>
        BY <3>1, <3>2, AppendIsConcat
      <3>4. (u \o s) \o <<c>> = u \o (s \o <<c>>)
        BY <3>1, ConcatAssociative
      <3> QED
        BY <3>3, <3>4 DEF u
    <2>8. Append(s, c) \in Seq(Byte)
      BY AppendProperties
    <2> QED
      BY <2>3, <2>5, <2>6, <2>7, <2>8
  <1> HIDE DEF S
  <1>4. \A s \in Seq(Byte) : s \in S
    BY <1>2, <1>3, SequencesBySet
  <1> QED
    BY <1>4 DEF S

\* A second element makes a pair.
LEMMA AppendOne ==
    ASSUME NEW x, NEW y
    PROVE  Append(<<x>>, y) = <<x, y>>
  <1> DEFINE E == {x, y}
             t == Append(<<x>>, y)
  <1>1. <<x>> \in Seq(E) /\ y \in E /\ Len(<<x>>) = 1 /\ <<x>>[1] = x
    OBVIOUS
  <1> HIDE DEF E
  <1>2. t \in Seq(E) /\ Len(t) = 2 /\ t[1] = x /\ t[2] = y
    BY <1>1, AppendProperties
  <1> HIDE DEF t
  <1>3. DOMAIN t = 1..2 /\ t = [i \in 1..2 |-> t[i]]
    BY <1>2, LenProperties
  <1>4. DOMAIN <<x, y>> = 1..2 /\ <<x, y>> = [i \in 1..2 |-> <<x, y>>[i]]
    OBVIOUS
  <1>5. \A i \in 1..2 : t[i] = <<x, y>>[i]
    BY <1>2
  <1> QED
    BY <1>3, <1>4, <1>5 DEF t

\* What is read of a query: each parameter as its sides.
Sides(ps) == [i \in DOMAIN ps |-> <<ps[i].name, ps[i].value>>]

\* A parameter more, a pair of sides more.
LEMMA SidesOfAppend ==
    ASSUME NEW ps \in Seq(Parameters), NEW p \in Parameters
    PROVE  Sides(Append(ps, p)) = Append(Sides(ps), <<p.name, p.value>>)
  <1> DEFINE n == Len(ps)
             qs == Append(ps, p)
             u == Sides(ps)
             e == <<p.name, p.value>>
             Pairs == {<<x.name, x.value>> : x \in Parameters}
  <1>1. /\ n \in Nat /\ DOMAIN ps = 1..n /\ DOMAIN qs = 1..(n + 1)
        /\ qs[n + 1] = p /\ \A i \in 1..n : qs[i] = ps[i] /\ ps[i] \in Parameters
    BY LenProperties, AppendProperties, ElementOfSeq
  <1>2. u \in Seq(Pairs) /\ Len(u) = n /\ DOMAIN u = 1..n
    <2> HIDE DEF n
    <2>1. u = [i \in 1..n |-> <<ps[i].name, ps[i].value>>]
      BY <1>1 DEF Sides
    <2>2. u \in [1..n -> Pairs]
      BY <1>1, <2>1
    <2> HIDE DEF u, Pairs
    <2>3. u \in Seq(Pairs)
      BY <1>1, <2>2, SeqDef
    <2> QED
      BY <1>1, <2>2, <2>3, LenProperties
  <1>3. e \in Pairs
    OBVIOUS
  <1> HIDE DEF Pairs, e
  <1>4. /\ Append(u, e) \in Seq(Pairs) /\ Len(Append(u, e)) = n + 1
        /\ Append(u, e)[n + 1] = e /\ \A i \in 1..n : Append(u, e)[i] = u[i]
    <2> HIDE DEF u, n
    <2> QED
      BY <1>2, <1>3, AppendProperties
  <1>5. Append(u, e) = [i \in 1..(n + 1) |-> Append(u, e)[i]]
    <2> HIDE DEF u, n
    <2> QED
      BY <1>4, LenProperties
  <1>6. ASSUME NEW i \in 1..(n + 1)
        PROVE  Append(u, e)[i] = <<qs[i].name, qs[i].value>>
    <2>1. CASE i = n + 1
      <3> HIDE DEF u, n, qs
      <3> QED
        BY <1>1, <1>4, <2>1 DEF e
    <2>2. CASE i \in 1..n
      <3>1. u[i] = <<ps[i].name, ps[i].value>>
        BY <1>1, <2>2 DEF Sides
      <3> HIDE DEF u, n, qs
      <3> QED
        BY <1>1, <1>4, <2>2, <3>1
    <2> HIDE DEF n
    <2>3. i = n + 1 \/ i \in 1..n
      BY <1>1
    <2> QED
      BY <2>1, <2>2, <2>3
  <1>7. Sides(qs) = [i \in 1..(n + 1) |-> <<qs[i].name, qs[i].value>>]
    <2> HIDE DEF n, qs
    <2> QED
      BY <1>1 DEF Sides
  <1> HIDE DEF u, n, qs
  <1>8. Sides(qs) = Append(u, e)
    BY <1>5, <1>6, <1>7
  <1> QED
    BY <1>8 DEF u, e, qs

\* A parameter is read behind the ones before it.
LEMMA ReadsParam ==
    ASSUME NEW out \in Seq(Byte), NEW p \in Parameters, NEW d,
           ReadUpTo(Before(out)) = Reading(d, <<>>, <<>>, <<>>)
    PROVE  ReadUpTo(AppendParam(out, p)) = Reading(d, <<p.name>>, p.value, <<>>)
  <1> DEFINE b == Before(out)
             named == b \o Encoded(p.name)
             r1 == Reading(d, <<>>, <<>>, <<>>)
             r2 == Reading(d, <<>>, p.name, <<>>)
             r3 == Reading(d, <<p.name>>, <<>>, <<>>)
  <1>1. /\ b \in Seq(Byte) /\ named \in Seq(Byte) /\ Append(named, Equals) \in Seq(Byte)
        /\ p.name \in Seq(Byte) /\ p.value \in Seq(Byte)
        /\ AppendParam(out, p) = Append(named, Equals) \o Encoded(p.value)
    BY AppendParamIsQuery
  <1>2. r1 \in Readers
    BY <1>1, BytesAreNumbers, ReadUpToIs
  <1>3. /\ r1.params = d /\ r1.sides = <<>> /\ r1.text = <<>> /\ r1.escape = <<>>
        /\ r2.params = d /\ r2.sides = <<>> /\ r2.text = p.name /\ r2.escape = <<>>
        /\ r3.params = d /\ r3.sides = <<p.name>> /\ r3.text = <<>> /\ r3.escape = <<>>
    BY DEF Reading
  <1>4. ReadUpTo(b) = r1
    OBVIOUS
  <1>5. <<>> \o p.name = p.name /\ <<>> \o p.value = p.value
    BY <1>1, ConcatEmptySeq
  <1>6. ReadUpTo(named) = r2
    <2>1. ReadUpTo(named) = Reading(r1.params, r1.sides, r1.text \o p.name, <<>>)
      <3> HIDE DEF b, r1
      <3> QED
        BY <1>1, <1>2, <1>3, <1>4, ReadsEncoded
    <2> HIDE DEF b, r1, named
    <2> QED
      BY <1>3, <1>5, <2>1
  <1> HIDE DEF named
  <1>7. r2 \in Readers
    BY <1>1, <1>6, BytesAreNumbers, ReadUpToIs
  <1>8. ReadUpTo(Append(named, Equals)) = r3
    <2> HIDE DEF r2
    <2>1. ReadUpTo(Append(named, Equals)) = ReadChar(r2, Equals)
      <3>1. named \in Seq(Int) /\ Equals \in Int
        BY <1>1, BytesAreNumbers DEF Equals
      <3> QED
        BY <1>6, <3>1, ReadUpToIs
    <2>2. Len(r2.escape) = 0
      BY <1>3
    <2>3. ReadChar(r2, Equals) = Reading(r2.params, Append(r2.sides, r2.text), <<>>, <<>>)
      <3>1. Equals \in Int
        BY DEF Equals
      <3> QED
        BY <1>7, <2>2, <3>1, ReadCharIs
    <2>4. Append(<<>>, p.name) = <<p.name>>
      OBVIOUS
    <2> QED
      BY <1>3, <2>1, <2>3, <2>4
  <1>9. r3 \in Readers
    BY <1>1, <1>8, BytesAreNumbers, ReadUpToIs
  <1> DEFINE head == Append(named, Equals)
  <1>10. head \in Seq(Byte) /\ ReadUpTo(head) = r3
    BY <1>1, <1>8
  <1> HIDE DEF head, r3
  <1>11. ReadUpTo(head \o Encoded(p.value))
             = Reading(r3.params, r3.sides, r3.text \o p.value, <<>>)
    BY <1>1, <1>3, <1>9, <1>10, ReadsEncoded
  <1> QED
    BY <1>1, <1>3, <1>5, <1>11 DEF head

\* Of a query every parameter is read, with its name and value.
THEOREM QueryIsRead ==
    \A ps \in Seq(Parameters) :
        ps # <<>> => ReadQuery(encode_query(ps)) = Sides(ps)
  <1> DEFINE q(ps) == encode_query(ps)
             S == {ps \in Seq(Parameters) :
                      /\ ps = <<>> => q(ps) = <<>>
                      /\ ps # <<>> => /\ q(ps) # <<>>
                                      /\ ReadUpTo(q(ps)).escape = <<>>
                                      /\ ReadQuery(q(ps)) = Sides(ps)}
  <1>1. <<>> \in S
    BY QueryIs, EmptySeq
  <1>2. ASSUME NEW ps \in Seq(Parameters), NEW p \in Parameters, ps \in S
        PROVE  Append(ps, p) \in S
    <2> DEFINE out == q(ps)
               d == Sides(ps)
    <2>1. out \in Seq(Byte)
      BY QueryIs
    <2>2. q(Append(ps, p)) = AppendParam(out, p) /\ Append(ps, p) \in Seq(Parameters)
      BY QueryIs, AppendProperties
    <2>3. ReadUpTo(Before(out)) = Reading(d, <<>>, <<>>, <<>>)
      <3>1. CASE ps = <<>>
        <4>1. Before(out) = <<>>
          BY <1>2, <3>1 DEF Before
        <4>2. d = <<>>
          BY <3>1 DEF Sides
        <4> QED
          BY <4>1, <4>2, ReadUpToIs DEF Nothing
      <3>2. CASE ps # <<>>
        <4> DEFINE r == ReadUpTo(out)
        <4>1. out # <<>> /\ r.escape = <<>> /\ Append(r.params, Append(r.sides, r.text)) = d
          BY <1>2, <3>2 DEF ReadQuery
        <4>2. Before(out) = Append(out, Ampersand)
          BY <4>1 DEF Before
        <4>3. out \in Seq(Int) /\ Ampersand \in Int
          BY <2>1, BytesAreNumbers DEF Ampersand
        <4> HIDE DEF out, d
        <4>4. ReadUpTo(Append(out, Ampersand)) = ReadChar(r, Ampersand) /\ r \in Readers
          BY <4>3, ReadUpToIs
        <4> HIDE DEF r
        <4>5. Len(r.escape) = 0
          BY <4>1
        <4>6. ReadChar(r, Ampersand)
                  = Reading(Append(r.params, Append(r.sides, r.text)), <<>>, <<>>, <<>>)
          BY <4>3, <4>4, <4>5, ReadCharIs
        <4> QED
          BY <4>1, <4>2, <4>4, <4>6
      <3> QED
        BY <3>1, <3>2
    <2> HIDE DEF out, d
    <2>4. ReadUpTo(AppendParam(out, p)) = Reading(d, <<p.name>>, p.value, <<>>)
      BY <2>1, <2>3, ReadsParam
    <2>5. AppendParam(out, p) # <<>>
      BY <2>1, AppendParamIsQuery
    <2> DEFINE r == Reading(d, <<p.name>>, p.value, <<>>)
    <2>6. r.params = d /\ r.sides = <<p.name>> /\ r.text = p.value /\ r.escape = <<>>
      BY DEF Reading
    <2> HIDE DEF r
    <2>7. ReadUpTo(AppendParam(out, p)) = r
      BY <2>4 DEF r
    <2>8. Append(<<p.name>>, p.value) = <<p.name, p.value>>
      BY AppendOne
    <2>9. ReadQuery(AppendParam(out, p)) = Append(d, <<p.name, p.value>>)
      BY <2>6, <2>7, <2>8 DEF ReadQuery
    <2>10. Sides(Append(ps, p)) = Append(d, <<p.name, p.value>>)
      BY SidesOfAppend DEF d
    <2>11. Append(ps, p) # <<>>
      BY AppendProperties
    <2> QED
      BY <2>2, <2>5, <2>6, <2>7, <2>9, <2>10, <2>11
  <1> HIDE DEF S
  <1>3. \A ps \in Seq(Parameters) : ps \in S
    BY <1>1, <1>2, SequencesBySet
  <1> QED
    BY <1>3 DEF S

\* The parameters of the runs are strings of bytes.
LEMMA ParamsAreParameters == Params \subseteq Parameters
  <1>1. \A a, b \in Byte : <<a>> \in Seq(Byte) /\ <<a, b>> \in Seq(Byte)
    OBVIOUS
  <1>2. \A a, b, c \in Byte : <<a, b, c>> \in Seq(Byte)
    OBVIOUS
  <1>3. <<>> \in Seq(Byte)
    BY EmptySeq
  <1>4. /\ 97 \in Byte /\ 32 \in Byte /\ 43 \in Byte /\ 255 \in Byte /\ 50 \in Byte
        /\ 54 \in Byte /\ Percent \in Byte /\ Ampersand \in Byte /\ Equals \in Byte
    BY DEF Byte, Percent, Ampersand, Equals
  <1>5. /\ <<97>> \in Seq(Byte) /\ <<Ampersand, 97>> \in Seq(Byte) /\ <<97, 32>> \in Seq(Byte)
        /\ <<Ampersand>> \in Seq(Byte) /\ <<Equals, 97>> \in Seq(Byte)
        /\ <<43, 255>> \in Seq(Byte)
    BY <1>1, <1>4, Zenon
  <1>6. <<Percent, 50, 54>> \in Seq(Byte)
    BY <1>2, <1>4, Zenon
  <1> DEFINE names == {<<97>>, <<Ampersand, 97>>}
             values == {<<>>, <<97, 32>>, <<Percent, 50, 54>>, <<Ampersand>>, <<Equals, 97>>,
                        <<43, 255>>}
  <1>7. \A x \in names : x \in Seq(Byte)
    BY <1>5, Zenon
  <1>8. \A x \in values : x \in Seq(Byte)
    <2>1. values = {<<>>, <<97, 32>>, <<Percent, 50, 54>>}
                       \cup {<<Ampersand>>, <<Equals, 97>>, <<43, 255>>}
      BY Zenon
    <2>2. \A x \in {<<>>, <<97, 32>>, <<Percent, 50, 54>>} : x \in Seq(Byte)
      BY <1>3, <1>5, <1>6, Zenon
    <2>3. \A x \in {<<Ampersand>>, <<Equals, 97>>, <<43, 255>>} : x \in Seq(Byte)
      <3> DEFINE u == <<Ampersand>>
                 v == <<Equals, 97>>
                 w == <<43, 255>>
      <3>1. u \in Seq(Byte)
        BY <1>5
      <3>2. v \in Seq(Byte)
        BY <1>5
      <3>3. w \in Seq(Byte)
        BY <1>5
      <3> HIDE DEF u, v, w
      <3>4. \A x \in {u, v, w} : x \in Seq(Byte)
        BY <3>1, <3>2, <3>3, Zenon
      <3> QED
        BY <3>4 DEF u, v, w
    <2> HIDE DEF values
    <2> QED
      BY <2>1, <2>2, <2>3, Zenon
  <1>9. Params = [name : names, value : values]
    BY DEF Params
  <1> HIDE DEF names, values
  <1> QED
    BY <1>7, <1>8, <1>9 DEF Parameters

\* The server reads the parameters that the client gave, whatever bytes their
\* names and values are made of and however many there are.
THEOREM QueriesReadBack == Spec => []QueryReadBack
  <1>1. InputInv => QueryReadBack
    <2> SUFFICES ASSUME InputInv, kind = "params", input # <<>>
                 PROVE  ReadQuery(encode_query(input)) = Sides(input)
      BY DEF QueryReadBack, Sides
    <2>1. kind \in DOMAIN Elements /\ Elements[kind] = Params
      BY DEF Elements
    <2>2. input \in Seq(Params)
      <3> HIDE DEF Elements
      <3> QED
        BY <2>1 DEF InputInv
    <2>3. input \in Seq(Parameters)
      BY <2>2, ParamsAreParameters, SeqMonotonic
    <2> QED
      BY <2>3, QueryIsRead
  <1> QED
    BY <1>1, InputInvInit, InputInvStep, PTL DEF Spec

-----------------------------------------------------------------------------
(* UTF-8                                                                   *)

\* What bytes are decoded to.
LEMMA UnitsIs ==
    ASSUME NEW seen
    PROVE  /\ Width(seen[1]) = 1 => Units(seen) = <<seen[1]>>
           /\ Width(seen[1]) = 2 => Units(seen) = <<Bits(0, 0, seen[1] % 32, Low(seen, 2))>>
           /\ Width(seen[1]) = 3 =>
                  Units(seen) = <<Bits(0, seen[1] % 16, Low(seen, 2), Low(seen, 3))>>
           /\ Width(seen[1]) = 4 =>
                  Units(seen) = SurrogatePair(
                      Bits(seen[1] % 8, Low(seen, 2), Low(seen, 3), Low(seen, 4)) - 65536)
  BY DEF Units

\* The first byte says how many there are.
LEMMA WidthIs ==
    ASSUME NEW b \in Int
    PROVE  /\ b < 128 => Width(b) = 1
           /\ b >= 128 /\ b < 224 => Width(b) = 2
           /\ b >= 224 /\ b < 240 => Width(b) = 3
           /\ b >= 240 => Width(b) = 4
  BY DEF Width

\* A number is encoded as numbers.
LEMMA Utf8IsNumbers ==
    ASSUME NEW cp \in Int
    PROVE  Utf8(cp) \in Seq(Int)
  <1>1. \A c \in Int : Continue(c) \in Int /\ cp \div 64 \in Int /\ cp \div 4096 \in Int
                           /\ cp \div 262144 \in Int
    BY DEF Continue
  <1>2. CASE cp < 128
    BY <1>2 DEF Utf8
  <1>3. CASE cp >= 128 /\ cp < 2048
    BY <1>1, <1>3 DEF Utf8
  <1>4. CASE cp >= 2048 /\ cp < 65536
    BY <1>1, <1>4 DEF Utf8
  <1>5. CASE cp >= 65536
    BY <1>1, <1>5 DEF Utf8
  <1> QED
    BY <1>2, <1>3, <1>4, <1>5

\* The first byte of a character of the basic plane says how many there are, and
\* with the low bits of the others it makes the character.
LEMMA BasicPlane ==
    ASSUME NEW cp \in Nat, cp < 65536
    PROVE  /\ Utf8(cp) # <<>> /\ Len(Utf8(cp)) = Width(Utf8(cp)[1])
           /\ Units(Utf8(cp)) = <<cp>>
  <1>1. CASE cp < 128
    <2>1. Utf8(cp) = <<cp>> /\ Width(cp) = 1
      BY <1>1, WidthIs DEF Utf8
    <2>2. Units(<<cp>>) = <<cp>>
      BY <2>1, UnitsIs
    <2> QED
      BY <2>1, <2>2
  <1>2. CASE cp >= 128 /\ cp < 2048
    <2> DEFINE a == 192 + cp \div 64
               b == Continue(cp)
               bytes == <<a, b>>
    <2>1. Utf8(cp) = bytes
      BY <1>2 DEF Utf8
    <2>2. a \in Int /\ a >= 128 /\ a < 224 /\ Bits(0, 0, a % 32, b % 64) = cp
      BY <1>2 DEF Continue, Bits
    <2> HIDE DEF a, b
    <2>3. Width(a) = 2
      BY <2>2, WidthIs
    <2>4. bytes[1] = a /\ Low(bytes, 2) = b % 64 /\ Len(bytes) = 2 /\ bytes # <<>>
      BY DEF Low, At
    <2> HIDE DEF bytes
    <2>5. Units(bytes) = <<cp>>
      BY <2>2, <2>3, <2>4, UnitsIs
    <2> QED
      BY <2>1, <2>3, <2>4, <2>5
  <1>3. CASE cp >= 2048
    <2> DEFINE a == 224 + cp \div 4096
               b == Continue(cp \div 64)
               c == Continue(cp)
               bytes == <<a, b, c>>
    <2>1. Utf8(cp) = bytes
      BY <1>3 DEF Utf8
    <2>2. a \in Int /\ a >= 224 /\ a < 240 /\ Bits(0, a % 16, b % 64, c % 64) = cp
      BY <1>3 DEF Continue, Bits
    <2> HIDE DEF a, b, c
    <2>3. Width(a) = 3
      BY <2>2, WidthIs
    <2>4. /\ bytes[1] = a /\ Low(bytes, 2) = b % 64 /\ Low(bytes, 3) = c % 64
          /\ Len(bytes) = 3 /\ bytes # <<>>
      BY DEF Low, At
    <2> HIDE DEF bytes
    <2>5. Units(bytes) = <<cp>>
      BY <2>2, <2>3, <2>4, UnitsIs
    <2> QED
      BY <2>1, <2>3, <2>4, <2>5
  <1> QED
    BY <1>1, <1>2, <1>3

\* So it is of a pair of surrogates.
LEMMA OutsideBasicPlane ==
    ASSUME NEW h \in Int, h >= 55296, h < 56320, NEW l \in Int, l >= 56320, l < 57344
    PROVE  LET bytes == Utf8(CodePoint(h, l))
           IN  bytes # <<>> /\ Len(bytes) = Width(bytes[1]) /\ Units(bytes) = <<h, l>>
  <1> DEFINE cp == CodePoint(h, l)
             a == 240 + cp \div 262144
             b == Continue(cp \div 4096)
             c == Continue(cp \div 64)
             d == Continue(cp)
             bytes == <<a, b, c, d>>
  <1>1. /\ cp \in Int /\ cp >= 65536 /\ cp < 1114112
        /\ 55296 + (cp - 65536) \div 1024 = h /\ 56320 + ((cp - 65536) % 1024) = l
    BY DEF CodePoint
  <1> HIDE DEF cp
  <1>2. Utf8(cp) = bytes
    BY <1>1 DEF Utf8
  <1>3. a \in Int /\ a >= 240 /\ Bits(a % 8, b % 64, c % 64, d % 64) = cp
    BY <1>1 DEF Continue, Bits
  <1> HIDE DEF a, b, c, d
  <1>4. Width(a) = 4
    BY <1>3, WidthIs
  <1>5. /\ bytes[1] = a /\ Low(bytes, 2) = b % 64 /\ Low(bytes, 3) = c % 64
        /\ Low(bytes, 4) = d % 64 /\ Len(bytes) = 4 /\ bytes # <<>>
    BY DEF Low, At
  <1> HIDE DEF bytes
  <1>6. Units(bytes) = SurrogatePair(cp - 65536)
    BY <1>3, <1>4, <1>5, UnitsIs
  <1>7. SurrogatePair(cp - 65536) = <<h, l>>
    BY <1>1 DEF SurrogatePair
  <1> QED
    BY <1>2, <1>4, <1>5, <1>6, <1>7 DEF cp

\* What encode() has at any time.
Encodings == [bytes : Seq(Int), high : Int]

Unencoded == Encoding(<<>>, 0)

\* encode() begins with what it can have made.
LEMMA UnencodedIsEncoding == Unencoded \in Encodings
  BY DEF Unencoded, Encoding, Encodings

\* Every unit leaves encode() with what it can have made.
LEMMA EncodeUnitIsEncoding ==
    ASSUME NEW e \in Encodings, NEW c \in Int
    PROVE  EncodeUnit(e, c) \in Encodings
  <1>1. e.bytes \in Seq(Int) /\ e.high \in Int
    BY DEF Encodings
  <1>2. CodePoint(e.high, c) \in Int
    BY <1>1 DEF CodePoint
  <1>3. ASSUME NEW cp \in Int
        PROVE  e.bytes \o Utf8(cp) \in Seq(Int)
    BY <1>1, Utf8IsNumbers, ConcatProperties
  <1> QED
    BY <1>1, <1>2, <1>3 DEF EncodeUnit, Encoding, Encodings

\* The loop of encode().
LEMMA EncodeLoop ==
    ASSUME NEW s \in Seq(Int)
    PROVE  \E f : /\ f[0] = Unencoded
                  /\ \A i \in 1..Len(s) : f[i] = EncodeUnit(f[i - 1], s[i])
                  /\ \A i \in 0..Len(s) : f[i] \in Encodings
                  /\ EncodeUpTo(s) = f[Len(s)]
  <1> DEFINE n == Len(s)
             T == Encodings
             e == Unencoded
             Step == [p \in (1..n) \X T |-> EncodeUnit(p[2], s[p[1]])]
             Is(f) == f = [i \in 0..n |-> IF i = 0 THEN Unencoded
                                          ELSE EncodeUnit(f[i - 1], s[i])]
             text == CHOOSE f : Is(f)
  <1>1. n \in Nat /\ \A i \in 1..n : s[i] \in Int
    BY LenProperties, ElementOfSeq
  <1>2. Step \in [(1..n) \X T -> T]
    BY <1>1, EncodeUnitIsEncoding
  <1>3. e \in T
    BY UnencodedIsEncoding
  <1>4. EncodeUpTo(s) = text[n]
    BY DEF EncodeUpTo, Unencoded
  <1>5. ASSUME NEW i \in 1..n, NEW t \in T
        PROVE  Step[<<i, t>>] = EncodeUnit(t, s[i])
    OBVIOUS
  <1>6. ASSUME NEW t \in T, NEW i \in 1..n
        PROVE  EncodeUnit(t, s[i]) \in T
    BY <1>1, EncodeUnitIsEncoding
  <1> HIDE DEF n, T, e, Step
  <1>7. PICK g : IsLoop(g, T, n, e, Step)
    BY <1>1, <1>2, <1>3, LoopHasValues
  <1>8. ASSUME NEW i \in 0..n
        PROVE  g[i] = IF i = 0 THEN Unencoded ELSE EncodeUnit(g[i - 1], s[i])
    <2>1. CASE i = 0
      BY <1>7, <2>1 DEF e, IsLoop
    <2>2. CASE i # 0
      <3>1. i \in 1..n /\ g[i - 1] \in T
        BY <1>1, <1>7, <2>2 DEF IsLoop
      <3> QED
        BY <1>5, <1>7, <2>2, <3>1 DEF IsLoop
    <2> QED
      BY <2>1, <2>2
  <1>9. Is(g)
    <2>1. g = [i \in 0..n |-> g[i]]
      BY <1>7 DEF IsLoop
    <2> QED
      BY <1>8, <2>1
  <1>10. Is(text)
    BY <1>9
  <1> HIDE DEF text
  <1>11. \A i \in 0..n : text[i] = IF i = 0 THEN Unencoded ELSE EncodeUnit(text[i - 1], s[i])
    BY <1>10
  <1> HIDE DEF Is
  <1>12. text[0] = Unencoded /\ \A i \in 1..n : text[i] = EncodeUnit(text[i - 1], s[i])
    <2>1. 0 \in 0..n /\ \A i \in 1..n : i \in 0..n /\ i # 0
      BY <1>1
    <2> QED
      BY <1>11, <2>1
  <1>13. \A i \in 0..n : text[i] \in T
    <2>1. text[0] \in T
      BY <1>3, <1>12 DEF e
    <2>2. \A i \in 1..n : text[i - 1] \in T => text[i] \in T
      BY <1>6, <1>12
    <2> QED
      BY <1>1, <2>1, <2>2, LoopStays
  <1>14. /\ text[0] = Unencoded
         /\ \A i \in 1..Len(s) : text[i] = EncodeUnit(text[i - 1], s[i])
         /\ \A i \in 0..Len(s) : text[i] \in Encodings
         /\ EncodeUpTo(s) = text[Len(s)]
    BY <1>4, <1>12, <1>13 DEF n, T
  <1> QED
    BY <1>14

\* How text is encoded, unit by unit.
LEMMA EncodeUpToIs ==
    /\ EncodeUpTo(<<>>) = Unencoded
    /\ \A s \in Seq(Int) : EncodeUpTo(s) \in Encodings
    /\ \A s \in Seq(Int) : \A c \in Int :
           EncodeUpTo(Append(s, c)) = EncodeUnit(EncodeUpTo(s), c)
  <1>1. EncodeUpTo(<<>>) = Unencoded
    BY EncodeLoop, EmptySeq
  <1>2. ASSUME NEW s \in Seq(Int)
        PROVE  EncodeUpTo(s) \in Encodings
    <2>1. Len(s) \in 0..Len(s)
      BY LenProperties
    <2> QED
      BY <2>1, EncodeLoop
  <1>3. ASSUME NEW s \in Seq(Int), NEW c \in Int
        PROVE  EncodeUpTo(Append(s, c)) = EncodeUnit(EncodeUpTo(s), c)
    <2> DEFINE t == Append(s, c)
               n == Len(s)
    <2>1. /\ t \in Seq(Int) /\ n \in Nat /\ Len(t) = n + 1
          /\ t[n + 1] = c /\ \A i \in 1..n : t[i] = s[i]
      BY AppendProperties, LenProperties
    <2>2. PICK f : /\ f[0] = Unencoded
                   /\ \A i \in 1..n : f[i] = EncodeUnit(f[i - 1], s[i])
                   /\ EncodeUpTo(s) = f[n]
      BY EncodeLoop
    <2>3. PICK g : /\ g[0] = Unencoded
                   /\ \A i \in 1..(n + 1) : g[i] = EncodeUnit(g[i - 1], t[i])
                   /\ EncodeUpTo(t) = g[n + 1]
      <3> HIDE DEF n, t
      <3> QED
        BY <2>1, EncodeLoop
    <2> HIDE DEF n, t
    <2>4. ASSUME NEW i \in 1..n, f[i - 1] = g[i - 1]
          PROVE  f[i] = g[i]
      <3>1. i \in 1..(n + 1) /\ t[i] = s[i]
        BY <2>1
      <3> QED
        BY <2>2, <2>3, <2>4, <3>1
    <2>5. \A i \in 0..n : f[i] = g[i]
      <3>1. GoAlike(f, g, n)
        BY <2>2, <2>3, <2>4 DEF GoAlike
      <3> QED
        BY <2>1, <3>1, LoopsAgree
    <2>6. f[n] = g[n] /\ n + 1 \in 1..(n + 1) /\ (n + 1) - 1 = n
      BY <2>1, <2>5
    <2> QED
      BY <2>1, <2>2, <2>3, <2>6 DEF t
  <1> QED
    BY <1>1, <1>2, <1>3

-----------------------------------------------------------------------------

\* What decode() has at any time.
Decodings == [units : Seq(Int), seen : Seq(Int)]

Undecoded == Decoding(<<>>, <<>>)

\* decode() begins with what it can have made.
LEMMA UndecodedIsDecoding == Undecoded \in Decodings
  BY DEF Undecoded, Decoding, Decodings

\* Bytes make numbers.
LEMMA UnitsAreNumbers ==
    ASSUME NEW seen \in Seq(Int), seen # <<>>
    PROVE  Units(seen) \in Seq(Int)
  <1>1. seen[1] \in Int
    OBVIOUS
  <1>2. ASSUME NEW i \in {2, 3, 4}
        PROVE  Low(seen, i) \in Int
    <2>1. At(seen, i, 0) \in Int
      BY DEF At
    <2> QED
      BY <2>1 DEF Low
  <1>3. \A a, b, c, d \in Int : Bits(a, b, c, d) \in Int
    BY DEF Bits
  <1>4. \A n \in Int : SurrogatePair(n) \in Seq(Int)
    BY DEF SurrogatePair
  <1>5. seen[1] % 32 \in Int /\ seen[1] % 16 \in Int /\ seen[1] % 8 \in Int
    BY <1>1
  <1>6. CASE Width(seen[1]) = 1
    <2> DEFINE n == seen[1]
    <2>1. n \in Int
      BY <1>1
    <2>2. Units(seen) = <<n>>
      BY <1>6, UnitsIs
    <2> HIDE DEF n
    <2> QED
      BY <2>1, <2>2
  <1>7. CASE Width(seen[1]) = 2
    <2> DEFINE n == Bits(0, 0, seen[1] % 32, Low(seen, 2))
    <2>1. n \in Int
      <3>1. Low(seen, 2) \in Int
        BY <1>2
      <3> QED
        BY <1>5, <3>1 DEF Bits
    <2>2. Units(seen) = <<n>>
      BY <1>7, UnitsIs
    <2> HIDE DEF n
    <2> QED
      BY <2>1, <2>2
  <1>8. CASE Width(seen[1]) = 3
    <2> DEFINE n == Bits(0, seen[1] % 16, Low(seen, 2), Low(seen, 3))
    <2>1. n \in Int
      BY <1>2, <1>3, <1>5
    <2>2. Units(seen) = <<n>>
      BY <1>8, UnitsIs
    <2> HIDE DEF n
    <2> QED
      BY <2>1, <2>2
  <1>9. CASE Width(seen[1]) = 4
    <2>1. Bits(seen[1] % 8, Low(seen, 2), Low(seen, 3), Low(seen, 4)) \in Int
      BY <1>2, <1>3, <1>5
    <2> QED
      BY <1>4, <1>9, <2>1, UnitsIs
  <1> QED
    BY <1>1, <1>6, <1>7, <1>8, <1>9, WidthIs

\* Every byte leaves decode() with what it can have made.
LEMMA DecodeByteIsDecoding ==
    ASSUME NEW d \in Decodings, NEW b \in Int
    PROVE  DecodeByte(d, b) \in Decodings
  <1> DEFINE seen == Append(d.seen, b)
  <1>1. d.units \in Seq(Int) /\ seen \in Seq(Int) /\ seen # <<>>
    BY AppendProperties DEF Decodings
  <1> HIDE DEF seen
  <1>2. d.units \o Units(seen) \in Seq(Int)
    BY <1>1, UnitsAreNumbers, ConcatProperties
  <1>3. DecodeByte(d, b) \in {Decoding(d.units, seen), Decoding(d.units \o Units(seen), <<>>)}
    BY DEF DecodeByte, seen
  <1>4. /\ Decoding(d.units, seen) \in Decodings
        /\ Decoding(d.units \o Units(seen), <<>>) \in Decodings
    BY <1>1, <1>2, EmptySeq DEF Decoding, Decodings
  <1> QED
    BY <1>3, <1>4

\* The loop of decode().
LEMMA DecodeLoop ==
    ASSUME NEW s \in Seq(Int)
    PROVE  \E f : /\ f[0] = Undecoded
                  /\ \A i \in 1..Len(s) : f[i] = DecodeByte(f[i - 1], s[i])
                  /\ \A i \in 0..Len(s) : f[i] \in Decodings
                  /\ DecodeUpTo(s) = f[Len(s)]
  <1> DEFINE n == Len(s)
             T == Decodings
             e == Undecoded
             Step == [p \in (1..n) \X T |-> DecodeByte(p[2], s[p[1]])]
             Is(f) == f = [i \in 0..n |-> IF i = 0 THEN Undecoded
                                          ELSE DecodeByte(f[i - 1], s[i])]
             text == CHOOSE f : Is(f)
  <1>1. n \in Nat /\ \A i \in 1..n : s[i] \in Int
    BY LenProperties, ElementOfSeq
  <1>2. Step \in [(1..n) \X T -> T]
    BY <1>1, DecodeByteIsDecoding
  <1>3. e \in T
    BY UndecodedIsDecoding
  <1>4. DecodeUpTo(s) = text[n]
    BY DEF DecodeUpTo, Undecoded
  <1>5. ASSUME NEW i \in 1..n, NEW t \in T
        PROVE  Step[<<i, t>>] = DecodeByte(t, s[i])
    OBVIOUS
  <1>6. ASSUME NEW t \in T, NEW i \in 1..n
        PROVE  DecodeByte(t, s[i]) \in T
    BY <1>1, DecodeByteIsDecoding
  <1> HIDE DEF n, T, e, Step
  <1>7. PICK g : IsLoop(g, T, n, e, Step)
    BY <1>1, <1>2, <1>3, LoopHasValues
  <1>8. ASSUME NEW i \in 0..n
        PROVE  g[i] = IF i = 0 THEN Undecoded ELSE DecodeByte(g[i - 1], s[i])
    <2>1. CASE i = 0
      BY <1>7, <2>1 DEF e, IsLoop
    <2>2. CASE i # 0
      <3>1. i \in 1..n /\ g[i - 1] \in T
        BY <1>1, <1>7, <2>2 DEF IsLoop
      <3> QED
        BY <1>5, <1>7, <2>2, <3>1 DEF IsLoop
    <2> QED
      BY <2>1, <2>2
  <1>9. Is(g)
    <2>1. g = [i \in 0..n |-> g[i]]
      BY <1>7 DEF IsLoop
    <2> QED
      BY <1>8, <2>1
  <1>10. Is(text)
    BY <1>9
  <1> HIDE DEF text
  <1>11. \A i \in 0..n : text[i] = IF i = 0 THEN Undecoded ELSE DecodeByte(text[i - 1], s[i])
    BY <1>10
  <1> HIDE DEF Is
  <1>12. text[0] = Undecoded /\ \A i \in 1..n : text[i] = DecodeByte(text[i - 1], s[i])
    <2>1. 0 \in 0..n /\ \A i \in 1..n : i \in 0..n /\ i # 0
      BY <1>1
    <2> QED
      BY <1>11, <2>1
  <1>13. \A i \in 0..n : text[i] \in T
    <2>1. text[0] \in T
      BY <1>3, <1>12 DEF e
    <2>2. \A i \in 1..n : text[i - 1] \in T => text[i] \in T
      BY <1>6, <1>12
    <2> QED
      BY <1>1, <2>1, <2>2, LoopStays
  <1>14. /\ text[0] = Undecoded
         /\ \A i \in 1..Len(s) : text[i] = DecodeByte(text[i - 1], s[i])
         /\ \A i \in 0..Len(s) : text[i] \in Decodings
         /\ DecodeUpTo(s) = text[Len(s)]
    BY <1>4, <1>12, <1>13 DEF n, T
  <1> QED
    BY <1>14

\* How bytes are decoded, one by one.
LEMMA DecodeUpToIs ==
    /\ DecodeUpTo(<<>>) = Undecoded
    /\ \A s \in Seq(Int) : DecodeUpTo(s) \in Decodings
    /\ \A s \in Seq(Int) : \A c \in Int :
           DecodeUpTo(Append(s, c)) = DecodeByte(DecodeUpTo(s), c)
  <1>1. DecodeUpTo(<<>>) = Undecoded
    BY DecodeLoop, EmptySeq
  <1>2. ASSUME NEW s \in Seq(Int)
        PROVE  DecodeUpTo(s) \in Decodings
    <2>1. Len(s) \in 0..Len(s)
      BY LenProperties
    <2> QED
      BY <2>1, DecodeLoop
  <1>3. ASSUME NEW s \in Seq(Int), NEW c \in Int
        PROVE  DecodeUpTo(Append(s, c)) = DecodeByte(DecodeUpTo(s), c)
    <2> DEFINE t == Append(s, c)
               n == Len(s)
    <2>1. /\ t \in Seq(Int) /\ n \in Nat /\ Len(t) = n + 1
          /\ t[n + 1] = c /\ \A i \in 1..n : t[i] = s[i]
      BY AppendProperties, LenProperties
    <2>2. PICK f : /\ f[0] = Undecoded
                   /\ \A i \in 1..n : f[i] = DecodeByte(f[i - 1], s[i])
                   /\ DecodeUpTo(s) = f[n]
      BY DecodeLoop
    <2>3. PICK g : /\ g[0] = Undecoded
                   /\ \A i \in 1..(n + 1) : g[i] = DecodeByte(g[i - 1], t[i])
                   /\ DecodeUpTo(t) = g[n + 1]
      <3> HIDE DEF n, t
      <3> QED
        BY <2>1, DecodeLoop
    <2> HIDE DEF n, t
    <2>4. ASSUME NEW i \in 1..n, f[i - 1] = g[i - 1]
          PROVE  f[i] = g[i]
      <3>1. i \in 1..(n + 1) /\ t[i] = s[i]
        BY <2>1
      <3> QED
        BY <2>2, <2>3, <2>4, <3>1
    <2>5. \A i \in 0..n : f[i] = g[i]
      <3>1. GoAlike(f, g, n)
        BY <2>2, <2>3, <2>4 DEF GoAlike
      <3> QED
        BY <2>1, <3>1, LoopsAgree
    <2>6. f[n] = g[n] /\ n + 1 \in 1..(n + 1) /\ (n + 1) - 1 = n
      BY <2>1, <2>5
    <2> QED
      BY <2>1, <2>2, <2>3, <2>6 DEF t
  <1> QED
    BY <1>1, <1>2, <1>3

\* Until its last byte, a character is only gathered.
LEMMA GathersBytes ==
    ASSUME NEW q \in Seq(Int), NEW u \in Seq(Int), DecodeUpTo(q) = Decoding(u, <<>>)
    PROVE  \A bytes \in Seq(Int) :
               bytes # <<>> /\ Len(bytes) < Width(bytes[1]) =>
                   DecodeUpTo(q \o bytes) = Decoding(u, bytes)
  <1> DEFINE S == {bytes \in Seq(Int) :
                 bytes = <<>> \/ Len(bytes) < Width(bytes[1]) =>
                     DecodeUpTo(q \o bytes) = Decoding(u, bytes)}
             I == Int
  <1>1. <<>> \in S
    BY EmptySeq, ConcatEmptySeq
  <1>2. ASSUME NEW bytes \in Seq(I), NEW b \in I, bytes \in S
        PROVE  Append(bytes, b) \in S
    <2> DEFINE more == Append(bytes, b)
    <2>1. /\ more \in Seq(Int) /\ more # <<>> /\ Len(more) = Len(bytes) + 1
          /\ bytes # <<>> => more[1] = bytes[1]
          /\ Len(bytes) \in Nat
      <3>1. bytes \in Seq(Int) /\ b \in Int
        OBVIOUS
      <3> HIDE DEF I, S
      <3>2. /\ more \in Seq(I) /\ more # <<>> /\ Len(more) = Len(bytes) + 1
            /\ \A i \in 1..Len(bytes) : more[i] = bytes[i]
            /\ Len(bytes) \in Nat /\ bytes # <<>> => Len(bytes) # 0
        BY AppendProperties, LenProperties, EmptySeq
      <3> HIDE DEF more
      <3> QED
        BY <3>2 DEF I
    <2>2. ASSUME Len(more) < Width(more[1])
          PROVE  DecodeUpTo(q \o more) = Decoding(u, more)
      <3>1. bytes = <<>> \/ Len(bytes) < Width(bytes[1])
        <4> DEFINE w == Width(more[1])
                   n == Len(bytes)
        <4>1. w \in Nat
          <5>1. more[1] \in Int
            <6> HIDE DEF more, S
            <6>1. Len(more) \in Nat /\ Len(more) # 0
              BY <2>1
            <6> QED
              BY <2>1, <6>1
          <5> HIDE DEF more
          <5>2. \/ more[1] < 128
                \/ more[1] >= 128 /\ more[1] < 224
                \/ more[1] >= 224 /\ more[1] < 240
                \/ more[1] >= 240
            BY <5>1
          <5> QED
            BY <5>1, <5>2, WidthIs
        <4> HIDE DEF w, more, n
        <4>2. n + 1 < w /\ n \in Nat
          BY <2>1, <2>2 DEF w, n
        <4>3. n < w
          BY <4>1, <4>2
        <4> QED
          BY <2>1, <4>3 DEF w, n
      <3>2. DecodeUpTo(q \o bytes) = Decoding(u, bytes)
        BY <1>2, <3>1
      <3>3. q \o bytes \in Seq(Int)
        BY ConcatProperties
      <3>4. q \o more = Append(q \o bytes, b)
        OBVIOUS
      <3>5. DecodeUpTo(Append(q \o bytes, b)) = DecodeByte(Decoding(u, bytes), b)
        BY <3>2, <3>3, DecodeUpToIs
      <3>6. DecodeByte(Decoding(u, bytes), b) = Decoding(u, more)
        <4> DEFINE d == Decoding(u, bytes)
        <4>1. d.seen = bytes /\ d.units = u
          BY DEF Decoding
        <4> HIDE DEF d
        <4> QED
          BY <2>2, <4>1 DEF DecodeByte, d
      <3> QED
        BY <3>4, <3>5, <3>6
    <2> QED
      BY <2>1, <2>2
  <1> HIDE DEF S, I
  <1>3. \A bytes \in Seq(I) : bytes \in S
    BY <1>1, <1>2, SequencesBySet
  <1> QED
    BY <1>3 DEF S, I

\* With its last byte it is decoded.
LEMMA DecodesCharacter ==
    ASSUME NEW q \in Seq(Int), NEW u \in Seq(Int), DecodeUpTo(q) = Decoding(u, <<>>),
           NEW bytes \in Seq(Int), bytes # <<>>, Len(bytes) = Width(bytes[1])
    PROVE  DecodeUpTo(q \o bytes) = Decoding(u \o Units(bytes), <<>>)
  <1>1. PICK most \in Seq(Int), b \in Int : bytes = Append(most, b)
    <2> DEFINE I == Int
    <2> HIDE DEF I
    <2>1. bytes \in Seq(I)
      BY DEF I
    <2>2. \E most \in Seq(I) : \E b \in I : bytes = Append(most, b)
      BY <2>1, SequenceEmptyOrAppend
    <2> QED
      BY <2>2 DEF I
  <1>2. /\ Len(bytes) = Len(most) + 1 /\ Len(most) \in Nat
        /\ most # <<>> => most[1] = bytes[1]
    BY <1>1, AppendProperties, LenProperties
  <1>3. DecodeUpTo(q \o most) = Decoding(u, most)
    <2>1. CASE most = <<>>
      BY <2>1, ConcatEmptySeq
    <2>2. CASE most # <<>>
      <3>1. Len(most) < Width(most[1])
        <4> DEFINE w == Width(bytes[1])
                   n == Len(most)
        <4>1. n + 1 = w /\ n \in Nat /\ w = Width(most[1])
          BY <1>2, <2>2
        <4> HIDE DEF w, n
        <4>2. n < w
          BY <4>1
        <4> QED
          BY <4>1, <4>2 DEF n
      <3> QED
        BY <2>2, <3>1, GathersBytes
    <2> QED
      BY <2>1, <2>2
  <1>4. q \o most \in Seq(Int)
    BY ConcatProperties
  <1>5. q \o bytes = Append(q \o most, b)
    BY <1>1, SMTT(30)
  <1> DEFINE d == Decoding(u, most)
  <1>6. DecodeUpTo(q \o bytes) = DecodeByte(d, b)
    BY <1>3, <1>4, <1>5, DecodeUpToIs
  <1>7. Append(d.seen, b) = bytes /\ d.units = u
    BY <1>1 DEF Decoding
  <1> HIDE DEF d
  <1>8. ~(Len(bytes) < Width(bytes[1]))
    BY <1>2
  <1>9. DecodeByte(d, b) = Decoding(u \o Units(bytes), <<>>)
    BY <1>7, <1>8 DEF DecodeByte
  <1> QED
    BY <1>6, <1>9

-----------------------------------------------------------------------------

\* Sequences joined, one after the other.
LEMMA FlattenLoop ==
    ASSUME NEW E, NEW ss \in Seq(Seq(E)), ss # <<>>
    PROVE  \E f : /\ f[1] = ss[1]
                  /\ \A i \in 2..Len(ss) : f[i] = f[i - 1] \o ss[i]
                  /\ \A i \in 1..Len(ss) : f[i] \in Seq(E)
                  /\ FlattenSeq(ss) = f[Len(ss)]
  <1> DEFINE n == Len(ss)
             T == Seq(E)
             e == <<>>
             Step == [p \in (1..n) \X T |-> p[2] \o ss[p[1]]]
             Is(f) == f = [i \in 1..n |-> IF i = 1 THEN ss[i] ELSE f[i - 1] \o ss[i]]
             flatten == CHOOSE f : Is(f)
  <1>1. n \in Nat /\ n # 0 /\ \A i \in 1..n : ss[i] \in T
    BY LenProperties, ElementOfSeq, EmptySeq
  <1>2. Step \in [(1..n) \X T -> T]
    BY <1>1, ConcatProperties
  <1>3. e \in T /\ e \o ss[1] = ss[1]
    BY <1>1, EmptySeq, ConcatEmptySeq
  <1>4. FlattenSeq(ss) = flatten[n]
    BY <1>1 DEF FlattenSeq
  <1>5. ASSUME NEW i \in 1..n, NEW t \in T
        PROVE  Step[<<i, t>>] = t \o ss[i]
    OBVIOUS
  <1>6. ASSUME NEW t \in T, NEW i \in 1..n
        PROVE  t \o ss[i] \in T
    BY <1>1, ConcatProperties
  <1> HIDE DEF n, T, e, Step
  <1>7. PICK g : IsLoop(g, T, n, e, Step)
    BY <1>1, <1>2, <1>3, LoopHasValues
  <1> DEFINE h == [i \in 1..n |-> g[i]]
  <1>8. ASSUME NEW i \in 1..n
        PROVE  g[i] = IF i = 1 THEN ss[i] ELSE h[i - 1] \o ss[i]
    <2> HIDE DEF h
    <2>1. g[i] = Step[<<i, g[i - 1]>>] /\ g[i - 1] \in T
      <3>1. i - 1 \in 0..n
        BY <1>1
      <3> QED
        BY <1>7, <3>1 DEF IsLoop
    <2>2. g[i] = g[i - 1] \o ss[i]
      BY <1>5, <2>1
    <2>3. CASE i = 1
      <3>1. g[i - 1] = e
        BY <1>7, <2>3 DEF IsLoop
      <3> QED
        BY <1>3, <2>2, <2>3, <3>1
    <2> USE DEF h
    <2>4. CASE i # 1
      <3>1. i - 1 \in 1..n
        BY <1>1, <2>4
      <3> QED
        BY <2>2, <2>4, <3>1
    <2> QED
      BY <2>3, <2>4
  <1>9. Is(h)
    BY <1>8
  <1>10. Is(flatten)
    BY <1>9
  <1> HIDE DEF flatten
  <1>11. \A i \in 1..n : flatten[i] = IF i = 1 THEN ss[i] ELSE flatten[i - 1] \o ss[i]
    BY <1>10
  <1> HIDE DEF Is
  <1>12. flatten[1] = ss[1] /\ \A i \in 2..n : flatten[i] = flatten[i - 1] \o ss[i]
    <2>1. 1 \in 1..n /\ \A i \in 2..n : i \in 1..n /\ i # 1
      BY <1>1
    <2> QED
      BY <1>11, <2>1
  <1>13. \A i \in 1..n : flatten[i] \in T
    <2> DEFINE f == [i \in 0..n |-> IF i = 0 THEN e ELSE flatten[i]]
    <2>1. f[0] = e /\ \A i \in 1..n : f[i] = flatten[i]
      BY <1>1
    <2> HIDE DEF f
    <2>2. f[0] \in T
      BY <1>3, <2>1
    <2>3. ASSUME NEW i \in 1..n, f[i - 1] \in T
          PROVE  f[i] \in T
      <3>1. CASE i = 1
        BY <1>1, <1>12, <2>1, <3>1
      <3>2. CASE i # 1
        <4>1. i \in 2..n /\ i - 1 \in 1..n
          BY <1>1, <3>2
        <4>2. f[i] = f[i - 1] \o ss[i]
          BY <1>12, <2>1, <4>1
        <4> QED
          BY <1>6, <2>3, <4>2
      <3> QED
        BY <3>1, <3>2
    <2>4. \A i \in 0..n : f[i] \in T
      BY <1>1, <2>2, <2>3, LoopStays
    <2> QED
      BY <1>1, <2>1, <2>4
  <1>14. /\ flatten[1] = ss[1]
         /\ \A i \in 2..Len(ss) : flatten[i] = flatten[i - 1] \o ss[i]
         /\ \A i \in 1..Len(ss) : flatten[i] \in Seq(E)
         /\ FlattenSeq(ss) = flatten[Len(ss)]
    BY <1>4, <1>12, <1>13 DEF n, T
  <1> QED
    BY <1>14

\* Another one is joined at the end.
LEMMA FlattenIs ==
    ASSUME NEW E
    PROVE  /\ FlattenSeq(<<>>) = <<>>
           /\ \A ss \in Seq(Seq(E)) : FlattenSeq(ss) \in Seq(E)
           /\ \A ss \in Seq(Seq(E)) : \A s \in Seq(E) :
                  FlattenSeq(Append(ss, s)) = FlattenSeq(ss) \o s
  <1>1. FlattenSeq(<<>>) = <<>>
    BY DEF FlattenSeq
  <1>2. ASSUME NEW ss \in Seq(Seq(E))
        PROVE  FlattenSeq(ss) \in Seq(E)
    <2>1. CASE ss = <<>>
      BY <1>1, <2>1, EmptySeq
    <2>2. CASE ss # <<>>
      <3>1. Len(ss) \in 1..Len(ss)
        BY <2>2, LenProperties, EmptySeq
      <3> QED
        BY <2>2, <3>1, FlattenLoop
    <2> QED
      BY <2>1, <2>2
  <1>3. ASSUME NEW ss \in Seq(Seq(E)), NEW s \in Seq(E)
        PROVE  FlattenSeq(Append(ss, s)) = FlattenSeq(ss) \o s
    <2> DEFINE tt == Append(ss, s)
               n == Len(ss)
    <2>1. /\ tt \in Seq(Seq(E)) /\ tt # <<>> /\ n \in Nat /\ Len(tt) = n + 1
          /\ tt[n + 1] = s /\ \A i \in 1..n : tt[i] = ss[i]
      BY AppendProperties, LenProperties
    <2>2. PICK g : /\ g[1] = tt[1]
                   /\ \A i \in 2..(n + 1) : g[i] = g[i - 1] \o tt[i]
                   /\ FlattenSeq(tt) = g[n + 1]
      <3> HIDE DEF n, tt
      <3>1. \E g : /\ g[1] = tt[1]
                   /\ \A i \in 2..Len(tt) : g[i] = g[i - 1] \o tt[i]
                   /\ FlattenSeq(tt) = g[Len(tt)]
        BY <2>1, FlattenLoop
      <3> QED
        BY <2>1, <3>1
    <2>3. CASE ss = <<>>
      <3>1. n = 0
        BY <2>3
      <3>2. FlattenSeq(ss) \o s = s
        BY <1>1, <2>3, ConcatEmptySeq
      <3> HIDE DEF n, tt
      <3>3. FlattenSeq(tt) = s
        BY <2>1, <2>2, <3>1
      <3> QED
        BY <3>2, <3>3 DEF tt
    <2>4. CASE ss # <<>>
      <3>1. PICK f : /\ f[1] = ss[1]
                     /\ \A i \in 2..n : f[i] = f[i - 1] \o ss[i]
                     /\ FlattenSeq(ss) = f[n]
        BY <2>4, FlattenLoop
      <3>2. n # 0
        BY <2>4, EmptySeq
      <3> HIDE DEF n, tt
      <3> DEFINE S == {i \in Nat : i < n => f[i + 1] = g[i + 1]}
      <3>3. 0 \in S
        <4>1. n > 0 => 1 \in 1..n
          BY <2>1
        <4> QED
          BY <2>1, <2>2, <3>1, <4>1
      <3>4. ASSUME NEW i \in Nat, i \in S
            PROVE  i + 1 \in S
        <4> SUFFICES ASSUME i + 1 < n
                     PROVE  f[i + 2] = g[i + 2]
          OBVIOUS
        <4>1. /\ i + 2 \in 2..n /\ i + 2 \in 2..(n + 1) /\ i + 2 \in 1..n
              /\ (i + 2) - 1 = i + 1 /\ f[i + 1] = g[i + 1]
          BY <2>1, <3>4
        <4>2. f[i + 2] = f[i + 1] \o ss[i + 2]
          BY <3>1, <4>1
        <4>3. g[i + 2] = g[i + 1] \o tt[i + 2]
          BY <2>2, <4>1
        <4> QED
          BY <2>1, <4>1, <4>2, <4>3
      <3> HIDE DEF S
      <3>5. \A i \in Nat : i \in S
        BY <3>3, <3>4, NumbersBySet
      <3>6. f[n] = g[n]
        <4>1. n - 1 \in Nat /\ n - 1 < n /\ (n - 1) + 1 = n
          BY <2>1, <3>2
        <4> QED
          BY <3>5, <4>1 DEF S
      <3>7. n + 1 \in 2..(n + 1) /\ (n + 1) - 1 = n
        BY <2>1, <3>2
      <3>8. g[n + 1] = g[n] \o s
        BY <2>1, <2>2, <3>7
      <3> QED
        BY <2>2, <3>1, <3>6, <3>8 DEF tt
    <2> QED
      BY <2>3, <2>4
  <1> QED
    BY <1>1, <1>2, <1>3

\* What UTF-16 writes for a character: one unit that is no surrogate, or two that are.
Utf16Characters ==
    {<<c>> : c \in {n \in Nat : n < 65536 /\ ~IsSurrogate(n)}}
        \cup {<<p[1], p[2]>> : p \in {n \in Nat : n >= 55296 /\ n < 56320}
                                         \X {n \in Nat : n >= 56320 /\ n < 57344}}

\* A character more is encoded and decoded as itself.
LEMMA CharacterRoundTrip ==
    ASSUME NEW ch \in Utf16Characters, NEW t \in Seq(Int), NEW q \in Seq(Int),
           EncodeUpTo(t) = Encoding(q, 0), DecodeUpTo(q) = Decoding(t, <<>>)
    PROVE  /\ ch \in Seq(Int) /\ t \o ch \in Seq(Int)
           /\ \E r \in Seq(Int) : /\ EncodeUpTo(t \o ch) = Encoding(r, 0)
                                  /\ DecodeUpTo(r) = Decoding(t \o ch, <<>>)
  <1> DEFINE e == Encoding(q, 0)
  <1>1. e.high = 0 /\ e.bytes = q
    BY DEF Encoding
  <1> HIDE DEF e
  <1>2. CASE \E c \in Nat : c < 65536 /\ ~IsSurrogate(c) /\ ch = <<c>>
    <2>1. PICK c \in Nat : c < 65536 /\ ~IsSurrogate(c) /\ ch = <<c>>
      BY <1>2
    <2>2. ch \in Seq(Int)
      BY <2>1
    <2>3. t \o ch \in Seq(Int)
      BY <2>2, ConcatProperties
    <2>4. t \o ch = Append(t, c)
      <3>1. c \in Int
        OBVIOUS
      <3> QED
        BY <2>1, <3>1, AppendIsConcat
    <2> DEFINE bytes == Utf8(c)
               r == q \o bytes
    <2>5. EncodeUpTo(Append(t, c)) = EncodeUnit(e, c)
      BY EncodeUpToIs DEF e
    <2>6. EncodeUnit(e, c) = Encoding(r, 0)
      BY <1>1, <2>1 DEF EncodeUnit
    <2>7. bytes \in Seq(Int) /\ bytes # <<>> /\ Len(bytes) = Width(bytes[1]) /\ Units(bytes) = <<c>>
      BY <2>1, Utf8IsNumbers, BasicPlane
    <2> HIDE DEF bytes
    <2>8. r \in Seq(Int)
      BY <2>7, ConcatProperties
    <2>9. DecodeUpTo(r) = Decoding(t \o Units(bytes), <<>>)
      BY <2>7, DecodesCharacter
    <2>10. DecodeUpTo(r) = Decoding(t \o ch, <<>>)
      BY <2>1, <2>7, <2>9
    <2> HIDE DEF r
    <2> QED
      BY <2>2, <2>3, <2>4, <2>5, <2>6, <2>8, <2>10
  <1>3. CASE \E h, l \in Nat : h >= 55296 /\ h < 56320 /\ l >= 56320 /\ l < 57344 /\ ch = <<h, l>>
    <2>1. PICK h \in Nat, l \in Nat :
              h >= 55296 /\ h < 56320 /\ l >= 56320 /\ l < 57344 /\ ch = <<h, l>>
      BY <1>3
    <2>2. ch \in Seq(Int)
      BY <2>1
    <2>3. t \o ch \in Seq(Int)
      BY <2>2, ConcatProperties
    <2>4. t \o ch = Append(Append(t, h), l) /\ Append(t, h) \in Seq(Int)
      BY <2>1
    <2> DEFINE bytes == Utf8(CodePoint(h, l))
               r == q \o bytes
               w == Encoding(q, h)
    <2>5. w.high = h /\ w.bytes = q
      BY DEF Encoding
    <2> HIDE DEF w
    <2>6. EncodeUpTo(Append(t, h)) = EncodeUnit(e, h)
      BY EncodeUpToIs DEF e
    <2>7. EncodeUnit(e, h) = w
      BY <1>1, <2>1 DEF EncodeUnit, IsSurrogate, w
    <2>8. EncodeUpTo(Append(Append(t, h), l)) = EncodeUnit(w, l)
      <3> DEFINE th == Append(t, h)
      <3>1. th \in Seq(Int) /\ l \in Int /\ EncodeUpTo(th) = w
        BY <2>4, <2>6, <2>7
      <3> HIDE DEF th
      <3>2. EncodeUpTo(Append(th, l)) = EncodeUnit(EncodeUpTo(th), l)
        BY <3>1, EncodeUpToIs
      <3> QED
        BY <3>1, <3>2 DEF th
    <2>9. EncodeUnit(w, l) = Encoding(r, 0)
      BY <2>1, <2>5 DEF EncodeUnit
    <2>10. CodePoint(h, l) \in Int
      BY DEF CodePoint
    <2>11. bytes \in Seq(Int)
      BY <2>10, Utf8IsNumbers
    <2>12. bytes # <<>> /\ Len(bytes) = Width(bytes[1]) /\ Units(bytes) = <<h, l>>
      BY <2>1, OutsideBasicPlane
    <2> HIDE DEF bytes
    <2>13. r \in Seq(Int)
      BY <2>11, ConcatProperties
    <2>14. DecodeUpTo(r) = Decoding(t \o Units(bytes), <<>>)
      BY <2>11, <2>12, DecodesCharacter
    <2>15. DecodeUpTo(r) = Decoding(t \o ch, <<>>)
      BY <2>1, <2>12, <2>14
    <2> HIDE DEF r
    <2> QED
      BY <2>2, <2>3, <2>4, <2>8, <2>9, <2>13, <2>15
  <1> QED
    BY <1>2, <1>3 DEF Utf16Characters

\* Text of any characters is decoded to what was encoded.
THEOREM TextRoundTrip ==
    \A chars \in Seq(Utf16Characters) :
        decode(encode(FlattenSeq(chars))) = FlattenSeq(chars)
  <1> DEFINE Same(t) == \E q \in Seq(Int) : /\ EncodeUpTo(t) = Encoding(q, 0)
                                            /\ DecodeUpTo(q) = Decoding(t, <<>>)
             S == {chars \in Seq(Utf16Characters) :
                      chars \in Seq(Seq(Int)) /\ Same(FlattenSeq(chars))}
  <1>1. <<>> \in S
    <2>1. Same(<<>>)
      BY EmptySeq, EncodeUpToIs, DecodeUpToIs DEF Unencoded, Undecoded
    <2> QED
      BY <2>1, EmptySeq, FlattenIs
  <1>2. ASSUME NEW chars \in Seq(Utf16Characters), NEW ch \in Utf16Characters, chars \in S
        PROVE  Append(chars, ch) \in S
    <2> DEFINE t == FlattenSeq(chars)
    <2>1. chars \in Seq(Seq(Int)) /\ t \in Seq(Int)
      BY <1>2, FlattenIs
    <2>2. PICK q \in Seq(Int) : EncodeUpTo(t) = Encoding(q, 0) /\ DecodeUpTo(q) = Decoding(t, <<>>)
      BY <1>2
    <2> HIDE DEF t
    <2>3. ch \in Seq(Int) /\ Same(t \o ch)
      BY <2>1, <2>2, CharacterRoundTrip
    <2>4. FlattenSeq(Append(chars, ch)) = t \o ch
      BY <2>1, <2>3, FlattenIs DEF t
    <2>5. Append(chars, ch) \in Seq(Utf16Characters) /\ Append(chars, ch) \in Seq(Seq(Int))
      BY <2>1, <2>3, AppendProperties
    <2> QED
      BY <2>3, <2>4, <2>5
  <1> HIDE DEF S
  <1>3. \A chars \in Seq(Utf16Characters) : chars \in S
    BY <1>1, <1>2, SequencesBySet
  <1>4. ASSUME NEW t, Same(t)
        PROVE  decode(encode(t)) = t
    <2>1. PICK q \in Seq(Int) : EncodeUpTo(t) = Encoding(q, 0) /\ DecodeUpTo(q) = Decoding(t, <<>>)
      BY <1>4
    <2>2. encode(t) = q
      BY <2>1 DEF encode, Encoding
    <2>3. decode(q) = t
      BY <2>1 DEF decode, Decoding
    <2> QED
      BY <2>2, <2>3
  <1> QED
    BY <1>3, <1>4 DEF S

-----------------------------------------------------------------------------
(* Base64                                                                  *)

\* Groups of three, or four.
Threes(s) == (Len(s) + 2) \div 3
Fours(s) == (Len(s) + 3) \div 4

\* Bytes as a set of numbers.
LEMMA ByteIs ==
    ASSUME NEW c \in Byte
    PROVE  c \in Nat /\ c < 256
  BY DEF Byte

\* A group begins in the text, and only the last may be cut short.
LEMMA ThreesAre ==
    ASSUME NEW s \in Seq(Byte)
    PROVE  /\ Threes(s) \in Nat
           /\ \A g \in 1..Threes(s) : 3 * g - 2 \in 1..Len(s)
  <1> DEFINE n == Len(s)
  <1>1. n \in Nat
    BY LenProperties
  <1> HIDE DEF n
  <1>2. /\ (n + 2) \div 3 \in Nat
        /\ \A g \in 1..((n + 2) \div 3) : 3 * g - 2 \in 1..n
    BY <1>1
  <1> QED
    BY <1>2 DEF Threes, n

\* 24 bits are four times six, and three times eight.
LEMMA SixBits ==
    ASSUME NEW b \in Nat, b < 16777216
    PROVE  /\ b \div 262144 \in Nat /\ b \div 262144 < 64
           /\ (b \div 4096) % 64 \in Nat /\ (b \div 4096) % 64 < 64
           /\ (b \div 64) % 64 \in Nat /\ (b \div 64) % 64 < 64
           /\ b % 64 \in Nat /\ b % 64 < 64
           /\ Bits(b \div 262144, (b \div 4096) % 64, (b \div 64) % 64, b % 64) = b
  BY DEF Bits

\* Three bytes in 24 bits.
LEMMA EightBits ==
    ASSUME NEW x \in Nat, NEW y \in Nat, NEW z \in Nat, x < 256, y < 256, z < 256
    PROVE  /\ ((x * 256 + y) * 256 + z) \div 65536 = x
           /\ (((x * 256 + y) * 256 + z) \div 256) % 256 = y
           /\ ((x * 256 + y) * 256 + z) % 256 = z
  BY SMT

\* The digits of a group of three: with padding where characters are missing.
LEMMA SextetsAre ==
    ASSUME NEW s \in Seq(Byte), NEW i \in 1..Len(s)
    PROVE  LET x == Sextets(s, i)
           IN  /\ x \in Seq(Int) /\ Len(x) = 4 /\ x[1] # Pad /\ x[2] # Pad
               /\ i + 1 <= Len(s) => x[3] # Pad
               /\ i + 1 > Len(s) => x[3] = Pad
               /\ i + 2 > Len(s) => x[4] = Pad
               /\ i + 2 <= Len(s) =>
                      /\ x[4] # Pad
                      /\ Bits(x[1], x[2], x[3], x[4]) = (s[i] * 256 + s[i + 1]) * 256 + s[i + 2]
  <1> DEFINE n == Len(s)
             b == (s[i] * 256 + At(s, i + 1, 0)) * 256 + At(s, i + 2, 0)
             x1 == b \div 262144
             x2 == (b \div 4096) % 64
             x3 == IF i + 1 <= n THEN (b \div 64) % 64 ELSE Pad
             x4 == IF i + 2 <= n THEN b % 64 ELSE Pad
             x == <<x1, x2, x3, x4>>
  <1>1. n \in Nat /\ i \in 1..n /\ \A k \in 1..n : s[k] \in Nat /\ s[k] < 256
    BY LenProperties, ElementOfSeq, ByteIs
  <1>2. Sextets(s, i) = x
    BY DEF Sextets
  <1>3. /\ At(s, i + 1, 0) \in Nat /\ At(s, i + 1, 0) < 256
        /\ At(s, i + 2, 0) \in Nat /\ At(s, i + 2, 0) < 256
    <2>1. \A k \in Nat : k >= 1 => At(s, k, 0) \in Nat /\ At(s, k, 0) < 256
      BY <1>1 DEF At
    <2> QED
      BY <1>1, <2>1
  <1>4. b \in Nat /\ b < 16777216
    <2> DEFINE p == s[i]
               q == At(s, i + 1, 0)
               r == At(s, i + 2, 0)
    <2>1. p \in Nat /\ p < 256 /\ q \in Nat /\ q < 256 /\ r \in Nat /\ r < 256
      BY <1>1, <1>3
    <2>2. b = (p * 256 + q) * 256 + r
      OBVIOUS
    <2> HIDE DEF b, p, q, r
    <2> QED
      BY <2>1, <2>2, SMT
  <1>5. i + 2 <= n => b = (s[i] * 256 + s[i + 1]) * 256 + s[i + 2]
    BY <1>1 DEF At
  <1> HIDE DEF b
  <1>6. /\ x1 \in Nat /\ x1 < 64 /\ x2 \in Nat /\ x2 < 64
        /\ (b \div 64) % 64 \in Nat /\ (b \div 64) % 64 < 64 /\ b % 64 \in Nat /\ b % 64 < 64
        /\ Bits(x1, x2, (b \div 64) % 64, b % 64) = b
    BY <1>4, SMT DEF Bits
  <1>7. /\ x3 \in Int /\ x4 \in Int /\ x1 # Pad /\ x2 # Pad
        /\ i + 1 <= n => x3 # Pad /\ x3 = (b \div 64) % 64
        /\ i + 1 > n => x3 = Pad
        /\ i + 2 > n => x4 = Pad
        /\ i + 2 <= n => x4 # Pad /\ x4 = b % 64
    BY <1>1, <1>6 DEF Pad
  <1>8. i + 2 <= n => Bits(x1, x2, x3, x4) = b
    <2>1. i + 2 <= n => i + 1 <= n
      BY <1>1
    <2> QED
      BY <1>6, <1>7, <2>1
  <1> HIDE DEF x1, x2, x3, x4
  <1>9. x \in Seq(Int) /\ Len(x) = 4 /\ x[1] = x1 /\ x[2] = x2 /\ x[3] = x3 /\ x[4] = x4
    BY <1>6, <1>7
  <1> HIDE DEF x
  <1> QED
    BY <1>2, <1>5, <1>7, <1>8, <1>9 DEF n

\* The loop of btoa().
LEMMA BtoaLoop ==
    ASSUME NEW s \in Seq(Byte)
    PROVE  \E f : /\ f[0] = <<>>
                  /\ \A i \in 1..Threes(s) : f[i] = f[i - 1] \o Sextets(s, 3 * i - 2)
                  /\ \A i \in 0..Threes(s) : f[i] \in Seq(Int)
                  /\ btoa(s) = f[Threes(s)]
  <1> DEFINE n == Threes(s)
             T == Seq(Int)
             e == <<>>
             Step == [p \in (1..n) \X T |-> p[2] \o Sextets(s, 3 * p[1] - 2)]
             Is(f) == f = [i \in 0..n |-> IF i = 0 THEN <<>>
                                          ELSE f[i - 1] \o Sextets(s, 3 * i - 2)]
             output == CHOOSE f : Is(f)
  <1>1. n \in Nat /\ \A i \in 1..n : Sextets(s, 3 * i - 2) \in T
    BY ThreesAre, SextetsAre
  <1>2. Step \in [(1..n) \X T -> T]
    BY <1>1, ConcatProperties
  <1>3. e \in T
    BY EmptySeq
  <1>4. btoa(s) = output[n]
    BY DEF btoa, Threes
  <1>5. ASSUME NEW i \in 1..n, NEW t \in T
        PROVE  Step[<<i, t>>] = t \o Sextets(s, 3 * i - 2)
    OBVIOUS
  <1>6. ASSUME NEW t \in T, NEW i \in 1..n
        PROVE  t \o Sextets(s, 3 * i - 2) \in T
    BY <1>1, ConcatProperties
  <1> HIDE DEF n, T, e, Step
  <1>7. PICK g : IsLoop(g, T, n, e, Step)
    BY <1>1, <1>2, <1>3, LoopHasValues
  <1>8. ASSUME NEW i \in 0..n
        PROVE  g[i] = IF i = 0 THEN <<>> ELSE g[i - 1] \o Sextets(s, 3 * i - 2)
    <2>1. CASE i = 0
      BY <1>7, <2>1 DEF e, IsLoop
    <2>2. CASE i # 0
      <3>1. i \in 1..n /\ g[i - 1] \in T
        BY <1>1, <1>7, <2>2 DEF IsLoop
      <3> QED
        BY <1>5, <1>7, <2>2, <3>1 DEF IsLoop
    <2> QED
      BY <2>1, <2>2
  <1>9. Is(g)
    <2>1. g = [i \in 0..n |-> g[i]]
      BY <1>7 DEF IsLoop
    <2> QED
      BY <1>8, <2>1
  <1>10. Is(output)
    BY <1>9
  <1> HIDE DEF output
  <1>11. \A i \in 0..n : output[i] = IF i = 0 THEN <<>> ELSE output[i - 1] \o Sextets(s, 3 * i - 2)
    BY <1>10
  <1> HIDE DEF Is
  <1>12. output[0] = <<>> /\ \A i \in 1..n : output[i] = output[i - 1] \o Sextets(s, 3 * i - 2)
    <2>1. 0 \in 0..n /\ \A i \in 1..n : i \in 0..n /\ i # 0
      BY <1>1
    <2> QED
      BY <1>11, <2>1
  <1>13. \A i \in 0..n : output[i] \in T
    <2>1. output[0] \in T
      BY <1>3, <1>12 DEF e
    <2>2. \A i \in 1..n : output[i - 1] \in T => output[i] \in T
      BY <1>6, <1>12
    <2> QED
      BY <1>1, <2>1, <2>2, LoopStays
  <1>14. /\ output[0] = <<>>
         /\ \A i \in 1..Threes(s) : output[i] = output[i - 1] \o Sextets(s, 3 * i - 2)
         /\ \A i \in 0..Threes(s) : output[i] \in Seq(Int)
         /\ btoa(s) = output[Threes(s)]
    BY <1>4, <1>12, <1>13 DEF n, T
  <1> QED
    BY <1>14

\* Place k of group g, where the groups have four places each.
LEMMA PlaceInGroups ==
    ASSUME NEW n \in Nat, NEW g \in 1..n, NEW k \in 1..4
    PROVE  /\ 4 * (g - 1) + k \in 1..(4 * n)
           /\ (4 * (g - 1) + k - 1) \div 4 + 1 = g /\ ((4 * (g - 1) + k - 1) % 4) + 1 = k
  <1> DEFINE q == g - 1
             r == k - 1
  <1>1. q \in Nat /\ r \in Nat /\ r < 4 /\ g = q + 1 /\ k = r + 1 /\ q + 1 <= n
    OBVIOUS
  <1> HIDE DEF q, r
  <1>2. 4 * (g - 1) + k \in 1..(4 * n) /\ 4 * (g - 1) + k - 1 = 4 * q + r
    BY <1>1
  <1>3. (4 * q + r) \div 4 = q /\ (4 * q + r) % 4 = r
    BY <1>1, SMTT(30)
  <1> QED
    BY <1>1, <1>2, <1>3

\* The digits are those of the groups, one group after the other.
LEMMA BtoaIs ==
    ASSUME NEW s \in Seq(Byte)
    PROVE  LET t == btoa(s)
           IN  /\ t \in Seq(Int) /\ Len(t) = 4 * Threes(s)
               /\ \A g \in 1..Threes(s) : \A k \in 1..4 :
                      t[4 * (g - 1) + k] = Sextets(s, 3 * g - 2)[k]
  <1> DEFINE n == Threes(s)
             X(g) == Sextets(s, 3 * g - 2)
             Digit(i) == X((i - 1) \div 4 + 1)[((i - 1) % 4) + 1]
  <1>1. n \in Nat /\ \A g \in 1..n : X(g) \in Seq(Int) /\ Len(X(g)) = 4
    BY ThreesAre, SextetsAre
  <1>2. PICK f : /\ f[0] = <<>>
                 /\ \A g \in 1..n : f[g] = f[g - 1] \o X(g)
                 /\ \A g \in 0..n : f[g] \in Seq(Int)
                 /\ btoa(s) = f[n]
    BY BtoaLoop
  <1> HIDE DEF n, X
  <1> DEFINE S == {g \in Nat : g <= n =>
                 Len(f[g]) = 4 * g /\ \A i \in 1..(4 * g) : f[g][i] = Digit(i)}
  <1>3. 0 \in S
    BY <1>2
  <1>4. ASSUME NEW g \in Nat, g \in S
        PROVE  g + 1 \in S
    <2> SUFFICES ASSUME g + 1 <= n
                 PROVE  /\ Len(f[g + 1]) = 4 * (g + 1)
                        /\ \A i \in 1..(4 * (g + 1)) : f[g + 1][i] = Digit(i)
      OBVIOUS
    <2>1. /\ g + 1 \in 1..n /\ g \in 0..n /\ (g + 1) - 1 = g
      BY <1>1
    <2>2. f[g + 1] = f[g] \o X(g + 1) /\ f[g] \in Seq(Int) /\ X(g + 1) \in Seq(Int)
          /\ Len(X(g + 1)) = 4
      BY <1>1, <1>2, <2>1
    <2>3. Len(f[g]) = 4 * g /\ \A i \in 1..(4 * g) : f[g][i] = Digit(i)
      BY <1>1, <1>4
    <2> DEFINE u == f[g]
               v == X(g + 1)
    <2>4. /\ Len(u \o v) = 4 * g + 4
          /\ \A i \in 1..(4 * g + 4) : (u \o v)[i] = IF i <= 4 * g THEN u[i] ELSE v[i - 4 * g]
      <3> DEFINE I == Int
      <3>1. u \in Seq(I) /\ v \in Seq(I) /\ Len(u) = 4 * g /\ Len(v) = 4
        BY <2>2, <2>3
      <3> HIDE DEF u, v, I, S, Digit
      <3>2. /\ Len(u \o v) = Len(u) + Len(v)
            /\ \A i \in 1..(Len(u) + Len(v)) :
                   (u \o v)[i] = IF i <= Len(u) THEN u[i] ELSE v[i - Len(u)]
        BY <3>1, ConcatProperties
      <3> QED
        BY <3>1, <3>2
    <2>5. \A i \in 1..(4 * g) : u[i] = Digit(i)
      BY <2>3
    <2>6. ASSUME NEW i \in 1..(4 * g + 4), i > 4 * g
          PROVE  v[i - 4 * g] = Digit(i)
      <3>1. (i - 1) \div 4 + 1 = g + 1 /\ ((i - 1) % 4) + 1 = i - 4 * g
        <4> HIDE DEF S, Digit, u, v
        <4> QED
          BY <2>6
      <3> QED
        BY <3>1
    <2>7. Len(u \o v) = 4 * (g + 1) /\ \A i \in 1..(4 * (g + 1)) : (u \o v)[i] = Digit(i)
      <3> HIDE DEF S, Digit, u, v
      <3> QED
        BY <2>4, <2>5, <2>6, SMTT(30)
    <2>8. f[g + 1] = u \o v
      BY <2>2
    <2> HIDE DEF u, v, Digit
    <2> QED
      BY <2>7, <2>8
  <1> HIDE DEF S
  <1>5. n \in S
    BY <1>1, <1>3, <1>4, NumbersBySet
  <1>6. Len(f[n]) = 4 * n /\ \A i \in 1..(4 * n) : f[n][i] = Digit(i)
    BY <1>1, <1>5 DEF S
  <1>7. ASSUME NEW g \in 1..n, NEW k \in 1..4
        PROVE  f[n][4 * (g - 1) + k] = X(g)[k]
    <2>1. /\ 4 * (g - 1) + k \in 1..(4 * n)
          /\ (4 * (g - 1) + k - 1) \div 4 + 1 = g /\ ((4 * (g - 1) + k - 1) % 4) + 1 = k
      <3>1. n \in Nat
        BY <1>1
      <3> QED
        BY <3>1, PlaceInGroups, ZenonT(40)
    <2> QED
      BY <1>6, <2>1
  <1>8. f[n] \in Seq(Int)
    BY <1>1, <1>2
  <1> QED
    BY <1>2, <1>6, <1>7, <1>8 DEF n, X

\* What is stripped is the padding at the end.
LEMMA StrippedIs ==
    ASSUME NEW t \in Seq(Int), NEW m \in 0..Len(t),
           \A i \in (m + 1)..Len(t) : t[i] = Pad, m = 0 \/ t[m] # Pad
    PROVE  Stripped(t) = SubSeq(t, 1, m)
  <1> DEFINE N == Len(t)
             P(n) == /\ \A i \in (n + 1)..N : t[i] = Pad
                     /\ n = 0 \/ t[n] # Pad
  <1>1. N \in Nat /\ m \in 0..N /\ P(m)
    BY LenProperties
  <1>2. ASSUME NEW n \in 0..N, P(n)
        PROVE  n = m
    <2> HIDE DEF N
    <2>1. CASE n < m
      <3>1. m \in (n + 1)..N /\ m # 0
        BY <1>1, <2>1
      <3> QED
        BY <1>1, <1>2, <3>1
    <2>2. CASE m < n
      <3>1. n \in (m + 1)..N /\ n # 0
        BY <1>1, <2>2
      <3> QED
        BY <1>1, <1>2, <3>1
    <2> QED
      BY <1>1, <2>1, <2>2
  <1>3. Stripped(t) = SubSeq(t, 1, CHOOSE n \in 0..N : P(n))
    BY DEF Stripped
  <1> HIDE DEF P, N
  <1>4. (CHOOSE n \in 0..N : P(n)) = m
    BY <1>1, <1>2
  <1> QED
    BY <1>3, <1>4

\* A group begins among the digits.
LEMMA FoursAre ==
    ASSUME NEW s \in Seq(Int)
    PROVE  /\ Fours(s) \in Nat
           /\ \A g \in 1..Fours(s) : 4 * g - 3 \in 1..Len(s)
  <1> DEFINE n == Len(s)
  <1>1. n \in Nat
    BY LenProperties
  <1> HIDE DEF n
  <1>2. /\ (n + 3) \div 4 \in Nat
        /\ \A g \in 1..((n + 3) \div 4) : 4 * g - 3 \in 1..n
    BY <1>1
  <1> QED
    BY <1>2 DEF Fours, n

\* What four digits decode to are bytes.
LEMMA OctetsAreNumbers ==
    ASSUME NEW s \in Seq(Int), NEW i \in 1..Len(s)
    PROVE  Octets(s, i) \in Seq(Int)
  <1> DEFINE I == Int
             b == Bits(s[i], s[i + 1], s[i + 2], s[i + 3])
             x == <<b \div 65536>>
             y == IF s[i + 2] = Pad THEN <<>> ELSE <<(b \div 256) % 256>>
             z == IF s[i + 3] = Pad THEN <<>> ELSE <<b % 256>>
  <1>1. Octets(s, i) = IF i + 3 > Len(s) THEN <<255, 255, 255>> ELSE x \o y \o z
    BY DEF Octets
  <1>2. CASE i + 3 > Len(s)
    <2>1. <<255, 255, 255>> \in Seq(Int)
      OBVIOUS
    <2> QED
      BY <1>1, <1>2, <2>1
  <1>3. CASE ~(i + 3 > Len(s))
    <2>1. /\ s[i] \in Int /\ s[i + 1] \in Int /\ s[i + 2] \in Int /\ s[i + 3] \in Int
      BY <1>3, LenProperties, ElementOfSeq
    <2>2. b \in Int
      <3>1. \A h, j, k, l \in Int : Bits(h, j, k, l) \in Int
        BY DEF Bits
      <3> QED
        BY <2>1, <3>1
    <2> HIDE DEF b
    <2>3. x \in Seq(I) /\ y \in Seq(I) /\ z \in Seq(I)
      BY <2>2
    <2> HIDE DEF x, y, z, I
    <2>4. x \o y \in Seq(I) /\ x \o y \o z \in Seq(I)
      BY <2>3, ConcatProperties
    <2> QED
      BY <1>1, <1>3, <2>4 DEF I
  <1> QED
    BY <1>2, <1>3

\* The loop of atob().
LEMMA AtobLoop ==
    ASSUME NEW t \in Seq(Int), NEW s \in Seq(Int), Stripped(t) = s
    PROVE  \E f : /\ f[0] = <<>>
                  /\ \A i \in 1..Fours(s) : f[i] = f[i - 1] \o Octets(s, 4 * i - 3)
                  /\ \A i \in 0..Fours(s) : f[i] \in Seq(Int)
                  /\ atob(t) = f[Fours(s)]
  <1> DEFINE n == Fours(s)
             T == Seq(Int)
             e == <<>>
             Step == [p \in (1..n) \X T |-> p[2] \o Octets(s, 4 * p[1] - 3)]
             Is(f) == f = [i \in 0..n |-> IF i = 0 THEN <<>>
                                          ELSE f[i - 1] \o Octets(s, 4 * i - 3)]
             output == CHOOSE f : Is(f)
  <1>1. n \in Nat /\ \A i \in 1..n : Octets(s, 4 * i - 3) \in T
    BY FoursAre, OctetsAreNumbers
  <1>2. Step \in [(1..n) \X T -> T]
    BY <1>1, ConcatProperties
  <1>3. e \in T
    BY EmptySeq
  <1>4. atob(t) = output[n]
    BY DEF atob, Fours
  <1>5. ASSUME NEW i \in 1..n, NEW o \in T
        PROVE  Step[<<i, o>>] = o \o Octets(s, 4 * i - 3)
    OBVIOUS
  <1>6. ASSUME NEW o \in T, NEW i \in 1..n
        PROVE  o \o Octets(s, 4 * i - 3) \in T
    BY <1>1, ConcatProperties
  <1> HIDE DEF n, T, e, Step
  <1>7. PICK g : IsLoop(g, T, n, e, Step)
    BY <1>1, <1>2, <1>3, LoopHasValues
  <1>8. ASSUME NEW i \in 0..n
        PROVE  g[i] = IF i = 0 THEN <<>> ELSE g[i - 1] \o Octets(s, 4 * i - 3)
    <2>1. CASE i = 0
      BY <1>7, <2>1 DEF e, IsLoop
    <2>2. CASE i # 0
      <3>1. i \in 1..n /\ g[i - 1] \in T
        BY <1>1, <1>7, <2>2 DEF IsLoop
      <3> QED
        BY <1>5, <1>7, <2>2, <3>1 DEF IsLoop
    <2> QED
      BY <2>1, <2>2
  <1>9. Is(g)
    <2>1. g = [i \in 0..n |-> g[i]]
      BY <1>7 DEF IsLoop
    <2>2. [i \in 0..n |-> g[i]] = [i \in 0..n |-> IF i = 0 THEN <<>>
                                                ELSE g[i - 1] \o Octets(s, 4 * i - 3)]
      BY <1>8, Zenon
    <2> QED
      BY <2>1, <2>2, Zenon
  <1>10. Is(output)
    BY <1>9
  <1> HIDE DEF output
  <1>11. \A i \in 0..n : output[i] = IF i = 0 THEN <<>> ELSE output[i - 1] \o Octets(s, 4 * i - 3)
    BY <1>10
  <1> HIDE DEF Is
  <1>12. output[0] = <<>> /\ \A i \in 1..n : output[i] = output[i - 1] \o Octets(s, 4 * i - 3)
    <2>1. 0 \in 0..n /\ \A i \in 1..n : i \in 0..n /\ i # 0
      BY <1>1
    <2> QED
      BY <1>11, <2>1
  <1>13. \A i \in 0..n : output[i] \in T
    <2>1. output[0] \in T
      BY <1>3, <1>12 DEF e
    <2>2. \A i \in 1..n : output[i - 1] \in T => output[i] \in T
      BY <1>6, <1>12
    <2> QED
      BY <1>1, <2>1, <2>2, LoopStays
  <1>14. /\ output[0] = <<>>
         /\ \A i \in 1..Fours(s) : output[i] = output[i - 1] \o Octets(s, 4 * i - 3)
         /\ \A i \in 0..Fours(s) : output[i] \in Seq(Int)
         /\ atob(t) = output[Fours(s)]
    BY <1>4, <1>12, <1>13 DEF n, T
  <1> QED
    BY <1>14

\* Three symbols make a sequence of three.
LEMMA ThreeInARow ==
    ASSUME NEW x, NEW y, NEW z
    PROVE  <<x>> \o <<y>> \o <<z>> = <<x, y, z>>
  <1> DEFINE E == {x, y, z}
             a == <<x>>
             b == <<y>>
             c == <<z>>
             t == a \o b \o c
  <1>1. /\ a \in Seq(E) /\ Len(a) = 1 /\ a[1] = x
        /\ b \in Seq(E) /\ Len(b) = 1 /\ b[1] = y
        /\ c \in Seq(E) /\ Len(c) = 1 /\ c[1] = z
    OBVIOUS
  <1> HIDE DEF E, a, b, c
  <1>2. a \o b \in Seq(E) /\ Len(a \o b) = 2 /\ (a \o b)[1] = x /\ (a \o b)[2] = y
    <2>1. /\ a \o b \in Seq(E) /\ Len(a \o b) = Len(a) + Len(b)
          /\ \A i \in 1..(Len(a) + Len(b)) :
                 (a \o b)[i] = IF i <= Len(a) THEN a[i] ELSE b[i - Len(a)]
      BY <1>1, ConcatProperties
    <2> QED
      BY <1>1, <2>1
  <1>3. t \in Seq(E) /\ Len(t) = 3 /\ t[1] = x /\ t[2] = y /\ t[3] = z
    BY <1>1, <1>2, ConcatProperties
  <1> HIDE DEF t
  <1>4. DOMAIN t = 1..3 /\ t = [i \in 1..3 |-> t[i]]
    BY <1>3, LenProperties
  <1>5. DOMAIN <<x, y, z>> = 1..3 /\ <<x, y, z>> = [i \in 1..3 |-> <<x, y, z>>[i]]
    OBVIOUS
  <1>6. \A i \in 1..3 : t[i] = <<x, y, z>>[i]
    BY <1>3
  <1> QED
    BY <1>4, <1>5, <1>6 DEF a, b, c, t

\* The characters of four digits without padding.
LEMMA OctetsOfFour ==
    ASSUME NEW d \in Seq(Int), NEW i \in 1..Len(d), i + 3 <= Len(d),
           NEW b, Bits(d[i], d[i + 1], d[i + 2], d[i + 3]) = b,
           d[i + 2] # Pad, d[i + 3] # Pad
    PROVE  Octets(d, i) = <<b \div 65536, (b \div 256) % 256, b % 256>>
  <1> DEFINE first == <<b \div 65536>>
             second == <<(b \div 256) % 256>>
             third == <<b % 256>>
             all == <<b \div 65536, (b \div 256) % 256, b % 256>>
  <1>1. ~(i + 3 > Len(d))
    BY LenProperties
  <1>2. Octets(d, i) = IF i + 3 > Len(d) THEN <<255, 255, 255>>
                       ELSE first \o (IF d[i + 2] = Pad THEN <<>> ELSE second)
                                  \o (IF d[i + 3] = Pad THEN <<>> ELSE third)
    BY DEF Octets
  <1>3. first \o second \o third = all
    BY ThreeInARow
  <1> HIDE DEF first, second, third, all
  <1>4. Octets(d, i) = first \o second \o third
    BY <1>1, <1>2
  <1>5. Octets(d, i) = all
    BY <1>3, <1>4
  <1> QED
    BY <1>5 DEF all

\* What is decoded are the groups of what was encoded.  A last group of one or two
\* characters has lost its padding, and with it what was in it.
LEMMA DigitsOfGroups ==
    ASSUME NEW s \in Seq(Byte)
    PROVE  LET d == Stripped(btoa(s))
           IN  /\ d \in Seq(Int) /\ Fours(d) = Threes(s)
               /\ \A g \in 1..Threes(s) :
                      Octets(d, 4 * g - 3) =
                          IF 3 * g <= Len(s) THEN <<s[3 * g - 2], s[3 * g - 1], s[3 * g]>>
                          ELSE <<255, 255, 255>>
  <1> DEFINE N == Len(s)
             n == Threes(s)
             t == btoa(s)
             X(g) == Sextets(s, 3 * g - 2)
             p == 3 * n - N
             m == 4 * n - p
             d == SubSeq(t, 1, m)
  <1>1. N \in Nat /\ n \in Nat /\ p \in 0..2 /\ (n = 0 => N = 0) /\ m \in 0..(4 * n)
    <2>1. N \in Nat
      BY LenProperties
    <2>2. n = (N + 2) \div 3
      BY DEF Threes
    <2> HIDE DEF N, n
    <2> QED
      BY <2>1, <2>2
  <1>2. /\ t \in Seq(Int) /\ Len(t) = 4 * n
        /\ \A g \in 1..n : \A k \in 1..4 : t[4 * (g - 1) + k] = X(g)[k]
    BY BtoaIs
  <1>3. ASSUME NEW g \in 1..n
        PROVE  /\ 3 * g - 2 \in 1..N /\ X(g)[1] # Pad /\ X(g)[2] # Pad
               /\ 3 * g - 1 <= N => X(g)[3] # Pad
               /\ 3 * g - 1 > N => X(g)[3] = Pad
               /\ 3 * g > N => X(g)[4] = Pad
               /\ 3 * g <= N =>
                      /\ X(g)[4] # Pad
                      /\ Bits(X(g)[1], X(g)[2], X(g)[3], X(g)[4])
                             = (s[3 * g - 2] * 256 + s[3 * g - 1]) * 256 + s[3 * g]
    <2> DEFINE i == 3 * g - 2
    <2>1. i \in 1..N
      BY ThreesAre
    <2>2. i + 1 = 3 * g - 1 /\ i + 2 = 3 * g
      BY <1>1
    <2>3. /\ X(g)[1] # Pad /\ X(g)[2] # Pad
          /\ i + 1 <= N => X(g)[3] # Pad
          /\ i + 1 > N => X(g)[3] = Pad
          /\ i + 2 > N => X(g)[4] = Pad
          /\ i + 2 <= N =>
                 /\ X(g)[4] # Pad
                 /\ Bits(X(g)[1], X(g)[2], X(g)[3], X(g)[4])
                        = (s[i] * 256 + s[i + 1]) * 256 + s[i + 2]
      BY <2>1, SextetsAre
    <2> HIDE DEF X, N
    <2> QED
      BY <2>1, <2>2, <2>3
  <1> HIDE DEF X, n, t
  <1>4. Stripped(t) = d
    <2>1. \A i \in (m + 1)..(4 * n) : t[i] = Pad
      <3> SUFFICES ASSUME NEW i \in (m + 1)..(4 * n)
                   PROVE  t[i] = Pad
        OBVIOUS
      <3> DEFINE k == i - 4 * (n - 1)
      <3> HIDE DEF N
      <3>1. p \in {1, 2} /\ k \in {3, 4} /\ i = 4 * (n - 1) + k /\ n \in 1..n
            /\ (k = 3 => 3 * n - 1 > N) /\ 3 * n > N /\ k \in 1..4
        BY <1>1
      <3> HIDE DEF k
      <3>2. t[4 * (n - 1) + k] = X(n)[k]
        BY <1>2, <3>1, Zenon
      <3> QED
        BY <1>3, <3>1, <3>2
    <2>2. m = 0 \/ t[m] # Pad
      <3> SUFFICES ASSUME n # 0
                   PROVE  t[m] # Pad
        BY <1>1
      <3> DEFINE k == 4 - p
      <3> HIDE DEF N
      <3>1. k \in {2, 3, 4} /\ m = 4 * (n - 1) + k /\ n \in 1..n
            /\ (k = 3 => 3 * n - 1 <= N) /\ (k = 4 => 3 * n <= N) /\ k \in 1..4
        BY <1>1
      <3> HIDE DEF k, m
      <3>2. t[4 * (n - 1) + k] = X(n)[k]
        BY <1>2, <3>1, Zenon
      <3> QED
        BY <1>3, <3>1, <3>2
    <2> QED
      BY <1>1, <1>2, <2>1, <2>2, StrippedIs
  <1>5. /\ d \in Seq(Int) /\ Len(d) = m
        /\ \A i \in 1..m : d[i] = t[i]
    <2> DEFINE I == Int
    <2>1. m \in 0..(4 * n) /\ t \in Seq(I) /\ Len(t) = 4 * n
      BY <1>1, <1>2
    <2> HIDE DEF m, I
    <2>2. \A i \in 1..m : t[i] \in I
      BY <1>1, <2>1, ElementOfSeq
    <2>3. /\ d \in Seq(I) /\ Len(d) = IF 1 <= m THEN m - 1 + 1 ELSE 0
          /\ \A i \in 1..(m - 1 + 1) : d[i] = t[1 + i - 1]
      BY <1>1, <2>1, <2>2, SubSeqProperties
    <2> QED
      BY <1>1, <2>1, <2>3 DEF I
  <1> HIDE DEF d
  <1>6. Fours(d) = n
    <2>1. Fours(d) = (4 * n - p + 3) \div 4
      BY <1>5 DEF Fours
    <2> HIDE DEF p
    <2>2. (4 * n - p + 3) \div 4 = n
      BY <1>1
    <2> QED
      BY <2>1, <2>2
  <1>7. ASSUME NEW g \in 1..n
        PROVE  Octets(d, 4 * g - 3) =
                   IF 3 * g <= N THEN <<s[3 * g - 2], s[3 * g - 1], s[3 * g]>>
                   ELSE <<255, 255, 255>>
    <2> DEFINE i == 4 * g - 3
    <2>1. CASE 3 * g <= N
      <3>1. 4 * g <= m
        <4> HIDE DEF N
        <4> QED
          BY <1>1, <2>1
      <3>2. i \in 1..Len(d) /\ i + 3 <= Len(d)
        BY <1>1, <1>5, <3>1
      <3>3. /\ d[i] = X(g)[1] /\ d[i + 1] = X(g)[2] /\ d[i + 2] = X(g)[3] /\ d[i + 3] = X(g)[4]
        <4>1. ASSUME NEW k \in 1..4
              PROVE  d[4 * (g - 1) + k] = X(g)[k]
          <5>1. 4 * (g - 1) + k \in 1..m
            BY <1>1, <3>1
          <5> QED
            BY <1>2, <1>5, <5>1
        <4>2. i = 4 * (g - 1) + 1 /\ i + 1 = 4 * (g - 1) + 2
              /\ i + 2 = 4 * (g - 1) + 3 /\ i + 3 = 4 * (g - 1) + 4
          BY <1>1
        <4> HIDE DEF i
        <4> QED
          BY <4>1, <4>2
      <3>4. /\ 3 * g - 2 \in 1..N /\ 3 * g - 1 \in 1..N /\ 3 * g \in 1..N
            /\ 3 * g - 1 <= N
        <4> HIDE DEF N
        <4> QED
          BY <1>1, <2>1
      <3>5. /\ s[3 * g - 2] \in Nat /\ s[3 * g - 2] < 256
            /\ s[3 * g - 1] \in Nat /\ s[3 * g - 1] < 256
            /\ s[3 * g] \in Nat /\ s[3 * g] < 256
        BY <3>4, ElementOfSeq, ByteIs
      <3>6. /\ X(g)[3] # Pad /\ X(g)[4] # Pad
            /\ Bits(X(g)[1], X(g)[2], X(g)[3], X(g)[4])
                   = (s[3 * g - 2] * 256 + s[3 * g - 1]) * 256 + s[3 * g]
        BY <1>3, <2>1, <3>4
      <3> DEFINE x == s[3 * g - 2]
                 y == s[3 * g - 1]
                 z == s[3 * g]
      <3>7. /\ x \in Nat /\ x < 256 /\ y \in Nat /\ y < 256 /\ z \in Nat /\ z < 256
            /\ Bits(d[i], d[i + 1], d[i + 2], d[i + 3]) = (x * 256 + y) * 256 + z
            /\ d[i + 2] # Pad /\ d[i + 3] # Pad
        BY <3>3, <3>5, <3>6
      <3>8. Octets(d, i) = <<x, y, z>>
        <4> DEFINE b == Bits(d[i], d[i + 1], d[i + 2], d[i + 3])
                   sum == (x * 256 + y) * 256 + z
        <4>1. b = sum /\ d \in Seq(Int)
          BY <1>5, <3>7
        <4> HIDE DEF x, y, z, i
        <4>2. Octets(d, i) = <<b \div 65536, (b \div 256) % 256, b % 256>>
          <5> HIDE DEF sum
          <5>1. /\ d \in Seq(Int) /\ i \in 1..Len(d) /\ i + 3 <= Len(d)
                /\ d[i + 2] # Pad /\ d[i + 3] # Pad
                /\ Bits(d[i], d[i + 1], d[i + 2], d[i + 3]) = b
            BY <3>2, <3>7, <4>1
          <5> HIDE DEF b
          <5> QED
            BY <5>1, OctetsOfFour
        <4>3. sum \div 65536 = x /\ (sum \div 256) % 256 = y /\ sum % 256 = z
          BY <3>7, EightBits, SMT
        <4> HIDE DEF b, sum
        <4> QED
          BY <4>1, <4>2, <4>3, SMT
      <3> QED
        BY <2>1, <3>8
    <2>2. CASE ~(3 * g <= N)
      <3>1. i + 3 > Len(d)
        <4> HIDE DEF N
        <4> QED
          BY <1>1, <1>5, <2>2
      <3>2. Octets(d, i) = <<255, 255, 255>>
        <4> HIDE DEF i
        <4> QED
          BY <3>1 DEF Octets
      <3> QED
        BY <2>2, <3>2
    <2> QED
      BY <2>1, <2>2
  <1>8. Stripped(t) \in Seq(Int) /\ Fours(Stripped(t)) = n
    BY <1>4, <1>5, <1>6
  <1> QED
    BY <1>4, <1>7, <1>8 DEF n, t, N

\* The first elements, and three more.
LEMMA ThreeMore ==
    ASSUME NEW B, NEW s \in Seq(B), NEW m \in Nat, m + 3 <= Len(s)
    PROVE  SubSeq(s, 1, m) \o <<s[m + 1], s[m + 2], s[m + 3]>> = SubSeq(s, 1, m + 3)
  <1> DEFINE N == Len(s)
             u == SubSeq(s, 1, m)
             v == <<s[m + 1], s[m + 2], s[m + 3]>>
             t == u \o v
             w == SubSeq(s, 1, m + 3)
  <1>1. N \in Nat /\ m + 3 <= N /\ \A i \in 1..N : s[i] \in B
    BY LenProperties, ElementOfSeq
  <1> HIDE DEF N
  <1>2. u \in Seq(B) /\ Len(u) = m /\ \A i \in 1..m : u[i] = s[i]
    <2>1. \A i \in 1..m : s[i] \in B
      BY <1>1
    <2>2. /\ u \in Seq(B) /\ Len(u) = IF 1 <= m THEN m - 1 + 1 ELSE 0
          /\ \A i \in 1..(m - 1 + 1) : u[i] = s[1 + i - 1]
      BY <2>1, SubSeqProperties
    <2> QED
      BY <2>2
  <1>3. w \in Seq(B) /\ Len(w) = m + 3 /\ \A i \in 1..(m + 3) : w[i] = s[i]
    <2>1. \A i \in 1..(m + 3) : s[i] \in B
      BY <1>1
    <2>2. /\ w \in Seq(B) /\ Len(w) = IF 1 <= m + 3 THEN m + 3 - 1 + 1 ELSE 0
          /\ \A i \in 1..(m + 3 - 1 + 1) : w[i] = s[1 + i - 1]
      BY <2>1, SubSeqProperties
    <2> QED
      BY <2>2
  <1>4. /\ v \in Seq(B) /\ Len(v) = 3
        /\ v[1] = s[m + 1] /\ v[2] = s[m + 2] /\ v[3] = s[m + 3]
    BY <1>1
  <1> HIDE DEF u, v, w
  <1>5. /\ t \in Seq(B) /\ Len(t) = m + 3
        /\ \A i \in 1..(m + 3) : t[i] = IF i <= m THEN u[i] ELSE v[i - m]
    <2>1. /\ u \o v \in Seq(B) /\ Len(u \o v) = Len(u) + Len(v)
          /\ \A i \in 1..(Len(u) + Len(v)) :
                 (u \o v)[i] = IF i <= Len(u) THEN u[i] ELSE v[i - Len(u)]
      <3>1. u \in Seq(B) /\ v \in Seq(B)
        BY <1>2, <1>4
      <3> QED
        BY <3>1, ConcatProperties
    <2>2. Len(u) = m /\ Len(v) = 3 /\ Len(u) + Len(v) = m + 3
      BY <1>2, <1>4
    <2> QED
      BY <2>1, <2>2, Zenon
  <1>6. ASSUME NEW i \in 1..(m + 3)
        PROVE  t[i] = w[i]
    <2>1. CASE i <= m
      BY <1>2, <1>3, <1>5, <2>1
    <2>2. CASE i > m
      <3>1. i - m \in {1, 2, 3} /\ i = m + (i - m)
        BY <2>2
      <3> QED
        BY <1>3, <1>4, <1>5, <2>2, <3>1
    <2> HIDE DEF t
    <2> QED
      BY <2>1, <2>2
  <1> HIDE DEF t
  <1>7. /\ DOMAIN t = 1..(m + 3) /\ t = [i \in 1..(m + 3) |-> t[i]]
        /\ DOMAIN w = 1..(m + 3) /\ w = [i \in 1..(m + 3) |-> w[i]]
    BY <1>3, <1>5, LenProperties
  <1>8. t = w
    BY <1>6, <1>7
  <1> QED
    BY <1>8 DEF t, u, v, w

\* The shim's atob() gives back the bytes of its btoa(), however many there are, but for a
\* last group of one or two: of it atob() makes three times 255.
THEOREM BytesRoundTrip ==
    \A s \in Seq(Byte) :
        LET whole == Len(s) - (Len(s) % 3)
        IN  atob(btoa(s)) = SubSeq(s, 1, whole)
                \o (IF whole = Len(s) THEN <<>> ELSE <<255, 255, 255>>)
  <1> SUFFICES ASSUME NEW s \in Seq(Byte)
               PROVE  atob(btoa(s)) = SubSeq(s, 1, Len(s) - (Len(s) % 3))
                          \o (IF Len(s) - (Len(s) % 3) = Len(s) THEN <<>> ELSE <<255, 255, 255>>)
    OBVIOUS
  <1> DEFINE N == Len(s)
             n == Threes(s)
             d == Stripped(btoa(s))
             O(g) == Octets(d, 4 * g - 3)
             lost == <<255, 255, 255>>
             whole == N - (N % 3)
  <1>1. N \in Nat
    BY LenProperties
  <1>2. n \in Nat /\ n = (N + 2) \div 3
    BY ThreesAre DEF Threes
  <1>3. /\ d \in Seq(Int) /\ Fours(d) = n
        /\ \A g \in 1..n : O(g) = IF 3 * g <= N THEN <<s[3 * g - 2], s[3 * g - 1], s[3 * g]>>
                                  ELSE lost
    BY DigitsOfGroups
  <1>4. btoa(s) \in Seq(Int)
    BY BtoaIs
  <1>5. PICK f : /\ f[0] = <<>>
                 /\ \A g \in 1..n : f[g] = f[g - 1] \o O(g)
                 /\ atob(btoa(s)) = f[n]
    <2> HIDE DEF n
    <2>1. \E f : /\ f[0] = <<>>
                 /\ \A g \in 1..Fours(d) : f[g] = f[g - 1] \o Octets(d, 4 * g - 3)
                 /\ \A g \in 0..Fours(d) : f[g] \in Seq(Int)
                 /\ atob(btoa(s)) = f[Fours(d)]
      <3> DEFINE t == btoa(s)
      <3>1. t \in Seq(Int) /\ d \in Seq(Int) /\ Stripped(t) = d
        BY <1>3, <1>4
      <3> HIDE DEF t, d
      <3>2. \E f : /\ f[0] = <<>>
                   /\ \A g \in 1..Fours(d) : f[g] = f[g - 1] \o Octets(d, 4 * g - 3)
                   /\ \A g \in 0..Fours(d) : f[g] \in Seq(Int)
                   /\ atob(t) = f[Fours(d)]
        BY <3>1, AtobLoop
      <3> QED
        BY <3>2 DEF t
    <2> QED
      BY <1>3, <2>1
  <1> HIDE DEF N, n, d, O, lost
  <1> DEFINE S == {g \in Nat : 3 * g <= N => f[g] = SubSeq(s, 1, 3 * g)}
  <1>6. 0 \in S
    <2> SUFFICES f[0] = SubSeq(s, 1, 3 * 0)
      OBVIOUS
    <2>1. 3 * 0 = 0
      OBVIOUS
    <2>2. SubSeq(s, 1, 0) = <<>>
      BY SubSeqEmpty
    <2> HIDE DEF S
    <2> QED
      BY <1>5, <2>1, <2>2
  <1>7. ASSUME NEW g \in Nat, g \in S
        PROVE  g + 1 \in S
    <2> SUFFICES ASSUME 3 * (g + 1) <= N
                 PROVE  f[g + 1] = SubSeq(s, 1, 3 * (g + 1))
      OBVIOUS
    <2> DEFINE m == 3 * g
    <2>1. /\ g + 1 \in 1..n /\ (g + 1) - 1 = g /\ m \in Nat /\ m + 3 <= N
          /\ 3 * (g + 1) - 2 = m + 1 /\ 3 * (g + 1) - 1 = m + 2 /\ 3 * (g + 1) = m + 3
      BY <1>1, <1>2
    <2>2. f[g] = SubSeq(s, 1, m)
      BY <1>1, <1>7, <2>1
    <2> HIDE DEF m, S
    <2>3. f[g + 1] = SubSeq(s, 1, m) \o <<s[m + 1], s[m + 2], s[m + 3]>>
      <3>1. O(g + 1) = <<s[m + 1], s[m + 2], s[m + 3]>>
        BY <1>3, <2>1
      <3>2. f[g + 1] = f[g] \o O(g + 1)
        BY <1>5, <2>1
      <3> QED
        BY <2>2, <3>1, <3>2
    <2>4. SubSeq(s, 1, m) \o <<s[m + 1], s[m + 2], s[m + 3]>> = SubSeq(s, 1, m + 3)
      BY <2>1, ThreeMore DEF N
    <2> QED
      BY <2>1, <2>3, <2>4
  <1> HIDE DEF S
  <1>8. \A g \in Nat : g \in S
    BY <1>6, <1>7, NumbersBySet
  <1>9. CASE whole = N
    <2>1. n \in Nat /\ 3 * n = N
      BY <1>1, <1>2, <1>9
    <2>2. f[n] = SubSeq(s, 1, N)
      BY <1>8, <2>1 DEF S
    <2>3. SubSeq(s, 1, N) = s /\ s \o <<>> = s
      BY SubSeqFull, ConcatEmptySeq DEF N
    <2>4. atob(btoa(s)) = SubSeq(s, 1, whole) \o <<>>
      BY <1>5, <1>9, <2>2, <2>3
    <2> QED
      BY <1>9, <2>4 DEF N, lost
  <1>10. CASE whole # N
    <2> DEFINE g == n - 1
    <2>1. /\ n \in 1..n /\ g \in Nat /\ 3 * g = whole /\ 3 * g <= N /\ ~(3 * n <= N)
      BY <1>1, <1>2, <1>10
    <2>2. f[g] = SubSeq(s, 1, whole)
      <3>1. g \in S
        BY <1>8, <2>1
      <3> HIDE DEF g, whole
      <3> QED
        BY <2>1, <3>1 DEF S
    <2>3. f[n] = f[g] \o lost
      BY <1>3, <1>5, <2>1
    <2>4. atob(btoa(s)) = SubSeq(s, 1, whole) \o lost
      BY <1>5, <2>2, <2>3
    <2> QED
      BY <1>10, <2>4 DEF N, lost
  <1> QED
    BY <1>9, <1>10

\* The boundaries of UTF-8, and two pairs.
LEMMA CharactersAreUtf16 == Characters \subseteq Utf16Characters
  <1> DEFINE Units1 == {n \in Nat : n < 65536 /\ ~IsSurrogate(n)}
             Highs == {n \in Nat : n >= 55296 /\ n < 56320}
             Lows == {n \in Nat : n >= 56320 /\ n < 57344}
             basic == {0, 127, 128, 2047, 2048, 55295, 57344, 65535}
             pairs == {<<55296, 56320>>, <<56319, 57343>>}
  <1>1. \A c \in basic : c \in Units1
    BY SMT DEF IsSurrogate
  <1>2. 55296 \in Highs /\ 56319 \in Highs /\ 56320 \in Lows /\ 57343 \in Lows
    BY SMT
  <1>3. ASSUME NEW h \in Highs, NEW l \in Lows
        PROVE  <<h, l>> \in Utf16Characters
    <2> DEFINE p == <<h, l>>
    <2>1. p \in Highs \X Lows /\ <<p[1], p[2]>> = <<h, l>>
      BY SMT
    <2> HIDE DEF p
    <2>2. <<p[1], p[2]>> \in Utf16Characters
      BY <2>1, SMT DEF Utf16Characters
    <2> QED
      BY <2>1, <2>2
  <1>4. \A c \in Units1 : <<c>> \in Utf16Characters
    BY SMT DEF Utf16Characters
  <1>5. \A x \in Characters : (\E c \in basic : x = <<c>>) \/ x \in pairs
    BY SMT DEF Characters
  <1> HIDE DEF Units1, Highs, Lows
  <1>6. \A x \in pairs : x \in Utf16Characters
    BY <1>2, <1>3, SMT
  <1> HIDE DEF basic, pairs
  <1> QED
    BY <1>1, <1>4, <1>5, <1>6

\* What the shim encodes it decodes to the same, of any length: text as UTF-8, bytes as
\* base64 but for a last group of one or two.
THEOREM CodecsAgree == Spec => []CodecsRoundTrip
  <1>1. InputInv => Base64RoundTrip
    <2> SUFFICES ASSUME InputInv, kind = "bytes"
                 PROVE  Base64RoundTrip
      BY DEF Base64RoundTrip
    <2> DEFINE bytes == {0, 1, 63, 64, 255}
    <2>1. kind \in DOMAIN Elements /\ Elements[kind] = bytes
      BY DEF Elements
    <2>2. input \in Seq(bytes)
      <3> HIDE DEF Elements, bytes
      <3> QED
        BY <2>1 DEF InputInv
    <2>3. bytes \subseteq Byte
      BY DEF Byte
    <2> HIDE DEF bytes
    <2>4. input \in Seq(Byte)
      BY <2>2, <2>3, SeqMonotonic
    <2> QED
      BY <2>4, BytesRoundTrip DEF Base64RoundTrip
  <1>2. InputInv => Utf8RoundTrip
    <2> SUFFICES ASSUME InputInv, kind = "characters"
                 PROVE  decode(encode(FlattenSeq(input))) = FlattenSeq(input)
      BY DEF Utf8RoundTrip
    <2>1. kind \in DOMAIN Elements /\ Elements[kind] = Characters
      BY DEF Elements
    <2>2. input \in Seq(Characters)
      <3> HIDE DEF Elements
      <3> QED
        BY <2>1 DEF InputInv
    <2>3. input \in Seq(Utf16Characters)
      BY <2>2, CharactersAreUtf16, SeqMonotonic
    <2> QED
      BY <2>3, TextRoundTrip
  <1>3. InputInv => CodecsRoundTrip
    BY <1>1, <1>2 DEF CodecsRoundTrip
  <1> QED
    BY <1>3, InputInvInit, InputInvStep, PTL DEF Spec
=============================================================================
