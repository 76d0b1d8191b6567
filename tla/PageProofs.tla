----------------------------- MODULE PageProofs -----------------------------
(***************************************************************************)
(* Signer for any cookies and any number of attempts at initialising the   *)
(* engine: whichever step fails, nothing is signed in what it left behind. *)
(* Then the signer with its page, for any limits of drain() and whatever   *)
(* the SDK defers: it implements the signer, its timers implement          *)
(* TaskQueue, and nothing deferred runs once the signer is initialised.    *)
(***************************************************************************)
EXTENDS SigningPage, FiniteSetTheorems, SequenceTheorems, TLAPS

-----------------------------------------------------------------------------
(* The signer                                                              *)

\* The number of steps is all that matters of them.
LEMMA StepsAreCounted == Len(SetupSteps) \in Nat
  BY DEF SetupSteps, ShimSteps, kSdkFiles

\* A Cookie header is a sequence of cookies.
LEMMA HeadersAreSequences == http \in Jars => Headers \subseteq Seq(Pairs)
  <1> SUFFICES ASSUME http \in Jars
               PROVE  Headers \subseteq Seq(Pairs)
    OBVIOUS
  <1> DEFINE k == Cardinality(Stored(http))
  <1>1. IsFiniteSet(Stored(http))
    BY SignerAssumption, FS_Subset DEF Stored
  <1>2. k \in Nat
    BY <1>1, FS_CardinalityType
  <1>3. \A n \in Stored(http) : [name |-> n, value |-> http[n]] \in Pairs
    BY DEF Stored, Jars, Pairs
  <1> HIDE DEF k
  <1>4. ASSUME NEW order \in [1..k -> Stored(http)]
        PROVE  [i \in DOMAIN order |-> [name |-> order[i], value |-> http[order[i]]]]
               \in Seq(Pairs)
    <2>1. [i \in 1..k |-> [name |-> order[i], value |-> http[order[i]]]] \in [1..k -> Pairs]
      BY <1>3, <1>4
    <2> QED
      BY <1>2, <1>4, <2>1
  <1> QED
    BY <1>4 DEF Headers, k

-----------------------------------------------------------------------------
(* The engine                                                              *)

\* An engine counts as initialised from the end of its setup to its end.
InUse == initialized_ /\ pc # "destroyed"

EngineInv ==
    /\ TypeOK
    /\ rt # 0 => rt \in live
    /\ pc \in {"runtime", "context", "setup"} => ~initialized_
    /\ pc \in {"cookies", "sign"} => initialized_
    /\ pc = "context" => rt \in live
    /\ pc = "setup" => ctx = rt /\ rt \in live
    /\ InUse => done = Len(SetupSteps) /\ ctx = rt /\ rt \in live

LEMMA EngineInvInit == Init => EngineInv
  <1> SUFFICES ASSUME Init
               PROVE  EngineInv
    OBVIOUS
  <1>1. jar \in Jars /\ http \in Jars /\ header \in Seq(Pairs)
    BY DEF Init, Jars, Empty
  <1>2. /\ made \in 0..MaxRuntimes /\ rt \in 0..made /\ ctx \in 0..made
        /\ done \in 0..Len(SetupSteps) /\ failures \in 0..MaxFailures
    BY StepsAreCounted, SignerAssumption DEF Init
  <1> QED
    BY <1>1, <1>2 DEF Init, EngineInv, TypeOK, InUse

LEMMA SdkStoresCookies ==
    ASSUME jar \in Jars, SdkStores
    PROVE  jar' \in Jars
  BY DEF SdkStores, Jars, Pairs

LEMMA EngineInvStep == EngineInv /\ [Next]_vars => EngineInv'
  <1> SUFFICES ASSUME EngineInv, [Next]_vars
               PROVE  EngineInv'
    OBVIOUS
  <1> USE StepsAreCounted, SignerAssumption
  <1>1. ASSUME NEW n \in Names, NEW v \in Values \cup {Absent}, HttpReceives(n, v)
        PROVE  EngineInv'
    BY <1>1 DEF HttpReceives, EngineInv, TypeOK, InUse, engineVars, Jars
  <1>2. CASE Call
    <2>1. header' \in Seq(Pairs)
      BY <1>2, HeadersAreSequences DEF Call, EngineInv, TypeOK
    <2> QED
      BY <1>2, <2>1 DEF Call, EngineInv, TypeOK, InUse, engineVars
  <1>3. CASE NewRuntime
    <2>1. made' \in 0..MaxRuntimes /\ rt' = made' /\ rt' \in live' /\ live' \subseteq 1..made'
      BY <1>3 DEF NewRuntime, EngineInv, TypeOK
    <2>2. jar' \in Jars
      BY <1>3 DEF NewRuntime, Jars, Empty
    <2> QED
      BY <1>3, <2>1, <2>2 DEF NewRuntime, EngineInv, TypeOK, InUse
  <1>4. CASE NewRuntimeFails
    BY <1>4 DEF NewRuntimeFails, Throws, EngineInv, TypeOK, InUse
  <1>5. CASE NewContext
    BY <1>5 DEF NewContext, EngineInv, TypeOK, InUse
  <1>6. CASE NewContextFails
    BY <1>6 DEF NewContextFails, Throws, EngineInv, TypeOK, InUse
  <1>7. CASE SetupStep
    <2>1. jar' \in Jars
      BY <1>7, SdkStoresCookies DEF SetupStep, EngineInv, TypeOK
    <2> QED
      BY <1>7, <2>1 DEF SetupStep, EngineInv, TypeOK, InUse
  <1>8. CASE SetupStepThrows
    BY <1>8 DEF SetupStepThrows, Throws, EngineInv, TypeOK, InUse, engineVars
  <1>9. CASE Initialized
    BY <1>9 DEF Initialized, EngineInv, TypeOK, InUse
  <1>10. CASE SetCookies
    <2>1. jar' \in Jars
      <3>1. header # <<>> => header[1] \in Pairs
        BY DEF EngineInv, TypeOK
      <3>2. ASSUME NEW p \in Pairs
            PROVE  [jar EXCEPT ![p.name] = p.value] \in Jars
        BY DEF EngineInv, TypeOK, Jars, Pairs
      <3> QED
        BY <1>10, <3>1, <3>2 DEF SetCookies, Assign, EngineInv, TypeOK
    <2> QED
      BY <1>10, <2>1 DEF SetCookies, EngineInv, TypeOK, InUse, engineVars
  <1>11. CASE Sign
    <2>1. jar' \in Jars
      BY <1>11, SdkStoresCookies DEF Sign, EngineInv, TypeOK
    <2> QED
      BY <1>11, <2>1 DEF Sign, EngineInv, TypeOK, InUse, engineVars
  <1>12. CASE Destroy
    <2>1. rt' \in 0..made' /\ ctx' \in 0..made' /\ live' \subseteq 1..made'
      BY <1>12 DEF Destroy, EngineInv, TypeOK
    <2> QED
      BY <1>12, <2>1 DEF Destroy, EngineInv, TypeOK, InUse
  <1>13. CASE Resting \/ UNCHANGED vars
    <2>1. UNCHANGED vars
      BY <1>13 DEF Resting
    <2>2. /\ UNCHANGED <<initialized_, rt, ctx, live, made, done>>
          /\ UNCHANGED <<jar, http, header, pc, failures>>
      BY <2>1 DEF vars, engineVars
    <2>3. TypeOK'
      BY <2>2 DEF EngineInv, TypeOK
    <2> QED
      BY <2>2, <2>3 DEF EngineInv, InUse
  <1> QED
    BY <1>1, <1>2, <1>3, <1>4, <1>5, <1>6, <1>7, <1>8, <1>9, <1>10, <1>11, <1>12, <1>13
       DEF Next

LEMMA EngineInvHolds == Spec => []EngineInv
  BY EngineInvInit, EngineInvStep, PTL DEF Spec

\* Type correctness of the signer.
THEOREM SignerTypeCorrect == Spec => []TypeOK
  <1>1. EngineInv => TypeOK
    BY DEF EngineInv
  <1> QED
    BY <1>1, EngineInvHolds, PTL

\* Whatever step of the initialisation fails and how often it is tried again,
\* requests are signed only in an engine that went through all of its setup.
THEOREM SignsOnlyWhenFinished == Spec => []OnlyFinishedEngineSigns
  <1>1. EngineInv => OnlyFinishedEngineSigns
    BY DEF EngineInv, OnlyFinishedEngineSigns, InUse
  <1> QED
    BY <1>1, EngineInvHolds, PTL

\* No script is evaluated in the context of a runtime that an earlier attempt
\* made, nor through a null pointer.
THEOREM ContextIsCurrent == Spec => []EvaluatesInOwnContext
  <1>1. EngineInv => EvaluatesInOwnContext
    BY DEF EngineInv, EvaluatesInOwnContext, InUse
  <1> QED
    BY <1>1, EngineInvHolds, PTL

\* The engine, once initialised, is the one used until the signer's end.
THEOREM EngineIsReused == Spec => EngineReused
  <1>1. EngineInv /\ [Next]_vars
        => [initialized_ => initialized_' /\ (rt' = rt \/ pc' = "destroyed")]_vars
    <2> SUFFICES ASSUME EngineInv, Next, initialized_
                 PROVE  initialized_' /\ (rt' = rt \/ pc' = "destroyed")
      OBVIOUS
    <2>1. ~(pc \in {"runtime", "context", "setup"})
      BY DEF EngineInv
    <2> QED
      BY <2>1 DEF Next, HttpReceives, Call, NewRuntime, NewRuntimeFails, NewContext,
                  NewContextFails, SetupStep, SetupStepThrows, Initialized, SetCookies, Sign,
                  Destroy, Resting, vars, engineVars
  <1> QED
    BY <1>1, EngineInvHolds, PTL DEF Spec, EngineReused

-----------------------------------------------------------------------------
(* What is left behind                                                     *)

\* A runtime counts for itself only while it may still become, or is, the one
\* in use; from then on a failure, or the destructor, accounts for it.
Pending == InUse \/ pc \in {"context", "setup"}

LeakInv == Cardinality(live) <= failures + IF Pending THEN 1 ELSE 0

LEMMA LiveIsFinite ==
    ASSUME TypeOK
    PROVE  IsFiniteSet(live) /\ Cardinality(live) \in Nat /\ failures \in Nat
  <1>1. made \in Nat
    BY SignerAssumption DEF TypeOK
  <1>2. IsFiniteSet(1..made)
    BY <1>1, FS_Interval
  <1>3. IsFiniteSet(live)
    BY <1>2, FS_Subset DEF TypeOK
  <1> QED
    BY <1>3, FS_CardinalityType, SignerAssumption DEF TypeOK

LEMMA LeakInvInit == Init => LeakInv
  BY FS_EmptySet DEF Init, LeakInv, Pending, InUse

LEMMA LeakInvStep == EngineInv /\ LeakInv /\ [Next]_vars => LeakInv'
  <1> SUFFICES ASSUME EngineInv, LeakInv, [Next]_vars
               PROVE  LeakInv'
    OBVIOUS
  <1>1. IsFiniteSet(live) /\ Cardinality(live) \in Nat /\ failures \in Nat
    BY LiveIsFinite DEF EngineInv
  <1>2. CASE NewRuntime
    <2>1. Cardinality(live') <= Cardinality(live) + 1
      BY <1>1, <1>2, FS_AddElement DEF NewRuntime
    <2>2. Cardinality(live) <= failures
      BY <1>1, <1>2 DEF NewRuntime, EngineInv, LeakInv, Pending, InUse
    <2>3. Cardinality(live') \in Nat
      BY <1>1, <1>2, FS_AddElement, SMTT(30) DEF NewRuntime
    <2> QED
      BY <1>1, <1>2, <2>1, <2>2, <2>3 DEF NewRuntime, LeakInv, Pending
  <1>3. CASE Destroy
    <2>1. CASE InUse
      <3>1. Cardinality(live') = Cardinality(live) - 1
        BY <1>1, <1>3, <2>1, FS_RemoveElement DEF Destroy, EngineInv
      <3> QED
        BY <1>1, <1>3, <2>1, <3>1 DEF Destroy, LeakInv, Pending, InUse
    <2>2. CASE ~InUse
      <3>1. Cardinality(live') <= Cardinality(live) /\ Cardinality(live') \in Nat
        <4>1. live' \subseteq live
          BY <1>3 DEF Destroy
        <4> QED
          BY <1>1, <4>1, FS_Subset, FS_CardinalityType
      <3> QED
        BY <1>1, <1>3, <2>2, <3>1 DEF Destroy, LeakInv, Pending, InUse
    <2> QED
      BY <2>1, <2>2
  <1>4. CASE ~(NewRuntime \/ Destroy)
    <2>1. live' = live
      BY <1>4 DEF Next, HttpReceives, Call, NewRuntimeFails, NewContext, NewContextFails,
                  SetupStep, SetupStepThrows, Initialized, SetCookies, Sign, Resting,
                  vars, engineVars
    <2>2. CASE NewRuntimeFails \/ NewContextFails \/ SetupStepThrows
      <3>1. failures' = failures + 1
        BY <2>2 DEF NewRuntimeFails, NewContextFails, SetupStepThrows, Throws
      <3> QED
        BY <1>1, <2>1, <3>1 DEF LeakInv
    <2>3. CASE ~(NewRuntimeFails \/ NewContextFails \/ SetupStepThrows)
      <3>1. failures' = failures
        BY <1>4, <2>3 DEF Next, HttpReceives, Call, NewContext, SetupStep, Initialized,
                          SetCookies, Sign, Resting, vars, engineVars
      <3>2. Pending => Pending'
        BY <1>4, <2>3 DEF Next, HttpReceives, Call, NewContext, SetupStep, Initialized,
                          SetCookies, Sign, Resting, vars, engineVars, Pending, InUse
      <3> QED
        BY <1>1, <2>1, <3>1, <3>2 DEF LeakInv
    <2> QED
      BY <2>2, <2>3
  <1> QED
    BY <1>2, <1>3, <1>4

LEMMA LeakInvHolds == Spec => []LeakInv
  BY EngineInvHolds, LeakInvInit, LeakInvStep, PTL DEF Spec

\* Failed initialisations leave at most a runtime each, and the destructor
\* frees the one in use.
THEOREM LeaksAreBounded == Spec => []LeaksOnePerFailure
  <1>1. EngineInv /\ LeakInv => LeaksOnePerFailure
    <2> SUFFICES ASSUME EngineInv, LeakInv
                 PROVE  LeaksOnePerFailure
      OBVIOUS
    <2>1. Cardinality(live) \in Nat /\ failures \in Nat
      BY LiveIsFinite DEF EngineInv
    <2>2. Pending => rt # 0
      BY SignerAssumption DEF EngineInv, TypeOK, Pending, InUse
    <2> QED
      BY <2>1, <2>2 DEF LeakInv, LeaksOnePerFailure
  <1> QED
    BY <1>1, EngineInvHolds, LeakInvHolds, PTL

-----------------------------------------------------------------------------
(* The signer in its page                                                  *)

\* What the page adds to a step of the signer leaves the signer alone.
LEMMA SignerStep == [PageNext]_pageVars => [Next]_vars
  <1> SUFFICES ASSUME [PageNext]_pageVars
               PROVE  [Next]_vars
    OBVIOUS
  <1>1. CASE OutsidePage
    BY <1>1 DEF OutsidePage, Next
  <1>2. CASE NewPage \/ ScriptEnds \/ DrainEnds \/ EndSign
    BY <1>2 DEF NewPage, ScriptEnds, DrainEnds, EndSign, Next
  <1>3. CASE BeginSign \/ RequestStep \/ RequestUsed \/ SdkDefers \/ Drain
    BY <1>3 DEF BeginSign, RequestStep, RequestUsed, SdkDefers, Drain
  <1>4. CASE UNCHANGED pageVars
    BY <1>4 DEF pageVars
  <1> QED
    BY <1>1, <1>2, <1>3, <1>4 DEF PageNext

\* The signer with its page does what Signer says: what is proved of Signer holds
\* of it, with ensure_initialized() draining its queues and sign() making a request.
THEOREM PageImplementsSigner == PageSpec => Spec
  <1>1. PageInit => Init
    BY DEF PageInit
  <1> QED
    BY <1>1, SignerStep, PTL DEF PageSpec, Spec

LEMMA PageKeepsEngineInv == PageSpec => []EngineInv
  BY PageImplementsSigner, EngineInvInit, EngineInvStep, PTL DEF Spec

-----------------------------------------------------------------------------
(* The loop                                                                *)

\* Ids are queued in order and above the last that fired.
Ordered(queue, last, id) ==
    /\ queue \in Seq(Nat)
    /\ \A i \in 1..Len(queue) : last < queue[i] /\ queue[i] <= id
    /\ \A i, j \in 1..Len(queue) : i < j => queue[i] < queue[j]

LoopInv ==
    /\ timerId \in Nat /\ lastTimer \in Nat /\ lastTimer <= timerId
    /\ Ordered(timerQueue, lastTimer, timerId)
    /\ jobs \in Nat /\ turns \in Nat
    /\ draining \in {"no", "jobs", "timers", "done", "failed"}
    /\ draining = "jobs" => turns <= kMaxJobs
    /\ draining \in {"timers", "done"} => turns <= kMaxTimers
    /\ draining = "done" => timerQueue = <<>> \/ turns = kMaxTimers
    /\ inTask => draining \in {"jobs", "timers"}
    /\ draining # "no" => DrainDue
    /\ stack # <<>> => pc = "sign"

LEMMA EmptyIsOrdered == ASSUME NEW last \in Nat, NEW id \in Nat
                        PROVE  Ordered(<<>>, last, id)
  BY DEF Ordered

\* A new id goes to the end.
LEMMA AppendKeepsOrder ==
    ASSUME NEW queue, NEW last \in Nat, NEW id \in Nat, last <= id,
           Ordered(queue, last, id)
    PROVE  /\ Ordered(Append(queue, id + 1), last, id + 1)
           /\ Ordered(queue, last, id + 1)
  <1> DEFINE q == Append(queue, id + 1)
             n == Len(queue)
  <1>1. /\ n \in Nat /\ q \in Seq(Nat) /\ Len(q) = n + 1
        /\ \A i \in 1..n : q[i] = queue[i]
        /\ q[n + 1] = id + 1
    BY DEF Ordered
  <1>2. \A i \in 1..n : queue[i] \in Nat /\ last < queue[i] /\ queue[i] <= id
    BY DEF Ordered
  <1>3. \A i, j \in 1..n : i < j => queue[i] < queue[j]
    BY DEF Ordered
  <1>4. queue \in Seq(Nat)
    BY DEF Ordered
  <1> HIDE DEF q, n
  <1>5. \A i \in 1..(n + 1) : i \in 1..n \/ i = n + 1
    BY <1>1
  <1>6. \A i \in 1..(n + 1) : q[i] \in Nat /\ last < q[i] /\ q[i] <= id + 1
    <2> SUFFICES ASSUME NEW i \in 1..(n + 1)
                 PROVE  q[i] \in Nat /\ last < q[i] /\ q[i] <= id + 1
      OBVIOUS
    <2>1. CASE i \in 1..n
      <3>1. q[i] = queue[i] /\ queue[i] \in Nat /\ last < queue[i] /\ queue[i] <= id
        BY <1>1, <1>2, <2>1
      <3> QED
        BY <3>1
    <2>2. CASE i = n + 1
      BY <1>1, <2>2
    <2> QED
      BY <1>5, <2>1, <2>2
  <1>7. ASSUME NEW i \in 1..(n + 1), NEW j \in 1..(n + 1), i < j
        PROVE  q[i] < q[j]
    <2>1. i \in 1..n
      BY <1>1, <1>7
    <2>2. CASE j \in 1..n
      BY <1>1, <1>3, <1>7, <2>1, <2>2
    <2>3. CASE j = n + 1
      <3>1. q[i] = queue[i] /\ queue[i] \in Nat /\ queue[i] <= id /\ q[j] = id + 1
        BY <1>1, <1>2, <2>1, <2>3
      <3> QED
        BY <3>1
    <2> QED
      BY <1>5, <2>2, <2>3
  <1>8. Ordered(q, last, id + 1)
    BY <1>1, <1>6, <1>7 DEF Ordered
  <1>9. Ordered(queue, last, id + 1)
    BY <1>2, <1>3, <1>4 DEF Ordered, n
  <1> QED
    BY <1>8, <1>9 DEF q

\* What RemoveAt() leaves, and where.
LEMMA RemoveIs ==
    ASSUME NEW queue \in Seq(Nat), NEW k \in 1..Len(queue)
    PROVE  /\ RemoveAt(queue, k) \in Seq(Nat)
           /\ Len(RemoveAt(queue, k)) = Len(queue) - 1
           /\ \A i \in 1..(Len(queue) - 1) :
                  RemoveAt(queue, k)[i] = IF i < k THEN queue[i] ELSE queue[i + 1]
  <1> DEFINE l == SubSeq(queue, 1, k - 1)
             r == SubSeq(queue, k + 1, Len(queue))
  <1>1. Len(queue) \in Nat
    OBVIOUS
  <1>2. /\ l \in Seq(Nat) /\ Len(l) = k - 1
        /\ \A i \in 1..(k - 1) : l[i] = queue[i]
    <2>1. \A i \in 1..(k - 1) : i \in 1..Len(queue)
      BY <1>1
    <2> QED
      BY <1>1, <2>1
  <1>3. /\ r \in Seq(Nat) /\ Len(r) = Len(queue) - k
        /\ \A i \in 1..(Len(queue) - k) : r[i] = queue[i + k]
    <2>1. \A i \in (k + 1)..Len(queue) : i \in 1..Len(queue)
      BY <1>1
    <2> QED
      BY <1>1, <2>1
  <1>4. RemoveAt(queue, k) = l \o r
    BY DEF RemoveAt
  <1> HIDE DEF l, r
  <1>5. /\ l \o r \in Seq(Nat) /\ Len(l \o r) = Len(l) + Len(r)
        /\ \A i \in 1..(Len(l) + Len(r)) :
               (l \o r)[i] = IF i <= Len(l) THEN l[i] ELSE r[i - Len(l)]
    BY <1>2, <1>3, ConcatProperties
  <1>6. Len(l) + Len(r) = Len(queue) - 1
    BY <1>1, <1>2, <1>3
  <1>7. ASSUME NEW i \in 1..(Len(queue) - 1)
        PROVE  (l \o r)[i] = IF i < k THEN queue[i] ELSE queue[i + 1]
    <2>1. CASE i < k
      <3>1. i \in 1..(k - 1) /\ i <= Len(l)
        BY <1>1, <1>2, <2>1
      <3> QED
        BY <1>2, <1>5, <1>6, <2>1, <3>1
    <2>2. CASE ~(i < k)
      <3>1. /\ i - (k - 1) \in 1..(Len(queue) - k) /\ ~(i <= Len(l))
            /\ i - (k - 1) + k = i + 1 /\ Len(l) = k - 1
        BY <1>1, <1>2, <2>2
      <3>2. (l \o r)[i] = r[i - (k - 1)]
        BY <1>5, <1>6, <3>1
      <3>3. r[i - (k - 1)] = queue[i - (k - 1) + k]
        BY <1>3, <3>1
      <3> QED
        BY <2>2, <3>1, <3>2, <3>3
    <2> QED
      BY <2>1, <2>2
  <1> QED
    BY <1>4, <1>5, <1>6, <1>7

\* What is taken out leaves the others in their order.
LEMMA RemoveKeepsOrder ==
    ASSUME NEW queue, NEW last \in Nat, NEW id \in Nat, Ordered(queue, last, id),
           NEW k \in 1..Len(queue)
    PROVE  /\ Ordered(RemoveAt(queue, k), last, id)
           /\ ToSet(RemoveAt(queue, k)) = ToSet(queue) \ {queue[k]}
  <1> DEFINE q == RemoveAt(queue, k)
             n == Len(queue)
  <1>1. /\ n \in Nat /\ DOMAIN queue = 1..n
        /\ \A i \in 1..n : queue[i] \in Nat /\ last < queue[i] /\ queue[i] <= id
        /\ \A i, j \in 1..n : i < j => queue[i] < queue[j]
    BY DEF Ordered
  <1>2. /\ q \in Seq(Nat) /\ Len(q) = n - 1 /\ DOMAIN q = 1..(n - 1)
        /\ \A i \in 1..(n - 1) : q[i] = IF i < k THEN queue[i] ELSE queue[i + 1]
    <2>1. queue \in Seq(Nat)
      BY DEF Ordered
    <2> HIDE DEF q
    <2>2. /\ q \in Seq(Nat) /\ Len(q) = n - 1
          /\ \A i \in 1..(n - 1) : q[i] = IF i < k THEN queue[i] ELSE queue[i + 1]
      BY <2>1, RemoveIs DEF q
    <2> QED
      BY <2>2
  <1>3. k \in 1..n
    OBVIOUS
  <1> HIDE DEF q, n
  \* where the element at i was
  <1> DEFINE At(i) == IF i < k THEN i ELSE i + 1
  <1>4. \A i \in 1..(n - 1) : At(i) \in 1..n /\ At(i) # k /\ q[i] = queue[At(i)]
    BY <1>1, <1>2, <1>3
  <1>5. \A i, j \in 1..(n - 1) : i < j => At(i) < At(j)
    BY <1>1, <1>3
  <1>6. \A j \in 1..n : j # k => \E i \in 1..(n - 1) : At(i) = j
    <2> SUFFICES ASSUME NEW j \in 1..n, j # k
                 PROVE  \E i \in 1..(n - 1) : At(i) = j
      OBVIOUS
    <2>1. CASE j < k
      <3>1. j \in 1..(n - 1) /\ At(j) = j
        BY <1>1, <1>3, <2>1
      <3> QED
        BY <3>1
    <2>2. CASE ~(j < k)
      <3>1. j - 1 \in 1..(n - 1) /\ At(j - 1) = j
        BY <1>1, <1>3, <2>2
      <3> QED
        BY <3>1
    <2> QED
      BY <2>1, <2>2
  <1> HIDE DEF At
  <1>7. Ordered(q, last, id)
    BY <1>1, <1>2, <1>4, <1>5 DEF Ordered
  <1>8. \A i, j \in 1..n : i # j => queue[i] # queue[j]
    <2> SUFFICES ASSUME NEW i \in 1..n, NEW j \in 1..n, i # j
                 PROVE  queue[i] # queue[j]
      OBVIOUS
    <2>1. i < j \/ j < i
      BY <1>1
    <2>2. queue[i] \in Nat /\ queue[j] \in Nat /\ (queue[i] < queue[j] \/ queue[j] < queue[i])
      BY <1>1, <2>1
    <2> QED
      BY <2>2
  <1>9. {q[i] : i \in 1..(n - 1)} = {queue[i] : i \in 1..n} \ {queue[k]}
    BY <1>3, <1>4, <1>6, <1>8
  <1> QED
    BY <1>1, <1>2, <1>7, <1>9 DEF q, ToSet

\* A new element goes to the end.
LEMMA AppendedSet ==
    ASSUME NEW queue \in Seq(Nat), NEW e \in Nat
    PROVE  ToSet(Append(queue, e)) = ToSet(queue) \cup {e}
  <1> DEFINE q == Append(queue, e)
             n == Len(queue)
  <1>1. /\ n \in Nat /\ DOMAIN queue = 1..n /\ DOMAIN q = 1..(n + 1)
        /\ q[n + 1] = e
        /\ \A i \in 1..n : q[i] = queue[i]
    OBVIOUS
  <1> HIDE DEF q, n
  <1>2. \A i \in 1..(n + 1) : i \in 1..n \/ i = n + 1
    BY <1>1
  <1>3. n + 1 \in 1..(n + 1) /\ \A i \in 1..n : i \in 1..(n + 1)
    BY <1>1
  <1>4. {q[i] : i \in 1..(n + 1)} = {queue[i] : i \in 1..n} \cup {e}
    BY <1>1, <1>2, <1>3
  <1> QED
    BY <1>1, <1>4 DEF ToSet, q

\* The first of the queue is the least, and it is above the last that fired.
LEMMA TailKeepsOrder ==
    ASSUME NEW queue, NEW last \in Nat, NEW id \in Nat, Ordered(queue, last, id),
           queue # <<>>
    PROVE  /\ Head(queue) \in Nat /\ Head(queue) <= id
           /\ Ordered(Tail(queue), Head(queue), id)
           /\ ToSet(Tail(queue)) = ToSet(queue) \ {Head(queue)}
           /\ Head(queue) \in ToSet(queue)
           /\ \A e \in ToSet(queue) : Head(queue) <= e
  <1> DEFINE n == Len(queue)
             t == Tail(queue)
             h == Head(queue)
  <1>1. /\ n \in Nat /\ 1 <= n /\ DOMAIN queue = 1..n /\ h = queue[1]
        /\ \A i \in 1..n : queue[i] \in Nat /\ queue[i] <= id
        /\ \A i, j \in 1..n : i < j => queue[i] < queue[j]
    BY DEF Ordered
  <1>2. /\ t \in Seq(Nat) /\ Len(t) = n - 1 /\ DOMAIN t = 1..(n - 1)
        /\ \A i \in 1..(n - 1) : t[i] = queue[i + 1]
    BY HeadTailProperties DEF Ordered
  <1> HIDE DEF n, t, h
  <1>3. /\ 1 \in 1..n
        /\ \A i \in 1..n : i # 1 => 1 < i /\ i - 1 \in 1..(n - 1) /\ (i - 1) + 1 = i
        /\ \A i \in 1..(n - 1) : i + 1 \in 1..n /\ 1 < i + 1
        /\ \A i, j \in 1..(n - 1) : i < j => i + 1 < j + 1
    BY <1>1
  <1>4. \A i \in 1..n : i # 1 => h < queue[i]
    BY <1>1, <1>3
  <1>5. h \in Nat /\ h <= id
    BY <1>1, <1>3
  <1>6. \A i \in 1..n : h <= queue[i] /\ (queue[i] = h => i = 1)
    <2> SUFFICES ASSUME NEW i \in 1..n
                 PROVE  h <= queue[i] /\ (queue[i] = h => i = 1)
      OBVIOUS
    <2>1. queue[i] \in Nat /\ (i = 1 \/ h < queue[i])
      BY <1>1, <1>4
    <2> QED
      BY <1>1, <1>5, <2>1
  <1>7. Ordered(t, h, id)
    <2>1. \A i \in 1..(n - 1) : h < t[i] /\ t[i] <= id
      BY <1>1, <1>2, <1>3, <1>4
    <2>2. \A i, j \in 1..(n - 1) : i < j => t[i] < t[j]
      BY <1>1, <1>2, <1>3
    <2> QED
      BY <1>2, <2>1, <2>2 DEF Ordered
  <1>8. {t[i] : i \in 1..(n - 1)} = {queue[i] : i \in 1..n} \ {h}
    <2>1. ASSUME NEW i \in 1..(n - 1)
          PROVE  t[i] \in {queue[j] : j \in 1..n} \ {h}
      <3>1. i + 1 \in 1..n /\ i + 1 # 1 /\ t[i] = queue[i + 1]
        BY <1>2, <1>3
      <3> QED
        BY <1>6, <3>1
    <2>2. ASSUME NEW j \in 1..n, queue[j] # h
          PROVE  \E i \in 1..(n - 1) : t[i] = queue[j]
      <3>1. j # 1
        BY <1>1, <2>2
      <3>2. j - 1 \in 1..(n - 1) /\ t[j - 1] = queue[j]
        BY <1>2, <1>3, <3>1
      <3> QED
        BY <3>2
    <2> QED
      BY <2>1, <2>2
  <1>9. /\ ToSet(queue) = {queue[i] : i \in 1..n}
        /\ ToSet(t) = {t[i] : i \in 1..(n - 1)}
    BY <1>1, <1>2 DEF ToSet
  <1>10. h \in ToSet(queue) /\ \A e \in ToSet(queue) : h <= e
    BY <1>1, <1>3, <1>6, <1>9
  <1>11. ToSet(t) = ToSet(queue) \ {h}
    BY <1>8, <1>9
  <1> QED
    BY <1>5, <1>7, <1>10, <1>11 DEF t, h

LEMMA LoopInvInit == PageInit => LoopInv
  <1> SUFFICES ASSUME PageInit
               PROVE  LoopInv
    OBVIOUS
  <1> QED
    BY EmptyIsOrdered DEF PageInit, LoopInit, XhrInit, LoopInv

\* While drain() runs, ensure_initialized() waits for it.
LEMMA SignerWaits ==
    ASSUME DrainDue, OutsidePage
    PROVE  pc' = pc /\ done' = done
  BY DEF DrainDue, AtSetupStep, OutsidePage, HttpReceives, Call, NewRuntimeFails, NewContext,
         NewContextFails, SetupStepThrows, Initialized, SetCookies, Destroy, Resting, vars,
         engineVars

\* Nor is there a request outside sign().
LEMMA RequestWaits ==
    ASSUME pc = "sign", OutsidePage
    PROVE  pc' = pc
  BY DEF OutsidePage, HttpReceives, Call, NewRuntimeFails, NewContext, NewContextFails,
         SetupStepThrows, Initialized, SetCookies, Destroy, Resting, vars

LEMMA DrainKeepsLoopInv == LoopInv /\ Drain => LoopInv'
  <1> SUFFICES ASSUME LoopInv, Drain
               PROVE  LoopInv'
    OBVIOUS
  <1> USE LoopAssumption
  <1>1. /\ UNCHANGED <<pc, done, stack>>
        /\ DrainDue' <=> DrainDue
    BY DEF Drain, vars, engineVars, requestVars, xhrVars, DrainDue, AtSetupStep
  <1>2. CASE DrainDue /\ BeginDrain
    BY <1>1, <1>2 DEF BeginDrain, queueVars, LoopInv
  <1>3. CASE ExecutePendingJob
    BY <1>1, <1>3 DEF ExecutePendingJob, LoopInv
  <1>4. CASE JobsDone \/ JobFails
    BY <1>1, <1>4 DEF JobsDone, JobFails, queueVars, LoopInv
  <1>5. CASE TimersFail \/ TaskReturns
    BY <1>1, <1>5 DEF TimersFail, TaskReturns, queueVars, LoopInv
  <1>6. CASE FireTimer
    <2>1. /\ timerQueue # <<>> /\ turns < kMaxTimers /\ draining = "timers"
          /\ lastTimer' = Head(timerQueue) /\ timerQueue' = Tail(timerQueue)
          /\ turns' = turns + 1 /\ inTask' = TRUE
          /\ UNCHANGED <<timerId, jobs, draining>>
      BY <1>6 DEF FireTimer, TimersLeft
    <2>2. lastTimer' \in Nat /\ lastTimer' <= timerId' /\ Ordered(timerQueue', lastTimer', timerId')
      BY <2>1, TailKeepsOrder DEF LoopInv
    <2> QED
      BY <1>1, <2>1, <2>2 DEF LoopInv
  <1>7. CASE TimersDone
    BY <1>1, <1>7 DEF TimersDone, TimersLeft, queueVars, LoopInv
  <1> QED
    BY <1>2, <1>3, <1>4, <1>5, <1>6, <1>7 DEF Drain, DrainSteps

\* What runs is a script, or a task of drain(): what it defers reaches no drain()
\* that has ended.
LEMMA DeferringKeepsLoopInv == LoopInv /\ SdkDefers => LoopInv'
  <1> SUFFICES ASSUME LoopInv, SdkDefers
               PROVE  LoopInv'
    OBVIOUS
  <1>1. /\ UNCHANGED <<pc, done, stack, draining, turns, inTask>>
        /\ DrainDue' <=> DrainDue
    BY DEF SdkDefers, Defers, setTimeout, TakeTimerId, QueueJob, clearTimeout, vars, engineVars,
           requestVars, xhrVars, drainVars, DrainDue, AtSetupStep
  <1>2. draining # "done"
    BY DEF SdkDefers, SdkRuns, Top, LoopInv, DrainDue, AtSetupStep
  <1>3. CASE setTimeout
    <2>1. timerId' \in Nat /\ timerId <= timerId' /\ Ordered(timerQueue', lastTimer, timerId')
      BY <1>3, AppendKeepsOrder DEF setTimeout, LoopInv
    <2> QED
      BY <1>1, <1>2, <1>3, <2>1 DEF setTimeout, LoopInv
  <1>4. CASE TakeTimerId
    <2>1. timerId' \in Nat /\ timerId <= timerId' /\ Ordered(timerQueue', lastTimer, timerId')
      BY <1>4, AppendKeepsOrder DEF TakeTimerId, LoopInv
    <2> QED
      BY <1>1, <1>2, <1>4, <2>1 DEF TakeTimerId, LoopInv
  <1>5. CASE QueueJob
    BY <1>1, <1>2, <1>5 DEF QueueJob, LoopInv
  <1>6. ASSUME NEW id \in 1..timerId, clearTimeout(id)
        PROVE  LoopInv'
    <2>1. PICK i \in DOMAIN timerQueue : timerQueue' = RemoveAt(timerQueue, i)
      BY <1>6 DEF clearTimeout
    <2>2. i \in 1..Len(timerQueue)
      BY <2>1 DEF LoopInv, Ordered
    <2>3. Ordered(timerQueue', lastTimer, timerId)
      BY <2>1, <2>2, RemoveKeepsOrder DEF LoopInv
    <2> QED
      BY <1>1, <1>2, <1>6, <2>3 DEF clearTimeout, LoopInv
  <1> QED
    BY <1>3, <1>4, <1>5, <1>6 DEF SdkDefers, Defers

LEMMA LoopInvStep == LoopInv /\ [PageNext]_pageVars => LoopInv'
  <1> SUFFICES ASSUME LoopInv, [PageNext]_pageVars
               PROVE  LoopInv'
    OBVIOUS
  <1>1. CASE OutsidePage
    <2>1. UNCHANGED <<loopVars, stack>>
      BY <1>1 DEF OutsidePage, requestVars, xhrVars
    <2>2. DrainDue => DrainDue'
      BY <1>1, SignerWaits DEF DrainDue, AtSetupStep
    <2> QED
      BY <1>1, <2>1, <2>2, RequestWaits DEF LoopInv, loopVars, queueVars, drainVars
  <1>2. CASE NewPage
    <2>1. Ordered(<<>>, 0, 0) /\ 0 <= kMaxJobs /\ 0 <= kMaxTimers
      BY EmptyIsOrdered, LoopAssumption
    <2>2. Ordered(timerQueue', lastTimer', timerId') /\ stack' = <<>> /\ draining' = "no"
      BY <1>2, <2>1 DEF NewPage, LoopReset, NewXhr
    <2> QED
      BY <1>2, <2>2 DEF NewPage, LoopReset, LoopInv
  <1>3. CASE ScriptEnds
    BY <1>3 DEF ScriptEnds, SetupStep, LoopInv, loopVars, queueVars, drainVars, requestVars,
                xhrVars
  <1>4. CASE DrainEnds
    BY <1>4 DEF DrainEnds, DrainReturns, SetupStep, LoopInv, queueVars, requestVars, xhrVars
  <1>5. CASE BeginSign
    BY <1>5 DEF BeginSign, LoopInv, vars, engineVars, loopVars, queueVars, drainVars, DrainDue,
                AtSetupStep
  <1>6. CASE EndSign
    BY <1>6 DEF EndSign, NewXhr, Sign, LoopInv, loopVars, queueVars, drainVars, DrainDue,
                AtSetupStep
  <1>7. CASE RequestStep \/ RequestUsed
    <2>1. stack # <<>> /\ UNCHANGED <<vars, loopVars>>
      BY <1>7 DEF RequestStep, RequestUsed, CallMethod, XhrSteps, FunctionReturns, ChangeState,
                  CallHandler, BeginForEach, VisitNext, EndForEach, Top
    <2> QED
      BY <2>1 DEF LoopInv, vars, engineVars, loopVars, queueVars, drainVars, DrainDue, AtSetupStep
  <1>8. CASE SdkDefers
    BY <1>8, DeferringKeepsLoopInv
  <1>9. CASE Drain
    BY <1>9, DrainKeepsLoopInv
  <1>10. CASE UNCHANGED pageVars
    <2>1. UNCHANGED <<vars, loopVars, xhrVars>>
      BY <1>10 DEF pageVars
    <2> QED
      BY <2>1 DEF LoopInv, vars, engineVars, loopVars, queueVars, drainVars, xhrVars, DrainDue,
                  AtSetupStep
  <1> QED
    BY <1>1, <1>2, <1>3, <1>4, <1>5, <1>6, <1>7, <1>8, <1>9, <1>10 DEF PageNext

LEMMA PageKeepsLoopInv == PageSpec => []LoopInv
  BY LoopInvInit, LoopInvStep, PTL DEF PageSpec

-----------------------------------------------------------------------------
(* The theorems                                                            *)

\* drain() ends, whatever the jobs and timers it runs queue in their turn, and
\* leaves a timer only when it has run as many as it may.
THEOREM DrainIsBounded == PageSpec => []DrainEmptiesOrGivesUp
  <1>1. LoopInv => DrainEmptiesOrGivesUp
    BY DEF LoopInv, DrainEmptiesOrGivesUp
  <1> QED
    BY <1>1, PageKeepsLoopInv, PTL

\* After initialisation no job and no timer runs: what the SDK defers while it
\* signs is queued for good.
THEOREM DeferredWorkIsLost == PageSpec => NothingDeferredRuns
  <1>1. EngineInv /\ LoopInv /\ [PageNext]_pageVars
        => [initialized_ => ~inTask' /\ lastTimer' = lastTimer /\ jobs' >= jobs]_pageVars
    <2> SUFFICES ASSUME EngineInv, LoopInv, PageNext, initialized_
                 PROVE  ~inTask' /\ lastTimer' = lastTimer /\ jobs' >= jobs
      OBVIOUS
    <2>1. pc \notin {"runtime", "setup"}
      BY DEF EngineInv
    <2>2. draining = "no" /\ ~inTask
      BY <2>1 DEF LoopInv, DrainDue, AtSetupStep
    <2>3. jobs \in Nat
      BY DEF LoopInv
    <2>4. CASE NewPage \/ ScriptEnds \/ DrainEnds
      BY <2>1, <2>4 DEF NewPage, NewRuntime, ScriptEnds, DrainEnds, SetupStep
    <2>5. CASE OutsidePage \/ BeginSign \/ EndSign \/ RequestStep \/ RequestUsed
      BY <2>2, <2>3, <2>5 DEF OutsidePage, BeginSign, EndSign, RequestStep, RequestUsed, loopVars,
                              queueVars, drainVars
    <2>6. CASE SdkDefers
      BY <2>2, <2>3, <2>6 DEF SdkDefers, Defers, setTimeout, TakeTimerId, QueueJob, clearTimeout,
                              drainVars
    <2>7. CASE Drain
      BY <2>1, <2>2, <2>7 DEF Drain, DrainDue, AtSetupStep, DrainSteps, ExecutePendingJob,
                              JobsDone, FireTimer, TaskReturns, TimersDone, JobFails, TimersFail
    <2> QED
      BY <2>4, <2>5, <2>6, <2>7 DEF PageNext
  <1> QED
    BY <1>1, PageKeepsEngineInv, PageKeepsLoopInv, PTL DEF PageSpec, NothingDeferredRuns

\* The shim's timers run in the order of their creation, each at most once, and
\* not after they were cleared.
THEOREM TimersAreTaskQueue == PageSpec => ImplementsTaskQueue
  <1>1. PageInit => Timers!Init
    BY DEF PageInit, LoopInit, Timers!Init, ToSet
  <1>2. LoopInv /\ [PageNext]_pageVars => [Timers!Next]_Timers!tasks
    <2> SUFFICES ASSUME LoopInv, [PageNext]_pageVars, ~ UNCHANGED <<timerQueue, timerId, lastTimer>>
                 PROVE  Timers!Next
      BY DEF Timers!tasks
    <2>1. NewPage \/ SdkDefers \/ Drain
      BY DEF PageNext, OutsidePage, ScriptEnds, DrainEnds, DrainReturns, BeginSign, EndSign,
             RequestStep, RequestUsed, pageVars, loopVars, queueVars
    <2>2. CASE NewPage
      BY <2>2 DEF NewPage, LoopReset, Timers!Next, Timers!Reset, ToSet
    <2>3. CASE SdkDefers /\ setTimeout
      <3>1. ToSet(timerQueue') = ToSet(timerQueue) \cup {timerId + 1}
        BY <2>3, AppendedSet DEF setTimeout, LoopInv, Ordered
      <3> QED
        BY <2>3, <3>1 DEF setTimeout, Timers!Next, Timers!Create
    <2>4. CASE SdkDefers /\ (TakeTimerId \/ QueueJob)
      BY <2>4 DEF TakeTimerId, QueueJob, Timers!Next, Timers!Create
    <2>5. ASSUME NEW id \in 1..timerId, clearTimeout(id)
          PROVE  Timers!Next
      <3>1. PICK i \in 1..Len(timerQueue) : timerQueue' = RemoveAt(timerQueue, i)
        BY <2>5 DEF clearTimeout, LoopInv, Ordered
      <3>2. ToSet(timerQueue') = ToSet(timerQueue) \ {timerQueue[i]}
        BY <3>1, RemoveKeepsOrder DEF LoopInv
      <3>3. timerQueue[i] \in ToSet(timerQueue)
        BY DEF ToSet, LoopInv, Ordered
      <3> QED
        BY <2>5, <3>2, <3>3 DEF clearTimeout, Timers!Next, Timers!Cancel
    <2>6. CASE Drain
      <3>1. FireTimer
        BY <2>6 DEF Drain, DrainSteps, BeginDrain, ExecutePendingJob, JobsDone, TaskReturns,
                    TimersDone, JobFails, TimersFail, queueVars
      <3> QED
        BY <3>1, TailKeepsOrder
           DEF FireTimer, TimersLeft, LoopInv, Timers!Next, Timers!Run
    <2> QED
      BY <2>1, <2>2, <2>3, <2>4, <2>5, <2>6 DEF SdkDefers, Defers
  <1> QED
    BY <1>1, <1>2, PageKeepsLoopInv, PTL DEF PageSpec, ImplementsTaskQueue, Timers!Spec
=============================================================================
