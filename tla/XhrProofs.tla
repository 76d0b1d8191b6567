------------------------------ MODULE XhrProofs ------------------------------
(***************************************************************************)
(* The events of the shim's XMLHttpRequest, for any listeners and whatever *)
(* they do with the request that calls them: an event reaches, once and in *)
(* order, everyone who listened when it fired.                              *)
(***************************************************************************)
EXTENDS SigningPage, SequenceTheorems, FiniteSetTheorems, TLAPS

-----------------------------------------------------------------------------
(* The invariant                                                           *)

\* The frames a stack is made of.
PlainFrame ==
    [op : {"function"}] \cup [op : {"state"}, to : Nat]
        \cup [op : {"fire", "listeners"}, type : EventTypes]
CallFrame == [op : {"call"}, frames : Seq(PlainFrame)]
EachFrame ==
    [op : {"forEach"}, array : Nat, length : Nat, next : Nat,
     had : Seq(Listeners), called : Seq(Listeners)]

\* A forEach() under way: what its array held is still there, in its place, and it
\* has called the elements before the next one.
UnderWay(f) ==
    /\ f.array \in 1..Len(arrays)
    /\ f.length = Len(f.had) /\ f.length <= Len(arrays[f.array])
    /\ \A i \in 1..f.length : arrays[f.array][i] = f.had[i]
    /\ f.next \in 1..(f.length + 1)
    /\ f.called = SubSeq(f.had, 1, f.next - 1)

Frame == PlainFrame \cup CallFrame \cup {f \in EachFrame : UnderWay(f)}

XhrInv ==
    /\ arrays \in Seq(Seq(Listeners))
    /\ listeners \in [EventTypes -> Nat]
    /\ \A t \in EventTypes : listeners[t] <= Len(arrays)
    /\ stack \in Seq(Frame)

\* The invariant is what the property says of the frames of the stack, and more.
LEMMA CalledInOrder == XhrInv => EachListenerOnce
  <1> SUFFICES ASSUME XhrInv, NEW i \in DOMAIN stack, stack[i].op = "forEach"
               PROVE  stack[i].called = SubSeq(stack[i].had, 1, stack[i].next - 1)
    BY DEF EachListenerOnce
  <1>1. stack[i] \in Frame
    BY DEF XhrInv
  <1>2. stack[i] \notin PlainFrame /\ stack[i] \notin CallFrame
    BY DEF PlainFrame, CallFrame
  <1> QED
    BY <1>1, <1>2 DEF Frame, UnderWay

-----------------------------------------------------------------------------
(* Sequences                                                               *)

\* A frame that is replaced by others, and others that are put before it.
LEMMA Replaced ==
    ASSUME NEW S, NEW s \in Seq(S), s # <<>>, NEW t \in Seq(S)
    PROVE  Head(s) \in S /\ t \o Tail(s) \in Seq(S)
  <1>1. Head(s) \in S /\ Tail(s) \in Seq(S)
    BY HeadTailProperties
  <1> QED
    BY <1>1, ConcatProperties

LEMMA PutBefore ==
    ASSUME NEW S, NEW s \in Seq(S), NEW t \in Seq(S)
    PROVE  t \o s \in Seq(S)
  BY ConcatProperties

\* One more element was called.
LEMMA OneMoreCalled ==
    ASSUME NEW S, NEW s \in Seq(S), NEW n \in 1..Len(s)
    PROVE  Append(SubSeq(s, 1, n - 1), s[n]) = SubSeq(s, 1, n)
  OBVIOUS

\* Each rank has an element: filter() returns a list of the elements of its array.
LEMMA WithoutIsList ==
    ASSUME NEW S, NEW array \in Seq(S), NEW fn
    PROVE  Without(array, fn) \in Seq(S)
  <1> DEFINE kept == {i \in 1..Len(array) : array[i] # fn}
             KeptBefore(i) == {k \in kept : k < i}
             n == Cardinality(kept)
             rank == [i \in kept |-> Cardinality(KeptBefore(i))]
  <1>1. Len(array) \in Nat /\ \A i \in kept : i \in Nat /\ array[i] \in S
    BY ElementOfSeq
  <1>2. IsFiniteSet(kept) /\ n \in Nat
    <2>1. IsFiniteSet(1..Len(array)) /\ kept \subseteq 1..Len(array)
      BY <1>1, FS_Interval
    <2> QED
      BY <2>1, FS_Subset, FS_CardinalityType
  <1>3. \A i \in kept : IsFiniteSet(KeptBefore(i)) /\ Cardinality(KeptBefore(i)) \in 0..(n - 1)
    <2> SUFFICES ASSUME NEW i \in kept
                 PROVE  IsFiniteSet(KeptBefore(i)) /\ Cardinality(KeptBefore(i)) \in 0..(n - 1)
      OBVIOUS
    <2>1. KeptBefore(i) \subseteq kept /\ i \notin KeptBefore(i)
      BY <1>1
    <2> HIDE DEF KeptBefore, kept
    <2>2. KeptBefore(i) # kept
      BY <2>1
    <2>3. /\ IsFiniteSet(KeptBefore(i)) /\ Cardinality(KeptBefore(i)) <= n
          /\ Cardinality(KeptBefore(i)) = n => KeptBefore(i) = kept
      BY <1>2, <2>1, FS_Subset DEF n
    <2>4. Cardinality(KeptBefore(i)) \in Nat
      BY <2>3, FS_CardinalityType
    <2> HIDE DEF n
    <2> QED
      BY <1>2, <2>2, <2>3, <2>4
  <1>4. ASSUME NEW i \in kept, NEW j \in kept, i < j
        PROVE  Cardinality(KeptBefore(i)) < Cardinality(KeptBefore(j))
    <2>1. /\ KeptBefore(i) \subseteq KeptBefore(j)
          /\ i \in KeptBefore(j) /\ i \notin KeptBefore(i)
      BY <1>1, <1>4
    <2>2. KeptBefore(i) # KeptBefore(j)
      BY <2>1
    <2>3. /\ Cardinality(KeptBefore(i)) <= Cardinality(KeptBefore(j))
          /\ Cardinality(KeptBefore(i)) # Cardinality(KeptBefore(j))
      BY <1>3, <2>1, <2>2, FS_Subset
    <2>4. Cardinality(KeptBefore(i)) \in Nat /\ Cardinality(KeptBefore(j)) \in Nat
      BY <1>3, FS_CardinalityType
    <2> HIDE DEF KeptBefore
    <2> QED
      BY <2>3, <2>4
  <1>5. rank \in Injection(kept, 0..(n - 1))
    <2>1. rank \in [kept -> 0..(n - 1)]
      BY <1>3
    <2>2. ASSUME NEW i \in kept, NEW j \in kept, rank[i] = rank[j]
          PROVE  i = j
      <3>1. /\ i \in Nat /\ j \in Nat
            /\ Cardinality(KeptBefore(i)) \in 0..(n - 1)
            /\ Cardinality(KeptBefore(i)) = Cardinality(KeptBefore(j))
        BY <1>1, <1>3, <2>2
      <3>2. ~(i < j) /\ ~(j < i)
        <4> HIDE DEF KeptBefore, n
        <4> QED
          BY <1>2, <1>4, <3>1
      <3> QED
        BY <3>1, <3>2
    <2> HIDE DEF rank
    <2> QED
      BY <2>1, <2>2 DEF Injection, IsInjective
  <1>6. IsFiniteSet(0..(n - 1)) /\ Cardinality(0..(n - 1)) = n
    <2> HIDE DEF n
    <2>1. 0 \in Int /\ n - 1 \in Int
      BY <1>2
    <2>2. IsFiniteSet(0..(n - 1)) /\ Cardinality(0..(n - 1)) = IF 0 > n - 1 THEN 0 ELSE (n - 1) - 0 + 1
      BY <2>1, FS_Interval
    <2> QED
      BY <1>2, <2>2
  <1>7. rank \in Surjection(kept, 0..(n - 1))
    <2> HIDE DEF rank, kept
    <2> QED
      BY <1>5, <1>6, FS_Injection
  <1>8. ASSUME NEW k \in 1..n
        PROVE  array[CHOOSE i \in kept : Cardinality(KeptBefore(i)) = k - 1] \in S
    <2>1. k - 1 \in 0..(n - 1)
      BY <1>2
    <2>2. \E i \in kept : rank[i] = k - 1
      <3> HIDE DEF rank, kept
      <3> QED
        BY <1>7, <2>1 DEF Surjection
    <2>3. \E i \in kept : Cardinality(KeptBefore(i)) = k - 1
      BY <2>2
    <2>4. (CHOOSE i \in kept : Cardinality(KeptBefore(i)) = k - 1) \in kept
      <3> HIDE DEF kept, KeptBefore
      <3> QED
        BY <2>3
    <2> QED
      BY <1>1, <2>4
  <1>9. [k \in 1..n |-> array[CHOOSE i \in kept : Cardinality(KeptBefore(i)) = k - 1]] \in Seq(S)
    <2> DEFINE e(k) == array[CHOOSE i \in kept : Cardinality(KeptBefore(i)) = k - 1]
    <2>1. \A k \in 1..n : e(k) \in S
      BY <1>8
    <2> HIDE DEF kept, KeptBefore, n, e
    <2>2. [k \in 1..n |-> e(k)] \in Seq(S)
      BY <1>2, <2>1
    <2> USE DEF e
    <2> QED
      BY <2>2
  <1> QED
    BY <1>9 DEF Without

-----------------------------------------------------------------------------
(* The steps                                                               *)

LEMMA XhrInvInit == PageInit => XhrInv
  BY DEF PageInit, XhrInit, XhrInv

\* What the frames that a step puts on the stack are.
LEMMA PlainFrames ==
    /\ Function \in PlainFrame
    /\ \A n \in Nat : SetState(n) \in PlainFrame
    /\ \A t \in EventTypes : FireEvent(t) \in PlainFrame /\ CallListeners(t) \in PlainFrame
  BY DEF PlainFrame, Function, SetState, FireEvent, CallListeners

LEMMA MethodFrames ==
    /\ OpenFrames \in Seq(PlainFrame)
    /\ SendFrames \in Seq(PlainFrame)
    /\ AbortFrames \in Seq(PlainFrame)
  <1>1. SetState(1) \in PlainFrame /\ SetState(2) \in PlainFrame /\ SetState(4) \in PlainFrame
    BY PlainFrames
  <1>2. /\ FireEvent("load") \in PlainFrame /\ FireEvent("loadend") \in PlainFrame
        /\ FireEvent("abort") \in PlainFrame
    BY PlainFrames DEF EventTypes
  <1> HIDE DEF PlainFrame, SetState, FireEvent
  <1> QED
    BY <1>1, <1>2 DEF OpenFrames, SendFrames, AbortFrames

LEMMA PlainAreFrames == ASSUME NEW s \in Seq(PlainFrame) PROVE s \in Seq(Frame)
  <1>1. PlainFrame \subseteq Frame
    BY DEF Frame
  <1> QED
    BY <1>1, SeqMonotonic

\* A step that leaves the arrays alone only has to put frames on the stack.
LEMMA StackStep ==
    ASSUME XhrInv, UNCHANGED <<listeners, arrays>>, stack' \in Seq(Frame)
    PROVE  XhrInv'
  <1>1. Frame' = Frame
    BY DEF Frame, UnderWay
  <1> QED
    BY <1>1 DEF XhrInv

\* A forEach() that is under way goes on when arrays are made, or get longer.
LEMMA ArraysGrow ==
    ASSUME arrays \in Seq(Seq(Listeners)), arrays' \in Seq(Seq(Listeners)),
           Len(arrays) <= Len(arrays'),
           \A a \in 1..Len(arrays) :
               /\ Len(arrays[a]) <= Len(arrays'[a])
               /\ \A i \in 1..Len(arrays[a]) : arrays'[a][i] = arrays[a][i],
           stack \in Seq(Frame)
    PROVE  stack \in Seq(Frame')
  <1>1. ASSUME NEW f \in EachFrame, UnderWay(f)
        PROVE  UnderWay(f)'
    <2>0. Len(arrays) \in Nat /\ Len(arrays') \in Nat
      OBVIOUS
    <2>1. /\ f.array \in 1..Len(arrays) /\ f.array \in 1..Len(arrays')
      BY <1>1, <2>0 DEF UnderWay
    <2>2. /\ Len(arrays[f.array]) \in Nat /\ Len(arrays'[f.array]) \in Nat
          /\ Len(arrays[f.array]) <= Len(arrays'[f.array])
      <3> DEFINE a == f.array
      <3>1. a \in 1..Len(arrays) /\ a \in 1..Len(arrays')
        BY <2>1
      <3> HIDE DEF a
      <3>2. arrays[a] \in Seq(Listeners) /\ arrays'[a] \in Seq(Listeners)
        BY <3>1, ElementOfSeq
      <3>3. Len(arrays[a]) \in Nat /\ Len(arrays'[a]) \in Nat
        BY <3>2, LenProperties
      <3> QED
        BY <3>1, <3>3 DEF a
    <2>3. f.length \in Nat /\ f.length <= Len(arrays[f.array])
      BY <1>1 DEF UnderWay, EachFrame
    <2>4. f.length <= Len(arrays'[f.array])
      BY <2>2, <2>3
    <2>5. ASSUME NEW i \in 1..f.length
          PROVE  arrays'[f.array][i] = f.had[i]
      <3>1. i \in 1..Len(arrays[f.array])
        BY <2>2, <2>3
      <3>2. arrays'[f.array][i] = arrays[f.array][i]
        BY <2>1, <3>1
      <3> QED
        BY <1>1, <3>2 DEF UnderWay
    <2> QED
      BY <1>1, <2>1, <2>4, <2>5 DEF UnderWay
  <1>2. Frame \subseteq Frame'
    BY <1>1 DEF Frame
  <1> QED
    BY <1>2, SeqMonotonic

\* The functions that a type has make no difference: they are frames.
LEMMA CalledFrames == ASSUME NEW t PROVE Called(t) \in Seq(PlainFrame)
  BY PlainFrames DEF Called

\* _changeState() and _fireEvent() go on with functions and events.
LEMMA FiresStep == ASSUME XhrInv, ChangeState \/ CallHandler PROVE XhrInv'
  <1>1. stack \in Seq(Frame)
    BY DEF XhrInv
  <1>2. CASE ChangeState
    <2> DEFINE new == Called("readystatechange") \o <<FireEvent("readystatechange")>>
    <2>1. FireEvent("readystatechange") \in PlainFrame
      BY PlainFrames DEF EventTypes
    <2>2. <<FireEvent("readystatechange")>> \in Seq(PlainFrame)
      BY <2>1
    <2>3. new \in Seq(PlainFrame)
      BY <2>2, CalledFrames, PutBefore
    <2>4. new \in Seq(Frame)
      BY <2>3, PlainAreFrames
    <2>5. stack # <<>> /\ stack' = new \o Tail(stack) /\ UNCHANGED <<listeners, arrays>>
      BY <1>2 DEF ChangeState, Top, Pop
    <2> HIDE DEF new
    <2>6. stack' \in Seq(Frame)
      BY <1>1, <2>4, <2>5, Replaced
    <2> QED
      BY <2>5, <2>6, StackStep
  <1>3. CASE CallHandler
    <2> DEFINE type == Head(stack).type
               new == Called(type) \o <<CallListeners(type)>>
    <2>1. stack # <<>> /\ Head(stack) \in Frame /\ Head(stack).op = "fire"
      BY <1>1, <1>3, HeadTailProperties DEF CallHandler, Top
    <2>2. type \in EventTypes
      BY <2>1 DEF Frame, PlainFrame, CallFrame, EachFrame
    <2> HIDE DEF type
    <2>3. CallListeners(type) \in PlainFrame
      BY <2>2, PlainFrames
    <2>4. <<CallListeners(type)>> \in Seq(PlainFrame)
      BY <2>3
    <2>5. new \in Seq(PlainFrame)
      BY <2>4, CalledFrames, PutBefore
    <2>6. new \in Seq(Frame)
      BY <2>5, PlainAreFrames
    <2>7. stack' = new \o Tail(stack) /\ UNCHANGED <<listeners, arrays>>
      BY <1>3 DEF CallHandler, Pop, type
    <2> HIDE DEF new
    <2>8. stack' \in Seq(Frame)
      BY <1>1, <2>1, <2>6, <2>7, Replaced
    <2> QED
      BY <2>7, <2>8, StackStep
  <1> QED
    BY <1>2, <1>3

\* forEach() takes the array as it is.
LEMMA BeginStep == ASSUME XhrInv, BeginForEach PROVE XhrInv'
  <1> DEFINE array == listeners[Head(stack).type]
             new == IF array = 0 THEN <<>> ELSE <<ForEach(array)>>
  <1>1. /\ stack \in Seq(Frame) /\ arrays \in Seq(Seq(Listeners))
        /\ listeners \in [EventTypes -> Nat]
        /\ \A t \in EventTypes : listeners[t] <= Len(arrays)
    BY DEF XhrInv
  <1>2. stack # <<>> /\ Head(stack) \in Frame /\ Head(stack).op = "listeners"
    BY <1>1, HeadTailProperties DEF BeginForEach, Top
  <1>3. Head(stack).type \in EventTypes
    BY <1>2 DEF Frame, PlainFrame, CallFrame, EachFrame
  <1>4. array \in Nat /\ array <= Len(arrays) /\ Len(arrays) \in Nat
    BY <1>1, <1>3
  <1>5. stack' = new \o Tail(stack) /\ UNCHANGED <<listeners, arrays>>
    BY DEF BeginForEach, Pop
  <1> HIDE DEF array
  <1>6. ASSUME array # 0
        PROVE  ForEach(array) \in Frame
    <2>1. array \in 1..Len(arrays)
      BY <1>4, <1>6
    <2>2. arrays[array] \in Seq(Listeners) /\ Len(arrays[array]) \in Nat
      BY <1>1, <2>1, ElementOfSeq
    <2>3. ForEach(array) \in EachFrame
      BY <1>4, <2>2 DEF ForEach, EachFrame
    <2>4. SubSeq(arrays[array], 1, 0) = <<>>
      BY <2>2
    <2>5. UnderWay(ForEach(array))
      BY <2>1, <2>2, <2>4 DEF ForEach, UnderWay
    <2> QED
      BY <2>3, <2>5 DEF Frame
  <1>7. new \in Seq(Frame)
    <2> HIDE DEF Frame
    <2> QED
      BY <1>6
  <1> HIDE DEF new
  <1>8. stack' \in Seq(Frame)
    BY <1>1, <1>2, <1>5, <1>7, Replaced
  <1> QED
    BY <1>5, <1>8, StackStep

\* The next element is the one forEach() found there when it began: no call of the
\* listeners it has called so far can have taken it away.
LEMMA VisitStep == ASSUME XhrInv, VisitNext PROVE XhrInv'
  <1> DEFINE f == Head(stack)
             at == arrays[f.array]
             g == [f EXCEPT !.next = @ + 1, !.called = Append(@, at[f.next])]
  <1>1. stack \in Seq(Frame) /\ arrays \in Seq(Seq(Listeners))
    BY DEF XhrInv
  <1>2. stack # <<>> /\ f \in Frame /\ f.op = "forEach"
    BY <1>1, HeadTailProperties DEF VisitNext, Top
  <1>3. f \in EachFrame /\ UnderWay(f)
    BY <1>2 DEF Frame, PlainFrame, CallFrame
  <1>4. /\ f.next <= f.length
        /\ stack' = (IF f.next > Len(at) THEN <<[f EXCEPT !.next = @ + 1]>>
                     ELSE <<Function, g>>) \o Tail(stack)
        /\ UNCHANGED <<listeners, arrays>>
    BY DEF VisitNext, Pop
  <1> HIDE DEF f
  <1>5. f.array \in 1..Len(arrays) /\ at \in Seq(Listeners) /\ Len(at) \in Nat
    BY <1>1, <1>3, ElementOfSeq DEF UnderWay
  <1>6. /\ f.next \in Nat /\ f.length \in Nat /\ f.had \in Seq(Listeners)
        /\ f.called \in Seq(Listeners)
    BY <1>3 DEF EachFrame
  <1>7. /\ f.length = Len(f.had) /\ f.length <= Len(at)
        /\ \A i \in 1..f.length : at[i] = f.had[i]
        /\ f.next \in 1..(f.length + 1)
        /\ f.called = SubSeq(f.had, 1, f.next - 1)
    BY <1>3 DEF UnderWay
  <1>8. f.next \in 1..f.length /\ f.next <= Len(at)
    BY <1>4, <1>5, <1>6, <1>7
  <1>9. at[f.next] = f.had[f.next] /\ at[f.next] \in Listeners
    BY <1>5, <1>7, <1>8, ElementOfSeq, SMTT(30)
  <1>10. Append(f.called, at[f.next]) = SubSeq(f.had, 1, f.next)
    BY <1>6, <1>7, <1>8, <1>9, OneMoreCalled
  <1>11. Append(f.called, at[f.next]) \in Seq(Listeners)
    BY <1>6, <1>9
  <1> HIDE DEF at
  <1>12. /\ g \in EachFrame
         /\ g.array = f.array /\ g.length = f.length /\ g.had = f.had
         /\ g.next = f.next + 1 /\ g.called = Append(f.called, at[f.next])
    <2> DEFINE list == Seq(Listeners)
               c == Append(f.called, at[f.next])
               n == f.next + 1
    <2>1. f \in [op : {"forEach"}, array : Nat, length : Nat, next : Nat, had : list, called : list]
      BY <1>3 DEF EachFrame
    <2>2. c \in list /\ n \in Nat
      BY <1>6, <1>11
    <2>3. g = [f EXCEPT !.next = n, !.called = c]
      OBVIOUS
    <2> HIDE DEF list, c, n, g
    <2>4. g \in [op : {"forEach"}, array : Nat, length : Nat, next : Nat, had : list, called : list]
      BY <2>1, <2>2, <2>3
    <2>5. /\ g.array = f.array /\ g.length = f.length /\ g.had = f.had
          /\ g.next = n /\ g.called = c
      BY <2>1, <2>3
    <2> QED
      BY <2>4, <2>5 DEF EachFrame, list, c, n
  <1> HIDE DEF g
  <1>13. UnderWay(g)
    <2>1. g.called = SubSeq(g.had, 1, g.next - 1)
      BY <1>6, <1>10, <1>12
    <2>2. g.next \in 1..(g.length + 1)
      BY <1>6, <1>8, <1>12
    <2> QED
      BY <1>3, <1>12, <2>1, <2>2 DEF UnderWay
  <1>14. Function \in Frame /\ g \in Frame
    BY <1>12, <1>13, PlainFrames DEF Frame
  <1>15. stack' = <<Function, g>> \o Tail(stack)
    <2>1. ~(f.next > Len(at))
      BY <1>5, <1>6, <1>8
    <2> QED
      BY <1>4, <2>1, Zenon
  <1>16. <<Function, g>> \in Seq(Frame)
    BY <1>14
  <1>17. stack' \in Seq(Frame)
    BY <1>1, <1>2, <1>15, <1>16, Replaced
  <1> QED
    BY <1>4, <1>17, StackStep

\* A frame that is done, and the method of the SDK around one of the shim's.
LEMMA PopsStep ==
    ASSUME XhrInv, EndForEach \/ FunctionReturns \/ CallMethod
    PROVE  XhrInv'
  <1>1. stack \in Seq(Frame)
    BY DEF XhrInv
  <1>2. stack # <<>> /\ UNCHANGED <<listeners, arrays>>
    BY DEF EndForEach, FunctionReturns, CallMethod, Top
  <1>3. PICK new \in Seq(Frame) : stack' = new \o Tail(stack)
    <2>1. CASE EndForEach \/ FunctionReturns
      <3>1. stack' = <<>> \o Tail(stack)
        BY <2>1 DEF EndForEach, FunctionReturns, Pop
      <3> QED
        BY <3>1, EmptySeq
    <2>2. CASE CallMethod
      <3>1. PICK frames \in {<<>>, Head(stack).frames} :
                stack' = (<<Function>> \o frames \o <<Function>>) \o Tail(stack)
        BY <2>2 DEF CallMethod, Pop
      <3>2. Head(stack) \in Frame /\ Head(stack).op = "call"
        BY <1>1, <1>2, <2>2, HeadTailProperties DEF CallMethod, Top
      <3>3. Head(stack).frames \in Seq(PlainFrame)
        BY <3>2 DEF Frame, PlainFrame, CallFrame, EachFrame
      <3>4. frames \in Seq(PlainFrame)
        BY <3>1, <3>3, EmptySeq
      <3>5. <<Function>> \in Seq(PlainFrame)
        BY PlainFrames
      <3>6. <<Function>> \o frames \o <<Function>> \in Seq(PlainFrame)
        BY <3>4, <3>5, PutBefore
      <3>7. <<Function>> \o frames \o <<Function>> \in Seq(Frame)
        BY <3>6, PlainAreFrames
      <3> QED
        BY <3>1, <3>7
    <2> QED
      BY <2>1, <2>2
  <1>4. stack' \in Seq(Frame)
    BY <1>1, <1>2, <1>3, Replaced
  <1> QED
    BY <1>2, <1>4, StackStep

\* open(), send() and abort(), whoever calls them and whenever.
LEMMA MethodsStep == ASSUME XhrInv, open \/ send \/ abort PROVE XhrInv'
  <1>1. stack \in Seq(Frame)
    BY DEF XhrInv
  <1>2. UNCHANGED <<listeners, arrays>>
    BY DEF open, send, abort
  <1>3. PICK new \in Seq(PlainFrame) : stack' = new \o stack
    <2> HIDE DEF PlainFrame, OpenFrames, SendFrames, AbortFrames
    <2> QED
      BY MethodFrames DEF open, send, abort, Push
  <1>4. stack' \in Seq(Frame)
    BY <1>1, <1>3, PlainAreFrames, PutBefore
  <1> QED
    BY <1>2, <1>4, StackStep

\* A list of listeners is made: the old ones stay for those who go through them.
LEMMA NewArrayStep ==
    ASSUME XhrInv, NEW type \in EventTypes, NEW list \in Seq(Listeners),
           NewArray(type, list), UNCHANGED stack
    PROVE  XhrInv'
  <1>1. /\ arrays \in Seq(Seq(Listeners)) /\ stack \in Seq(Frame)
        /\ listeners \in [EventTypes -> Nat]
        /\ \A t \in EventTypes : listeners[t] <= Len(arrays)
    BY DEF XhrInv
  <1>2. /\ arrays' = Append(arrays, list)
        /\ listeners' = [listeners EXCEPT ![type] = Len(arrays')]
    BY DEF NewArray
  <1> DEFINE lists == Seq(Listeners)
  <1>3. arrays \in Seq(lists) /\ list \in lists
    BY <1>1
  <1> HIDE DEF lists
  <1>4. /\ arrays' \in Seq(lists) /\ Len(arrays') = Len(arrays) + 1 /\ Len(arrays) \in Nat
        /\ \A a \in 1..Len(arrays) : arrays'[a] = arrays[a]
    BY <1>2, <1>3, AppendProperties
  <1>5. /\ listeners' \in [EventTypes -> Nat]
        /\ \A t \in EventTypes : listeners'[t] <= Len(arrays')
    BY <1>1, <1>2, <1>4
  <1>6. \A a \in 1..Len(arrays) : Len(arrays[a]) \in Nat
    <2>1. \A a \in 1..Len(arrays) : arrays[a] \in Seq(Listeners)
      BY <1>3, ElementOfSeq DEF lists
    <2> QED
      BY <2>1
  <1>7. \A a \in 1..Len(arrays) :
            /\ Len(arrays[a]) <= Len(arrays'[a])
            /\ \A i \in 1..Len(arrays[a]) : arrays'[a][i] = arrays[a][i]
    BY <1>4, <1>6
  <1>8. arrays' \in Seq(Seq(Listeners))
    BY <1>4 DEF lists
  <1>9. Len(arrays) <= Len(arrays')
    BY <1>4
  <1>10. stack \in Seq(Frame')
    BY <1>1, <1>7, <1>8, <1>9, ArraysGrow
  <1> QED
    BY <1>5, <1>8, <1>10 DEF XhrInv

\* push() puts the listener at the end of the list the type has, past the length
\* that a forEach() under way goes to.
LEMMA AddStep ==
    ASSUME XhrInv, NEW type \in EventTypes, NEW fn \in Listeners, addEventListener(type, fn)
    PROVE  XhrInv'
  <1>1. CASE listeners[type] = 0
    <2>1. <<fn>> \in Seq(Listeners)
      OBVIOUS
    <2> QED
      BY <1>1, <2>1, NewArrayStep DEF addEventListener
  <1>2. CASE listeners[type] # 0
    <2> DEFINE lists == Seq(Listeners)
               here == listeners[type]
               longer == Append(arrays[here], fn)
    <2>1. /\ arrays \in Seq(lists) /\ stack \in Seq(Frame)
          /\ listeners \in [EventTypes -> Nat]
          /\ \A t \in EventTypes : listeners[t] <= Len(arrays)
      BY DEF XhrInv
    <2>2. here \in 1..Len(arrays)
      BY <1>2, <2>1
    <2>3. arrays' = [arrays EXCEPT ![here] = longer] /\ UNCHANGED <<listeners, stack>>
      BY <1>2 DEF addEventListener
    <2>4. \A a \in 1..Len(arrays) : arrays[a] \in lists
      <3> HIDE DEF lists
      <3> QED
        BY <2>1, ElementOfSeq
    <2>5. \A a \in 1..Len(arrays) : Len(arrays[a]) \in Nat
      BY <2>4
    <2> HIDE DEF here
    <2>6. arrays[here] \in Seq(Listeners)
      BY <2>2, <2>4
    <2>7. /\ longer \in lists /\ Len(longer) = Len(arrays[here]) + 1
          /\ \A i \in 1..Len(arrays[here]) : longer[i] = arrays[here][i]
      BY <2>6, AppendProperties
    <2> HIDE DEF lists, longer
    <2>8. /\ arrays' \in Seq(lists) /\ Len(arrays') = Len(arrays)
          /\ \A a \in 1..Len(arrays) : arrays'[a] = IF a = here THEN longer ELSE arrays[a]
      BY <2>1, <2>2, <2>3, <2>7, ExceptSeq
    <2>9. ASSUME NEW a \in 1..Len(arrays)
          PROVE  /\ Len(arrays[a]) <= Len(arrays'[a])
                 /\ \A i \in 1..Len(arrays[a]) : arrays'[a][i] = arrays[a][i]
      <3>1. CASE a = here
        <4>1. arrays'[a] = longer /\ Len(arrays[here]) \in Nat
          BY <2>2, <2>5, <2>8, <3>1
        <4> QED
          BY <2>7, <3>1, <4>1
      <3>2. CASE a # here
        <4>1. arrays'[a] = arrays[a]
          BY <2>8, <3>2
        <4> QED
          BY <2>5, <4>1
      <3> QED
        BY <3>1, <3>2
    <2>10. /\ arrays \in Seq(Seq(Listeners)) /\ arrays' \in Seq(Seq(Listeners))
      BY <2>1, <2>8 DEF lists
    <2>11. Len(arrays) <= Len(arrays')
      <3>1. Len(arrays) \in Nat
        BY <2>10
      <3> QED
        BY <2>8, <3>1
    <2>12. stack \in Seq(Frame')
      BY <2>1, <2>9, <2>10, <2>11, ArraysGrow
    <2> QED
      BY <2>1, <2>3, <2>8, <2>10, <2>12 DEF XhrInv
  <1> QED
    BY <1>1, <1>2

\* filter() leaves the list as it was, and another in its stead.
LEMMA RemoveStep ==
    ASSUME XhrInv, NEW type \in EventTypes, NEW fn \in Listeners, removeEventListener(type, fn)
    PROVE  XhrInv'
  <1> DEFINE list == IF listeners[type] = 0 THEN <<>> ELSE Without(arrays[listeners[type]], fn)
  <1>1. NewArray(type, list) /\ UNCHANGED stack
    BY DEF removeEventListener
  <1>2. list \in Seq(Listeners)
    <2>1. CASE listeners[type] = 0
      BY <2>1, EmptySeq
    <2>2. CASE listeners[type] # 0
      <3>1. /\ arrays \in Seq(Seq(Listeners)) /\ listeners[type] \in 1..Len(arrays)
        BY <2>2 DEF XhrInv
      <3>2. arrays[listeners[type]] \in Seq(Listeners)
        BY <3>1, ElementOfSeq
      <3>3. Without(arrays[listeners[type]], fn) \in Seq(Listeners)
        BY <3>2, WithoutIsList
      <3> QED
        BY <2>2, <3>3
    <2> QED
      BY <2>1, <2>2
  <1> HIDE DEF list
  <1> QED
    BY <1>1, <1>2, NewArrayStep

LEMMA UsesXhrStep == ASSUME XhrInv, UsesXhr PROVE XhrInv'
  <1>1. CASE open \/ send \/ abort
    BY <1>1, MethodsStep
  <1>2. ASSUME NEW type \in Watched, setHandler(type)
        PROVE  XhrInv'
    <2>1. stack' = stack /\ UNCHANGED <<listeners, arrays>>
      BY <1>2 DEF setHandler
    <2>2. stack' \in Seq(Frame)
      BY <2>1 DEF XhrInv
    <2> QED
      BY <2>1, <2>2, StackStep
  <1>3. ASSUME NEW type \in Watched, NEW fn \in Listeners,
               addEventListener(type, fn) \/ removeEventListener(type, fn)
        PROVE  XhrInv'
    <2>1. type \in EventTypes
      BY XhrAssumption
    <2> QED
      BY <1>3, <2>1, AddStep, RemoveStep
  <1> QED
    BY <1>1, <1>2, <1>3 DEF UsesXhr

\* A request begins with no list and no forEach().
LEMMA NewXhrStep ==
    ASSUME NEW frames \in Seq(CallFrame), NewXhr(frames)
    PROVE  XhrInv'
  <1>1. CallFrame \subseteq Frame'
    BY DEF Frame
  <1>2. frames \in Seq(Frame')
    BY <1>1, SeqMonotonic
  <1>3. /\ stack' = frames /\ arrays' = <<>>
        /\ listeners' = [t \in EventTypes |-> 0]
    BY DEF NewXhr
  <1>4. arrays' \in Seq(Seq(Listeners)) /\ Len(arrays') = 0
    BY <1>3, EmptySeq
  <1> QED
    BY <1>2, <1>3, <1>4 DEF XhrInv

LEMMA XhrInvStep == XhrInv /\ [PageNext]_pageVars => XhrInv'
  <1> SUFFICES ASSUME XhrInv, [PageNext]_pageVars
               PROVE  XhrInv'
    OBVIOUS
  <1>1. CASE UNCHANGED <<listeners, arrays, stack>>
    <2>1. stack' \in Seq(Frame)
      BY <1>1 DEF XhrInv
    <2> QED
      BY <1>1, <2>1, StackStep
  <1>2. CASE OutsidePage \/ ScriptEnds \/ DrainEnds \/ SdkDefers \/ Drain
    BY <1>1, <1>2 DEF OutsidePage, ScriptEnds, DrainEnds, SdkDefers, Drain, requestVars, xhrVars
  <1>3. CASE NewPage \/ EndSign
    <2>1. NewXhr(<<>>)
      BY <1>3 DEF NewPage, EndSign
    <2> QED
      BY <2>1, EmptySeq, NewXhrStep
  <1>4. CASE BeginSign
    <2> DEFINE calls == <<[op |-> "call", frames |-> OpenFrames],
                          [op |-> "call", frames |-> SendFrames]>>
    <2>1. [op |-> "call", frames |-> OpenFrames] \in CallFrame
      BY MethodFrames DEF CallFrame
    <2>2. [op |-> "call", frames |-> SendFrames] \in CallFrame
      BY MethodFrames DEF CallFrame
    <2>3. calls \in Seq(CallFrame)
      BY <2>1, <2>2
    <2>4. NewXhr(calls)
      BY <1>4 DEF BeginSign
    <2> HIDE DEF calls
    <2> QED
      BY <2>3, <2>4, NewXhrStep
  <1>5. CASE RequestStep
    BY <1>5, FiresStep, BeginStep, VisitStep, PopsStep DEF RequestStep, XhrSteps
  <1>6. CASE RequestUsed
    BY <1>6, UsesXhrStep DEF RequestUsed
  <1>7. CASE UNCHANGED pageVars
    BY <1>1, <1>7 DEF pageVars, xhrVars
  <1> QED
    BY <1>2, <1>3, <1>4, <1>5, <1>6, <1>7 DEF PageNext

\* An event of the request reaches everyone who listened when it fired, once each
\* and in order, whatever its listeners add, remove, open, send or abort, and however
\* deep these call one another.
THEOREM EveryListenerOnce == PageSpec => []EachListenerOnce
  <1> QED
    BY XhrInvInit, XhrInvStep, CalledInOrder, PTL DEF PageSpec
=============================================================================
