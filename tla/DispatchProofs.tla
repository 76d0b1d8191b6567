--------------------------- MODULE DispatchProofs ---------------------------
(***************************************************************************)
(* The window of seen ids of Dispatch, for any number of threads, any set  *)
(* of messages and any capacity.  NoRepeatInWindow is not inductive: what  *)
(* keeps an id from coming back is that the deque is the tail of the       *)
(* history (WindowIsRecent) and that the set looked up is that deque       *)
(* (SeenInStep), hence DispatchInv.                                        *)
(***************************************************************************)
EXTENDS Dispatch, SequenceTheorems, TLAPS

\* The inductive invariant.
DispatchInv ==
    /\ DispatchTypeOK
    /\ SeenInStep
    /\ WindowIsRecent
    /\ NoRepeatInWindow

\* remember_id() on a full window: the oldest id makes room for the new one.
LEMMA RememberEvicting ==
    ASSUME DispatchInv, NEW m \in Messages, m \notin seen_ids_,
           remember_id(m), delivered' = Append(delivered, m),
           Len(seen_order_) + 1 > kMaxSeenIds
    PROVE  /\ seen_ids_' \subseteq Messages
           /\ seen_order_' \in Seq(Messages)
           /\ SeenInStep'
           /\ WindowIsRecent'
  <1> DEFINE n == Len(seen_order_)
             order == Append(seen_order_, m)
  <1>1. /\ seen_order_ \in Seq(Messages) /\ delivered \in Seq(Messages)
        /\ n \in Nat /\ Len(delivered) \in Nat /\ n = kMaxSeenIds
        /\ kMaxSeenIds \in Nat \ {0}
    BY LenProperties, DispatchAssumption
       DEF DispatchInv, DispatchTypeOK, SeenInStep
  <1>2. /\ order \in Seq(Messages) /\ Len(order) = n + 1 /\ order # <<>>
        /\ order[n + 1] = m
        /\ \A i \in 1..n : order[i] = seen_order_[i]
    BY <1>1, AppendProperties
  <1>3. /\ Tail(order) \in Seq(Messages) /\ Len(Tail(order)) = n
        /\ \A i \in 1..n : Tail(order)[i] = order[i + 1]
        /\ Head(order) = order[1]
    BY <1>1, <1>2, HeadTailProperties
  <1>4. /\ seen_order_' = Tail(order)
        /\ seen_ids_' = (seen_ids_ \cup {m}) \ {order[1]}
    BY <1>1, <1>2, <1>3 DEF remember_id
  <1>5. /\ delivered' \in Seq(Messages)
        /\ Len(delivered') = Len(delivered) + 1
        /\ delivered'[Len(delivered) + 1] = m
        /\ \A i \in 1..Len(delivered) : delivered'[i] = delivered[i]
    BY <1>1, AppendProperties
  <1>6. \A i, j \in 1..(n + 1) : order[i] = order[j] => i = j
    <2>1. \A i \in 1..n : seen_order_[i] # m
      BY DEF DispatchInv, SeenInStep
    <2>2. \A i, j \in 1..n : seen_order_[i] = seen_order_[j] => i = j
      BY DEF DispatchInv, SeenInStep, OrderDistinct
    <2> QED
      BY <1>1, <1>2, <2>1, <2>2
  <1>7. /\ Len(seen_order_') = n
        /\ \A i \in 1..n : seen_order_'[i] = order[i + 1]
        /\ OrderDistinct'
    <2>1. /\ Len(seen_order_') = n
          /\ \A i \in 1..n : seen_order_'[i] = order[i + 1]
      BY <1>3, <1>4
    <2>2. ASSUME NEW i \in 1..n, NEW j \in 1..n,
                 seen_order_'[i] = seen_order_'[j]
          PROVE  i = j
      <3>1. i + 1 \in 1..(n + 1) /\ j + 1 \in 1..(n + 1)
        BY <1>1
      <3> HIDE DEF order
      <3>2. i + 1 = j + 1
        BY <1>6, <2>1, <2>2, <3>1
      <3> QED
        BY <1>1, <3>2
    <2> QED
      BY <2>1, <2>2 DEF OrderDistinct
  <1>8. seen_ids_' = {seen_order_'[i] : i \in 1..n}
    <2>1. seen_ids_ \cup {m} = {order[i] : i \in 1..(n + 1)}
      BY <1>1, <1>2 DEF DispatchInv, SeenInStep
    <2>2. {seen_order_'[i] : i \in 1..n} = {order[i + 1] : i \in 1..n}
      BY <1>3, <1>4
    <2>3. {order[i + 1] : i \in 1..n} = {order[i] : i \in 2..(n + 1)}
      <3>1. \A i \in 1..n : i + 1 \in 2..(n + 1)
        BY <1>1
      <3>2. \A i \in 2..(n + 1) : i - 1 \in 1..n /\ (i - 1) + 1 = i
        BY <1>1
      <3> QED
        BY <3>1, <3>2
    <2>4. {order[i] : i \in 2..(n + 1)}
              = {order[i] : i \in 1..(n + 1)} \ {order[1]}
      BY <1>1, <1>6, SMTT(30)
    <2> QED
      BY <1>4, <2>1, <2>2, <2>3, <2>4
  <1>9. SeenInStep'
    <2>1. n <= kMaxSeenIds
      BY <1>1
    <2> QED
      BY <1>7, <1>8, <2>1 DEF SeenInStep
  <1>10. WindowIsRecent'
    <2>1. Len(delivered) >= n
      BY <1>1 DEF DispatchInv, WindowIsRecent
    <2>2. \A i \in 1..n : seen_order_[i] = delivered[Len(delivered) - n + i]
      BY DEF DispatchInv, WindowIsRecent
    <2>3. /\ \A i \in 1..n : order[i] = seen_order_[i]
          /\ order[n + 1] = m
      BY <1>2
    <2> HIDE DEF n, order
    <2>4. ASSUME NEW i \in 1..n
          PROVE  order[i + 1] = delivered'[Len(delivered) + 1 - n + i]
      <3>1. CASE i = n
        <4>1. Len(delivered) + 1 - n + i = Len(delivered) + 1
          BY <1>1, <3>1
        <4> QED
          BY <1>5, <2>3, <3>1, <4>1
      <3>2. CASE i # n
        <4>1. i + 1 \in 1..n
          BY <1>1, <3>2
        <4>2. /\ Len(delivered) - n + (i + 1) \in 1..Len(delivered)
              /\ Len(delivered) - n + (i + 1) = Len(delivered) + 1 - n + i
          BY <1>1, <2>1, <4>1
        <4>3. order[i + 1] = delivered[Len(delivered) - n + (i + 1)]
          BY <2>2, <2>3, <4>1
        <4>4. delivered'[Len(delivered) - n + (i + 1)]
                  = delivered[Len(delivered) - n + (i + 1)]
          BY <1>5, <4>2
        <4> QED
          BY <4>2, <4>3, <4>4
      <3> QED
        BY <3>1, <3>2
    <2>5. ASSUME NEW i \in 1..Len(seen_order_')
          PROVE  seen_order_'[i]
                     = delivered'[Len(delivered') - Len(seen_order_') + i]
      <3>1. Len(seen_order_') = n /\ Len(delivered') = Len(delivered) + 1
        BY <1>5, <1>7
      <3>2. i \in 1..n /\ seen_order_'[i] = order[i + 1]
        BY <1>7
      <3>3. order[i + 1] = delivered'[Len(delivered) + 1 - n + i]
        BY <2>4, <3>2
      <3>4. Len(delivered') - Len(seen_order_') + i
                = Len(delivered) + 1 - n + i
        BY <1>1, <3>1
      <3> QED
        BY <3>2, <3>3, <3>4
    <2>6. Len(seen_order_') = IF Len(delivered') < kMaxSeenIds
                              THEN Len(delivered') ELSE kMaxSeenIds
      BY <1>1, <1>5, <1>7, <2>1
    <2> QED
      BY <2>5, <2>6 DEF WindowIsRecent
  <1>11. seen_ids_' \subseteq Messages
    BY <1>4 DEF DispatchInv, DispatchTypeOK
  <1> QED
    BY <1>3, <1>4, <1>9, <1>10, <1>11

\* remember_id() while there is room: the window grows by the new id.
LEMMA RememberGrowing ==
    ASSUME DispatchInv, NEW m \in Messages, m \notin seen_ids_,
           remember_id(m), delivered' = Append(delivered, m),
           Len(seen_order_) + 1 <= kMaxSeenIds
    PROVE  /\ seen_ids_' \subseteq Messages
           /\ seen_order_' \in Seq(Messages)
           /\ SeenInStep'
           /\ WindowIsRecent'
  <1> DEFINE n == Len(seen_order_)
  <1>1. /\ seen_order_ \in Seq(Messages) /\ delivered \in Seq(Messages)
        /\ n \in Nat /\ Len(delivered) = n
        /\ kMaxSeenIds \in Nat \ {0}
    BY LenProperties, DispatchAssumption
       DEF DispatchInv, DispatchTypeOK, WindowIsRecent
  <1>2. /\ Append(seen_order_, m) \in Seq(Messages)
        /\ Len(Append(seen_order_, m)) = n + 1
        /\ Append(seen_order_, m)[n + 1] = m
        /\ \A i \in 1..n : Append(seen_order_, m)[i] = seen_order_[i]
    BY <1>1, AppendProperties
  <1>3. /\ seen_order_' = Append(seen_order_, m)
        /\ seen_ids_' = seen_ids_ \cup {m}
    BY <1>1, <1>2 DEF remember_id
  <1>4. /\ Len(delivered') = n + 1
        /\ delivered'[n + 1] = m
        /\ \A i \in 1..n : delivered'[i] = delivered[i]
    BY <1>1, AppendProperties
  <1>5. SeenInStep'
    <2>1. seen_ids_' = {seen_order_'[i] : i \in 1..(n + 1)}
      BY <1>1, <1>2, <1>3 DEF DispatchInv, SeenInStep
    <2>2. OrderDistinct'
      <3>1. \A i \in 1..n : seen_order_[i] # m
        BY DEF DispatchInv, SeenInStep
      <3>2. \A i, j \in 1..n : seen_order_[i] = seen_order_[j] => i = j
        BY DEF DispatchInv, SeenInStep, OrderDistinct
      <3> QED
        BY <1>1, <1>2, <1>3, <3>1, <3>2 DEF OrderDistinct
    <2> QED
      BY <1>1, <1>2, <1>3, <2>1, <2>2 DEF SeenInStep
  <1>6. WindowIsRecent'
    <2>1. \A i \in 1..n : seen_order_[i] = delivered[i]
      BY <1>1 DEF DispatchInv, WindowIsRecent
    <2>2. \A i \in 1..(n + 1) : seen_order_'[i] = delivered'[i]
      BY <1>1, <1>2, <1>3, <1>4, <2>1
    <2> QED
      BY <1>1, <1>2, <1>3, <1>4, <2>2 DEF WindowIsRecent
  <1>7. seen_ids_' \subseteq Messages
    BY <1>3 DEF DispatchInv, DispatchTypeOK
  <1> QED
    BY <1>2, <1>3, <1>5, <1>6, <1>7

\* A message that is not in the window was not among the last kMaxSeenIds
\* deliveries, so delivering it now repeats nothing recent.
LEMMA NotSeenIsNotRecent ==
    ASSUME DispatchInv, NEW m \in Messages, m \notin seen_ids_,
           delivered' = Append(delivered, m)
    PROVE  delivered' \in Seq(Messages) /\ NoRepeatInWindow'
  <1> DEFINE n == Len(seen_order_)
             d == Len(delivered)
  <1>1. /\ delivered \in Seq(Messages)
        /\ n \in Nat /\ d \in Nat
        /\ kMaxSeenIds \in Nat \ {0}
    BY LenProperties, DispatchAssumption DEF DispatchInv, DispatchTypeOK
  <1>2. /\ delivered' \in Seq(Messages)
        /\ Len(delivered') = d + 1
        /\ delivered'[d + 1] = m
        /\ \A i \in 1..d : delivered'[i] = delivered[i]
    BY <1>1, AppendProperties
  <1>3. ASSUME NEW i \in 1..d, delivered[i] = m
        PROVE  d + 1 - i > kMaxSeenIds
    <2> SUFFICES ASSUME d + 1 - i <= kMaxSeenIds
                 PROVE  FALSE
      BY <1>1
    <2>1. n = IF d < kMaxSeenIds THEN d ELSE kMaxSeenIds
      BY DEF DispatchInv, WindowIsRecent
    <2>2. i - (d - n) \in 1..n
      BY <1>1, <2>1
    <2>3. seen_order_[i - (d - n)] = delivered[d - n + (i - (d - n))]
      BY <2>2 DEF DispatchInv, WindowIsRecent
    <2>4. seen_order_[i - (d - n)] = m
      BY <1>1, <1>3, <2>3
    <2> QED
      BY <2>2, <2>4 DEF DispatchInv, SeenInStep
  <1>4. ASSUME NEW i \in 1..(d + 1), NEW j \in 1..(d + 1),
               i < j, delivered'[i] = delivered'[j]
        PROVE  j - i > kMaxSeenIds
    <2>1. CASE j = d + 1
      BY <1>1, <1>2, <1>3, <1>4, <2>1
    <2>2. CASE j < d + 1
      BY <1>1, <1>2, <1>4, <2>2 DEF DispatchInv, NoRepeatInWindow
    <2> QED
      BY <1>1, <2>1, <2>2
  <1> QED
    BY <1>2, <1>4 DEF NoRepeatInWindow

\* The empty window of a new client.
LEMMA DispatchInvInit == DispatchInit => DispatchInv
  <1> SUFFICES ASSUME DispatchInit PROVE DispatchInv
    OBVIOUS
  <1>1. /\ seen_order_ = <<>> /\ delivered = <<>> /\ seen_ids_ = {}
        /\ Len(seen_order_) = 0 /\ Len(delivered) = 0
    BY DEF DispatchInit
  <1>2. DispatchTypeOK
    BY <1>1, EmptySeq DEF DispatchInit, DispatchTypeOK, BaseProtoMessage
  <1>3. SeenInStep
    BY <1>1, DispatchAssumption DEF SeenInStep, OrderDistinct
  <1>4. WindowIsRecent /\ NoRepeatInWindow
    BY <1>1, DispatchAssumption DEF WindowIsRecent, NoRepeatInWindow
  <1> QED
    BY <1>2, <1>3, <1>4 DEF DispatchInv

\* Every delivery keeps the invariant, and so does a caller that also changes
\* state of its own: only BeginDelivery touches the window.
LEMMA DispatchInvStep == DispatchInv /\ [DispatchNext]_dispatchVars => DispatchInv'
  <1> SUFFICES ASSUME DispatchInv, [DispatchNext]_dispatchVars
               PROVE  DispatchInv'
    OBVIOUS
  <1>0. ASSUME UNCHANGED <<seen_ids_, seen_order_, delivered>>
        PROVE  /\ SeenInStep' /\ WindowIsRecent' /\ NoRepeatInWindow'
               /\ seen_ids_' \subseteq Messages
               /\ seen_order_' \in Seq(Messages)
               /\ delivered' \in Seq(Messages)
    BY <1>0 DEF DispatchInv, DispatchTypeOK, SeenInStep, OrderDistinct,
                WindowIsRecent, NoRepeatInWindow
  <1>1. ASSUME NEW t \in Threads, NEW m \in BaseProtoMessage,
               BeginDelivery(t, m)
        PROVE  DispatchInv'
    <2>1. /\ dispatch_mu_' \in Threads \cup {NoThread}
          /\ emitting' \in BaseProtoMessage
          /\ live_ended' \in BOOLEAN
      BY <1>1 DEF BeginDelivery, DispatchInv, DispatchTypeOK
    <2>2. CASE m = NoId
      <3>1. UNCHANGED <<seen_ids_, seen_order_, delivered>>
        BY <1>1, <2>2 DEF BeginDelivery
      <3> QED
        BY <1>0, <2>1, <3>1 DEF DispatchInv, DispatchTypeOK
    <2>3. CASE m # NoId
      <3>1. /\ m \in Messages /\ m \notin seen_ids_
            /\ remember_id(m) /\ delivered' = Append(delivered, m)
        BY <1>1, <2>3 DEF BeginDelivery, AlreadySeen, BaseProtoMessage
      <3>2. delivered' \in Seq(Messages) /\ NoRepeatInWindow'
        BY <3>1, NotSeenIsNotRecent
      <3>3. Len(seen_order_) \in Nat /\ kMaxSeenIds \in Nat
        BY LenProperties, DispatchAssumption DEF DispatchInv, DispatchTypeOK
      <3>4. /\ seen_ids_' \subseteq Messages
            /\ seen_order_' \in Seq(Messages)
            /\ SeenInStep'
            /\ WindowIsRecent'
        <4>1. CASE Len(seen_order_) + 1 > kMaxSeenIds
          BY <3>1, <4>1, RememberEvicting
        <4>2. CASE Len(seen_order_) + 1 <= kMaxSeenIds
          BY <3>1, <4>2, RememberGrowing
        <4> QED
          BY <3>3, <4>1, <4>2
      <3> QED
        BY <2>1, <3>2, <3>4 DEF DispatchInv, DispatchTypeOK
    <2> QED
      BY <2>2, <2>3
  <1>2. ASSUME NEW t \in Threads, EndDelivery(t)
        PROVE  DispatchInv'
    BY <1>0, <1>2 DEF EndDelivery, DispatchInv, DispatchTypeOK, BaseProtoMessage
  <1>3. ASSUME NEW t \in Threads, AbortDelivery(t)
        PROVE  DispatchInv'
    BY <1>0, <1>3 DEF AbortDelivery, DispatchInv, DispatchTypeOK, BaseProtoMessage
  <1>4. ASSUME UNCHANGED dispatchVars
        PROVE  DispatchInv'
    BY <1>0, <1>4 DEF dispatchVars, DispatchInv, DispatchTypeOK
  <1>5. ASSUME NEW t \in Threads, NEW m \in BaseProtoMessage, DropDuplicate(t, m)
        PROVE  DispatchInv'
    BY <1>4, <1>5 DEF DropDuplicate
  <1>6. ASSUME ForgetLiveEnd
        PROVE  DispatchInv'
    BY <1>0, <1>6 DEF ForgetLiveEnd, DispatchInv, DispatchTypeOK
  <1> QED
    BY <1>1, <1>2, <1>3, <1>4, <1>5, <1>6 DEF DispatchNext

LEMMA DispatchInvariance == DispatchSpec => []DispatchInv
  BY DispatchInvInit, DispatchInvStep, PTL DEF DispatchSpec

-----------------------------------------------------------------------------

\* Type correctness of dispatch_message() and its window.
THEOREM DispatchTypeCorrect == DispatchSpec => []DispatchTypeOK
  <1>1. DispatchInv => DispatchTypeOK
    BY DEF DispatchInv
  <1> QED
    BY <1>1, DispatchInvariance, PTL

\* The set and the deque of remember_id() never part, and never outgrow
\* kMaxSeenIds.
THEOREM WindowInStep == DispatchSpec => []SeenInStep
  <1>1. DispatchInv => SeenInStep
    BY DEF DispatchInv
  <1> QED
    BY <1>1, DispatchInvariance, PTL

\* Eviction is oldest first: the window is always the latest deliveries.
THEOREM WindowHoldsLatest == DispatchSpec => []WindowIsRecent
  <1>1. DispatchInv => WindowIsRecent
    BY DEF DispatchInv
  <1> QED
    BY <1>1, DispatchInvariance, PTL

\* dispatch_message() never gives the callbacks an id they were given within
\* the last kMaxSeenIds deliveries, for any number of transports.
THEOREM DeliveredOncePerWindow == DispatchSpec => []NoRepeatInWindow
  <1>1. DispatchInv => NoRepeatInWindow
    BY DEF DispatchInv
  <1> QED
    BY <1>1, DispatchInvariance, PTL
=============================================================================
