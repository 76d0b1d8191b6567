------------------------------ MODULE Dispatch ------------------------------
(***************************************************************************)
(* dispatch_message() of TikTokLiveClient::Impl: the one place where both  *)
(* transports hand a server message to the user's callbacks.  A mutex      *)
(* serialises the deliveries and a bounded window of the ids seen last     *)
(* drops what was already delivered, whichever transport brought it.       *)
(*                                                                         *)
(* A message is its server msg_id; every message whose msg_id is 0 is      *)
(* NoId, since the code cannot tell one of them from another.  A delivery  *)
(* is two steps, because the callbacks run while the mutex is held: the    *)
(* other thread waits, and what the code does after the callbacks          *)
(* (live_ended) is not yet visible while they run.                         *)
(***************************************************************************)
EXTENDS Naturals, Sequences

CONSTANTS
    Threads,      \* the threads that call dispatch_message()
    NoThread,     \* the mutex is free
    Messages,     \* the server messages with an id of their own
    NoId,         \* any message with msg_id 0
    EndMessages,  \* those that parse_event() turns into a LiveEnd event
    kMaxSeenIds   \* the capacity of the window of seen ids

ASSUME DispatchAssumption ==
    /\ NoThread \notin Threads
    /\ NoId \notin Messages
    /\ EndMessages \subseteq Messages \cup {NoId}
    /\ kMaxSeenIds \in Nat \ {0}

VARIABLES
    dispatch_mu_,  \* the thread that holds the mutex, or NoThread
    emitting,      \* the message its callbacks are being given
    seen_ids_,     \* the ids in the window, as the set that is looked up
    seen_order_,   \* the same ids, oldest first
    live_ended,    \* a LiveEnd event was dispatched
    delivered      \* history: every id given to the callbacks, in order

dispatchVars ==
    <<dispatch_mu_, emitting, seen_ids_, seen_order_, live_ended, delivered>>

BaseProtoMessage == Messages \cup {NoId}

DispatchInit ==
    /\ dispatch_mu_ = NoThread
    /\ emitting = NoId
    /\ seen_ids_ = {}
    /\ seen_order_ = <<>>
    /\ live_ended = FALSE
    /\ delivered = <<>>

-----------------------------------------------------------------------------

\* Evicting the newest id instead of the oldest one.
remember_id_EvictsNewest(id) ==
    IF Len(seen_order_) + 1 > kMaxSeenIds
    THEN UNCHANGED <<seen_ids_, seen_order_>>
    ELSE /\ seen_ids_' = seen_ids_ \cup {id}
         /\ seen_order_' = Append(seen_order_, id)

\* Popping the deque without erasing the id from the set.
remember_id_KeepsInSet(id) ==
    /\ seen_ids_' = seen_ids_ \cup {id}
    /\ seen_order_' = LET order == Append(seen_order_, id)
                      IN  IF Len(order) > kMaxSeenIds THEN Tail(order) ELSE order

remember_id(id) ==
    LET ids   == seen_ids_ \cup {id}
        order == Append(seen_order_, id)
    IN  IF Len(order) > kMaxSeenIds
        THEN /\ seen_ids_' = ids \ {Head(order)}
             /\ seen_order_' = Tail(order)
        ELSE /\ seen_ids_' = ids
             /\ seen_order_' = order

\* Nothing counts as seen: the lookup is gone.
AlreadySeen_Never(m) == FALSE

AlreadySeen(m) == m # NoId /\ m \in seen_ids_

\* The early return: the message was delivered before, by either transport.
DropDuplicate(t, m) ==
    /\ dispatch_mu_ = NoThread
    /\ AlreadySeen(m)
    /\ UNCHANGED dispatchVars

\* Id 0 is remembered like any other.
BeginDelivery_RemembersZero(t, m) ==
    /\ dispatch_mu_ = NoThread
    /\ ~AlreadySeen(m)
    /\ dispatch_mu_' = t
    /\ emitting' = m
    /\ remember_id(m)
    /\ delivered' = Append(delivered, m)
    /\ UNCHANGED live_ended

\* Take the mutex, remember the id and enter the callbacks.
BeginDelivery(t, m) ==
    /\ dispatch_mu_ = NoThread
    /\ ~AlreadySeen(m)
    /\ dispatch_mu_' = t
    /\ emitting' = m
    /\ IF m = NoId
       THEN UNCHANGED <<seen_ids_, seen_order_, delivered>>
       ELSE /\ remember_id(m)
            /\ delivered' = Append(delivered, m)
    /\ UNCHANGED live_ended

\* The callbacks returned: note a LiveEnd, then release the mutex.
EndDelivery(t) ==
    /\ dispatch_mu_ = t
    /\ dispatch_mu_' = NoThread
    /\ emitting' = NoId
    /\ live_ended' = (live_ended \/ emitting \in EndMessages)
    /\ UNCHANGED <<seen_ids_, seen_order_, delivered>>

\* A callback threw: the lock_guard releases the mutex, the id stays
\* remembered and a LiveEnd goes unnoticed.
AbortDelivery(t) ==
    /\ dispatch_mu_ = t
    /\ dispatch_mu_' = NoThread
    /\ emitting' = NoId
    /\ UNCHANGED <<seen_ids_, seen_order_, live_ended, delivered>>

\* run() starts over: the LIVE that ended is forgotten, the window is not.
ForgetLiveEnd ==
    /\ live_ended' = FALSE
    /\ UNCHANGED <<dispatch_mu_, emitting, seen_ids_, seen_order_, delivered>>

-----------------------------------------------------------------------------
(* The component on its own: any thread may bring any message, any number  *)
(* of times, in any order.                                                 *)

DispatchNext ==
    \/ \E t \in Threads :
           \/ \E m \in BaseProtoMessage : DropDuplicate(t, m)
           \/ \E m \in BaseProtoMessage : BeginDelivery(t, m)
           \/ EndDelivery(t)
           \/ AbortDelivery(t)
    \/ ForgetLiveEnd

DispatchSpec == DispatchInit /\ [][DispatchNext]_dispatchVars

-----------------------------------------------------------------------------

\* Every variable has its type.
DispatchTypeOK ==
    /\ dispatch_mu_ \in Threads \cup {NoThread}
    /\ emitting \in BaseProtoMessage
    /\ seen_ids_ \subseteq Messages
    /\ seen_order_ \in Seq(Messages)
    /\ live_ended \in BOOLEAN
    /\ delivered \in Seq(Messages)

\* The deque holds no id twice, so that popping its front is the only way an
\* id leaves the window.
OrderDistinct ==
    \A i, j \in 1..Len(seen_order_) : seen_order_[i] = seen_order_[j] => i = j

\* remember_id() keeps the set and the deque in step: an id is looked up
\* exactly while it is in the deque, and neither outgrows its capacity.
SeenInStep ==
    /\ seen_ids_ = {seen_order_[i] : i \in 1..Len(seen_order_)}
    /\ OrderDistinct
    /\ Len(seen_order_) <= kMaxSeenIds

\* The window is the most recent deliveries, as many as fit.
WindowIsRecent ==
    /\ Len(seen_order_) = IF Len(delivered) < kMaxSeenIds
                          THEN Len(delivered) ELSE kMaxSeenIds
    /\ \A i \in 1..Len(seen_order_) :
           seen_order_[i] = delivered[Len(delivered) - Len(seen_order_) + i]

\* dispatch_message() delivers no id twice within any kMaxSeenIds + 1
\* deliveries in a row, whichever threads bring it and however their calls
\* interleave: the de-duplication the two transports of dual mode rely on.
NoRepeatInWindow ==
    \A i, j \in 1..Len(delivered) :
        i < j /\ delivered[i] = delivered[j] => j - i > kMaxSeenIds
=============================================================================
