----------------------------- MODULE EventStream -----------------------------
(***************************************************************************)
(* What TikTokLiveClient promises the callbacks an application registers,  *)
(* whatever the transports: a session opens with one Connect, delivers     *)
(* messages, each at most once over the life of the client, and closes     *)
(* with one Disconnect.  A session that run() leaves by an exception, or   *)
(* that takes the process down, is aborted: it gets no Disconnect.         *)
(***************************************************************************)
EXTENDS Naturals, Sequences

CONSTANT Messages  \* the server messages with an id of their own

VARIABLES
    session,   \* "none", "open", "closed" or "aborted"
    delivered  \* the messages given to the callbacks, in order

streamVars == <<session, delivered>>

StreamInit ==
    /\ session = "none"
    /\ delivered = <<>>

Connect ==
    /\ session # "open"
    /\ session' = "open"
    /\ UNCHANGED delivered

Deliver(m) ==
    /\ session = "open"
    /\ \A i \in 1..Len(delivered) : delivered[i] # m
    /\ delivered' = Append(delivered, m)
    /\ UNCHANGED session

Disconnect ==
    /\ session = "open"
    /\ session' = "closed"
    /\ UNCHANGED delivered

Abort ==
    /\ session = "open"
    /\ session' = "aborted"
    /\ UNCHANGED delivered

StreamNext ==
    \/ Connect
    \/ \E m \in Messages : Deliver(m)
    \/ Disconnect
    \/ Abort

StreamSpec == StreamInit /\ [][StreamNext]_streamVars
=============================================================================
