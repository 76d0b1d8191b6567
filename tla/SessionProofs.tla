--------------------------- MODULE SessionProofs ---------------------------
(***************************************************************************)
(* LiveSession for any options, any messages and any number of runs.       *)
(*                                                                         *)
(* First its control: while the poll thread exists, run() is in its        *)
(* WebSocket loop or in the join (PollerPhase), and whoever is inside a    *)
(* locked section holds the mutex of it (NetOwned, DispatchOwned).  From   *)
(* that, the serialisation of network and callbacks.                       *)
(***************************************************************************)
EXTENDS LiveSession, DispatchProofs, WellFoundedInduction

Labels == MainLabels \cup {"off", "exited", "clear_running", "close_ws", "gift_list"}

FetchingLabels == {"initial_fetching", "ws_signing", "ws_refetching", "poll_fetching"}

DispatchLabels == {"backlog", "ws_frame", "poll_batch"}

\* Where run() can be while its poll thread exists.
SharedLabels ==
    {"ws_top", "ws_sign", "ws_signing", "ws_handshake", "ws_loop", "ws_receive", "ws_frame",
     "ws_close", "ws_retry", "ws_backoff", "ws_refetch", "ws_refetching", "ws_left", "join"}

\* The part of TypeOK that is about pc.
PcTypes ==
    /\ pc \in [Actors -> Labels]
    /\ pc[Main] \in MainLabels
    /\ pc[Poller] \in PollLabels \cup {"off", "exited", "crashed"}
    /\ pc[User] \in {"idle", "clear_running", "close_ws", "gift_list", "crashed"}

\* The poll thread exists in dual mode only, from the start of the transports
\* to the join; and it does not crash alone.
PollerPhase ==
    /\ pc[Poller] \in PollLabels \cup {"exited"} => Dual /\ pc[Main] \in SharedLabels
    /\ pc[Poller] = "crashed" => pc[Main] = "crashed"

\* A thread inside a locked network operation holds net_mu_.
NetOwned == \A t \in Threads : pc[t] \in FetchingLabels => net_mu_ = t

\* The thread that holds dispatch_mu_ is at a message of its batch.
DispatchOwned ==
    \A t \in Threads :
        dispatch_mu_ = t => pc[t] \in DispatchLabels /\ batch[t] # {}

ControlInv ==
    /\ PcTypes
    /\ PollerPhase
    /\ NetOwned
    /\ DispatchOwned

-----------------------------------------------------------------------------

\* The actors are three, and none of them is NoThread but for User.
LEMMA ThreeActors ==
    /\ Threads = {Main, Poller} /\ Actors = {Main, Poller, User}
    /\ Main # Poller /\ Main # User /\ Poller # User
    /\ NoThread # Main /\ NoThread # Poller
  BY SessionAssumption, DispatchAssumption DEF Actors

\* What Goto() does to pc.
LEMMA GotoMoves ==
    ASSUME PcTypes, NEW a \in Actors, NEW label \in Labels, Goto(a, label)
    PROVE  /\ pc' \in [Actors -> Labels]
           /\ pc'[a] = label
           /\ \A b \in Actors \ {a} : pc'[b] = pc[b]
  BY DEF PcTypes, Goto

\* run() moves on, in its own thread: what has to hold of where it goes.
LEMMA MainMoves ==
    ASSUME ControlInv, NEW label \in MainLabels, Goto(Main, label),
           UNCHANGED options,
           pc[Main] # "crashed",
           label \in SharedLabels \/ pc[Poller] = "off",
           label \in FetchingLabels => net_mu_' = Main,
           pc[Poller] \in FetchingLabels => net_mu_' = net_mu_,
           dispatch_mu_' = Main => label \in DispatchLabels /\ batch'[Main] # {},
           dispatch_mu_' = Poller => dispatch_mu_ = Poller /\ batch'[Poller] = batch[Poller]
    PROVE  ControlInv'
  <1>1. label \in Labels /\ Main \in Actors
    BY ThreeActors DEF Labels
  <1>2. /\ pc' \in [Actors -> Labels]
        /\ pc'[Main] = label /\ pc'[Poller] = pc[Poller] /\ pc'[User] = pc[User]
    BY <1>1, GotoMoves, ThreeActors DEF ControlInv
  <1>3. PcTypes'
    BY <1>2 DEF ControlInv, PcTypes
  <1>4. PollerPhase'
    BY <1>2 DEF ControlInv, PollerPhase, Dual, PollLabels
  <1>5. NetOwned'
    BY <1>2, ThreeActors DEF ControlInv, NetOwned
  <1>6. DispatchOwned'
    BY <1>2, ThreeActors DEF ControlInv, DispatchOwned
  <1> QED
    BY <1>3, <1>4, <1>5, <1>6 DEF ControlInv

\* The poll thread moves on, in its loop or out of it.
LEMMA PollerMoves ==
    ASSUME ControlInv, NEW label \in PollLabels \cup {"exited"}, Goto(Poller, label),
           UNCHANGED options,
           pc[Poller] \in PollLabels,
           label \in FetchingLabels => net_mu_' = Poller,
           pc[Main] \in FetchingLabels => net_mu_' = net_mu_,
           dispatch_mu_' = Poller => label \in DispatchLabels /\ batch'[Poller] # {},
           dispatch_mu_' = Main => dispatch_mu_ = Main /\ batch'[Main] = batch[Main]
    PROVE  ControlInv'
  <1>1. label \in Labels /\ Poller \in Actors
    BY ThreeActors DEF Labels, MainLabels
  <1>2. /\ pc' \in [Actors -> Labels]
        /\ pc'[Main] = pc[Main] /\ pc'[Poller] = label /\ pc'[User] = pc[User]
    BY <1>1, GotoMoves, ThreeActors DEF ControlInv
  <1>3. PcTypes'
    BY <1>2 DEF ControlInv, PcTypes
  <1>4. PollerPhase'
    BY <1>2 DEF ControlInv, PollerPhase, Dual, PollLabels
  <1>5. NetOwned'
    BY <1>2, ThreeActors DEF ControlInv, NetOwned
  <1>6. DispatchOwned'
    BY <1>2, ThreeActors DEF ControlInv, DispatchOwned
  <1> QED
    BY <1>3, <1>4, <1>5, <1>6 DEF ControlInv

\* Nothing that ControlInv speaks of changes, except perhaps where User is.
LEMMA ThreadsStay ==
    ASSUME ControlInv, UNCHANGED <<options, net_mu_, dispatch_mu_, batch>>,
           UNCHANGED pc \/ \E label \in {"idle", "clear_running", "close_ws", "gift_list"} :
                               Goto(User, label)
    PROVE  ControlInv'
  <1>1. /\ pc' \in [Actors -> Labels]
        /\ pc'[Main] = pc[Main] /\ pc'[Poller] = pc[Poller]
        /\ pc'[User] \in {"idle", "clear_running", "close_ws", "gift_list", "crashed"}
    <2>1. CASE UNCHANGED pc
      BY <2>1 DEF ControlInv, PcTypes
    <2>2. ASSUME NEW label \in {"idle", "clear_running", "close_ws", "gift_list"},
                 Goto(User, label)
          PROVE  <1>1!:
      <3>1. label \in Labels /\ User \in Actors
        BY ThreeActors DEF Labels, MainLabels
      <3> QED
        BY <2>2, <3>1, GotoMoves, ThreeActors DEF ControlInv
    <2> QED
      BY <2>1, <2>2
  <1> QED
    BY <1>1, ThreeActors DEF ControlInv, PcTypes, PollerPhase, Dual, NetOwned, DispatchOwned

\* The process is gone, and nobody holds dispatch_mu_.
LEMMA CrashStops ==
    ASSUME ControlInv, Crash, dispatch_mu_' = NoThread
    PROVE  ControlInv'
  <1>1. \A a \in Actors : pc'[a] = "crashed"
    BY DEF Crash
  <1>2. pc' \in [Actors -> Labels]
    BY DEF Crash, Labels, MainLabels
  <1> QED
    BY <1>1, <1>2, ThreeActors
       DEF ControlInv, PcTypes, PollerPhase, NetOwned, DispatchOwned, PollLabels,
           FetchingLabels, MainLabels

\* Outside its loops and the join, run() is alone.
LEMMA PollerOff ==
    ASSUME ControlInv, pc[Main] # "crashed", pc[Main] \notin SharedLabels \/ ~Dual
    PROVE  pc[Poller] = "off"
  BY DEF ControlInv, PcTypes, PollerPhase

\* A step of run() that takes no mutex, holds none, and dispatches nothing.
LEMMA PlainMove ==
    ASSUME ControlInv, NEW label \in MainLabels \ FetchingLabels, Goto(Main, label),
           UNCHANGED <<options, net_mu_, dispatch_mu_, batch>>,
           pc[Main] # "crashed",
           pc[Main] \in DispatchLabels => batch[Main] = {},
           label \in SharedLabels \/ pc[Main] \notin SharedLabels \/ ~Dual
    PROVE  ControlInv'
  <1>1. label \in SharedLabels \/ pc[Poller] = "off"
    BY PollerOff
  <1>2. dispatch_mu_ # Main
    BY ThreeActors DEF ControlInv, DispatchOwned
  <1> QED
    BY <1>1, <1>2, MainMoves

\* A step of run() that ends a locked network operation.
LEMMA NetReleased ==
    ASSUME ControlInv, NEW label \in MainLabels \ FetchingLabels, Goto(Main, label),
           UNCHANGED <<options, dispatch_mu_>>,
           pc[Main] \in FetchingLabels, net_mu_' = NoThread,
           batch'[Poller] = batch[Poller],
           label \in SharedLabels \/ pc[Main] \notin SharedLabels \/ ~Dual
    PROVE  ControlInv'
  <1>1. pc[Main] # "crashed" /\ pc[Main] \notin DispatchLabels
    BY DEF FetchingLabels, DispatchLabels
  <1>2. label \in SharedLabels \/ pc[Poller] = "off"
    BY <1>1, PollerOff
  <1>3. dispatch_mu_ # Main
    BY <1>1, ThreeActors DEF ControlInv, DispatchOwned
  <1>4. pc[Poller] \notin FetchingLabels
    BY ThreeActors DEF ControlInv, NetOwned
  <1> QED
    BY <1>1, <1>2, <1>3, <1>4, MainMoves

-----------------------------------------------------------------------------

LEMMA ControlSetup ==
    ASSUME ControlInv, TypeOK,
           \/ BeginRun \/ BeginStopRequested \/ BeginLiveEnded
           \/ WarmUp \/ ResolveRoomFromHtml \/ ResolveRoomFromApi \/ LiveCheck \/ RoomInfo
           \/ InitialFetched \/ InitialFetchThrows \/ ConnectEmitted
           \/ Teardown \/ DisconnectEmitted
    PROVE  ControlInv'
  <1> USE DEF dispatchVars, flagVars, fetchVars, wsVars, boundVars,
              MainLabels, SetupLabels, PollLabels, FetchingLabels, DispatchLabels,
              SharedLabels
  <1>1. CASE BeginRun
    BY <1>1, PlainMove DEF BeginRun
  <1>2. CASE BeginStopRequested
    BY <1>2, PlainMove DEF BeginStopRequested
  <1>3. CASE BeginLiveEnded
    BY <1>3, PlainMove DEF BeginLiveEnded, ForgetLiveEnd
  <1>4. ASSUME NEW from \in SetupLabels \cup {"connect_callback", "disconnect_callback"},
               NEW to \in SetupLabels \cup {"initial_fetch", "backlog", "idle"},
               SetupStep(from, to)
        PROVE  ControlInv'
    BY <1>4, PlainMove DEF SetupStep
  <1>5. ASSUME NEW from \in SetupLabels \cup {"connect_callback"}, SetupThrows(from)
        PROVE  ControlInv'
    BY <1>5, PlainMove DEF SetupThrows, RunThrows
  <1>6. CASE WarmUp
    BY <1>6, <1>4 DEF WarmUp
  <1>7. CASE ResolveRoomFromHtml
    BY <1>7, <1>4 DEF ResolveRoomFromHtml
  <1>8. CASE ResolveRoomFromApi
    BY <1>8, <1>4, <1>5 DEF ResolveRoomFromApi
  <1>9. CASE LiveCheck
    BY <1>9, <1>4, <1>5 DEF LiveCheck
  <1>10. CASE RoomInfo
    BY <1>10, <1>4 DEF RoomInfo
  <1>11. CASE ConnectEmitted
    BY <1>11, <1>4, <1>5 DEF ConnectEmitted
  <1>12. CASE DisconnectEmitted
    BY <1>12, <1>4 DEF DisconnectEmitted
  <1>13. CASE InitialFetched
    <2>1. batch'[Poller] = batch[Poller]
      BY <1>13, ThreeActors DEF InitialFetched, TypeOK
    <2> QED
      BY <1>13, <2>1, NetReleased DEF InitialFetched
  <1>14. CASE InitialFetchThrows
    BY <1>14, NetReleased DEF InitialFetchThrows, RunThrows
  <1>15. CASE Teardown
    BY <1>15, PlainMove DEF Teardown
  <1> QED
    BY <1>1, <1>2, <1>3, <1>6, <1>7, <1>8, <1>9, <1>10, <1>11, <1>12, <1>13, <1>14, <1>15

LEMMA ControlWebSocket ==
    ASSUME ControlInv, TypeOK,
           \/ WsTop \/ WsSign \/ WsSigned \/ WsConnected \/ HandshakeFailed
           \/ WsLoopEnds \/ WsReceive \/ WsFrame \/ WsAgain \/ WsDropped \/ WsFrameDone
           \/ WsClose \/ WsRetry \/ WsBackoff \/ WsRefetched \/ WsRefetchFails \/ WakePoller
    PROVE  ControlInv'
  <1> USE DEF dispatchVars, flagVars, fetchVars, wsVars, boundVars,
              MainLabels, PollLabels, FetchingLabels, DispatchLabels, SharedLabels
  <1>1. ASSUME NEW from \in SharedLabels \ (DispatchLabels \cup FetchingLabels),
               pc[Main] = from, LeaveWebSocket,
               UNCHANGED <<options, net_mu_, dispatch_mu_, batch>>
        PROVE  ControlInv'
    BY <1>1, PlainMove DEF LeaveWebSocket
  <1>2. ASSUME NEW from \in {"ws_top", "ws_retry", "ws_backoff"}, NEW condition,
               NEW to \in {"ws_sign", "ws_backoff", "ws_refetch"},
               WsLoopStep(from, condition, to)
        PROVE  ControlInv'
    BY <1>1, <1>2, PlainMove DEF WsLoopStep
  <1>3. CASE WsTop
    BY <1>3, <1>2 DEF WsTop
  <1>4. CASE WsRetry
    BY <1>4, <1>2 DEF WsRetry
  <1>5. CASE WsBackoff
    BY <1>5, <1>2 DEF WsBackoff
  <1>6. CASE WsSign
    <2>1. pc[Poller] \notin FetchingLabels
      BY <1>6, ThreeActors DEF WsSign, ControlInv, NetOwned
    <2>2. dispatch_mu_ # Main
      BY <1>6, ThreeActors DEF WsSign, ControlInv, DispatchOwned
    <2> QED
      BY <1>6, <2>1, <2>2, MainMoves DEF WsSign
  <1>7. CASE WsSigned
    BY <1>7, NetReleased DEF WsSigned
  <1>8. CASE WsConnected
    BY <1>8, PlainMove DEF WsConnected
  <1>9. CASE HandshakeFailed
    <2>1. GivesUp => ~Dual
      BY DEF GivesUp, allow_fallback, Dual
    <2>2. PICK label \in {"poll_top", "ws_retry"} :
              Goto(Main, label) /\ (label \in SharedLabels \/ ~Dual)
      BY <1>9, <2>1 DEF HandshakeFailed
    <2>3. CASE pc[Main] = "ws_signing"
      <3>1. net_mu_ = Main
        BY <2>3, ThreeActors DEF ControlInv, NetOwned
      <3> QED
        BY <1>9, <2>2, <2>3, <3>1, NetReleased DEF HandshakeFailed
    <2>4. CASE pc[Main] = "ws_handshake"
      <3>1. CASE net_mu_ = Main
        <4>1. pc[Poller] \notin FetchingLabels
          BY <3>1, ThreeActors DEF ControlInv, NetOwned
        <4>2. dispatch_mu_ # Main
          BY <2>4, ThreeActors DEF ControlInv, DispatchOwned
        <4>3. label \in SharedLabels \/ pc[Poller] = "off"
          BY <2>2, <2>4, PollerOff
        <4> QED
          BY <1>9, <2>2, <2>4, <4>1, <4>2, <4>3, MainMoves DEF HandshakeFailed
      <3>2. CASE net_mu_ # Main
        BY <1>9, <2>2, <2>4, <3>2, PlainMove DEF HandshakeFailed
      <3> QED
        BY <3>1, <3>2
    <2> QED
      BY <1>9, <2>3, <2>4 DEF HandshakeFailed
  <1>10. CASE WsLoopEnds
    BY <1>10, PlainMove DEF WsLoopEnds
  <1>11. CASE WsFrame
    <2>1. batch'[Poller] = batch[Poller]
      BY <1>11, ThreeActors DEF WsFrame, TypeOK
    <2>2. dispatch_mu_ # Main
      BY <1>11, ThreeActors DEF WsFrame, ControlInv, DispatchOwned
    <2> QED
      BY <1>11, <2>1, <2>2, MainMoves DEF WsFrame
  <1>12. CASE WsAgain
    BY <1>12, PlainMove DEF WsAgain, WsTurnEnds
  <1>13. CASE WsDropped
    BY <1>13, PlainMove DEF WsDropped
  <1>14. CASE WsFrameDone
    BY <1>14, PlainMove DEF WsFrameDone, WsTurnEnds
  <1>15. CASE WsReceive
    BY <1>15, PlainMove DEF WsReceive
  <1>16. CASE WsClose
    <2>1. CASE stop_requested \/ live_ended
      BY <1>16, <2>1, <1>1 DEF WsClose
    <2>2. CASE ~(stop_requested \/ live_ended)
      BY <1>16, <2>2, PlainMove DEF WsClose
    <2> QED
      BY <2>1, <2>2
  <1>17. CASE WsRefetched
    BY <1>17, NetReleased DEF WsRefetched
  <1>18. CASE WsRefetchFails
    BY <1>18, NetReleased DEF WsRefetchFails
  <1>19. CASE WakePoller
    BY <1>19, PlainMove DEF WakePoller
  <1> QED
    BY <1>3, <1>4, <1>5, <1>6, <1>7, <1>8, <1>9, <1>10, <1>11, <1>12, <1>13, <1>14,
       <1>15, <1>16, <1>17, <1>18, <1>19

\* dispatch_message() by either thread: it moves nobody, unless it throws.
LEMMA ControlDispatch ==
    ASSUME ControlInv, TypeOK, NEW t \in Threads,
           \/ DispatchDuplicate(t) \/ DispatchNew(t)
           \/ DispatchReturns(t) \/ DispatchThrows(t)
    PROVE  ControlInv'
  <1> USE DEF dispatchVars, flagVars, fetchVars, wsVars, boundVars
  <1>1. ASSUME UNCHANGED <<pc, options, net_mu_>>,
               DispatchOwned'
        PROVE  ControlInv'
    BY <1>1 DEF ControlInv, PcTypes, PollerPhase, Dual, NetOwned
  <1>2. CASE DispatchDuplicate(t)
    BY <1>1, <1>2, ThreeActors DEF DispatchDuplicate, DropDuplicate, DispatchOwned
  <1>3. CASE DispatchNew(t)
    BY <1>1, <1>3 DEF DispatchNew, BeginDelivery, Dispatching, DispatchOwned, DispatchLabels
  <1>4. CASE DispatchReturns(t)
    BY <1>1, <1>4, ThreeActors DEF DispatchReturns, EndDelivery, DispatchOwned
  <1>5. CASE DispatchThrows(t)
    <2>1. /\ dispatch_mu_ = t /\ dispatch_mu_' = NoThread
          /\ UNCHANGED <<options, net_mu_>>
      BY <1>5 DEF DispatchThrows, AbortDelivery
    <2>2. pc[t] \in DispatchLabels
      BY <2>1 DEF ControlInv, DispatchOwned
    <2>3. CASE pc[Poller] = "off"
      <3>1. t = Main
        BY <2>2, <2>3, ThreeActors DEF DispatchLabels
      <3>2. Goto(Main, "idle")
        BY <1>5, <2>3 DEF DispatchThrows, RunThrows
      <3> QED
        BY <2>1, <2>2, <2>3, <3>1, <3>2, MainMoves, ThreeActors
           DEF MainLabels, FetchingLabels, DispatchLabels
    <2>4. CASE pc[Poller] # "off"
      BY <1>5, <2>1, <2>4, CrashStops DEF DispatchThrows
    <2> QED
      BY <2>3, <2>4
  <1> QED
    BY <1>2, <1>3, <1>4, <1>5

\* fetch_once() and poll_loop() by either thread.
LEMMA ControlPolling ==
    ASSUME ControlInv, TypeOK, NEW t \in Threads,
           \/ BeginFetch(t)
           \/ PollTop(t) \/ Polled(t) \/ PollFails(t) \/ PollBatchDone(t)
    PROVE  ControlInv'
  <1> USE DEF dispatchVars, flagVars, fetchVars, wsVars, boundVars,
              MainLabels, PollLabels, FetchingLabels, DispatchLabels, SharedLabels
  <1>1. CASE BeginFetch(t)
    <2>1. /\ net_mu_ = NoThread /\ net_mu_' = t
          /\ UNCHANGED <<options, dispatch_mu_, batch>>
      BY <1>1 DEF BeginFetch
    <2>2. pc[Main] \notin FetchingLabels /\ pc[Poller] \notin FetchingLabels
      BY <2>1, ThreeActors DEF ControlInv, NetOwned
    <2>3. pc[t] \in {"initial_fetch", "ws_refetch", "poll_wait"}
      BY <1>1 DEF BeginFetch, FetchingFrom
    <2>4. dispatch_mu_ # t
      BY <2>3, ThreeActors DEF ControlInv, DispatchOwned
    <2>5. Goto(t, FetchingFrom[pc[t]])
      BY <1>1 DEF BeginFetch
    <2>6. /\ pc[t] = "initial_fetch" => FetchingFrom[pc[t]] = "initial_fetching"
          /\ pc[t] = "ws_refetch" => FetchingFrom[pc[t]] = "ws_refetching"
          /\ pc[t] = "poll_wait" => FetchingFrom[pc[t]] = "poll_fetching"
      BY DEF FetchingFrom
    <2>7. CASE t = Main
      <3>1. FetchingFrom[pc[t]] \in SharedLabels \/ pc[Poller] = "off"
        BY <2>3, <2>6, <2>7, PollerOff
      <3> QED
        BY <2>1, <2>2, <2>3, <2>4, <2>5, <2>6, <2>7, <3>1, MainMoves, ThreeActors
    <2>8. CASE t = Poller
      <3>1. pc[t] = "poll_wait"
        BY <2>3, <2>8 DEF ControlInv, PcTypes
      <3> QED
        BY <2>1, <2>2, <2>4, <2>5, <2>6, <2>8, <3>1, PollerMoves, ThreeActors
    <2> QED
      BY <2>7, <2>8, ThreeActors
  <1>2. CASE PollTop(t)
    <2>1. CASE t = Main
      BY <1>2, <2>1, PlainMove, ThreeActors DEF PollTop
    <2>2. CASE t = Poller
      <3>1. dispatch_mu_ # Poller
        BY <1>2, <2>2, ThreeActors DEF PollTop, ControlInv, DispatchOwned
      <3> QED
        BY <1>2, <2>2, <3>1, PollerMoves, ThreeActors DEF PollTop
    <2> QED
      BY <2>1, <2>2, ThreeActors
  <1>3. CASE Polled(t) \/ PollFails(t)
    <2>1. /\ pc[t] = "poll_fetching" /\ net_mu_' = NoThread
          /\ UNCHANGED <<options, dispatch_mu_>>
          /\ Goto(t, "poll_batch") \/ Goto(t, "poll_top")
      BY <1>3 DEF Polled, PollFails
    <2>2. \A u \in Threads \ {t} : batch'[u] = batch[u]
      BY <1>3 DEF Polled, PollFails, TypeOK
    <2>3. CASE t = Main
      BY <2>1, <2>2, <2>3, NetReleased, ThreeActors
    <2>4. CASE t = Poller
      <3>1. dispatch_mu_ # Poller /\ pc[Main] \notin FetchingLabels
        BY <2>1, <2>4, ThreeActors DEF ControlInv, DispatchOwned, NetOwned
      <3> QED
        BY <2>1, <2>2, <2>4, <3>1, PollerMoves, ThreeActors
    <2> QED
      BY <2>3, <2>4, ThreeActors
  <1>4. CASE PollBatchDone(t)
    <2>1. CASE t = Main
      BY <1>4, <2>1, PlainMove, ThreeActors DEF PollBatchDone
    <2>2. CASE t = Poller
      <3>1. dispatch_mu_ # Poller
        BY <1>4, <2>2, ThreeActors DEF PollBatchDone, ControlInv, DispatchOwned
      <3> QED
        BY <1>4, <2>2, <3>1, PollerMoves, ThreeActors DEF PollBatchDone
    <2> QED
      BY <2>1, <2>2, ThreeActors
  <1> QED
    BY <1>1, <1>2, <1>3, <1>4

\* The two steps that create and end the poll thread.
LEMMA ControlPollThread ==
    ASSUME ControlInv, StartTransport \/ Join
    PROVE  ControlInv'
  <1> USE DEF dispatchVars, flagVars, fetchVars, wsVars, boundVars
  <1>1. /\ UNCHANGED <<options, net_mu_, dispatch_mu_, batch>>
        /\ pc' \in [Actors -> Labels]
        /\ pc'[User] = pc[User]
    BY ThreeActors
       DEF StartTransport, Join, ControlInv, PcTypes, Labels, MainLabels, PollLabels
  <1>2. dispatch_mu_ # Main
    BY ThreeActors DEF StartTransport, Join, ControlInv, DispatchOwned, DispatchLabels
  <1>3. dispatch_mu_ # Poller
    <2>1. CASE StartTransport
      <3>1. pc[Poller] = "off"
        BY <2>1, PollerOff DEF StartTransport, SharedLabels
      <3> QED
        BY <3>1, ThreeActors DEF ControlInv, DispatchOwned, DispatchLabels
    <2>2. CASE Join
      BY <2>2, ThreeActors DEF Join, ControlInv, DispatchOwned, DispatchLabels
    <2> QED
      BY <2>1, <2>2
  <1>4. CASE StartTransport
    <2>1. /\ pc'[Main] \in {"ws_top", "poll_top"}
          /\ pc'[Poller] \in {"poll_top", "off"}
          /\ pc'[Poller] = "poll_top" => Dual /\ pc'[Main] = "ws_top"
      BY <1>4, ThreeActors DEF StartTransport, ControlInv, PcTypes, Dual
    <2> QED
      BY <1>1, <1>2, <1>3, <2>1, ThreeActors
         DEF ControlInv, PcTypes, PollerPhase, Dual, NetOwned, DispatchOwned, MainLabels,
             PollLabels, FetchingLabels, SharedLabels
  <1>5. CASE Join
    <2>1. pc'[Main] = "teardown" /\ pc'[Poller] = "off"
      BY <1>5, ThreeActors DEF Join, ControlInv, PcTypes
    <2> QED
      BY <1>1, <1>2, <1>3, <2>1, ThreeActors
         DEF ControlInv, PcTypes, PollerPhase, NetOwned, DispatchOwned, MainLabels,
             PollLabels, FetchingLabels
  <1> QED
    BY <1>4, <1>5

\* The application's other thread, the server, and steps that change nothing.
LEMMA ControlOthers ==
    ASSUME ControlInv,
           \/ DisconnectSetsStop \/ DisconnectStep
           \/ BeginFetchGiftList \/ EndFetchGiftList
           \/ Publish \/ Terminated \/ UNCHANGED vars
    PROVE  ControlInv'
  <1> USE DEF vars, dispatchVars, flagVars, fetchVars, wsVars, boundVars
  <1>1. CASE DisconnectSetsStop \/ DisconnectStep \/ BeginFetchGiftList \/ EndFetchGiftList
    BY <1>1, ThreadsStay
       DEF DisconnectSetsStop, DisconnectStep, DisconnectClearsRunning,
           DisconnectClosesSocket, BeginFetchGiftList, EndFetchGiftList, UserStep
  <1>2. CASE Publish \/ Terminated \/ UNCHANGED vars
    BY <1>2, ThreadsStay DEF Publish, Terminated
  <1> QED
    BY <1>1, <1>2

LEMMA ControlStep == ControlInv /\ TypeOK /\ [Next]_vars => ControlInv'
  <1> SUFFICES ASSUME ControlInv, TypeOK, [Next]_vars
               PROVE  ControlInv'
    OBVIOUS
  <1>1. ASSUME NEW t \in Threads, ThreadStep(t)
        PROVE  ControlInv'
    BY <1>1, ControlDispatch, ControlPolling DEF ThreadStep
  <1>2. CASE RunStep
    BY <1>1, <1>2, ControlSetup, ControlWebSocket, ControlPollThread, ThreeActors DEF RunStep
  <1>3. CASE ThreadStep(Poller)
    BY <1>1, <1>3, ThreeActors
  <1> QED
    BY <1>2, <1>3, ControlSetup, ControlOthers DEF Next

-----------------------------------------------------------------------------
(* The data: what the transports hand over are messages of the server, so  *)
(* that LiveSession only takes steps of Dispatch.                          *)

\* The server has no message that is not a message.
PublishedKnown == published = 0 \/ published \in Messages

\* TypeOK without what Dispatch and the control take care of.
DataTypes ==
    /\ options \in Options
    /\ running \in BOOLEAN /\ stop_requested \in BOOLEAN
    /\ net_mu_ \in Threads \cup {NoThread}
    /\ cursor \in [Threads -> Nat] /\ initial \in Nat
    /\ batch \in [Threads -> SUBSET Messages] /\ batchCursor \in [Threads -> Nat]
    /\ connected \in BOOLEAN /\ ws_ever_connected \in BOOLEAN
    /\ fails \in 0..(kMaxHandshakeFails - 1) /\ wsPos \in Nat
    /\ published \in Nat
    /\ session \in {"none", "open", "closed", "aborted"}
    /\ runs \in 0..MaxRuns /\ disconnects \in 0..MaxDisconnects

LEMMA TypeOKParts == TypeOK <=> DispatchTypeOK /\ PcTypes /\ DataTypes
  BY DEF TypeOK, PcTypes, DataTypes, Labels

\* The first message of a batch is the least of its messages.
LEMMA FirstOfIsMember ==
    ASSUME NEW S, S \subseteq Nat, S # {}
    PROVE  FirstOf(S) \in S /\ \A n \in S : FirstOf(S) <= n
  <1> DEFINE R == {ss \in Nat \X Nat : ss[1] < ss[2]}
  <1>1. IsWellFoundedOn(R, Nat)
    BY NatLessThanWellFounded DEF OpToRel
  <1> HIDE DEF R
  <1>2. PICK x \in S : \A y \in S : ~(<<y, x>> \in R)
    BY <1>1, WFMin
  <1>3. \A y \in S : ~(y < x)
    BY <1>2 DEF R
  <1>4. \A y \in S : x <= y
    BY <1>3
  <1> QED
    BY <1>4 DEF FirstOf

\* Whatever the server has sent up to some point is messages.
LEMMA SentAreMessages ==
    ASSUME PublishedKnown, published \in Nat, NEW from \in Nat, NEW to \in 0..published
    PROVE  (from + 1)..to \subseteq Messages
  <1>1. (from + 1)..to \subseteq 1..published
    OBVIOUS
  <1>2. 1..published \subseteq Messages
    BY SessionAssumption DEF PublishedKnown
  <1> QED
    BY <1>1, <1>2

\* The reply to a fetch: messages, and a cursor.
LEMMA ReplyType ==
    ASSUME PublishedKnown, published \in Nat, NEW c \in Nat, NEW r \in FetchReplies(c)
    PROVE  r.messages \subseteq Messages /\ r.cursor \in Nat
  <1>1. PICK from \in ResumesAt(c) : \E to \in from..published : \E n \in {0, to} :
            r = [messages |-> (from + 1)..to, cursor |-> n]
    BY DEF FetchReplies
  <1>2. from \in Nat
    BY DEF ResumesAt
  <1>3. PICK to \in from..published : \E n \in {0, to} :
            r = [messages |-> (from + 1)..to, cursor |-> n]
    BY <1>1
  <1>4. to \in 0..published
    BY <1>2, <1>3
  <1>5. r.messages = (from + 1)..to /\ r.cursor \in {0, to}
    BY <1>3
  <1>6. (from + 1)..to \subseteq Messages
    BY <1>2, <1>4, SentAreMessages
  <1>7. to \in Nat
    BY <1>4
  <1> QED
    BY <1>5, <1>6, <1>7

\* Every step of the session is one of dispatch_message(), the reset of
\* live_ended, or leaves them alone.
LEMMA SessionStepDispatches == TypeOK /\ [Next]_vars => [DispatchNext]_dispatchVars
  <1> SUFFICES ASSUME TypeOK, [Next]_vars, ~UNCHANGED dispatchVars
               PROVE  DispatchNext
    OBVIOUS
  <1>1. ASSUME NEW t \in Threads, ThreadStep(t)
        PROVE  DispatchNext
    <2>1. CASE DispatchNew(t)
      <3>1. batch[t] \subseteq Messages /\ Messages \subseteq Nat
        BY SessionAssumption DEF TypeOK
      <3>2. FirstOf(batch[t]) \in BaseProtoMessage
        BY <2>1, <3>1, FirstOfIsMember DEF DispatchNew, Dispatching, BaseProtoMessage
      <3> QED
        BY <2>1, <3>2 DEF DispatchNew, DispatchNext
    <2>2. CASE DispatchReturns(t)
      BY <2>2 DEF DispatchReturns, DispatchNext
    <2>3. CASE DispatchThrows(t)
      BY <2>3 DEF DispatchThrows, DispatchNext
    <2>4. CASE DispatchDuplicate(t)
      BY <2>4 DEF DispatchDuplicate, DropDuplicate
    <2> QED
      BY <1>1, <2>1, <2>2, <2>3, <2>4
         DEF ThreadStep, BeginFetch, PollTop, Polled, PollFails, PollBatchDone
  <1>2. CASE RunStep
    <2>1. CASE BeginLiveEnded
      BY <2>1 DEF BeginLiveEnded, DispatchNext
    <2>2. CASE ~BeginLiveEnded
      <3>1. ThreadStep(Main)
        BY <1>2, <2>2
           DEF RunStep, BeginStopRequested, WarmUp, ResolveRoomFromHtml,
               ResolveRoomFromApi, LiveCheck, RoomInfo, SetupStep, SetupThrows,
               InitialFetched, InitialFetchThrows, ConnectEmitted, StartTransport,
               WsTop, WsSign, WsSigned, WsConnected, HandshakeFailed, WsLoopEnds,
               WsReceive, WsFrame, WsAgain, WsDropped, WsFrameDone, WsTurnEnds, WsClose, WsRetry,
               WsBackoff, WsLoopStep, WsRefetched, WsRefetchFails, WakePoller, Join, Teardown,
               DisconnectEmitted
      <3> QED
        BY <1>1, <3>1, ThreeActors
    <2> QED
      BY <2>1, <2>2
  <1>3. CASE ThreadStep(Poller)
    BY <1>1, <1>3, ThreeActors
  <1> QED
    BY <1>2, <1>3
       DEF Next, vars, BeginRun, DisconnectSetsStop, DisconnectStep,
           DisconnectClearsRunning, DisconnectClosesSocket, BeginFetchGiftList,
           EndFetchGiftList, UserStep, Publish, Terminated

\* Types of the data, one transport thread at a time.
LEMMA DataThread ==
    ASSUME TypeOK, PublishedKnown, NEW t \in Threads, ThreadStep(t)
    PROVE  (DataTypes /\ PublishedKnown)'
  <1> USE DEF dispatchVars, flagVars, fetchVars, wsVars, boundVars
  <1>0. DataTypes /\ PublishedKnown
    BY TypeOKParts
  <1>1. ASSUME UNCHANGED <<flagVars, cursor, initial, batchCursor, wsVars, boundVars,
                           net_mu_, published>>,
               batch' \in [Threads -> SUBSET Messages],
               session' \in {session, "aborted"}
        PROVE  (DataTypes /\ PublishedKnown)'
    BY <1>0, <1>1 DEF DataTypes, PublishedKnown
  <1>2. Consume(t) => batch' \in [Threads -> SUBSET Messages]
    BY <1>0 DEF Consume, DataTypes
  <1>3. CASE DispatchDuplicate(t) \/ DispatchReturns(t)
    BY <1>1, <1>2, <1>3 DEF DispatchDuplicate, DispatchReturns
  <1>4. CASE DispatchNew(t)
    BY <1>0, <1>1, <1>4 DEF DispatchNew, DataTypes
  <1>5. CASE DispatchThrows(t)
    <2>1. batch' \in [Threads -> SUBSET Messages]
      BY <1>0, <1>5 DEF DispatchThrows, DataTypes
    <2>2. session' \in {session, "aborted"}
      BY <1>5 DEF DispatchThrows, RunThrows, Crash
    <2> QED
      BY <1>1, <1>5, <2>1, <2>2 DEF DispatchThrows
  <1>6. CASE BeginFetch(t)
    BY <1>0, <1>6 DEF BeginFetch, DataTypes, PublishedKnown
  <1>7. CASE PollTop(t) \/ PollFails(t)
    BY <1>0, <1>7 DEF PollTop, PollFails, DataTypes, PublishedKnown
  <1>8. CASE Polled(t)
    <2>1. PICK r \in FetchReplies(cursor[t]) :
              /\ batch' = [batch EXCEPT ![t] = r.messages]
              /\ batchCursor' = [batchCursor EXCEPT ![t] = r.cursor]
      BY <1>8 DEF Polled
    <2>2. r.messages \subseteq Messages /\ r.cursor \in Nat
      BY <1>0, <2>1, ReplyType DEF DataTypes
    <2>3. /\ batch' \in [Threads -> SUBSET Messages]
          /\ batchCursor' \in [Threads -> Nat]
      BY <1>0, <2>1, <2>2 DEF DataTypes
    <2> QED
      BY <1>0, <1>8, <2>3 DEF Polled, DataTypes, PublishedKnown
  <1>9. CASE PollBatchDone(t)
    <2>1. cursor' \in [Threads -> Nat] /\ batchCursor' \in [Threads -> Nat]
      BY <1>0, <1>9 DEF PollBatchDone, DataTypes
    <2> QED
      BY <1>0, <1>9, <2>1 DEF PollBatchDone, DataTypes, PublishedKnown
  <1> QED
    BY <1>3, <1>4, <1>5, <1>6, <1>7, <1>8, <1>9 DEF ThreadStep

\* Types of the data under the steps of run() up to the transports and after.
LEMMA DataSetup ==
    ASSUME TypeOK, PublishedKnown,
           \/ BeginRun \/ BeginStopRequested \/ BeginLiveEnded
           \/ WarmUp \/ ResolveRoomFromHtml \/ ResolveRoomFromApi \/ LiveCheck \/ RoomInfo
           \/ InitialFetched \/ InitialFetchThrows \/ ConnectEmitted \/ StartTransport
           \/ Join \/ Teardown \/ DisconnectEmitted
    PROVE  (DataTypes /\ PublishedKnown)'
  <1> USE DEF dispatchVars, flagVars, fetchVars, wsVars, boundVars
  <1>0. DataTypes /\ PublishedKnown
    BY TypeOKParts
  <1>1. CASE BeginRun
    <2>1. runs' \in 0..MaxRuns
      BY <1>0, <1>1, SessionAssumption DEF BeginRun, DataTypes
    <2> QED
      BY <1>0, <1>1, <2>1 DEF BeginRun, DataTypes, PublishedKnown
  <1>2. CASE BeginStopRequested \/ BeginLiveEnded \/ Teardown \/ Join
    BY <1>0, <1>2
       DEF BeginStopRequested, BeginLiveEnded, Teardown, Join, DataTypes, PublishedKnown
  <1>3. ASSUME UNCHANGED <<flagVars, fetchVars, wsVars, boundVars, net_mu_, published>>,
               session' \in {session, "aborted"}
        PROVE  (DataTypes /\ PublishedKnown)'
    BY <1>0, <1>3 DEF DataTypes, PublishedKnown
  <1>4. CASE \/ WarmUp \/ ResolveRoomFromHtml \/ ResolveRoomFromApi \/ LiveCheck
             \/ RoomInfo \/ ConnectEmitted \/ DisconnectEmitted
    BY <1>3, <1>4
       DEF WarmUp, ResolveRoomFromHtml, ResolveRoomFromApi, LiveCheck, RoomInfo,
           ConnectEmitted, DisconnectEmitted, SetupStep, SetupThrows, RunThrows
  <1>5. CASE InitialFetchThrows
    BY <1>0, <1>5 DEF InitialFetchThrows, RunThrows, DataTypes, PublishedKnown
  <1>6. CASE InitialFetched
    <2>1. PICK r \in FetchReplies(0) :
              /\ initial' = r.cursor
              /\ batch' = [batch EXCEPT ![Main] =
                               IF options.process_connect_events THEN r.messages ELSE {}]
      BY <1>6 DEF InitialFetched
    <2>2. r.messages \subseteq Messages /\ r.cursor \in Nat
      BY <1>0, <2>1, ReplyType DEF DataTypes
    <2>3. batch' \in [Threads -> SUBSET Messages] /\ initial' \in Nat
      BY <1>0, <2>1, <2>2 DEF DataTypes
    <2> QED
      BY <1>0, <1>6, <2>3 DEF InitialFetched, DataTypes, PublishedKnown
  <1>7. CASE StartTransport
    <2>1. cursor' \in [Threads -> Nat] /\ fails' \in 0..(kMaxHandshakeFails - 1)
      BY <1>0, <1>7, SessionAssumption DEF StartTransport, DataTypes
    <2> QED
      BY <1>0, <1>7, <2>1 DEF StartTransport, DataTypes, PublishedKnown
  <1> QED
    BY <1>1, <1>2, <1>4, <1>5, <1>6, <1>7

\* Types of the data under the steps of the WebSocket loops.
LEMMA DataWebSocket ==
    ASSUME TypeOK, PublishedKnown,
           \/ WsTop \/ WsSign \/ WsSigned \/ WsConnected \/ HandshakeFailed
           \/ WsLoopEnds \/ WsReceive \/ WsFrame \/ WsAgain \/ WsDropped \/ WsFrameDone
           \/ WsClose \/ WsRetry \/ WsBackoff \/ WsRefetched \/ WsRefetchFails \/ WakePoller
    PROVE  (DataTypes /\ PublishedKnown)'
  <1> USE DEF dispatchVars, flagVars, fetchVars, wsVars, boundVars
  <1>0. DataTypes /\ PublishedKnown
    BY TypeOKParts
  <1>1. CASE WsTop \/ WsRetry \/ WsBackoff
    BY <1>0, <1>1 DEF WsTop, WsRetry, WsBackoff, WsLoopStep, DataTypes, PublishedKnown
  <1>2. CASE WakePoller
    BY <1>0, <1>2 DEF WakePoller, DataTypes, PublishedKnown
  <1>4. CASE WsSign \/ WsSigned \/ WsRefetchFails
    BY <1>0, <1>4, ThreeActors
       DEF WsSign, WsSigned, WsRefetchFails, DataTypes, PublishedKnown
  <1>5. CASE WsConnected
    <2>1. wsPos' \in Nat
      BY <1>0, <1>5, ThreeActors DEF WsConnected, ResumesAt, DataTypes
    <2> QED
      BY <1>0, <1>5, <2>1 DEF WsConnected, DataTypes, PublishedKnown
  <1>6. CASE HandshakeFailed
    <2>1. fails' \in 0..(kMaxHandshakeFails - 1)
      BY <1>0, <1>6, SessionAssumption DEF HandshakeFailed, GivesUp, DataTypes
    <2>2. cursor' \in [Threads -> Nat]
      BY <1>0, <1>6 DEF HandshakeFailed, FallbackCursor, DataTypes
    <2>3. net_mu_' \in Threads \cup {NoThread}
      BY <1>0, <1>6 DEF HandshakeFailed, DataTypes
    <2> QED
      BY <1>0, <1>6, <2>1, <2>2, <2>3 DEF HandshakeFailed, DataTypes, PublishedKnown
  <1>7. CASE WsLoopEnds \/ WsReceive \/ WsAgain \/ WsFrameDone \/ WsDropped
    BY <1>0, <1>7
       DEF WsLoopEnds, WsReceive, WsAgain, WsFrameDone, WsTurnEnds, WsDropped, DataTypes,
           PublishedKnown
  <1>8. CASE WsFrame
    <2>1. PICK to \in (wsPos + 1)..published :
              /\ wsPos' = to
              /\ batch' \in {[batch EXCEPT ![Main] = (wsPos + 1)..to], batch}
      BY <1>8 DEF WsFrame
    <2>2. to \in 0..published
      BY <1>0, <2>1 DEF DataTypes
    <2>3. (wsPos + 1)..to \subseteq Messages
      BY <1>0, <2>2, SentAreMessages DEF DataTypes
    <2>4. batch' \in [Threads -> SUBSET Messages] /\ wsPos' \in Nat
      BY <1>0, <2>1, <2>2, <2>3 DEF DataTypes
    <2> QED
      BY <1>0, <1>8, <2>4 DEF WsFrame, DataTypes, PublishedKnown
  <1>9. CASE WsClose
    <2>1. fails' \in 0..(kMaxHandshakeFails - 1)
      BY <1>0, <1>9, SessionAssumption DEF WsClose, DataTypes
    <2> QED
      BY <1>0, <1>9, <2>1 DEF WsClose, DataTypes, PublishedKnown
  <1>10. CASE WsRefetched
    <2>1. PICK r \in FetchReplies(cursor[Main]) :
              cursor' = [cursor EXCEPT ![Main] = r.cursor]
      BY <1>10 DEF WsRefetched
    <2>2. r.cursor \in Nat
      BY <1>0, <2>1, ReplyType, ThreeActors DEF DataTypes
    <2>3. cursor' \in [Threads -> Nat]
      BY <1>0, <2>1, <2>2 DEF DataTypes
    <2> QED
      BY <1>0, <1>10, <2>3 DEF WsRefetched, DataTypes, PublishedKnown
  <1> QED
    BY <1>1, <1>2, <1>4, <1>5, <1>6, <1>7, <1>8, <1>9, <1>10

LEMMA DataStep == TypeOK /\ PublishedKnown /\ [Next]_vars => (DataTypes /\ PublishedKnown)'
  <1> SUFFICES ASSUME TypeOK, PublishedKnown, [Next]_vars
               PROVE  (DataTypes /\ PublishedKnown)'
    OBVIOUS
  <1> USE DEF dispatchVars, flagVars, fetchVars, wsVars, boundVars
  <1>0. DataTypes /\ PublishedKnown
    BY TypeOKParts
  <1>1. CASE RunStep
    BY <1>1, DataThread, DataSetup, DataWebSocket, ThreeActors DEF RunStep
  <1>2. CASE ThreadStep(Poller)
    BY <1>2, DataThread, ThreeActors
  <1>3. CASE BeginRun
    BY <1>3, DataSetup
  <1>4. CASE DisconnectSetsStop
    <2>1. disconnects' \in 0..MaxDisconnects
      BY <1>0, <1>4, SessionAssumption DEF DisconnectSetsStop, DataTypes
    <2> QED
      BY <1>0, <1>4, <2>1 DEF DisconnectSetsStop, UserStep, DataTypes, PublishedKnown
  <1>5. CASE DisconnectStep \/ BeginFetchGiftList \/ EndFetchGiftList
    BY <1>0, <1>5
       DEF DisconnectStep, DisconnectClearsRunning, DisconnectClosesSocket,
           BeginFetchGiftList, EndFetchGiftList, UserStep, DataTypes, PublishedKnown
  <1>6. CASE Publish
    BY <1>0, <1>6 DEF Publish, DataTypes, PublishedKnown
  <1>7. CASE Terminated \/ UNCHANGED vars
    BY <1>0, <1>7 DEF Terminated, vars, DataTypes, PublishedKnown
  <1> QED
    BY <1>1, <1>2, <1>3, <1>4, <1>5, <1>6, <1>7 DEF Next

-----------------------------------------------------------------------------

\* The inductive invariant.
SessionInv ==
    /\ DispatchInv
    /\ TypeOK
    /\ PublishedKnown
    /\ ControlInv

LEMMA SessionInvInit == Init => SessionInv
  <1> SUFFICES ASSUME Init
               PROVE  SessionInv
    OBVIOUS
  <1>1. DispatchInv
    BY DispatchInvInit DEF Init
  <1>2. DataTypes /\ PublishedKnown
    <2>1. /\ 0 \in 0..(kMaxHandshakeFails - 1)
          /\ 0 \in 0..MaxRuns /\ 0 \in 0..MaxDisconnects
      BY SessionAssumption
    <2>2. /\ cursor \in [Threads -> Nat] /\ batchCursor \in [Threads -> Nat]
          /\ batch \in [Threads -> SUBSET Messages]
      BY DEF Init
    <2>3. /\ options \in Options /\ running \in BOOLEAN
          /\ stop_requested \in BOOLEAN /\ net_mu_ \in Threads \cup {NoThread}
          /\ connected \in BOOLEAN /\ ws_ever_connected \in BOOLEAN
          /\ session \in {"none", "open", "closed", "aborted"}
          /\ initial \in Nat /\ wsPos \in Nat /\ published \in Nat
      BY DEF Init
    <2>4. /\ fails \in 0..(kMaxHandshakeFails - 1)
          /\ runs \in 0..MaxRuns /\ disconnects \in 0..MaxDisconnects
      BY <2>1 DEF Init
    <2>5. PublishedKnown
      BY DEF Init, PublishedKnown
    <2> QED
      BY <2>2, <2>3, <2>4, <2>5 DEF DataTypes
  <1>3. /\ pc[Main] = "idle" /\ pc[Poller] = "off" /\ pc[User] = "idle"
        /\ pc \in [Actors -> Labels]
    BY ThreeActors DEF Init, Labels, MainLabels
  <1>4. PcTypes
    BY <1>3 DEF PcTypes, MainLabels
  <1>5. PollerPhase /\ NetOwned
    BY <1>3, ThreeActors DEF PollerPhase, NetOwned, PollLabels, FetchingLabels
  <1>6. DispatchOwned
    BY ThreeActors DEF Init, DispatchInit, DispatchOwned
  <1> QED
    BY <1>1, <1>2, <1>4, <1>5, <1>6, TypeOKParts DEF SessionInv, ControlInv, DispatchInv

LEMMA SessionInvStep == SessionInv /\ [Next]_vars => SessionInv'
  <1> SUFFICES ASSUME SessionInv, [Next]_vars
               PROVE  SessionInv'
    OBVIOUS
  <1>1. DispatchInv'
    BY SessionStepDispatches, DispatchInvStep DEF SessionInv
  <1>2. ControlInv'
    BY ControlStep DEF SessionInv
  <1>3. (DataTypes /\ PublishedKnown)'
    BY DataStep DEF SessionInv
  <1>4. TypeOK'
    BY <1>1, <1>2, <1>3 DEF TypeOK, DispatchInv, ControlInv, PcTypes, DataTypes, Labels
  <1> QED
    BY <1>1, <1>2, <1>3, <1>4 DEF SessionInv

LEMMA SessionInvHolds == Spec => []SessionInv
  BY SessionInvInit, SessionInvStep, PTL DEF Spec

\* Type correctness of the whole session.
THEOREM SessionTypeCorrect == Spec => []TypeOK
  <1>1. SessionInv => TypeOK
    BY DEF SessionInv
  <1> QED
    BY <1>1, SessionInvHolds, PTL

\* The session is a use of dispatch_message(): whatever the transports, the
\* server and the application do, Dispatch sees messages of the server, one
\* thread at a time.
THEOREM SessionImplementsDispatch == Spec => DispatchSpec
  <1>1. Init => DispatchInit
    BY DEF Init
  <1>2. SessionInv /\ [Next]_vars => [DispatchNext]_dispatchVars
    BY SessionStepDispatches DEF SessionInv
  <1> QED
    BY <1>1, <1>2, SessionInvHolds, PTL DEF Spec, DispatchSpec

\* Over any number of runs, no message reaches the callbacks twice within
\* kMaxSeenIds deliveries, whichever of socket, poll loop and backlog bring it.
THEOREM SessionDeliversOncePerWindow == Spec => []NoRepeatInWindow
  BY SessionImplementsDispatch, DeliveredOncePerWindow, PTL

\* run() and its poll thread are never in the HTTP handle or the signer at
\* once, though the setup steps take no lock.
THEOREM NetStaysSerialized == Spec => []NetSerialized
  <1>1. SessionInv => NetSerialized
    <2> SUFFICES ASSUME SessionInv, UsesNet(Main), UsesNet(Poller)
                 PROVE  FALSE
      BY ThreeActors DEF NetSerialized
    <2>1. ControlInv
      BY DEF SessionInv
    <2>2. pc[Poller] = "poll_fetching"
      BY <2>1 DEF UsesNet, ControlInv, PcTypes, PollLabels, SetupLabels
    <2>3. pc[Main] \in FetchingLabels
      BY <2>1, <2>2
         DEF UsesNet, ControlInv, PcTypes, PollerPhase, SharedLabels, PollLabels,
             SetupLabels, MainLabels, FetchingLabels
    <2> QED
      BY <2>1, <2>2, <2>3, ThreeActors DEF ControlInv, NetOwned, FetchingLabels
  <1> QED
    BY <1>1, SessionInvHolds, PTL

\* The Connect and Disconnect callbacks, for which no mutex is taken, never
\* run beside those of a message.
THEOREM CallbacksStaySerialized == Spec => []CallbacksSerialized
  <1>1. SessionInv => CallbacksSerialized
    <2> SUFFICES ASSUME SessionInv, pc[Main] \in {"connect_callback", "disconnect_callback"}
                 PROVE  dispatch_mu_ = NoThread /\ pc[Poller] = "off"
      BY DEF CallbacksSerialized
    <2>1. ControlInv /\ dispatch_mu_ \in Threads \cup {NoThread}
      BY DEF SessionInv, TypeOK, DispatchTypeOK
    <2>2. pc[Poller] = "off"
      BY <2>1, PollerOff DEF SharedLabels
    <2>3. dispatch_mu_ # Main /\ dispatch_mu_ # Poller
      BY <2>1, <2>2, ThreeActors DEF ControlInv, DispatchOwned, DispatchLabels
    <2> QED
      BY <2>1, <2>2, <2>3, ThreeActors
  <1> QED
    BY <1>1, SessionInvHolds, PTL
=============================================================================
