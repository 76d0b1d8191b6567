---------------------------- MODULE StreamProofs ----------------------------
(***************************************************************************)
(* What a run leaves behind, for any options, messages and number of runs: *)
(* its flags, the end of its transports, the session that the callbacks    *)
(* see, which is that of EventStream, and what its polls cover.            *)
(*                                                                         *)
(* Each part of PhaseInv ties a variable to where run() is.                *)
(***************************************************************************)
EXTENDS SessionProofs, FiniteSetTheorems

\* Where run() is between Connect and Disconnect.
OpenLabels ==
    {"connect_callback", "backlog", "teardown"} \cup SharedLabels \cup PollLabels

\* Where run() is from the reset of live_ended to the initial fetch.
FetchingInitial == SetupLabels \cup {"initial_fetch", "initial_fetching"}

\* A session is open exactly while run() is between Connect and Disconnect.
OpenPhase == session = "open" <=> pc[Main] \in OpenLabels

\* Before the first run, nothing runs.
IdleAtFirst == runs = 0 => pc[Main] = "idle"

\* No LiveEnd before the first messages, though there was a run before.
NotYetEnded == pc[Main] \in FetchingInitial => ~live_ended

PhaseInv ==
    /\ OpenPhase
    /\ IdleAtFirst
    /\ NotYetEnded
    /\ TransportsOutlastFailures

-----------------------------------------------------------------------------

\* run() goes somewhere, the others stay.
LEMMA MainGoes ==
    ASSUME PcTypes, NEW label, Goto(Main, label)
    PROVE  pc'[Main] = label /\ pc'[Poller] = pc[Poller]
  BY ThreeActors DEF PcTypes, Goto

\* The poll thread goes somewhere, run() stays.
LEMMA PollerGoes ==
    ASSUME PcTypes, NEW label, Goto(Poller, label)
    PROVE  pc'[Poller] = label /\ pc'[Main] = pc[Main]
  BY ThreeActors DEF PcTypes, Goto

\* The application's other thread goes somewhere, those of run() stay.
LEMMA UserGoes ==
    ASSUME PcTypes, NEW label, Goto(User, label)
    PROVE  pc'[Poller] = pc[Poller] /\ pc'[Main] = pc[Main]
  BY ThreeActors DEF PcTypes, Goto

\* dispatch_message() by either thread: what of the session it can change.
LEMMA DispatchEffect ==
    ASSUME ControlInv, NEW t \in Threads,
           \/ DispatchDuplicate(t) \/ DispatchNew(t)
           \/ DispatchReturns(t) \/ DispatchThrows(t)
    PROVE  /\ UNCHANGED <<running, stop_requested, connected, runs, options>>
           /\ live_ended => live_ended'
           /\ live_ended' => live_ended \/ pc[Main] \in DispatchLabels \cup SharedLabels
           /\ \/ UNCHANGED <<pc, session>>
              \/ /\ DispatchThrows(t)
                 /\ pc[Main] \in DispatchLabels \cup SharedLabels
                 /\ \/ pc'[Main] = "idle" /\ pc'[Poller] = "off"
                    \/ pc'[Main] = "crashed" /\ pc'[Poller] = "crashed"
                 /\ session' = IF session = "open" THEN "aborted" ELSE session
  <1> USE DEF dispatchVars, flagVars, fetchVars, wsVars, boundVars
  <1>1. CASE DispatchDuplicate(t)
    BY <1>1 DEF DispatchDuplicate, DropDuplicate
  <1>2. CASE DispatchNew(t)
    BY <1>2 DEF DispatchNew, BeginDelivery
  <1>3. CASE DispatchReturns(t)
    <2>1. dispatch_mu_ = t
      BY <1>3 DEF DispatchReturns, EndDelivery
    <2>2. pc[Main] \in DispatchLabels \cup SharedLabels
      BY <2>1, ThreeActors
         DEF DispatchLabels, PollLabels, ControlInv, PcTypes, PollerPhase, DispatchOwned
    <2> QED
      BY <1>3, <2>2 DEF DispatchReturns, EndDelivery
  <1>4. CASE DispatchThrows(t)
    <2>1. /\ dispatch_mu_ = t
          /\ UNCHANGED <<running, stop_requested, connected, runs, options, live_ended>>
      BY <1>4 DEF DispatchThrows, AbortDelivery
    <2>2. pc[t] \in DispatchLabels
      BY <2>1 DEF ControlInv, DispatchOwned
    <2>3. pc[Main] \in DispatchLabels \cup SharedLabels
      BY <2>2, ThreeActors
         DEF DispatchLabels, PollLabels, ControlInv, PcTypes, PollerPhase
    <2>4. CASE pc[Poller] = "off"
      <3>1. Goto(Main, "idle") /\ session' = IF session = "open" THEN "aborted" ELSE session
        BY <1>4, <2>4 DEF DispatchThrows, RunThrows
      <3> QED
        BY <1>4, <2>1, <2>3, <2>4, <3>1, MainGoes DEF ControlInv
    <2>5. CASE pc[Poller] # "off"
      <3>1. /\ pc'[Main] = "crashed" /\ pc'[Poller] = "crashed"
            /\ session' = IF session = "open" THEN "aborted" ELSE session
        BY <1>4, <2>5, ThreeActors DEF DispatchThrows, Crash
      <3> QED
        BY <1>4, <2>1, <2>3, <3>1
    <2> QED
      BY <2>4, <2>5
  <1> QED
    BY <1>1, <1>2, <1>3, <1>4

\* fetch_once() and poll_loop() by either thread: likewise.
LEMMA PollEffect ==
    ASSUME ControlInv, NEW t \in Threads,
           \/ BeginFetch(t)
           \/ PollTop(t) \/ Polled(t) \/ PollFails(t) \/ PollBatchDone(t)
    PROVE  /\ UNCHANGED <<dispatchVars, flagVars, connected, runs, options, session>>
           /\ t = Main =>
                  /\ pc'[Poller] = pc[Poller]
                  /\ \/ pc[Main] = "initial_fetch" /\ pc'[Main] = "initial_fetching"
                     \/ pc[Main] = "ws_refetch" /\ pc'[Main] = "ws_refetching"
                     \/ pc[Main] \in PollLabels /\ pc'[Main] \in PollLabels \cup {"teardown"}
           /\ t = Poller =>
                  /\ pc'[Main] = pc[Main]
                  /\ pc'[Poller] = "exited" => ~Going
  <1> USE DEF dispatchVars, flagVars, fetchVars, wsVars, boundVars, PollLabels
  <1>0. PcTypes
    BY DEF ControlInv
  <1>1. CASE BeginFetch(t)
    <2>1. /\ pc[t] \in {"initial_fetch", "ws_refetch", "poll_wait"}
          /\ Goto(t, FetchingFrom[pc[t]])
          /\ UNCHANGED <<dispatchVars, flagVars, connected, runs, options, session>>
      BY <1>1 DEF BeginFetch, FetchingFrom
    <2>2. /\ FetchingFrom["initial_fetch"] = "initial_fetching"
          /\ FetchingFrom["ws_refetch"] = "ws_refetching"
          /\ FetchingFrom["poll_wait"] = "poll_fetching"
      BY DEF FetchingFrom
    <2> QED
      BY <1>0, <2>1, <2>2, MainGoes, PollerGoes, ThreeActors
  <1>2. CASE PollTop(t)
    BY <1>0, <1>2, MainGoes, PollerGoes, ThreeActors DEF PollTop
  <1>3. CASE Polled(t) \/ PollFails(t)
    <2>1. /\ pc[t] = "poll_fetching"
          /\ Goto(t, "poll_batch") \/ Goto(t, "poll_top")
          /\ UNCHANGED <<dispatchVars, flagVars, connected, runs, options, session>>
      BY <1>3 DEF Polled, PollFails
    <2> QED
      BY <1>0, <2>1, MainGoes, PollerGoes, ThreeActors
  <1>4. CASE PollBatchDone(t)
    <2>1. /\ pc[t] = "poll_batch" /\ Goto(t, "poll_top")
          /\ UNCHANGED <<dispatchVars, flagVars, connected, runs, options, session>>
      BY <1>4 DEF PollBatchDone
    <2> QED
      BY <1>0, <2>1, MainGoes, PollerGoes, ThreeActors
  <1> QED
    BY <1>1, <1>2, <1>3, <1>4

-----------------------------------------------------------------------------

\* run() up to its transports and after them, one label at a time.
LEMMA SetupEffect ==
    ASSUME ControlInv,
           \/ BeginRun \/ BeginStopRequested \/ BeginLiveEnded
           \/ WarmUp \/ ResolveRoomFromHtml \/ ResolveRoomFromApi \/ LiveCheck \/ RoomInfo
           \/ InitialFetched \/ InitialFetchThrows \/ ConnectEmitted
           \/ Teardown \/ DisconnectEmitted
    PROVE  /\ UNCHANGED <<delivered, connected, options>>
           /\ pc'[Poller] = pc[Poller]
           /\ pc'[Main] \in FetchingInitial =>
                  ~live_ended' \/ (UNCHANGED live_ended /\ pc[Main] \in FetchingInitial)
           /\ \/ BeginRun /\ pc[Main] = "idle" /\ pc'[Main] = "begin_stop" /\ UNCHANGED session
              \/ /\ pc[Main] # "idle" /\ UNCHANGED runs
                 /\ \/ /\ pc[Main] \notin OpenLabels \cup {"idle", "crashed"}
                       /\ pc'[Main] \notin OpenLabels
                       /\ session # "open" => UNCHANGED session
                    \/ /\ pc[Main] = "initial_fetching" /\ pc'[Main] = "connect_callback"
                       /\ session' = "open"
                    \/ /\ pc[Main] = "connect_callback" /\ pc'[Main] = "backlog"
                       /\ UNCHANGED session
                    \/ /\ pc[Main] = "connect_callback" /\ pc'[Main] = "idle"
                       /\ session' = IF session = "open" THEN "aborted" ELSE session
                    \/ /\ pc[Main] = "teardown" /\ pc'[Main] = "disconnect_callback"
                       /\ session' = "closed"
  <1> USE DEF dispatchVars, flagVars, fetchVars, wsVars, boundVars,
              SetupLabels, PollLabels, SharedLabels, OpenLabels, FetchingInitial
  <1>0. PcTypes
    BY DEF ControlInv
  <1>1. CASE BeginRun
    BY <1>0, <1>1, MainGoes DEF BeginRun
  <1>2. CASE BeginStopRequested
    BY <1>0, <1>2, MainGoes DEF BeginStopRequested
  <1>3. CASE BeginLiveEnded
    <2>1. ~live_ended'
      BY <1>3, Zenon DEF BeginLiveEnded, ForgetLiveEnd
    <2>2. /\ pc[Main] = "begin_live_ended" /\ Goto(Main, "warmup")
          /\ UNCHANGED <<delivered, connected, options, session, runs>>
      BY <1>3 DEF BeginLiveEnded, ForgetLiveEnd
    <2> QED
      BY <1>0, <2>1, <2>2, MainGoes
  <1>4. ASSUME NEW from \in SetupLabels, NEW to \in SetupLabels \cup {"initial_fetch"},
               SetupStep(from, to)
        PROVE  /\ UNCHANGED <<delivered, live_ended, connected, options, runs, session>>
               /\ pc'[Poller] = pc[Poller]
               /\ pc[Main] \in SetupLabels /\ pc'[Main] \in SetupLabels \cup {"initial_fetch"}
    BY <1>0, <1>4, MainGoes DEF SetupStep
  <1>5. ASSUME NEW from \in SetupLabels, SetupThrows(from)
        PROVE  /\ UNCHANGED <<delivered, connected, options, runs>>
               /\ pc'[Poller] = pc[Poller]
               /\ pc[Main] \in SetupLabels /\ pc'[Main] = "idle"
               /\ session' = IF session = "open" THEN "aborted" ELSE session
    BY <1>0, <1>5, MainGoes DEF SetupThrows, RunThrows
  <1>6. CASE \/ WarmUp \/ ResolveRoomFromHtml \/ ResolveRoomFromApi \/ LiveCheck
             \/ RoomInfo
    BY <1>4, <1>5, <1>6
       DEF WarmUp, ResolveRoomFromHtml, ResolveRoomFromApi, LiveCheck, RoomInfo
  <1>7. CASE InitialFetched
    BY <1>0, <1>7, MainGoes DEF InitialFetched
  <1>8. CASE InitialFetchThrows
    BY <1>0, <1>8, MainGoes DEF InitialFetchThrows, RunThrows
  <1>9. CASE ConnectEmitted
    BY <1>0, <1>9, MainGoes DEF ConnectEmitted, SetupStep, SetupThrows, RunThrows
  <1>10. CASE Teardown
    BY <1>0, <1>10, MainGoes DEF Teardown
  <1>11. CASE DisconnectEmitted
    BY <1>0, <1>11, MainGoes DEF DisconnectEmitted, SetupStep
  <1> QED
    BY <1>1, <1>2, <1>3, <1>6, <1>7, <1>8, <1>9, <1>10, <1>11

\* The WebSocket loops, the start of the transports and the join: all of
\* them between Connect and Disconnect.
LEMMA TransportEffect ==
    ASSUME ControlInv,
           \/ StartTransport \/ Join
           \/ WsTop \/ WsSign \/ WsSigned \/ WsConnected \/ HandshakeFailed
           \/ WsLoopEnds \/ WsReceive \/ WsFrame \/ WsAgain \/ WsDropped \/ WsFrameDone
           \/ WsClose \/ WsRetry \/ WsBackoff \/ WsRefetched \/ WsRefetchFails \/ WakePoller
    PROVE  /\ UNCHANGED <<delivered, session, runs, options>>
           /\ pc[Main] \in OpenLabels \ {"connect_callback", "teardown"} /\ pc[Main] # "idle"
           /\ pc'[Main] \in OpenLabels
           /\ pc'[Poller] = "exited" => pc[Poller] = "exited"
           /\ pc[Main] = "ws_left" => pc'[Main] = "join"
           /\ pc'[Main] = "ws_left" => ~Going'
  <1> USE DEF dispatchVars, flagVars, fetchVars, wsVars, boundVars,
              PollLabels, SharedLabels, OpenLabels
  <1>0. PcTypes
    BY DEF ControlInv
  <1>1. CASE StartTransport
    <2>1. /\ pc[Main] = "backlog" /\ pc'[Main] \in {"ws_top", "poll_top"}
          /\ pc'[Poller] # "exited"
      BY <1>0, <1>1, ThreeActors DEF StartTransport, PcTypes
    <2> QED
      BY <1>1, <2>1 DEF StartTransport
  <1>2. CASE Join
    <2>1. pc[Main] = "join" /\ pc'[Main] = "teardown" /\ pc'[Poller] = "off"
      BY <1>0, <1>2, ThreeActors DEF Join, PcTypes
    <2> QED
      BY <1>2, <2>1 DEF Join
  <1>3. LeaveWebSocket => pc'[Poller] = pc[Poller] /\ pc'[Main] \in {"ws_left", "teardown"}
    BY <1>0, MainGoes DEF LeaveWebSocket
  <1>4. CASE WsTop \/ WsRetry \/ WsBackoff
    <2>1. UNCHANGED <<delivered, session, runs, options, running, stop_requested, live_ended>>
      BY <1>4 DEF WsTop, WsRetry, WsBackoff, WsLoopStep
    <2>2. CASE LeaveWebSocket /\ ~Going
      BY <1>3, <1>4, <2>1, <2>2 DEF WsTop, WsRetry, WsBackoff, WsLoopStep, Going
    <2>3. CASE ~(LeaveWebSocket /\ ~Going)
      BY <1>0, <1>4, <2>1, <2>3, MainGoes DEF WsTop, WsRetry, WsBackoff, WsLoopStep, Going
    <2> QED
      BY <2>2, <2>3
  <1>5. CASE WsClose
    BY <1>0, <1>3, <1>5, MainGoes DEF WsClose, Going
  <1>6. CASE WsSign \/ WsSigned \/ WsConnected
    BY <1>0, <1>6, MainGoes DEF WsSign, WsSigned, WsConnected
  <1>7. CASE HandshakeFailed
    <2>1. GivesUp => ~Dual
      BY DEF GivesUp, allow_fallback, Dual
    <2> QED
      BY <1>0, <1>7, <2>1, MainGoes DEF HandshakeFailed
  <1>8. CASE WsLoopEnds \/ WsReceive \/ WsFrame \/ WsDropped
    <2>1. /\ pc[Main] \in {"ws_loop", "ws_receive"}
          /\ \E label \in {"ws_receive", "ws_frame", "ws_close"} : Goto(Main, label)
          /\ UNCHANGED <<delivered, session, runs, options>>
      BY <1>8 DEF WsLoopEnds, WsReceive, WsFrame, WsDropped
    <2> QED
      BY <1>0, <2>1, MainGoes
  <1>9. CASE WsAgain \/ WsFrameDone
    <2>1. /\ pc[Main] \in {"ws_receive", "ws_frame"} /\ Goto(Main, "ws_loop")
          /\ UNCHANGED <<delivered, session, runs, options>>
      BY <1>9 DEF WsAgain, WsFrameDone, WsTurnEnds
    <2> QED
      BY <1>0, <2>1, MainGoes
  <1>11. CASE WakePoller
    <2>1. /\ pc[Main] = "ws_left" /\ Goto(Main, "join")
          /\ UNCHANGED <<delivered, session, runs, options>>
      BY <1>11 DEF WakePoller
    <2> QED
      BY <1>0, <2>1, MainGoes
  <1>10. CASE WsRefetched \/ WsRefetchFails
    BY <1>0, <1>10, MainGoes DEF WsRefetched, WsRefetchFails
  <1> QED
    BY <1>1, <1>2, <1>4, <1>5, <1>6, <1>7, <1>8, <1>9, <1>10, <1>11

\* disconnect(), fetch_gift_list(), the server, and steps that change nothing.
LEMMA OthersEffect ==
    ASSUME ControlInv,
           \/ DisconnectSetsStop \/ DisconnectStep
           \/ BeginFetchGiftList \/ EndFetchGiftList
           \/ Publish \/ Terminated \/ UNCHANGED vars
    PROVE  /\ UNCHANGED <<delivered, live_ended, session, runs, options>>
           /\ pc'[Main] = pc[Main] /\ pc'[Poller] = pc[Poller]
           /\ connected' => connected
           /\ running' => running
           /\ stop_requested => stop_requested'
  <1> USE DEF vars, dispatchVars, flagVars, fetchVars, wsVars, boundVars
  <1>0. PcTypes
    BY DEF ControlInv
  <1>1. CASE DisconnectSetsStop \/ DisconnectStep \/ BeginFetchGiftList \/ EndFetchGiftList
    BY <1>0, <1>1, UserGoes
       DEF DisconnectSetsStop, DisconnectStep, DisconnectClearsRunning,
           DisconnectClosesSocket, BeginFetchGiftList, EndFetchGiftList, UserStep
  <1>2. CASE Publish \/ Terminated \/ UNCHANGED vars
    BY <1>2 DEF Publish, Terminated
  <1> QED
    BY <1>1, <1>2

-----------------------------------------------------------------------------

\* While a run lasts, no step takes its flags back: only BeginRun,
\* BeginStopRequested and BeginLiveEnded do.
LEMMA FlagsStep ==
    ASSUME SessionInv, [Next]_vars, pc[Main] \notin {"idle", "begin_stop", "begin_live_ended"}
    PROVE  /\ running' => running
           /\ stop_requested => stop_requested'
           /\ live_ended => live_ended'
  <1> USE DEF dispatchVars, flagVars, fetchVars, wsVars, boundVars
  <1>0. ControlInv
    BY DEF SessionInv
  <1>1. ASSUME NEW t \in Threads, ThreadStep(t)
        PROVE  /\ UNCHANGED <<running, stop_requested>>
               /\ live_ended => live_ended'
    BY <1>0, <1>1, DispatchEffect, PollEffect DEF ThreadStep
  <1>2. CASE UNCHANGED <<running, stop_requested, live_ended>>
    BY <1>2
  <1>4. CASE WsTop \/ WsRetry \/ WsBackoff \/ WsClose \/ WakePoller
    BY <1>4 DEF WsTop, WsRetry, WsBackoff, WsLoopStep, WsClose, WakePoller
  <1>5. CASE Teardown
    BY <1>5 DEF Teardown
  <1>6. CASE RunStep
    <2>1. CASE \/ WarmUp \/ ResolveRoomFromHtml \/ ResolveRoomFromApi \/ LiveCheck \/ RoomInfo
               \/ InitialFetched \/ InitialFetchThrows \/ ConnectEmitted \/ DisconnectEmitted
      BY <1>2, <2>1
         DEF WarmUp, ResolveRoomFromHtml, ResolveRoomFromApi, LiveCheck, RoomInfo,
             SetupStep, SetupThrows, InitialFetched, InitialFetchThrows, ConnectEmitted,
             DisconnectEmitted
    <2>2. CASE \/ StartTransport \/ Join
               \/ WsSign \/ WsSigned \/ WsConnected \/ HandshakeFailed
               \/ WsLoopEnds \/ WsReceive \/ WsFrame \/ WsAgain \/ WsDropped \/ WsFrameDone
               \/ WsRefetched \/ WsRefetchFails
      BY <1>2, <2>2
         DEF StartTransport, Join, WsSign, WsSigned, WsConnected, HandshakeFailed,
             WsLoopEnds, WsReceive, WsFrame, WsAgain, WsDropped, WsFrameDone, WsTurnEnds,
             WsRefetched,
             WsRefetchFails
    <2> QED
      BY <1>1, <1>4, <1>5, <1>6, <2>1, <2>2, ThreeActors
         DEF RunStep, BeginStopRequested, BeginLiveEnded
  <1>7. CASE ThreadStep(Poller)
    BY <1>1, <1>7, ThreeActors
  <1> QED
    BY <1>0, <1>6, <1>7, OthersEffect DEF Next, BeginRun

LEMMA PhaseInit == Init => PhaseInv
  <1> SUFFICES ASSUME Init
               PROVE  PhaseInv
    OBVIOUS
  <1>1. pc[Main] = "idle" /\ pc[Poller] = "off"
    BY ThreeActors DEF Init
  <1> QED
    BY <1>1
       DEF Init, PhaseInv, OpenPhase, IdleAtFirst, NotYetEnded, FetchingInitial,
           TransportsOutlastFailures, OpenLabels, SharedLabels, PollLabels, SetupLabels

LEMMA PhaseStep == PhaseInv /\ SessionInv /\ [Next]_vars => PhaseInv'
  <1> SUFFICES ASSUME PhaseInv, SessionInv, [Next]_vars
               PROVE  PhaseInv'
    OBVIOUS
  <1>0. /\ ControlInv /\ runs \in Nat
        /\ OpenPhase /\ IdleAtFirst /\ NotYetEnded /\ TransportsOutlastFailures
    BY SessionAssumption DEF SessionInv, TypeOK, PhaseInv
  <1> USE DEF OpenLabels, SharedLabels, PollLabels, DispatchLabels
  <1> DEFINE Rest == OpenPhase /\ IdleAtFirst /\ NotYetEnded
  <1>1. ASSUME NEW t \in Threads,
               \/ DispatchDuplicate(t) \/ DispatchNew(t)
               \/ DispatchReturns(t) \/ DispatchThrows(t)
        PROVE  Rest'
    BY <1>0, <1>1, DispatchEffect
       DEF OpenPhase, IdleAtFirst, NotYetEnded, FetchingInitial, SetupLabels
  <1>2. ASSUME NEW t \in Threads,
               \/ BeginFetch(t)
               \/ PollTop(t) \/ Polled(t) \/ PollFails(t) \/ PollBatchDone(t)
        PROVE  Rest'
    BY <1>0, <1>2, PollEffect, ThreeActors
       DEF OpenPhase, IdleAtFirst, NotYetEnded, FetchingInitial, SetupLabels, dispatchVars
  <1>3. ASSUME \/ BeginRun \/ BeginStopRequested \/ BeginLiveEnded
               \/ WarmUp \/ ResolveRoomFromHtml \/ ResolveRoomFromApi \/ LiveCheck
               \/ RoomInfo \/ InitialFetched \/ InitialFetchThrows \/ ConnectEmitted
               \/ Teardown \/ DisconnectEmitted
        PROVE  Rest'
    <2>1. OpenPhase'
      BY <1>0, <1>3, SetupEffect DEF OpenPhase
    <2>2. IdleAtFirst'
      <3>1. BeginRun => runs' = runs + 1
        BY DEF BeginRun
      <3> QED
        BY <1>0, <1>3, <3>1, SetupEffect DEF IdleAtFirst
    <2>3. NotYetEnded'
      BY <1>0, <1>3, SetupEffect DEF NotYetEnded
    <2> QED
      BY <2>1, <2>2, <2>3
  <1>4. ASSUME \/ StartTransport \/ Join
               \/ WsTop \/ WsSign \/ WsSigned \/ WsConnected \/ HandshakeFailed
               \/ WsLoopEnds \/ WsReceive \/ WsFrame \/ WsAgain \/ WsDropped \/ WsFrameDone
               \/ WsClose \/ WsRetry \/ WsBackoff \/ WsRefetched \/ WsRefetchFails \/ WakePoller
        PROVE  Rest'
    BY <1>0, <1>4, TransportEffect
       DEF OpenPhase, IdleAtFirst, NotYetEnded, FetchingInitial, SetupLabels
  <1>5. ASSUME \/ DisconnectSetsStop \/ DisconnectStep
               \/ BeginFetchGiftList \/ EndFetchGiftList
               \/ Publish \/ Terminated \/ UNCHANGED vars
        PROVE  Rest'
    BY <1>0, <1>5, OthersEffect DEF OpenPhase, IdleAtFirst, NotYetEnded
  <1>6. Rest'
    BY <1>1, <1>2, <1>3, <1>4, <1>5, ThreeActors DEF Next, RunStep, ThreadStep
  <1>7. TransportsOutlastFailures'
    <2> SUFFICES ASSUME pc'[Poller] = "exited" \/ pc'[Main] = "ws_left"
                 PROVE  ~Going'
      BY DEF TransportsOutlastFailures
    <2>1. CASE pc[Poller] = "exited" \/ pc[Main] = "ws_left"
      <3>1. ~Going
        BY <1>0, <2>1 DEF TransportsOutlastFailures
      <3>2. pc[Main] \in SharedLabels
        BY <1>0, <2>1 DEF ControlInv, PollerPhase
      <3> QED
        BY <3>1, <3>2, FlagsStep DEF Going
    <2>2. CASE pc[Poller] # "exited" /\ pc[Main] # "ws_left"
      <3>1. ASSUME NEW t \in Threads, ThreadStep(t)
            PROVE  ~Going'
        BY <1>0, <2>2, <3>1, DispatchEffect, PollEffect, ThreeActors
           DEF ThreadStep, Going, flagVars, dispatchVars
      <3>2. CASE \/ StartTransport \/ Join
                 \/ WsTop \/ WsSign \/ WsSigned \/ WsConnected \/ HandshakeFailed
                 \/ WsLoopEnds \/ WsReceive \/ WsFrame \/ WsAgain \/ WsDropped \/ WsFrameDone
                 \/ WsClose \/ WsRetry \/ WsBackoff \/ WsRefetched \/ WsRefetchFails \/ WakePoller
        BY <1>0, <2>2, <3>2, TransportEffect DEF Going
      <3> QED
        BY <1>0, <2>2, <3>1, <3>2, SetupEffect, OthersEffect, ThreeActors DEF Next, RunStep
    <2> QED
      BY <2>1, <2>2
  <1> QED
    BY <1>6, <1>7 DEF PhaseInv

LEMMA PhaseInvHolds == Spec => []PhaseInv
  BY SessionInvHolds, PhaseInit, PhaseStep, PTL DEF Spec

\* In dual mode the poll loop exits, and the reconnect loop returns to be
\* followed by the store of stop_requested, only when stop_requested, running
\* or live_ended said so before, however many fetches and handshakes fail.
THEOREM TransportsEndTogether == Spec => []TransportsOutlastFailures
  <1>1. PhaseInv => TransportsOutlastFailures
    BY DEF PhaseInv
  <1> QED
    BY <1>1, PhaseInvHolds, PTL

\* During a run its flags change one way only: what the loop conditions, which
\* read them one after the other, rely on.
THEOREM FlagsStayOneWay == Spec => FlagsOneWay
  <1>1. SessionInv /\ [Next]_vars =>
            [pc[Main] \notin {"idle", "begin_stop", "begin_live_ended"} =>
                 /\ running' => running
                 /\ stop_requested => stop_requested'
                 /\ live_ended => live_ended']_vars
    BY FlagsStep
  <1> QED
    BY <1>1, SessionInvHolds, PTL DEF Spec, FlagsOneWay

-----------------------------------------------------------------------------
(* What still comes after a LiveEnd.                                       *)

\* Where a thread is about to bring messages, having passed the flags.
BringingLabels == {"poll_wait", "poll_fetching", "ws_receive"}

\* A step of run() that takes no batch, to where it brings none.
LEMMA SettledMove ==
    ASSUME PcTypes, NEW label, label \notin BringingLabels, Goto(Main, label),
           UNCHANGED batch, NEW t \in Threads, Settled(t)
    PROVE  Settled(t)'
  <1>1. pc'[Main] = label /\ pc'[Poller] = pc[Poller]
    BY MainGoes
  <1> QED
    BY <1>1, ThreeActors DEF Settled, BringingLabels

\* Once a LiveEnd is noted, no step of either thread unsettles a thread.
LEMMA SettledThread ==
    ASSUME TypeOK, ControlInv, live_ended, NEW t \in Threads, Settled(t),
           NEW u \in Threads, ThreadStep(u)
    PROVE  Settled(t)'
  <1> USE DEF fetchVars
  <1>0. PcTypes /\ batch \in [Threads -> SUBSET Messages]
    BY DEF ControlInv, TypeOK
  <1>1. CASE DispatchDuplicate(u) \/ DispatchReturns(u)
    <2>1. UNCHANGED pc /\ Consume(u)
      BY <1>1 DEF DispatchDuplicate, DispatchReturns
    <2> QED
      BY <1>0, <2>1 DEF Settled, Consume
  <1>2. CASE DispatchNew(u)
    BY <1>2 DEF DispatchNew, Settled
  <1>3. CASE DispatchThrows(u)
    <2>1. batch' = [batch EXCEPT ![u] = {}]
      BY <1>3 DEF DispatchThrows
    <2>2. pc'[t] \in {pc[t], "idle", "crashed"}
      <3>1. CASE pc[Poller] = "off"
        <4>1. Goto(Main, "idle")
          BY <1>3, <3>1 DEF DispatchThrows, RunThrows
        <4> QED
          BY <1>0, <4>1, MainGoes, ThreeActors
      <3>2. CASE pc[Poller] # "off"
        BY <1>3, <3>2, ThreeActors DEF DispatchThrows, Crash
      <3> QED
        BY <3>1, <3>2
    <2> QED
      BY <1>0, <2>1, <2>2 DEF Settled
  <1>4. ASSUME NEW label, Goto(u, label), UNCHANGED batch,
               u = t => label \notin BringingLabels
        PROVE  Settled(t)'
    <2>1. pc'[u] = label /\ \A v \in Threads \ {u} : pc'[v] = pc[v]
      BY <1>0, <1>4, MainGoes, PollerGoes, ThreeActors
    <2> QED
      BY <1>4, <2>1 DEF Settled, BringingLabels
  <1>5. CASE BeginFetch(u)
    <2>1. /\ pc[u] \in {"initial_fetch", "ws_refetch", "poll_wait"}
          /\ Goto(u, FetchingFrom[pc[u]]) /\ UNCHANGED batch
      BY <1>5 DEF BeginFetch, FetchingFrom
    <2>2. /\ FetchingFrom["initial_fetch"] = "initial_fetching"
          /\ FetchingFrom["ws_refetch"] = "ws_refetching"
      BY DEF FetchingFrom
    <2> QED
      BY <1>4, <2>1, <2>2 DEF Settled, BringingLabels
  <1>6. CASE PollTop(u)
    BY <1>4, <1>6 DEF PollTop, Going, BringingLabels
  <1>7. CASE Polled(u)
    <2>1. u # t
      BY <1>7 DEF Polled, Settled
    <2>2. batch'[t] = batch[t] /\ Goto(u, "poll_batch")
      BY <1>0, <1>7, <2>1 DEF Polled
    <2>3. pc'[t] = pc[t]
      BY <1>0, <2>1, <2>2, MainGoes, PollerGoes, ThreeActors
    <2> QED
      BY <2>2, <2>3 DEF Settled
  <1>8. CASE PollFails(u) \/ PollBatchDone(u)
    BY <1>4, <1>8 DEF PollFails, PollBatchDone, BringingLabels
  <1> QED
    BY <1>1, <1>2, <1>3, <1>5, <1>6, <1>7, <1>8 DEF ThreadStep

\* Nor does any step of run(), of disconnect() or of the server.
LEMMA SettledStep ==
    ASSUME SessionInv, PhaseInv, [Next]_vars, live_ended, live_ended',
           NEW t \in Threads, Settled(t)
    PROVE  Settled(t)'
  <1> USE DEF fetchVars, BringingLabels
  <1>0. /\ ControlInv /\ TypeOK /\ PcTypes /\ NotYetEnded
        /\ ~Going
    BY DEF SessionInv, ControlInv, PhaseInv, Going
  <1>1. ASSUME NEW u \in Threads, ThreadStep(u)
        PROVE  Settled(t)'
    BY <1>0, <1>1, SettledThread
  <1>2. ASSUME NEW from, NEW to \in SetupLabels \cup {"initial_fetch", "backlog", "idle"},
               SetupStep(from, to)
        PROVE  Settled(t)'
    BY <1>0, <1>2, SettledMove DEF SetupStep, SetupLabels
  <1>3. ASSUME NEW from, SetupThrows(from)
        PROVE  Settled(t)'
    BY <1>0, <1>3, SettledMove DEF SetupThrows, RunThrows
  <1>4. CASE \/ WarmUp \/ ResolveRoomFromHtml \/ ResolveRoomFromApi \/ LiveCheck
             \/ RoomInfo \/ ConnectEmitted \/ DisconnectEmitted
    BY <1>2, <1>3, <1>4
       DEF WarmUp, ResolveRoomFromHtml, ResolveRoomFromApi, LiveCheck, RoomInfo,
           ConnectEmitted, DisconnectEmitted, SetupLabels
  <1>5. CASE BeginRun \/ BeginStopRequested \/ InitialFetchThrows \/ Teardown
    BY <1>0, <1>5, SettledMove
       DEF BeginRun, BeginStopRequested, InitialFetchThrows, RunThrows, Teardown
  <1>6. ~BeginLiveEnded
    BY DEF BeginLiveEnded, ForgetLiveEnd
  <1>7. ~InitialFetched
    BY <1>0 DEF InitialFetched, NotYetEnded, FetchingInitial
  <1>8. CASE StartTransport \/ Join
    <2>1. /\ UNCHANGED batch
          /\ pc'[Main] \in {"ws_top", "poll_top", "teardown"}
          /\ pc'[Poller] \in {"poll_top", "off"}
      BY <1>0, <1>8, ThreeActors DEF StartTransport, Join, PcTypes
    <2> QED
      BY <2>1, ThreeActors DEF Settled
  <1>9. LeaveWebSocket /\ UNCHANGED batch => Settled(t)'
    BY <1>0, SettledMove DEF LeaveWebSocket
  <1>10. CASE WsTop \/ WsRetry \/ WsBackoff \/ WsClose
    BY <1>0, <1>9, <1>10, SettledMove DEF WsTop, WsRetry, WsBackoff, WsLoopStep, WsClose
  <1>11. CASE HandshakeFailed
    BY <1>0, <1>9, <1>11, SettledMove DEF HandshakeFailed
  <1>12. CASE WsSign \/ WsSigned \/ WsConnected \/ WsLoopEnds \/ WsDropped
    BY <1>0, <1>12, SettledMove DEF WsSign, WsSigned, WsConnected, WsLoopEnds, WsDropped
  <1>13. CASE WsAgain \/ WsFrameDone \/ WsRefetched \/ WsRefetchFails \/ WakePoller
    BY <1>0, <1>13, SettledMove
       DEF WsAgain, WsFrameDone, WsTurnEnds, WsRefetched, WsRefetchFails, WakePoller
  <1>14. ~WsReceive
    BY <1>0 DEF WsReceive
  <1>15. CASE WsFrame
    <2>1. /\ pc[Main] = "ws_receive" /\ Goto(Main, "ws_frame")
          /\ batch'[Poller] = batch[Poller]
      BY <1>0, <1>15, ThreeActors DEF WsFrame, TypeOK
    <2> QED
      BY <1>0, <2>1, MainGoes, ThreeActors DEF Settled
  <1>16. CASE \/ DisconnectSetsStop \/ DisconnectStep
              \/ BeginFetchGiftList \/ EndFetchGiftList
              \/ Publish \/ Terminated \/ UNCHANGED vars
    <2>1. pc'[Main] = pc[Main] /\ pc'[Poller] = pc[Poller]
      BY <1>0, <1>16, OthersEffect
    <2>2. UNCHANGED batch
      BY <1>16
         DEF DisconnectSetsStop, DisconnectStep, DisconnectClearsRunning,
             DisconnectClosesSocket, BeginFetchGiftList, EndFetchGiftList, UserStep,
             Publish, Terminated, vars
    <2> QED
      BY <2>1, <2>2, ThreeActors DEF Settled
  <1> QED
    BY <1>1, <1>4, <1>5, <1>6, <1>7, <1>8, <1>10, <1>11, <1>12, <1>13, <1>14, <1>15, <1>16,
       ThreeActors
       DEF Next, RunStep

\* Once either transport has dispatched a LiveEnd, what is not already on its
\* way does not reach the callbacks: a thread that has neither messages in hand
\* nor passed its last look at the flags brings no more, over any number of
\* runs.
THEOREM LiveEndEndsIntake == Spec => LiveEndStopsTransports
  <1>1. SessionInv /\ PhaseInv /\ [Next]_vars =>
            [live_ended /\ live_ended' =>
                 \A t \in Threads : Settled(t) => Settled(t)']_vars
    BY SettledStep
  <1> QED
    BY <1>1, SessionInvHolds, PhaseInvHolds, PTL DEF Spec, LiveEndStopsTransports

-----------------------------------------------------------------------------
(* The session the callbacks see.                                          *)

\* The window of seen ids has never been overrun.
WindowSuffices == Len(delivered) <= kMaxSeenIds

\* Until it is, it holds everything that was delivered.
LEMMA WindowIsHistory ==
    ASSUME DispatchInv, WindowSuffices
    PROVE  seen_ids_ = {delivered[i] : i \in 1..Len(delivered)}
  <1>0. Len(delivered) \in Nat /\ kMaxSeenIds \in Nat
    BY LenProperties, DispatchAssumption DEF DispatchInv, DispatchTypeOK
  <1>1. Len(seen_order_) = Len(delivered)
    BY <1>0 DEF DispatchInv, WindowIsRecent, WindowSuffices
  <1>2. /\ \A i \in 1..Len(seen_order_) :
               seen_order_[i] = delivered[Len(delivered) - Len(seen_order_) + i]
        /\ seen_ids_ = {seen_order_[i] : i \in 1..Len(seen_order_)}
    BY DEF DispatchInv, SeenInStep, WindowIsRecent
  <1>3. \A i \in 1..Len(delivered) : seen_order_[i] = delivered[i]
    BY <1>0, <1>1, <1>2
  <1> QED
    BY <1>1, <1>2, <1>3

\* Each step of the session is one of EventStream, or a stutter.
LEMMA StreamStep ==
    SessionInv /\ PhaseInv /\ WindowSuffices /\ [Next]_vars
        => [Stream!StreamNext]_(Stream!streamVars)
  <1> SUFFICES ASSUME SessionInv, PhaseInv, WindowSuffices, [Next]_vars,
                      ~UNCHANGED <<session, delivered>>
               PROVE  Stream!StreamNext
    BY DEF Stream!streamVars
  <1>0. ControlInv /\ DispatchInv /\ OpenPhase /\ TypeOK
    BY DEF SessionInv, PhaseInv
  <1> USE DEF OpenLabels, SharedLabels, PollLabels, DispatchLabels
  <1>1. ASSUME NEW t \in Threads, DispatchNew(t)
        PROVE  Stream!StreamNext
    <2> DEFINE m == FirstOf(batch[t])
    <2>1. /\ ~AlreadySeen(m) /\ UNCHANGED session
          /\ IF m = NoId THEN UNCHANGED delivered ELSE delivered' = Append(delivered, m)
          /\ pc[t] \in DispatchLabels
      BY <1>1 DEF DispatchNew, Dispatching, BeginDelivery
    <2>2. m \in Messages
      <3>1. batch[t] \subseteq Messages /\ Messages \subseteq Nat /\ batch[t] # {}
        BY <1>0, <1>1, SessionAssumption DEF TypeOK, DispatchNew, Dispatching
      <3> QED
        BY <3>1, FirstOfIsMember
    <2>3. m # NoId
      BY <2>2, DispatchAssumption
    <2>4. \A i \in 1..Len(delivered) : delivered[i] # m
      BY <1>0, <2>1, <2>3, WindowIsHistory DEF AlreadySeen
    <2>5. pc[Main] \in OpenLabels
      BY <1>0, <2>1, ThreeActors DEF ControlInv, PcTypes, PollerPhase
    <2>6. session = "open"
      BY <1>0, <2>5 DEF OpenPhase
    <2> HIDE DEF m
    <2>7. Stream!Deliver(m)
      BY <2>1, <2>3, <2>4, <2>6 DEF Stream!Deliver
    <2> QED
      BY <2>2, <2>7 DEF Stream!StreamNext
  <1>2. ASSUME UNCHANGED delivered, session = "open", session' \in {"closed", "aborted"}
        PROVE  Stream!StreamNext
    BY <1>2 DEF Stream!StreamNext, Stream!Disconnect, Stream!Abort
  <1>3. ASSUME NEW t \in Threads,
               \/ DispatchDuplicate(t) \/ DispatchReturns(t) \/ DispatchThrows(t)
        PROVE  Stream!StreamNext
    <2>1. UNCHANGED delivered
      BY <1>3
         DEF DispatchDuplicate, DispatchReturns, DispatchThrows, DropDuplicate,
             EndDelivery, AbortDelivery, dispatchVars
    <2>2. session = "open" /\ session' = "aborted"
      BY <1>0, <1>3, <2>1, DispatchEffect
    <2> QED
      BY <1>2, <2>1, <2>2
  <1>4. ASSUME \/ BeginRun \/ BeginStopRequested \/ BeginLiveEnded
               \/ WarmUp \/ ResolveRoomFromHtml \/ ResolveRoomFromApi \/ LiveCheck
               \/ RoomInfo \/ InitialFetched \/ InitialFetchThrows \/ ConnectEmitted
               \/ Teardown \/ DisconnectEmitted
        PROVE  Stream!StreamNext
    <2>1. UNCHANGED delivered
      BY <1>0, <1>4, SetupEffect
    <2>2. CASE session = "open"
      <3>1. session' \in {"closed", "aborted"}
        BY <1>0, <1>4, <2>1, <2>2, SetupEffect DEF OpenPhase
      <3> QED
        BY <1>2, <2>1, <2>2, <3>1
    <2>3. CASE session # "open"
      <3>1. session' = "open"
        BY <1>0, <1>4, <2>1, <2>3, SetupEffect DEF OpenPhase
      <3> QED
        BY <2>1, <2>3, <3>1 DEF Stream!StreamNext, Stream!Connect
    <2> QED
      BY <2>2, <2>3
  <1>5. ~BeginFetch(Main) /\ ~BeginFetch(Poller)
    BY DEF BeginFetch, dispatchVars
  <1>6. \A t \in Threads :
            ~(PollTop(t) \/ Polled(t) \/ PollFails(t) \/ PollBatchDone(t))
    BY <1>0, PollEffect DEF dispatchVars
  <1> QED
    BY <1>0, <1>1, <1>3, <1>4, <1>5, <1>6, TransportEffect, OthersEffect, ThreeActors
       DEF Next, RunStep, ThreadStep

\* run() implements EventStream for as long as the window holds all that was
\* delivered: with one Connect, every message at most once, and one Disconnect
\* after the last of them, whichever transports, failures and exceptions.
THEOREM StreamWhileWindowLasts == Spec /\ []WindowSuffices => ImplementsEventStream
  <1>1. Init => Stream!StreamInit
    BY DEF Init, DispatchInit, Stream!StreamInit
  <1> QED
    BY <1>1, StreamStep, SessionInvHolds, PhaseInvHolds, PTL
       DEF Spec, ImplementsEventStream, Stream!StreamSpec

\* A window as large as the set of messages is not overrun by one delivery more.
LEMMA DistinctDeliveriesFit ==
    ASSUME DispatchInv, Cardinality(Messages) <= kMaxSeenIds,
           Len(delivered) <= kMaxSeenIds + 1
    PROVE  WindowSuffices
  <1> DEFINE n == Len(delivered)
  <1>0. /\ n \in Nat /\ kMaxSeenIds \in Nat /\ delivered \in [1..n -> Messages]
    BY LenProperties, DispatchAssumption DEF DispatchInv, DispatchTypeOK
  <1>1. IsFiniteSet(Messages) /\ Cardinality(Messages) \in Nat
    BY SessionAssumption, FS_CardinalityType
  <1>2. IsFiniteSet(1..n) /\ Cardinality(1..n) = n
    <2> HIDE DEF n
    <2>1. IsFiniteSet(1..n) /\ Cardinality(1..n) = IF 1 > n THEN 0 ELSE n - 1 + 1
      BY <1>0, FS_Interval
    <2> QED
      BY <1>0, <2>1
  <1>3. \A i, j \in 1..n : i < j => delivered[i] # delivered[j]
    BY <1>0 DEF DispatchInv, NoRepeatInWindow
  <1>4. \A i, j \in 1..n : i # j => delivered[i] # delivered[j]
    BY <1>0, <1>3
  <1>5. ~(Cardinality(Messages) < n)
    <2> SUFFICES ASSUME Cardinality(Messages) < n
                 PROVE  FALSE
      OBVIOUS
    <2> HIDE DEF n
    <2>1. \E i, j \in 1..n : i # j /\ delivered[i] = delivered[j]
      BY <1>0, <1>1, <1>2, FS_PigeonHole
    <2> QED
      BY <1>4, <2>1
  <1> QED
    BY <1>0, <1>1, <1>5 DEF WindowSuffices

\* A step delivers one message at most.
LEMMA OneDeliveryPerStep ==
    ASSUME DispatchInv, [DispatchNext]_dispatchVars
    PROVE  Len(delivered') <= Len(delivered) + 1
  <1>0. Len(delivered) \in Nat /\ delivered \in Seq(Messages)
    BY LenProperties DEF DispatchInv, DispatchTypeOK
  <1>1. UNCHANGED delivered \/ \E m \in BaseProtoMessage : delivered' = Append(delivered, m)
    BY DEF DispatchNext, dispatchVars, DropDuplicate, BeginDelivery, EndDelivery,
           AbortDelivery, ForgetLiveEnd
  <1>2. ASSUME NEW m \in BaseProtoMessage, delivered' = Append(delivered, m)
        PROVE  Len(delivered') = Len(delivered) + 1
    BY <1>0, <1>2, AppendProperties
  <1> QED
    BY <1>0, <1>1, <1>2

\* A window with room for all messages is never overrun.
LEMMA WindowLasts ==
    Cardinality(Messages) <= kMaxSeenIds => (Spec => []WindowSuffices)
  <1> SUFFICES ASSUME Cardinality(Messages) <= kMaxSeenIds
               PROVE  Spec => []WindowSuffices
    OBVIOUS
  <1>1. Init => WindowSuffices
    BY DispatchAssumption DEF Init, DispatchInit, WindowSuffices
  <1> DEFINE AtMostOneTooMany == Len(delivered) <= kMaxSeenIds + 1
  <1>2. WindowSuffices /\ SessionInv /\ SessionInv' /\ [Next]_vars => AtMostOneTooMany'
    <2> SUFFICES ASSUME WindowSuffices, SessionInv, SessionInv', [Next]_vars
                 PROVE  AtMostOneTooMany'
      OBVIOUS
    <2>1. DispatchInv /\ DispatchInv' /\ TypeOK
      BY DEF SessionInv
    <2>2. Len(delivered') <= Len(delivered) + 1
      BY <2>1, SessionStepDispatches, OneDeliveryPerStep
    <2>3. Len(delivered) \in Nat /\ Len(delivered') \in Nat /\ kMaxSeenIds \in Nat
      BY <2>1, LenProperties, DispatchAssumption DEF DispatchInv, DispatchTypeOK
    <2> QED
      BY <2>2, <2>3 DEF WindowSuffices
  <1>3. SessionInv /\ AtMostOneTooMany => WindowSuffices
    BY DistinctDeliveriesFit DEF SessionInv
  <1> HIDE DEF AtMostOneTooMany
  <1> QED
    BY <1>1, <1>2, <1>3, SessionInvHolds, PTL DEF Spec

\* With no more messages than the window holds, as every run of a client has
\* that sees fewer than kMaxSeenIds of them, run() implements EventStream
\* outright, over any number of runs.
THEOREM SessionImplementsEventStream ==
    Cardinality(Messages) <= kMaxSeenIds => (Spec => ImplementsEventStream)
  BY WindowLasts, StreamWhileWindowLasts, PTL

-----------------------------------------------------------------------------
(* The poll loop, of either thread, skips no message.  The claim is about  *)
(* a cursor at rest; what keeps it true is that a batch, while it is being *)
(* dispatched, and what was delivered make up all that lies between the    *)
(* loop's cursor and the one the batch came with.                          *)

\* The message whose callbacks run is the first of its thread's batch, and it
\* counts as delivered.
EmittingFirst ==
    \A t \in Threads :
        dispatch_mu_ = t => emitting = FirstOf(batch[t]) /\ Delivered(emitting)

\* A poll loop that was given a cursor never loses it, and has delivered all
\* that the cursor covers since the initial fetch.
CursorCovered ==
    \A t \in Threads :
        pc[t] \in PollLabels \cup {"exited"} /\ initial # 0 =>
            /\ cursor[t] # 0
            /\ \A m \in (initial + 1)..cursor[t] : Delivered(m)

\* Of what a polled batch covers, everything is still in it or was delivered.
BatchCovers ==
    \A t \in Threads :
        pc[t] = "poll_batch" /\ initial # 0 =>
            \A m \in (cursor[t] + 1)..batchCursor[t] : m \in batch[t] \/ Delivered(m)

PollInv ==
    /\ EmittingFirst
    /\ CursorCovered
    /\ BatchCovers

-----------------------------------------------------------------------------

\* What was delivered stays delivered.
LEMMA DeliveredStays ==
    ASSUME DispatchInv, [DispatchNext]_dispatchVars, NEW m, Delivered(m)
    PROVE  Delivered(m)'
  <1>0. Len(delivered) \in Nat /\ delivered \in Seq(Messages)
    BY LenProperties DEF DispatchInv, DispatchTypeOK
  <1>1. UNCHANGED delivered \/ \E n \in BaseProtoMessage : delivered' = Append(delivered, n)
    BY DEF DispatchNext, dispatchVars, DropDuplicate, BeginDelivery, EndDelivery,
           AbortDelivery, ForgetLiveEnd
  <1>2. CASE UNCHANGED delivered
    BY <1>2 DEF Delivered
  <1>3. ASSUME NEW n \in BaseProtoMessage, delivered' = Append(delivered, n)
        PROVE  Delivered(m)'
    <2>1. PICK i \in 1..Len(delivered) : delivered[i] = m
      BY DEF Delivered
    <2>2. /\ Len(delivered') = Len(delivered) + 1
          /\ delivered'[i] = delivered[i]
      BY <1>0, <1>3, AppendProperties
    <2>3. i \in 1..Len(delivered')
      BY <1>0, <2>2
    <2> QED
      BY <2>1, <2>2, <2>3 DEF Delivered
  <1> QED
    BY <1>1, <1>2, <1>3

\* What was just appended was delivered.
LEMMA AppendedIsDelivered ==
    ASSUME DispatchInv, NEW m \in Messages, delivered' = Append(delivered, m)
    PROVE  Delivered(m)'
  <1>0. Len(delivered) \in Nat /\ delivered \in Seq(Messages)
    BY LenProperties DEF DispatchInv, DispatchTypeOK
  <1>1. /\ Len(delivered') = Len(delivered) + 1
        /\ delivered'[Len(delivered) + 1] = m
    BY <1>0, AppendProperties
  <1>2. Len(delivered) + 1 \in 1..Len(delivered')
    BY <1>0, <1>1
  <1> QED
    BY <1>1, <1>2 DEF Delivered

\* The window holds only what was delivered.
LEMMA SeenWasDelivered ==
    ASSUME DispatchInv, NEW m \in seen_ids_
    PROVE  Delivered(m)
  <1>0. /\ Len(delivered) \in Nat /\ Len(seen_order_) \in Nat
        /\ kMaxSeenIds \in Nat
    BY LenProperties, DispatchAssumption DEF DispatchInv, DispatchTypeOK
  <1>1. PICK i \in 1..Len(seen_order_) : m = seen_order_[i]
    BY DEF DispatchInv, SeenInStep
  <1>2. Len(seen_order_) <= Len(delivered)
    BY <1>0 DEF DispatchInv, WindowIsRecent
  <1>3. m = delivered[Len(delivered) - Len(seen_order_) + i]
    BY <1>1 DEF DispatchInv, WindowIsRecent
  <1>4. Len(delivered) - Len(seen_order_) + i \in 1..Len(delivered)
    BY <1>0, <1>1, <1>2
  <1> QED
    BY <1>3, <1>4 DEF Delivered

\* A fetch with a cursor is answered with the messages right behind it.
LEMMA ReplyFollowsCursor ==
    ASSUME NEW c \in Nat \ {0}, NEW r \in FetchReplies(c)
    PROVE  \A m \in (c + 1)..r.cursor : m \in r.messages
  <1>1. PICK to \in c..published : \E n \in {0, to} :
            r = [messages |-> (c + 1)..to, cursor |-> n]
    BY DEF FetchReplies, ResumesAt
  <1>2. r.messages = (c + 1)..to /\ r.cursor \in {0, to}
    BY <1>1
  <1> QED
    BY <1>2

-----------------------------------------------------------------------------

\* Where a poll loop is, or where it was left.
LoopLabels == PollLabels \cup {"exited"}

\* A step that moves nobody into a poll loop, and changes no cursor, batch or
\* delivery.
LEMMA QuietStep ==
    ASSUME PollInv,
           UNCHANGED <<dispatch_mu_, emitting, delivered, fetchVars>>,
           \A t \in Threads :
               /\ pc'[t] \in LoopLabels => pc[t] \in LoopLabels
               /\ pc'[t] = "poll_batch" => pc[t] = "poll_batch"
    PROVE  PollInv'
  <1> USE DEF fetchVars
  <1>1. EmittingFirst'
    BY DEF PollInv, EmittingFirst, Delivered
  <1>2. CursorCovered'
    BY DEF PollInv, CursorCovered, LoopLabels, Delivered
  <1>3. BatchCovers'
    BY DEF PollInv, BatchCovers, Delivered
  <1> QED
    BY <1>1, <1>2, <1>3 DEF PollInv

\* A step of run() that goes nowhere near a poll loop.
LEMMA QuietMain ==
    ASSUME PollInv, PcTypes, NEW label, Goto(Main, label), label \notin LoopLabels,
           UNCHANGED <<dispatch_mu_, emitting, delivered, fetchVars>>
    PROVE  PollInv'
  <1>1. pc'[Main] = label /\ pc'[Poller] = pc[Poller]
    BY MainGoes
  <1>2. \A t \in Threads :
            /\ pc'[t] \in LoopLabels => pc[t] \in LoopLabels
            /\ pc'[t] = "poll_batch" => pc[t] = "poll_batch"
    BY <1>1, ThreeActors DEF LoopLabels, PollLabels
  <1> QED
    BY <1>2, QuietStep

LEMMA PollSetup ==
    ASSUME PollInv, ControlInv, TypeOK,
           \/ BeginRun \/ BeginStopRequested \/ BeginLiveEnded
           \/ WarmUp \/ ResolveRoomFromHtml \/ ResolveRoomFromApi \/ LiveCheck \/ RoomInfo
           \/ InitialFetched \/ InitialFetchThrows \/ ConnectEmitted
           \/ Teardown \/ DisconnectEmitted
    PROVE  PollInv'
  <1> USE DEF dispatchVars, flagVars, wsVars, boundVars
  <1>0. PcTypes
    BY DEF ControlInv
  <1>1. CASE BeginRun \/ BeginStopRequested \/ BeginLiveEnded
    BY <1>0, <1>1, QuietMain
       DEF BeginRun, BeginStopRequested, BeginLiveEnded, ForgetLiveEnd, LoopLabels, PollLabels
  <1>2. ASSUME NEW from,
               NEW to \in SetupLabels \cup {"initial_fetch", "backlog", "idle"},
               SetupStep(from, to)
        PROVE  PollInv'
    BY <1>0, <1>2, QuietMain DEF SetupStep, LoopLabels, PollLabels, SetupLabels
  <1>3. ASSUME NEW from, SetupThrows(from)
        PROVE  PollInv'
    BY <1>0, <1>3, QuietMain DEF SetupThrows, RunThrows, LoopLabels, PollLabels
  <1>4. CASE \/ WarmUp \/ ResolveRoomFromHtml \/ ResolveRoomFromApi \/ LiveCheck
             \/ RoomInfo \/ ConnectEmitted \/ DisconnectEmitted
    BY <1>2, <1>3, <1>4
       DEF WarmUp, ResolveRoomFromHtml, ResolveRoomFromApi, LiveCheck, RoomInfo,
           ConnectEmitted, DisconnectEmitted, SetupLabels
  <1>5. CASE InitialFetchThrows \/ Teardown
    BY <1>0, <1>5, QuietMain
       DEF InitialFetchThrows, RunThrows, Teardown, LoopLabels, PollLabels
  <1>6. CASE InitialFetched
    <2>1. pc[Main] = "initial_fetching" /\ Goto(Main, "connect_callback")
      BY <1>6 DEF InitialFetched
    <2>2. pc[Poller] = "off"
      BY <2>1, PollerOff DEF SharedLabels
    <2>3. pc'[Main] = "connect_callback" /\ pc'[Poller] = "off"
      BY <1>0, <2>1, <2>2, MainGoes
    <2>4. dispatch_mu_' # Main /\ dispatch_mu_' # Poller
      BY <1>6, <2>1, <2>2, ThreeActors
         DEF InitialFetched, ControlInv, DispatchOwned, DispatchLabels
    <2> QED
      BY <2>3, <2>4, ThreeActors
         DEF PollInv, EmittingFirst, CursorCovered, BatchCovers, PollLabels
  <1> QED
    BY <1>1, <1>4, <1>5, <1>6

LEMMA PollWebSocket ==
    ASSUME PollInv, ControlInv, TypeOK,
           \/ WsTop \/ WsSign \/ WsSigned \/ WsConnected \/ HandshakeFailed
           \/ WsLoopEnds \/ WsReceive \/ WsFrame \/ WsAgain \/ WsDropped \/ WsFrameDone
           \/ WsClose \/ WsRetry \/ WsBackoff \/ WsRefetched \/ WsRefetchFails \/ WakePoller
    PROVE  PollInv'
  <1> USE DEF dispatchVars, flagVars, wsVars, boundVars, LoopLabels, PollLabels
  <1>0. PcTypes
    BY DEF ControlInv
  <1>1. ASSUME LeaveWebSocket, UNCHANGED <<dispatchVars, fetchVars>>
        PROVE  PollInv'
    BY <1>0, <1>1, QuietMain DEF LeaveWebSocket
  <1>2. CASE WsTop \/ WsRetry \/ WsBackoff
    BY <1>0, <1>1, <1>2, QuietMain DEF WsTop, WsRetry, WsBackoff, WsLoopStep
  <1>3. CASE WsClose
    BY <1>0, <1>1, <1>3, QuietMain DEF WsClose
  <1>4. CASE WsSign \/ WsSigned \/ WsConnected \/ WsLoopEnds \/ WsAgain
    BY <1>0, <1>4, QuietMain
       DEF WsSign, WsSigned, WsConnected, WsLoopEnds, WsAgain, WsTurnEnds
  <1>5. CASE WsDropped \/ WsFrameDone \/ WsReceive \/ WsRefetchFails
    BY <1>0, <1>5, QuietMain
       DEF WsDropped, WsFrameDone, WsTurnEnds, WsReceive, WsRefetchFails
  <1>6. CASE WsFrame
    <2>1. /\ pc[Main] = "ws_receive" /\ Goto(Main, "ws_frame")
          /\ UNCHANGED <<dispatchVars, cursor, initial, batchCursor>>
          /\ batch'[Poller] = batch[Poller]
      BY <1>6, ThreeActors DEF WsFrame, TypeOK
    <2>2. pc'[Main] = "ws_frame" /\ pc'[Poller] = pc[Poller]
      BY <1>0, <2>1, MainGoes
    <2>3. dispatch_mu_' # Main
      BY <2>1, ThreeActors DEF ControlInv, DispatchOwned, DispatchLabels
    <2>4. EmittingFirst'
      BY <2>1, <2>3, ThreeActors DEF PollInv, EmittingFirst, Delivered
    <2>5. CursorCovered'
      BY <2>1, <2>2, ThreeActors DEF PollInv, CursorCovered, Delivered
    <2>6. BatchCovers'
      BY <2>1, <2>2, ThreeActors DEF PollInv, BatchCovers, Delivered
    <2> QED
      BY <2>4, <2>5, <2>6 DEF PollInv
  <1>7. ASSUME NEW label \in {"ws_retry", "ws_top", "poll_top"}, Goto(Main, label),
               UNCHANGED <<dispatchVars, initial, batch, batchCursor>>,
               cursor'[Poller] = cursor[Poller],
               label = "poll_top" => cursor'[Main] = initial
        PROVE  PollInv'
    <2>1. pc'[Main] = label /\ pc'[Poller] = pc[Poller]
      BY <1>0, <1>7, MainGoes
    <2>2. EmittingFirst'
      BY <1>7 DEF PollInv, EmittingFirst, Delivered
    <2>3. \A m \in (initial + 1)..initial : FALSE
      BY DEF TypeOK
    <2>4. CursorCovered'
      BY <1>7, <2>1, <2>3, ThreeActors DEF PollInv, CursorCovered, Delivered
    <2>5. BatchCovers'
      BY <1>7, <2>1, ThreeActors DEF PollInv, BatchCovers, Delivered
    <2> QED
      BY <2>2, <2>4, <2>5 DEF PollInv
  <1>8. CASE HandshakeFailed
    <2>1. CASE GivesUp
      <3>1. ~Dual
        BY <2>1 DEF GivesUp, allow_fallback, Dual
      <3> QED
        BY <1>7, <1>8, <2>1, <3>1, ThreeActors DEF HandshakeFailed, FallbackCursor, TypeOK
    <2>2. CASE ~GivesUp
      BY <1>7, <1>8, <2>2, ThreeActors DEF HandshakeFailed, TypeOK
    <2> QED
      BY <2>1, <2>2
  <1>9. CASE WsRefetched
    BY <1>7, <1>9, ThreeActors DEF WsRefetched, TypeOK
  <1>10. CASE WakePoller
    BY <1>0, <1>10, QuietMain DEF WakePoller
  <1> QED
    BY <1>2, <1>3, <1>4, <1>5, <1>6, <1>8, <1>9, <1>10

\* dispatch_message(): what leaves a batch was delivered.
LEMMA PollDispatch ==
    ASSUME PollInv, ControlInv, TypeOK, DispatchInv, [DispatchNext]_dispatchVars,
           NEW t \in Threads,
           \/ DispatchDuplicate(t) \/ DispatchNew(t)
           \/ DispatchReturns(t) \/ DispatchThrows(t)
    PROVE  PollInv'
  <1> USE DEF flagVars, fetchVars, wsVars, boundVars
  <1>0. \A m : Delivered(m) => Delivered(m)'
    BY DeliveredStays
  <1>1. /\ batch[t] \subseteq Messages /\ Messages \subseteq Nat
        /\ batch[t] # {} => FirstOf(batch[t]) \in Messages
    <2>1. batch[t] \subseteq Messages /\ Messages \subseteq Nat
      BY SessionAssumption DEF TypeOK
    <2> QED
      BY <2>1, FirstOfIsMember
  <1> PICK first : first = FirstOf(batch[t])
    OBVIOUS
  <1>2. ASSUME UNCHANGED <<pc, cursor, initial, batchCursor>>,
               \A u \in Threads : \A m \in batch[u] : m \in batch'[u] \/ Delivered(m)'
        PROVE  CursorCovered' /\ BatchCovers'
    <2>1. CursorCovered'
      BY <1>0, <1>2 DEF PollInv, CursorCovered
    <2>2. BatchCovers'
      BY <1>0, <1>2 DEF PollInv, BatchCovers
    <2> QED
      BY <2>1, <2>2
  <1>3. ASSUME Consume(t), Delivered(first)'
        PROVE  \A u \in Threads : \A m \in batch[u] : m \in batch'[u] \/ Delivered(m)'
    BY <1>3 DEF Consume, TypeOK
  <1>4. CASE DispatchDuplicate(t)
    <2>1. /\ dispatch_mu_ = NoThread /\ UNCHANGED dispatchVars
          /\ AlreadySeen(FirstOf(batch[t])) /\ Consume(t)
          /\ UNCHANGED <<pc, cursor, initial, batchCursor>>
      BY <1>4 DEF DispatchDuplicate, DropDuplicate
    <2>2. Delivered(first)'
      BY <1>0, <2>1, SeenWasDelivered DEF AlreadySeen
    <2>3. EmittingFirst'
      BY <2>1, DispatchAssumption DEF EmittingFirst, dispatchVars
    <2> QED
      BY <1>2, <1>3, <2>1, <2>2, <2>3 DEF PollInv
  <1>5. CASE DispatchNew(t)
    <2>1. /\ batch[t] # {}
          /\ dispatch_mu_' = t /\ emitting' = FirstOf(batch[t])
          /\ UNCHANGED <<pc, fetchVars>>
          /\ IF FirstOf(batch[t]) = NoId THEN UNCHANGED delivered
             ELSE delivered' = Append(delivered, FirstOf(batch[t]))
      BY <1>5 DEF DispatchNew, Dispatching, BeginDelivery
    <2>2. delivered' = Append(delivered, FirstOf(batch[t]))
      BY <1>1, <2>1, DispatchAssumption
    <2>3. Delivered(first)'
      BY <1>1, <2>1, <2>2, AppendedIsDelivered
    <2>4. FirstOf(batch[t])' = FirstOf(batch[t])
      BY <2>1 DEF FirstOf
    <2>5. EmittingFirst'
      BY <2>1, <2>3, <2>4 DEF EmittingFirst
    <2> QED
      BY <1>2, <2>1, <2>5 DEF PollInv
  <1>6. CASE DispatchReturns(t)
    <2>1. /\ dispatch_mu_ = t /\ dispatch_mu_' = NoThread
          /\ Consume(t) /\ UNCHANGED <<pc, cursor, initial, batchCursor>>
      BY <1>6 DEF DispatchReturns, EndDelivery
    <2>2. Delivered(first)'
      BY <1>0, <2>1 DEF PollInv, EmittingFirst
    <2>3. EmittingFirst'
      BY <2>1, DispatchAssumption DEF EmittingFirst
    <2> QED
      BY <1>2, <1>3, <2>1, <2>2, <2>3 DEF PollInv
  <1>7. CASE DispatchThrows(t)
    <2>1. dispatch_mu_ = t /\ dispatch_mu_' = NoThread
      BY <1>7 DEF DispatchThrows, AbortDelivery
    <2>2. pc[t] \in DispatchLabels
      BY <2>1 DEF ControlInv, DispatchOwned
    <2>3. \A u \in Threads : pc'[u] \notin LoopLabels
      <3>1. CASE pc[Poller] = "off"
        <4>1. Goto(Main, "idle") /\ PcTypes
          BY <1>7, <3>1 DEF DispatchThrows, RunThrows, ControlInv
        <4>2. pc'[Main] = "idle" /\ pc'[Poller] = "off"
          BY <3>1, <4>1, MainGoes
        <4> QED
          BY <4>2, ThreeActors DEF LoopLabels, PollLabels
      <3>2. CASE pc[Poller] # "off"
        BY <1>7, <3>2, ThreeActors DEF DispatchThrows, Crash, LoopLabels, PollLabels
      <3> QED
        BY <3>1, <3>2
    <2>4. EmittingFirst'
      BY <2>1, DispatchAssumption DEF EmittingFirst
    <2>5. CursorCovered' /\ BatchCovers'
      BY <2>3 DEF CursorCovered, BatchCovers, LoopLabels, PollLabels
    <2> QED
      BY <2>4, <2>5 DEF PollInv
  <1> QED
    BY <1>4, <1>5, <1>6, <1>7

\* fetch_once() and poll_loop() by either thread.
LEMMA PollLoop ==
    ASSUME PollInv, ControlInv, TypeOK, PublishedKnown, NEW t \in Threads,
           \/ BeginFetch(t)
           \/ PollTop(t) \/ Polled(t) \/ PollFails(t) \/ PollBatchDone(t)
    PROVE  PollInv'
  <1> USE DEF dispatchVars, flagVars, wsVars, boundVars
  <1>0. /\ PcTypes /\ initial \in Nat
        /\ cursor \in [Threads -> Nat] /\ batchCursor \in [Threads -> Nat]
        /\ batch \in [Threads -> SUBSET Messages]
    BY DEF ControlInv, TypeOK
  <1>1. ASSUME NEW label, Goto(t, label)
        PROVE  /\ pc'[t] = label
               /\ \A u \in Threads \ {t} : pc'[u] = pc[u]
    BY <1>0, <1>1, MainGoes, PollerGoes, ThreeActors
  <1>2. ASSUME NEW label, Goto(t, label), label # "poll_batch",
               label \in LoopLabels => pc[t] \in LoopLabels,
               UNCHANGED <<dispatch_mu_, emitting, delivered, fetchVars>>
        PROVE  PollInv'
    <2>1. \A u \in Threads :
              /\ pc'[u] \in LoopLabels => pc[u] \in LoopLabels
              /\ pc'[u] = "poll_batch" => pc[u] = "poll_batch"
      BY <1>1, <1>2
    <2> QED
      BY <1>2, <2>1, QuietStep
  <1>3. CASE BeginFetch(t)
    <2>1. /\ pc[t] \in {"initial_fetch", "ws_refetch", "poll_wait"}
          /\ Goto(t, FetchingFrom[pc[t]])
          /\ UNCHANGED <<dispatch_mu_, emitting, delivered, fetchVars>>
      BY <1>3 DEF BeginFetch, FetchingFrom
    <2>2. /\ FetchingFrom["initial_fetch"] = "initial_fetching"
          /\ FetchingFrom["ws_refetch"] = "ws_refetching"
          /\ FetchingFrom["poll_wait"] = "poll_fetching"
      BY DEF FetchingFrom
    <2> QED
      BY <1>2, <2>1, <2>2 DEF LoopLabels, PollLabels
  <1>4. CASE PollTop(t)
    BY <1>2, <1>4 DEF PollTop, LoopLabels, PollLabels
  <1>5. CASE PollFails(t)
    BY <1>2, <1>5 DEF PollFails, LoopLabels, PollLabels
  <1>6. CASE Polled(t)
    <2>1. /\ pc[t] = "poll_fetching" /\ Goto(t, "poll_batch")
          /\ UNCHANGED <<dispatch_mu_, emitting, delivered, cursor, initial>>
      BY <1>6 DEF Polled
    <2>2. PICK r \in FetchReplies(cursor[t]) :
              /\ batch' = [batch EXCEPT ![t] = r.messages]
              /\ batchCursor' = [batchCursor EXCEPT ![t] = r.cursor]
      BY <1>6 DEF Polled
    <2>3. pc'[t] = "poll_batch" /\ \A u \in Threads \ {t} : pc'[u] = pc[u]
      BY <1>1, <2>1
    <2>4. /\ batch'[t] = r.messages /\ batchCursor'[t] = r.cursor
          /\ \A u \in Threads \ {t} : batch'[u] = batch[u] /\ batchCursor'[u] = batchCursor[u]
      BY <1>0, <2>2
    <2>5. dispatch_mu_ # t
      BY <2>1 DEF ControlInv, DispatchOwned, DispatchLabels
    <2>6. EmittingFirst'
      BY <2>1, <2>4, <2>5 DEF PollInv, EmittingFirst, Delivered
    <2>7. CursorCovered'
      BY <2>1, <2>3 DEF PollInv, CursorCovered, Delivered, PollLabels
    <2>8. initial # 0 => cursor[t] # 0
      BY <2>1 DEF PollInv, CursorCovered, PollLabels
    <2>9. initial # 0 => \A m \in (cursor[t] + 1)..r.cursor : m \in r.messages
      BY <1>0, <2>2, <2>8, ReplyFollowsCursor
    <2>10. BatchCovers'
      BY <2>1, <2>3, <2>4, <2>9 DEF PollInv, BatchCovers, Delivered
    <2> QED
      BY <2>6, <2>7, <2>10 DEF PollInv
  <1>7. CASE PollBatchDone(t)
    <2>1. /\ pc[t] = "poll_batch" /\ batch[t] = {} /\ Goto(t, "poll_top")
          /\ UNCHANGED <<dispatch_mu_, emitting, delivered, initial, batch>>
          /\ batchCursor' = [batchCursor EXCEPT ![t] = 0]
          /\ cursor' = IF batchCursor[t] = 0 THEN cursor
                       ELSE [cursor EXCEPT ![t] = batchCursor[t]]
      BY <1>7 DEF PollBatchDone
    <2>2. pc'[t] = "poll_top" /\ \A u \in Threads \ {t} : pc'[u] = pc[u]
      BY <1>1, <2>1
    <2>3. /\ cursor'[t] = IF batchCursor[t] = 0 THEN cursor[t] ELSE batchCursor[t]
          /\ \A u \in Threads \ {t} : cursor'[u] = cursor[u] /\ batchCursor'[u] = batchCursor[u]
      BY <1>0, <2>1
    <2>4. EmittingFirst'
      BY <2>1 DEF PollInv, EmittingFirst, Delivered
    <2>5. ASSUME initial # 0
          PROVE  cursor'[t] # 0 /\ \A m \in (initial + 1)..cursor'[t] : Delivered(m)
      <3>1. cursor[t] # 0 /\ \A m \in (initial + 1)..cursor[t] : Delivered(m)
        BY <2>1, <2>5 DEF PollInv, CursorCovered, PollLabels
      <3>2. \A m \in (cursor[t] + 1)..batchCursor[t] : Delivered(m)
        BY <2>1, <2>5 DEF PollInv, BatchCovers
      <3>3. \A m \in (initial + 1)..batchCursor[t] :
                m \in (initial + 1)..cursor[t] \/ m \in (cursor[t] + 1)..batchCursor[t]
        BY <1>0
      <3> QED
        BY <2>3, <3>1, <3>2, <3>3
    <2>6. CursorCovered'
      BY <2>1, <2>2, <2>3, <2>5 DEF PollInv, CursorCovered, Delivered
    <2>7. BatchCovers'
      BY <2>1, <2>2, <2>3 DEF PollInv, BatchCovers, Delivered
    <2> QED
      BY <2>4, <2>6, <2>7 DEF PollInv
  <1> QED
    BY <1>3, <1>4, <1>5, <1>6, <1>7

\* The two steps that create and end the poll thread.
LEMMA PollThread ==
    ASSUME PollInv, ControlInv, TypeOK, StartTransport \/ Join
    PROVE  PollInv'
  <1> USE DEF dispatchVars, flagVars, fetchVars, wsVars, boundVars
  <1>0. PcTypes /\ initial \in Nat
    BY DEF ControlInv, TypeOK
  <1>1. CASE StartTransport
    <2>1. /\ UNCHANGED <<dispatch_mu_, emitting, delivered, initial, batch>>
          /\ cursor' = [t \in Threads |-> initial]
      BY <1>1 DEF StartTransport
    <2>2. pc'[Main] # "poll_batch" /\ pc'[Poller] # "poll_batch"
      BY <1>0, <1>1, ThreeActors DEF StartTransport, PcTypes
    <2>3. \A m \in (initial + 1)..initial : FALSE
      BY <1>0
    <2>4. EmittingFirst'
      BY <2>1 DEF PollInv, EmittingFirst, Delivered
    <2>5. CursorCovered'
      BY <2>1, <2>3 DEF CursorCovered
    <2>6. BatchCovers'
      BY <2>2, ThreeActors DEF BatchCovers
    <2> QED
      BY <2>4, <2>5, <2>6 DEF PollInv
  <1>2. CASE Join
    <2>1. pc'[Main] = "teardown" /\ pc'[Poller] = "off"
      BY <1>0, <1>2, ThreeActors DEF Join, PcTypes
    <2>2. UNCHANGED <<dispatch_mu_, emitting, delivered, fetchVars>>
      BY <1>2 DEF Join
    <2> QED
      BY <2>1, <2>2, QuietStep, ThreeActors DEF LoopLabels, PollLabels
  <1> QED
    BY <1>1, <1>2

LEMMA PollInit == Init => PollInv
  <1> SUFFICES ASSUME Init
               PROVE  PollInv
    OBVIOUS
  <1>1. pc[Main] = "idle" /\ pc[Poller] = "off" /\ dispatch_mu_ = NoThread
    BY ThreeActors DEF Init, DispatchInit
  <1> QED
    BY <1>1, ThreeActors
       DEF PollInv, EmittingFirst, CursorCovered, BatchCovers, PollLabels

LEMMA PollStep == PollInv /\ SessionInv /\ [Next]_vars => PollInv'
  <1> SUFFICES ASSUME PollInv, SessionInv, [Next]_vars
               PROVE  PollInv'
    OBVIOUS
  <1>0. ControlInv /\ TypeOK /\ DispatchInv /\ PublishedKnown /\ PcTypes
    BY DEF SessionInv, ControlInv
  <1>1. [DispatchNext]_dispatchVars
    BY <1>0, SessionStepDispatches
  <1>2. ASSUME NEW t \in Threads, ThreadStep(t)
        PROVE  PollInv'
    BY <1>0, <1>1, <1>2, PollDispatch, PollLoop DEF ThreadStep
  <1>3. CASE \/ DisconnectSetsStop \/ DisconnectStep
             \/ BeginFetchGiftList \/ EndFetchGiftList
             \/ Publish \/ Terminated \/ UNCHANGED vars
    <2>1. pc'[Main] = pc[Main] /\ pc'[Poller] = pc[Poller]
      BY <1>0, <1>3, OthersEffect
    <2>2. UNCHANGED <<dispatchVars, fetchVars>>
      BY <1>3
         DEF DisconnectSetsStop, DisconnectStep, DisconnectClearsRunning,
             DisconnectClosesSocket, BeginFetchGiftList, EndFetchGiftList, UserStep,
             Publish, Terminated, vars
    <2>3. UNCHANGED <<dispatch_mu_, emitting, delivered, fetchVars>>
      BY <2>2 DEF dispatchVars
    <2> QED
      BY <2>1, <2>3, QuietStep, ThreeActors
  <1>4. CASE RunStep
    BY <1>0, <1>2, <1>4, PollSetup, PollWebSocket, PollThread, ThreeActors DEF RunStep
  <1> QED
    BY <1>0, <1>2, <1>3, <1>4, PollSetup, ThreeActors DEF Next

LEMMA PollInvHolds == Spec => []PollInv
  BY SessionInvHolds, PollInit, PollStep, PTL DEF Spec

\* However fetches fail, the socket of dual mode races it, or run() falls back
\* to it, a poll loop has delivered every message from the initial fetch up to
\* its cursor.
THEOREM PollLoopSkipsNothing == Spec => []PollNeverSkips
  <1>1. PollInv => PollNeverSkips
    BY DEF PollInv, CursorCovered, PollNeverSkips
  <1> QED
    BY <1>1, PollInvHolds, PTL

-----------------------------------------------------------------------------
(* With polling alone nothing is left out of a first run, nor out of       *)
(* order.  Each part is about such a run, and all but the first two about  *)
(* one whose initial fetch gave a cursor.                                  *)

PollingAlone == ~options.use_websocket

\* Where run() has dispatched nothing yet.
EarlyLabels ==
    SetupLabels \cup
    {"begin_stop", "begin_live_ended", "initial_fetch", "initial_fetching",
     "connect_callback"}

\* What was delivered last.
Latest == delivered[Len(delivered)]

\* No socket is used, nor a second thread waited for.
NoSocket == pc[Main] \notin SharedLabels

\* A first run starts with a client that has delivered nothing.
FreshStart == runs = 0 \/ pc[Main] \in EarlyLabels => delivered = <<>>

\* What was delivered is an interval, in order.
Consecutive ==
    \A i \in 1..Len(delivered) : delivered[i] + Len(delivered) = Latest + i

\* A batch is an interval that goes on where the deliveries stopped, behind
\* repetitions at most.
BatchContinues ==
    pc[Main] \in {"connect_callback", "backlog", "poll_batch"} =>
        /\ \A m, n \in batch[Main] : \A k \in m..n : k \in batch[Main]
        /\ delivered # <<>> =>
               \A m \in batch[Main] :
                   IF m > Latest THEN Latest + 1 \in batch[Main] ELSE Delivered(m)

\* The backlog ends with the message the initial cursor covers last.
BacklogReachesInitial ==
    pc[Main] \in {"connect_callback", "backlog"} =>
        /\ \A m \in batch[Main] : m <= initial
        /\ batch[Main] # {} => initial \in batch[Main]
        /\ delivered # <<>> =>
               delivered[1] <= initial /\ (Latest >= initial \/ initial \in batch[Main])

\* The cursor of the poll loop never lies beyond the deliveries, nor before
\* them by more than the message that follows it.
CursorTouches ==
    pc[Main] \in PollLabels /\ delivered # <<>> =>
        cursor[Main] <= Latest /\ delivered[1] <= cursor[Main] + 1

\* A polled batch begins behind the loop's cursor, and so does its own.
BatchFollowsCursor ==
    pc[Main] = "poll_batch" =>
        /\ \A m \in batch[Main] : m > cursor[Main]
        /\ batch[Main] # {} /\ delivered = <<>> => cursor[Main] + 1 \in batch[Main]
        /\ batchCursor[Main] = 0 \/ batchCursor[Main] >= cursor[Main]

OrderInv ==
    /\ Consecutive
    /\ BatchContinues
    /\ BacklogReachesInitial
    /\ CursorTouches
    /\ BatchFollowsCursor

\* In the first run of a client, FreshStart and OrderInv hold.
FirstRun == runs <= 1 => FreshStart /\ (initial # 0 => OrderInv)

GapInv == PollingAlone => NoSocket /\ FirstRun

-----------------------------------------------------------------------------

\* run() leaves the labels of the socket alone.
LEMMA NoSocketStep ==
    ASSUME ControlInv, PollingAlone, NoSocket, [Next]_vars
    PROVE  NoSocket' /\ PollingAlone'
  <1> USE DEF SharedLabels, PollLabels, SetupLabels, DispatchLabels
  <1>0. PcTypes /\ ~Dual
    BY DEF ControlInv, PollingAlone, Dual
  <1>1. ASSUME NEW t \in Threads, ThreadStep(t)
        PROVE  pc'[Main] \notin SharedLabels /\ UNCHANGED options
    BY <1>0, <1>1, DispatchEffect, PollEffect, ThreeActors DEF ThreadStep, NoSocket
  <1>2. CASE \/ BeginRun \/ BeginStopRequested \/ BeginLiveEnded
             \/ WarmUp \/ ResolveRoomFromHtml \/ ResolveRoomFromApi \/ LiveCheck \/ RoomInfo
             \/ InitialFetched \/ InitialFetchThrows \/ ConnectEmitted
             \/ Teardown \/ DisconnectEmitted
    BY <1>2, SetupEffect DEF NoSocket, PollingAlone, OpenLabels
  <1>3. CASE StartTransport
    <2>1. pc'[Main] = "poll_top" /\ UNCHANGED options
      BY <1>0, <1>3, ThreeActors DEF StartTransport, PcTypes, PollingAlone, boundVars
    <2> QED
      BY <2>1 DEF NoSocket, PollingAlone
  <1>4. ~ \/ Join
          \/ WsTop \/ WsSign \/ WsSigned \/ WsConnected \/ HandshakeFailed
          \/ WsLoopEnds \/ WsReceive \/ WsFrame \/ WsAgain \/ WsDropped \/ WsFrameDone
          \/ WsClose \/ WsRetry \/ WsBackoff \/ WsRefetched \/ WsRefetchFails \/ WakePoller
    BY DEF NoSocket, Join, WsTop, WsSign, WsSigned, WsConnected, HandshakeFailed,
           WsLoopEnds, WsReceive, WsFrame, WsAgain, WsDropped, WsFrameDone, WsClose,
           WsRetry, WsBackoff, WsRefetched, WsRefetchFails, WakePoller, WsLoopStep
  <1>5. CASE \/ DisconnectSetsStop \/ DisconnectStep
             \/ BeginFetchGiftList \/ EndFetchGiftList
             \/ Publish \/ Terminated \/ UNCHANGED vars
    BY <1>5, OthersEffect DEF NoSocket, PollingAlone
  <1> QED
    BY <1>1, <1>2, <1>3, <1>4, <1>5, ThreeActors
       DEF Next, RunStep, NoSocket, PollingAlone

\* A step that delivers nothing, changes no cursor or batch, and moves run()
\* to no label that OrderInv says more about.
LEMMA QuietOrder ==
    ASSUME OrderInv, UNCHANGED <<delivered, fetchVars>>,
           pc'[Main] \in {"connect_callback", "backlog"} =>
               pc[Main] \in {"connect_callback", "backlog"},
           pc'[Main] = "poll_batch" => pc[Main] = "poll_batch",
           pc'[Main] \in PollLabels => pc[Main] \in PollLabels
    PROVE  OrderInv'
  <1> USE DEF OrderInv, fetchVars, Latest
  <1>1. Consecutive'
    BY DEF Consecutive
  <1>2. BatchContinues'
    BY DEF BatchContinues, Delivered
  <1>3. BacklogReachesInitial'
    BY DEF BacklogReachesInitial
  <1>4. CursorTouches' /\ BatchFollowsCursor'
    BY DEF CursorTouches, BatchFollowsCursor
  <1> QED
    BY <1>1, <1>2, <1>3, <1>4

\* Nothing was delivered after the latest.
LEMMA LatestIsGreatest ==
    ASSUME DispatchTypeOK, Consecutive, NEW m, Delivered(m)
    PROVE  /\ delivered # <<>> /\ Latest \in Nat
           /\ m \in Nat /\ m <= Latest
  <1>0. /\ Len(delivered) \in Nat /\ delivered \in Seq(Messages)
        /\ Messages \subseteq Nat
    BY LenProperties, SessionAssumption DEF DispatchTypeOK
  <1>1. PICK i \in 1..Len(delivered) : delivered[i] = m
    BY DEF Delivered
  <1>2. Len(delivered) \in 1..Len(delivered) /\ delivered # <<>>
    BY <1>0, <1>1
  <1>3. m \in Nat /\ Latest \in Nat
    BY <1>0, <1>1, <1>2, ElementOfSeq DEF Latest
  <1>4. m + Len(delivered) = Latest + i
    BY <1>1 DEF Consecutive
  <1> QED
    BY <1>0, <1>1, <1>2, <1>3, <1>4

\* What was delivered first and last, if anything was.
LEMMA EndsOfDelivered ==
    ASSUME DispatchTypeOK, delivered # <<>>
    PROVE  /\ Latest \in Nat /\ Delivered(Latest)
           /\ delivered[1] \in Nat /\ Delivered(delivered[1])
  <1>0. /\ Len(delivered) \in Nat /\ delivered \in Seq(Messages)
        /\ Messages \subseteq Nat /\ Len(delivered) # 0
    BY LenProperties, EmptySeq, SessionAssumption DEF DispatchTypeOK
  <1>1. 1 \in 1..Len(delivered) /\ Len(delivered) \in 1..Len(delivered)
    BY <1>0
  <1> QED
    BY <1>0, <1>1, ElementOfSeq DEF Latest, Delivered

\* The number at place j of an interval from f to l of n numbers.
LEMMA PlaceInInterval ==
    ASSUME NEW x \in Int, NEW n \in Int, NEW l \in Int, NEW f \in Int, NEW j \in Int, NEW m \in Int,
           x + n = l + j, f + n = l + 1, j = m - f + 1
    PROVE  x = m
  OBVIOUS

\* All between the first delivery and the latest was delivered.
LEMMA BetweenIsDelivered ==
    ASSUME DispatchTypeOK, Consecutive, delivered # <<>>,
           NEW m \in Nat, delivered[1] <= m, m <= Latest
    PROVE  Delivered(m)
  <1>0. /\ Len(delivered) \in Nat /\ delivered \in Seq(Messages)
        /\ Len(delivered) # 0 /\ Messages \subseteq Nat
    BY LenProperties, EmptySeq, SessionAssumption DEF DispatchTypeOK
  <1>1. Latest \in Nat /\ delivered[1] \in Nat
    BY EndsOfDelivered
  <1>2. delivered[1] + Len(delivered) = Latest + 1
    BY <1>0 DEF Consecutive
  <1> DEFINE i == (m - delivered[1]) + 1
  <1>3. i \in 1..Len(delivered)
    BY <1>0, <1>1, <1>2
  <1>4. delivered[i] + Len(delivered) = Latest + i
    BY <1>3 DEF Consecutive
  <1>5. delivered[i] \in Nat
    BY <1>0, <1>3, ElementOfSeq
  <1>6. i \in Int /\ i = m - delivered[1] + 1
    BY <1>1
  <1> HIDE DEF i
  <1>7. delivered[i] = m
    <2> DEFINE x == delivered[i]
               n == Len(delivered)
               f == delivered[1]
    <2>1. /\ x \in Int /\ n \in Int /\ Latest \in Int /\ f \in Int /\ i \in Int /\ m \in Int
          /\ x + n = Latest + i /\ f + n = Latest + 1 /\ i = m - f + 1
      BY <1>0, <1>1, <1>2, <1>4, <1>5, <1>6
    <2> HIDE DEF x, n, f
    <2>2. x = m
      BY <2>1, PlaceInInterval
    <2> QED
      BY <2>2 DEF x
  <1> QED
    BY <1>3, <1>7 DEF Delivered

\* What an Append() does to both ends.
LEMMA EndsOfAppend ==
    ASSUME DispatchTypeOK, NEW m \in Messages, delivered' = Append(delivered, m)
    PROVE  /\ delivered' # <<>> /\ Latest' = m
           /\ Len(delivered') = Len(delivered) + 1
           /\ \A i \in 1..Len(delivered) : delivered'[i] = delivered[i]
           /\ delivered'[1] = IF delivered = <<>> THEN m ELSE delivered[1]
  <1>0. Len(delivered) \in Nat /\ delivered \in Seq(Messages)
    BY LenProperties DEF DispatchTypeOK
  <1>1. /\ Len(delivered') = Len(delivered) + 1
        /\ delivered'[Len(delivered) + 1] = m
        /\ \A i \in 1..Len(delivered) : delivered'[i] = delivered[i]
    BY <1>0, AppendProperties
  <1>2. Latest' = m
    BY <1>1 DEF Latest
  <1>3. delivered' # <<>>
    BY <1>0, <1>1
  <1>4. CASE delivered = <<>>
    BY <1>1, <1>2, <1>3, <1>4
  <1>5. CASE delivered # <<>>
    <2>1. 1 \in 1..Len(delivered)
      BY <1>0, <1>5, EmptySeq
    <2> QED
      BY <1>1, <1>2, <1>3, <1>5, <2>1
  <1> QED
    BY <1>4, <1>5

\* A batch that continues the deliveries continues them with its first
\* message, unless that was delivered before.
LEMMA NextIsDelivered ==
    ASSUME DispatchTypeOK, OrderInv, NEW f \in Messages,
           pc[Main] \in {"backlog", "poll_batch"}, cursor[Main] \in Nat,
           batch[Main] \subseteq Messages, f \in batch[Main],
           \A n \in batch[Main] : f <= n,
           ~Delivered(f), delivered' = Append(delivered, f),
           UNCHANGED <<pc, fetchVars>>
    PROVE  OrderInv'
  <1> DEFINE S == batch[Main]
  <1>0. /\ Messages \subseteq Nat /\ f \in Nat
        /\ S \subseteq Nat /\ f \in S /\ \A n \in S : f <= n
        /\ Len(delivered) \in Nat
        /\ UNCHANGED <<pc, cursor, initial, batch, batchCursor>>
    BY SessionAssumption, LenProperties DEF DispatchTypeOK, fetchVars
  <1>1. /\ delivered' # <<>> /\ Latest' = f
        /\ Len(delivered') = Len(delivered) + 1
        /\ \A i \in 1..Len(delivered) : delivered'[i] = delivered[i]
        /\ delivered'[1] = IF delivered = <<>> THEN f ELSE delivered[1]
    BY EndsOfAppend
  <1>2. delivered # <<>> => Latest \in Nat /\ f = Latest + 1
    <2> SUFFICES ASSUME delivered # <<>>
                 PROVE  Latest \in Nat /\ f = Latest + 1
      OBVIOUS
    <2>1. Latest \in Nat
      BY EndsOfDelivered
    <2>2. f > Latest /\ Latest + 1 \in S
      BY <1>0 DEF OrderInv, BatchContinues
    <2>3. f <= Latest + 1
      BY <1>0, <2>2
    <2> QED
      BY <1>0, <2>1, <2>2, <2>3
  <1>3. Consecutive'
    <2>1. ASSUME NEW i \in 1..Len(delivered')
          PROVE  delivered'[i] + Len(delivered') = Latest' + i
      <3>1. CASE i = Len(delivered) + 1
        <4>1. delivered'[i] = f
          BY <1>1, <3>1 DEF Latest
        <4> QED
          BY <1>0, <1>1, <3>1, <4>1
      <3>2. CASE i # Len(delivered) + 1
        <4>1. i \in 1..Len(delivered) /\ delivered # <<>>
          BY <1>0, <1>1, <3>2, EmptySeq
        <4>2. delivered[i] + Len(delivered) = Latest + i
          BY <4>1 DEF OrderInv, Consecutive
        <4>3. delivered[i] \in Nat
          BY <1>0, <4>1, ElementOfSeq DEF DispatchTypeOK
        <4>4. f = Latest + 1 /\ Latest \in Nat
          BY <1>2, <4>1
        <4>5. delivered[i] + (Len(delivered) + 1) = f + i
          BY <1>0, <4>1, <4>2, <4>3, <4>4, SMTT(30)
        <4> QED
          BY <1>1, <4>1, <4>5
      <3> QED
        BY <3>1, <3>2
    <2> QED
      BY <2>1 DEF Consecutive
  <1>4. \A m, n \in S : \A k \in m..n : k \in S
    BY DEF OrderInv, BatchContinues
  <1>5. BatchContinues'
    <2>1. ASSUME NEW m \in S
          PROVE  IF m > f THEN f + 1 \in S ELSE m = f
      <3>1. m \in Nat /\ f <= m
        BY <1>0
      <3>2. CASE m > f
        <4>1. f + 1 \in f..m
          BY <1>0, <3>1, <3>2
        <4> QED
          BY <1>0, <1>4, <3>2, <4>1
      <3> QED
        BY <1>0, <3>1, <3>2
    <2>2. Len(delivered') \in 1..Len(delivered')
      BY <1>0, <1>1
    <2>3. Delivered(f)'
      BY <1>1, <2>2 DEF Delivered, Latest
    <2> QED
      BY <1>0, <1>1, <1>4, <2>1, <2>3 DEF BatchContinues, Delivered
  <1>6. BacklogReachesInitial'
    <2> SUFFICES ASSUME pc[Main] = "backlog"
                 PROVE  /\ \A m \in S : m <= initial
                        /\ initial \in S
                        /\ delivered'[1] <= initial
      BY <1>0, <1>1 DEF BacklogReachesInitial
    <2>1. /\ \A m \in S : m <= initial
          /\ initial \in S
          /\ delivered # <<>> => delivered[1] <= initial
      BY <1>0 DEF OrderInv, BacklogReachesInitial
    <2>2. f <= initial
      BY <1>0, <2>1
    <2>3. delivered'[1] <= initial
      BY <1>1, <2>1, <2>2
    <2> QED
      BY <2>1, <2>3
  <1>7. CursorTouches' /\ BatchFollowsCursor'
    <2> SUFFICES ASSUME pc[Main] = "poll_batch"
                 PROVE  /\ \A m \in S : m > cursor[Main]
                        /\ batchCursor[Main] = 0 \/ batchCursor[Main] >= cursor[Main]
                        /\ cursor[Main] <= f /\ delivered'[1] <= cursor[Main] + 1
      BY <1>0, <1>1 DEF CursorTouches, BatchFollowsCursor, PollLabels
    <2>1. /\ \A m \in S : m > cursor[Main]
          /\ delivered = <<>> => cursor[Main] + 1 \in S
          /\ batchCursor[Main] = 0 \/ batchCursor[Main] >= cursor[Main]
      BY <1>0 DEF OrderInv, BatchFollowsCursor
    <2>2. delivered # <<>> =>
              cursor[Main] <= Latest /\ delivered[1] <= cursor[Main] + 1
      BY DEF OrderInv, CursorTouches, PollLabels
    <2>3. cursor[Main] <= f
      BY <1>0, <2>1
    <2>4. delivered'[1] <= cursor[Main] + 1
      BY <1>0, <1>1, <2>1, <2>2
    <2> QED
      BY <2>1, <2>3, <2>4
  <1> QED
    BY <1>3, <1>5, <1>6, <1>7 DEF OrderInv

\* A batch whose first message was delivered continues the deliveries without it.
LEMMA RestContinues ==
    ASSUME DispatchTypeOK, OrderInv, NEW f \in batch[Main],
           pc[Main] \in {"backlog", "poll_batch"}, cursor[Main] \in Nat, initial \in Nat,
           batch[Main] \subseteq Messages, batch'[Main] = batch[Main] \ {f},
           \A n \in batch[Main] : f <= n, Delivered(f),
           UNCHANGED <<pc, delivered, cursor, initial, batchCursor>>
    PROVE  OrderInv'
  <1> DEFINE S == batch[Main]
             R == batch'[Main]
  <1>0. /\ S \subseteq Nat /\ f \in S /\ R = S \ {f}
        /\ \A n \in R : f < n /\ n \in S
        /\ UNCHANGED <<pc, delivered, cursor, initial, batchCursor>>
    <2>1. S \subseteq Nat /\ f \in S /\ R = S \ {f}
      BY SessionAssumption
    <2>2. ASSUME NEW n \in R
          PROVE  f < n /\ n \in S
      <3>1. n \in Nat /\ f \in Nat /\ f <= n /\ n # f
        BY <2>1, <2>2
      <3> QED
        BY <2>1, <2>2, <3>1
    <2> QED
      BY <2>1, <2>2
  <1>1. delivered # <<>> /\ Latest \in Nat /\ f \in Nat /\ f <= Latest
    BY LatestIsGreatest DEF OrderInv
  <1>2. /\ \A m, n \in S : \A k \in m..n : k \in S
        /\ \A m \in S : IF m > Latest THEN Latest + 1 \in S ELSE Delivered(m)
    BY <1>1 DEF OrderInv, BatchContinues
  <1>3. Consecutive'
    BY DEF OrderInv, Consecutive, Latest
  <1> HIDE DEF R
  <1>4. BatchContinues'
    <2>1. ASSUME NEW m \in R, NEW n \in R, NEW k \in m..n
          PROVE  k \in R
      <3>1. m \in Nat /\ n \in Nat /\ f < m
        BY <1>0
      <3>2. k \in S
        BY <1>0, <1>2
      <3>3. k # f
        BY <1>1, <3>1
      <3> QED
        BY <1>0, <3>2, <3>3
    <2>2. ASSUME NEW m \in R
          PROVE  IF m > Latest THEN Latest + 1 \in R ELSE Delivered(m)
      <3>1. IF m > Latest THEN Latest + 1 \in S ELSE Delivered(m)
        BY <1>0, <1>2
      <3>2. Latest + 1 # f
        BY <1>1
      <3> QED
        BY <1>0, <3>1, <3>2
    <2>3. Latest' = Latest /\ \A m : Delivered(m)' <=> Delivered(m)
      BY DEF Latest, Delivered
    <2> QED
      BY <2>1, <2>2, <2>3, <1>0 DEF BatchContinues, R
  <1>5. BacklogReachesInitial'
    <2> SUFFICES ASSUME pc[Main] = "backlog"
                 PROVE  /\ \A m \in R : m <= initial
                        /\ R # {} => initial \in R
                        /\ delivered[1] <= initial /\ (Latest >= initial \/ initial \in R)
      BY <1>0 DEF BacklogReachesInitial, R, Latest
    <2>1. /\ \A m \in S : m <= initial
          /\ initial \in S
          /\ delivered[1] <= initial
      BY <1>0, <1>1 DEF OrderInv, BacklogReachesInitial
    <2>2. R # {} => initial \in R
      BY <1>0, <1>1, <2>1
    <2>3. Latest >= initial \/ initial \in R
      BY <1>0, <1>1, <2>1
    <2> QED
      BY <1>0, <2>1, <2>2, <2>3
  <1>6. CursorTouches' /\ BatchFollowsCursor'
    BY <1>0, <1>1 DEF OrderInv, CursorTouches, BatchFollowsCursor, PollLabels, Latest, R
  <1> QED
    BY <1>3, <1>4, <1>5, <1>6 DEF OrderInv

\* dispatch_message(): each message of a batch follows the one before.
LEMMA OrderDispatch ==
    ASSUME OrderInv, NoSocket, EmittingFirst, SessionInv, WindowSuffices,
           \/ DispatchDuplicate(Main) \/ DispatchNew(Main)
           \/ DispatchReturns(Main) \/ DispatchThrows(Main)
    PROVE  OrderInv' /\ UNCHANGED initial
  <1> USE DEF flagVars, fetchVars, wsVars, boundVars
  <1> DEFINE f == FirstOf(batch[Main])
  <1>0. /\ TypeOK /\ DispatchTypeOK /\ DispatchInv /\ ControlInv
        /\ Main \in Threads /\ Messages \subseteq Nat
        /\ cursor[Main] \in Nat /\ initial \in Nat /\ batch[Main] \subseteq Messages
    BY ThreeActors, SessionAssumption DEF SessionInv, DispatchInv, TypeOK
  <1>1. batch[Main] # {} => f \in batch[Main] /\ \A n \in batch[Main] : f <= n
    BY <1>0, FirstOfIsMember
  <1>2. \/ DispatchDuplicate(Main) \/ DispatchNew(Main) \/ DispatchReturns(Main)
           => pc[Main] \in {"backlog", "poll_batch"} /\ batch[Main] # {}
    <2>1. \/ DispatchDuplicate(Main) \/ DispatchNew(Main) => Dispatching(Main)
      BY DEF DispatchDuplicate, DispatchNew
    <2>2. DispatchReturns(Main) => dispatch_mu_ = Main
      BY DEF DispatchReturns, EndDelivery
    <2>3. dispatch_mu_ = Main => pc[Main] \in DispatchLabels /\ batch[Main] # {}
      BY <1>0 DEF ControlInv, DispatchOwned
    <2> QED
      BY <2>1, <2>2, <2>3 DEF Dispatching, DispatchLabels, NoSocket, SharedLabels
  <1>3. ASSUME batch[Main] # {}, pc[Main] \in {"backlog", "poll_batch"},
               Consume(Main), Delivered(f),
               UNCHANGED <<pc, delivered, cursor, initial, batchCursor>>
        PROVE  OrderInv'
    <2>1. batch'[Main] = batch[Main] \ {f}
      BY <1>0, <1>3 DEF Consume, TypeOK
    <2> HIDE DEF f
    <2> QED
      BY <1>0, <1>1, <1>3, <2>1, RestContinues
  <1>4. CASE DispatchDuplicate(Main)
    <2>1. /\ AlreadySeen(f) /\ Consume(Main)
          /\ UNCHANGED <<pc, delivered, cursor, initial, batchCursor>>
      BY <1>4 DEF DispatchDuplicate, DropDuplicate, dispatchVars
    <2>2. Delivered(f)
      BY <1>0, <2>1, SeenWasDelivered DEF AlreadySeen
    <2>3. batch[Main] # {} /\ pc[Main] \in {"backlog", "poll_batch"}
      BY <1>2, <1>4
    <2> QED
      BY <1>3, <2>1, <2>2, <2>3
  <1>5. CASE DispatchNew(Main)
    <2>1. /\ ~AlreadySeen(f) /\ f \in Messages
          /\ IF f = NoId THEN UNCHANGED delivered ELSE delivered' = Append(delivered, f)
          /\ UNCHANGED <<pc, fetchVars>>
      BY <1>0, <1>1, <1>2, <1>5 DEF DispatchNew, BeginDelivery
    <2>2. f # NoId
      BY <2>1, DispatchAssumption
    <2>3. ~Delivered(f)
      BY <1>0, <2>1, <2>2, WindowIsHistory DEF AlreadySeen, Delivered
    <2>4. /\ batch[Main] # {} /\ pc[Main] \in {"backlog", "poll_batch"}
          /\ delivered' = Append(delivered, f)
      BY <1>2, <1>5, <2>1, <2>2
    <2> HIDE DEF f
    <2>5. OrderInv'
      BY <1>0, <1>1, <2>1, <2>3, <2>4, NextIsDelivered
    <2> QED
      BY <2>1, <2>5
  <1>6. CASE DispatchReturns(Main)
    <2>1. /\ dispatch_mu_ = Main /\ Consume(Main)
          /\ UNCHANGED <<pc, delivered, cursor, initial, batchCursor>>
      BY <1>6 DEF DispatchReturns, EndDelivery
    <2>2. Delivered(f)
      BY <1>0, <2>1 DEF EmittingFirst
    <2>3. batch[Main] # {} /\ pc[Main] \in {"backlog", "poll_batch"}
      BY <1>2, <1>6
    <2> QED
      BY <1>3, <2>1, <2>2, <2>3
  <1>7. CASE DispatchThrows(Main)
    <2>1. UNCHANGED <<delivered, initial>>
      BY <1>7 DEF DispatchThrows, AbortDelivery
    <2>2. pc'[Main] \in {"idle", "crashed"}
      BY <1>0, <1>7, MainGoes, ThreeActors
         DEF DispatchThrows, RunThrows, Crash, ControlInv
    <2>3. Consecutive'
      BY <2>1 DEF OrderInv, Consecutive, Latest
    <2> QED
      BY <2>1, <2>2, <2>3
         DEF OrderInv, BatchContinues, BacklogReachesInitial, CursorTouches,
             BatchFollowsCursor, PollLabels
  <1> QED
    BY <1>4, <1>5, <1>6, <1>7

\* fetch_once() and poll_loop(): a polled batch goes on where the cursor is,
\* and the cursor where the batch ended.
LEMMA OrderPolls ==
    ASSUME OrderInv, NoSocket, PollInv, SessionInv, initial # 0,
           \/ BeginFetch(Main)
           \/ PollTop(Main) \/ Polled(Main) \/ PollFails(Main) \/ PollBatchDone(Main)
    PROVE  OrderInv' /\ UNCHANGED initial
  <1> USE DEF dispatchVars, flagVars, wsVars, boundVars, PollLabels
  <1>0. /\ TypeOK /\ DispatchTypeOK /\ ControlInv /\ PcTypes /\ Main \in Threads
        /\ cursor[Main] \in Nat /\ initial \in Nat /\ published \in Nat
        /\ cursor \in [Threads -> Nat] /\ batchCursor \in [Threads -> Nat]
        /\ batch \in [Threads -> SUBSET Messages]
    BY ThreeActors DEF SessionInv, TypeOK, ControlInv
  <1>1. CASE BeginFetch(Main)
    <2>1. /\ pc[Main] \in {"initial_fetch", "poll_wait"}
          /\ Goto(Main, FetchingFrom[pc[Main]])
          /\ UNCHANGED <<delivered, fetchVars>>
      BY <1>1 DEF BeginFetch, FetchingFrom, NoSocket, SharedLabels
    <2>2. /\ FetchingFrom["initial_fetch"] = "initial_fetching"
          /\ FetchingFrom["poll_wait"] = "poll_fetching"
      BY DEF FetchingFrom
    <2>3. \/ pc[Main] = "initial_fetch" /\ pc'[Main] = "initial_fetching"
          \/ pc[Main] = "poll_wait" /\ pc'[Main] = "poll_fetching"
      BY <1>0, <2>1, <2>2, MainGoes
    <2> QED
      BY <2>1, <2>3, QuietOrder DEF fetchVars
  <1>2. CASE PollTop(Main) \/ PollFails(Main)
    <2>1. /\ pc[Main] \in {"poll_top", "poll_fetching"}
          /\ pc'[Main] \in {"poll_top", "poll_wait", "teardown"}
          /\ UNCHANGED <<delivered, fetchVars>>
      BY <1>0, <1>2, MainGoes, ThreeActors DEF PollTop, PollFails
    <2> QED
      BY <2>1, QuietOrder DEF fetchVars
  <1>3. CASE Polled(Main)
    <2>1. /\ pc[Main] = "poll_fetching" /\ Goto(Main, "poll_batch")
          /\ UNCHANGED <<delivered, cursor, initial>>
      BY <1>3 DEF Polled
    <2>2. PICK r \in FetchReplies(cursor[Main]) :
              /\ batch' = [batch EXCEPT ![Main] = r.messages]
              /\ batchCursor' = [batchCursor EXCEPT ![Main] = r.cursor]
      BY <1>3 DEF Polled
    <2>3. pc'[Main] = "poll_batch"
      BY <1>0, <2>1, MainGoes
    <2>4. cursor[Main] # 0
      BY <1>0, <2>1 DEF PollInv, CursorCovered
    <2>5. PICK to \in cursor[Main]..published : \E n \in {0, to} :
              r = [messages |-> (cursor[Main] + 1)..to, cursor |-> n]
      BY <2>2, <2>4 DEF FetchReplies, ResumesAt
    <2>6. /\ batch'[Main] = (cursor[Main] + 1)..to
          /\ batchCursor'[Main] \in {0, to}
      BY <1>0, <2>2, <2>5
    <2>7. Consecutive'
      BY <2>1 DEF OrderInv, Consecutive, Latest
    <2>8. ASSUME delivered # <<>>, NEW m \in (cursor[Main] + 1)..to
          PROVE  IF m > Latest THEN Latest + 1 \in (cursor[Main] + 1)..to ELSE Delivered(m)
      <3>1. /\ cursor[Main] <= Latest /\ delivered[1] <= cursor[Main] + 1
            /\ Latest \in Nat /\ delivered[1] \in Nat
        BY <2>1, <2>8, <1>0, EndsOfDelivered DEF OrderInv, CursorTouches
      <3>2. CASE m > Latest
        BY <1>0, <3>1, <3>2
      <3>3. CASE m <= Latest
        <4>1. delivered[1] <= m /\ m \in Nat
          BY <1>0, <3>1
        <4> QED
          BY <1>0, <2>8, <3>1, <3>3, <4>1, BetweenIsDelivered DEF OrderInv
      <3> QED
        BY <1>0, <3>1, <3>2, <3>3
    <2>9. BatchContinues'
      <3>1. \A m, n \in (cursor[Main] + 1)..to : \A k \in m..n :
                k \in (cursor[Main] + 1)..to
        BY <1>0
      <3>2. \A m : Delivered(m)' <=> Delivered(m)
        BY <2>1 DEF Delivered
      <3> QED
        BY <2>1, <2>6, <2>8, <3>1, <3>2 DEF BatchContinues, Latest
    <2>10. CursorTouches'
      BY <2>1, <2>3 DEF OrderInv, CursorTouches, Latest
    <2>11. BatchFollowsCursor'
      <3>1. \A m \in (cursor[Main] + 1)..to :
                m > cursor[Main] /\ cursor[Main] + 1 \in (cursor[Main] + 1)..to
        BY <1>0
      <3>2. to >= cursor[Main]
        BY <1>0
      <3> QED
        BY <2>1, <2>6, <3>1, <3>2 DEF BatchFollowsCursor
    <2>12. BacklogReachesInitial'
      BY <2>3 DEF BacklogReachesInitial
    <2> QED
      BY <2>1, <2>7, <2>9, <2>10, <2>11, <2>12 DEF OrderInv
  <1>4. CASE PollBatchDone(Main)
    <2>1. /\ pc[Main] = "poll_batch" /\ batch[Main] = {} /\ Goto(Main, "poll_top")
          /\ UNCHANGED <<delivered, initial, batch>>
          /\ cursor' = IF batchCursor[Main] = 0 THEN cursor
                       ELSE [cursor EXCEPT ![Main] = batchCursor[Main]]
      BY <1>4 DEF PollBatchDone
    <2>2. pc'[Main] = "poll_top"
      BY <1>0, <2>1, MainGoes
    <2>3. cursor'[Main] = IF batchCursor[Main] = 0 THEN cursor[Main] ELSE batchCursor[Main]
      BY <1>0, <2>1
    <2>4. Consecutive'
      BY <2>1 DEF OrderInv, Consecutive, Latest
    <2>5. ASSUME delivered # <<>>
          PROVE  cursor'[Main] <= Latest /\ delivered[1] <= cursor'[Main] + 1
      <3>1. /\ cursor[Main] <= Latest /\ delivered[1] <= cursor[Main] + 1
            /\ Latest \in Nat /\ delivered[1] \in Nat
        BY <2>1, <2>5, <1>0, EndsOfDelivered DEF OrderInv, CursorTouches
      <3>2. CASE batchCursor[Main] = 0
        BY <2>3, <3>1, <3>2
      <3>3. CASE batchCursor[Main] # 0
        <4>1. batchCursor[Main] \in Nat /\ batchCursor[Main] >= cursor[Main]
          BY <1>0, <2>1, <3>3 DEF OrderInv, BatchFollowsCursor
        <4>2. \A m \in (cursor[Main] + 1)..batchCursor[Main] : Delivered(m)
          BY <1>0, <2>1 DEF PollInv, BatchCovers
        <4>3. CASE batchCursor[Main] = cursor[Main]
          BY <2>3, <3>1, <3>3, <4>3
        <4>4. CASE batchCursor[Main] # cursor[Main]
          <5>1. batchCursor[Main] \in (cursor[Main] + 1)..batchCursor[Main]
            BY <1>0, <4>1, <4>4
          <5>2. batchCursor[Main] <= Latest
            BY <1>0, <4>2, <5>1, LatestIsGreatest DEF OrderInv
          <5> QED
            BY <1>0, <2>3, <3>1, <3>3, <4>1, <5>2
        <4> QED
          BY <4>3, <4>4
      <3> QED
        BY <3>2, <3>3
    <2>6. CursorTouches'
      BY <2>1, <2>5 DEF CursorTouches, Latest
    <2>7. BatchContinues' /\ BacklogReachesInitial' /\ BatchFollowsCursor'
      BY <2>2 DEF BatchContinues, BacklogReachesInitial, BatchFollowsCursor
    <2> QED
      BY <2>1, <2>4, <2>6, <2>7 DEF OrderInv
  <1> QED
    BY <1>1, <1>2, <1>3, <1>4

\* The initial fetch: its messages are an interval that ends with its cursor.
LEMMA OrderInitialFetch ==
    ASSUME SessionInv, delivered = <<>>, InitialFetched, initial' # 0
    PROVE  OrderInv' /\ UNCHANGED delivered
  <1> USE DEF dispatchVars, PollLabels
  <1>0. PcTypes /\ published \in Nat /\ batch \in [Threads -> SUBSET Messages] /\ Main \in Threads
    BY ThreeActors DEF SessionInv, TypeOK, ControlInv
  <1>1. PICK r \in FetchReplies(0) :
            /\ initial' = r.cursor
            /\ batch' = [batch EXCEPT ![Main] =
                             IF options.process_connect_events THEN r.messages ELSE {}]
    BY DEF InitialFetched
  <1>2. /\ UNCHANGED delivered
        /\ pc'[Main] = "connect_callback"
    BY <1>0, MainGoes DEF InitialFetched
  <1>3. PICK from \in 0..published : \E to \in from..published : \E n \in {0, to} :
            r = [messages |-> (from + 1)..to, cursor |-> n]
    BY DEF FetchReplies, ResumesAt
  <1>4. /\ r.messages = (from + 1)..initial' /\ initial' \in Nat
    BY <1>0, <1>1, <1>3
  <1>5. batch'[Main] = (from + 1)..initial' \/ batch'[Main] = {}
    BY <1>0, <1>1, <1>4
  <1>6. /\ \A m, n \in batch'[Main] : \A k \in m..n : k \in batch'[Main]
        /\ \A m \in batch'[Main] : m <= initial' /\ initial' \in batch'[Main]
    BY <1>0, <1>4, <1>5
  <1>7. Consecutive'
    BY <1>2 DEF Consecutive
  <1>8. BatchContinues' /\ BacklogReachesInitial'
    BY <1>2, <1>6 DEF BatchContinues, BacklogReachesInitial
  <1>9. CursorTouches' /\ BatchFollowsCursor'
    BY <1>2 DEF CursorTouches, BatchFollowsCursor
  <1> QED
    BY <1>2, <1>7, <1>8, <1>9 DEF OrderInv

\* The poll loop starts with the cursor of the initial fetch, which is where the
\* backlog ended.
LEMMA OrderStart ==
    ASSUME OrderInv, SessionInv, PollingAlone, StartTransport
    PROVE  OrderInv' /\ UNCHANGED initial
  <1>0. /\ PcTypes /\ Main \in Threads /\ initial \in Nat /\ DispatchTypeOK
    BY ThreeActors DEF SessionInv, TypeOK, ControlInv
  <1>1. /\ pc[Main] = "backlog" /\ batch[Main] = {}
        /\ UNCHANGED <<delivered, initial, batch, batchCursor>>
        /\ cursor'[Main] = initial
    BY <1>0 DEF StartTransport, dispatchVars
  <1>2. pc'[Main] = "poll_top"
    BY <1>0, ThreeActors DEF StartTransport, PcTypes, PollingAlone
  <1>3. Consecutive'
    BY <1>1 DEF OrderInv, Consecutive, Latest
  <1>4. delivered # <<>> =>
            /\ delivered[1] <= initial /\ Latest >= initial
            /\ delivered[1] \in Nat /\ Latest \in Nat
    BY <1>0, <1>1, EndsOfDelivered DEF OrderInv, BacklogReachesInitial
  <1>5. CursorTouches'
    BY <1>0, <1>1, <1>4 DEF CursorTouches, Latest
  <1> QED
    BY <1>1, <1>2, <1>3, <1>5
       DEF OrderInv, BatchContinues, BacklogReachesInitial, BatchFollowsCursor

\* What else run() does before its poll loop and after it, and the others.
LEMMA OrderElsewhere ==
    ASSUME SessionInv, PhaseInv,
           \/ BeginStopRequested \/ BeginLiveEnded
           \/ WarmUp \/ ResolveRoomFromHtml \/ ResolveRoomFromApi \/ LiveCheck \/ RoomInfo
           \/ InitialFetchThrows \/ ConnectEmitted
           \/ Teardown \/ DisconnectEmitted
           \/ DisconnectSetsStop \/ DisconnectStep
           \/ BeginFetchGiftList \/ EndFetchGiftList
           \/ Publish \/ Terminated \/ UNCHANGED vars
    PROVE  /\ UNCHANGED <<delivered, fetchVars, runs>>
           /\ pc'[Main] \in EarlyLabels => pc[Main] \in EarlyLabels
           /\ pc'[Main] \in {"connect_callback", "backlog"} =>
                  pc[Main] \in {"connect_callback", "backlog"}
           /\ pc'[Main] = "poll_batch" => pc[Main] = "poll_batch"
           /\ pc'[Main] \in PollLabels => pc[Main] \in PollLabels
  <1> USE DEF dispatchVars, flagVars, wsVars, boundVars, EarlyLabels, SetupLabels, PollLabels
  <1>0. PcTypes /\ ControlInv
    BY DEF SessionInv, ControlInv
  <1>1. CASE BeginStopRequested \/ BeginLiveEnded
    BY <1>0, <1>1, MainGoes DEF BeginStopRequested, BeginLiveEnded, ForgetLiveEnd
  <1>2. ASSUME NEW from \in SetupLabels, NEW to \in SetupLabels \cup {"initial_fetch"},
               SetupStep(from, to)
        PROVE  /\ UNCHANGED <<delivered, fetchVars, runs>>
               /\ pc[Main] \in SetupLabels /\ pc'[Main] \in SetupLabels \cup {"initial_fetch"}
    BY <1>0, <1>2, MainGoes DEF SetupStep
  <1>3. ASSUME NEW from, SetupThrows(from)
        PROVE  /\ UNCHANGED <<delivered, fetchVars, runs>>
               /\ pc'[Main] = "idle"
    BY <1>0, <1>3, MainGoes DEF SetupThrows, RunThrows
  <1>4. CASE \/ WarmUp \/ ResolveRoomFromHtml \/ ResolveRoomFromApi \/ LiveCheck \/ RoomInfo
    BY <1>2, <1>3, <1>4
       DEF WarmUp, ResolveRoomFromHtml, ResolveRoomFromApi, LiveCheck, RoomInfo
  <1>5. CASE InitialFetchThrows \/ Teardown
    BY <1>0, <1>5, MainGoes DEF InitialFetchThrows, RunThrows, Teardown
  <1>6. CASE ConnectEmitted \/ DisconnectEmitted
    BY <1>0, <1>3, <1>6, MainGoes DEF ConnectEmitted, DisconnectEmitted, SetupStep
  <1>7. CASE \/ DisconnectSetsStop \/ DisconnectStep
             \/ BeginFetchGiftList \/ EndFetchGiftList
             \/ Publish \/ Terminated \/ UNCHANGED vars
    <2>1. pc'[Main] = pc[Main]
      BY <1>0, <1>7, OthersEffect
    <2>2. UNCHANGED <<delivered, fetchVars, runs>>
      BY <1>7
         DEF DisconnectSetsStop, DisconnectStep, DisconnectClearsRunning,
             DisconnectClosesSocket, BeginFetchGiftList, EndFetchGiftList, UserStep,
             Publish, Terminated, vars
    <2> QED
      BY <2>1, <2>2
  <1> QED
    BY <1>1, <1>4, <1>5, <1>6, <1>7

\* Without dual mode the poll thread does nothing.
LEMMA NoPollThread ==
    ASSUME ControlInv, PollingAlone
    PROVE  ~ThreadStep(Poller)
  <1>1. pc[Poller] \in {"off", "crashed"}
    BY DEF ControlInv, PcTypes, PollerPhase, Dual, PollingAlone
  <1>2. dispatch_mu_ # Poller
    BY <1>1, ThreeActors DEF ControlInv, DispatchOwned, DispatchLabels
  <1>3. ~DispatchDuplicate(Poller) /\ ~DispatchNew(Poller)
    BY <1>1 DEF DispatchDuplicate, DispatchNew, Dispatching
  <1>4. ~DispatchReturns(Poller) /\ ~DispatchThrows(Poller)
    BY <1>2 DEF DispatchReturns, DispatchThrows, EndDelivery, AbortDelivery
  <1>5. ~BeginFetch(Poller)
    BY <1>1 DEF BeginFetch, FetchingFrom
  <1>6. ~PollTop(Poller) /\ ~Polled(Poller) /\ ~PollFails(Poller) /\ ~PollBatchDone(Poller)
    BY <1>1 DEF PollTop, Polled, PollFails, PollBatchDone
  <1> QED
    BY <1>3, <1>4, <1>5, <1>6 DEF ThreadStep

\* The options are those the client was built with.
LEMMA OptionsStay ==
    ASSUME ControlInv, [Next]_vars
    PROVE  UNCHANGED options
  <1>1. ASSUME NEW t \in Threads, ThreadStep(t)
        PROVE  UNCHANGED options
    BY <1>1, DispatchEffect, PollEffect DEF ThreadStep
  <1> QED
    BY <1>1, SetupEffect, TransportEffect, OthersEffect, ThreeActors DEF Next, RunStep

LEMMA FirstRunStep ==
    ASSUME FirstRun, NoSocket, PollingAlone,
           SessionInv, PhaseInv, PollInv, WindowSuffices, [Next]_vars
    PROVE  FirstRun'
  <1> USE DEF EarlyLabels, SetupLabels, PollLabels
  <1>0. /\ ControlInv /\ PcTypes /\ runs \in Nat /\ DispatchTypeOK
        /\ runs = 0 => pc[Main] = "idle"
    BY SessionAssumption
       DEF SessionInv, TypeOK, ControlInv, PhaseInv, IdleAtFirst
  <1>1. CASE BeginRun
    <2>1. /\ pc[Main] = "idle" /\ pc'[Main] = "begin_stop" /\ runs' = runs + 1
          /\ UNCHANGED <<delivered, fetchVars>>
      BY <1>0, <1>1, MainGoes DEF BeginRun, dispatchVars
    <2>2. ASSUME runs' <= 1
          PROVE  delivered = <<>> /\ OrderInv'
      <3>1. runs = 0 /\ delivered = <<>>
        BY <1>0, <2>1, <2>2 DEF FirstRun, FreshStart
      <3>2. Consecutive'
        BY <2>1, <3>1 DEF Consecutive
      <3> QED
        BY <2>1, <3>1, <3>2
           DEF OrderInv, BatchContinues, BacklogReachesInitial, CursorTouches,
               BatchFollowsCursor
    <2> QED
      BY <2>1, <2>2 DEF FirstRun, FreshStart
  <1>2. CASE InitialFetched
    <2>1. /\ pc[Main] = "initial_fetching" /\ UNCHANGED <<delivered, runs>>
      BY <1>2 DEF InitialFetched, dispatchVars, boundVars
    <2>2. runs' <= 1 => delivered = <<>>
      BY <2>1 DEF FirstRun, FreshStart
    <2> QED
      BY <1>2, <2>1, <2>2, OrderInitialFetch DEF FirstRun, FreshStart
  <1>3. CASE StartTransport
    <2>1. pc[Main] = "backlog" /\ UNCHANGED <<runs, initial>>
      BY <1>3 DEF StartTransport, boundVars
    <2>2. pc'[Main] = "poll_top"
      BY <1>0, <1>3, ThreeActors DEF StartTransport, PcTypes, PollingAlone
    <2> QED
      BY <1>0, <1>3, <2>1, <2>2, OrderStart DEF FirstRun, FreshStart
  <1>4. CASE \/ DispatchDuplicate(Main) \/ DispatchNew(Main)
             \/ DispatchReturns(Main) \/ DispatchThrows(Main)
    <2>1. UNCHANGED <<runs, initial>>
      BY <1>4
         DEF DispatchDuplicate, DispatchNew, DispatchReturns, DispatchThrows, fetchVars,
             boundVars
    <2>2. pc[Main] \in DispatchLabels /\ pc'[Main] \in DispatchLabels \cup {"idle", "crashed"}
      <3>1. dispatch_mu_ = Main => pc[Main] \in DispatchLabels
        BY <1>0, ThreeActors DEF ControlInv, DispatchOwned
      <3>2. pc[Main] \in DispatchLabels
        BY <1>4, <3>1
           DEF DispatchDuplicate, DispatchNew, DispatchReturns, DispatchThrows, Dispatching,
               DispatchLabels, EndDelivery, AbortDelivery
      <3> QED
        BY <1>0, <1>4, <3>2, DispatchEffect, ThreeActors
    <2>3. FreshStart'
      BY <1>0, <2>1, <2>2 DEF FreshStart, DispatchLabels
    <2>4. runs <= 1 /\ initial # 0 => OrderInv'
      BY <1>4, OrderDispatch DEF FirstRun, PollInv
    <2> QED
      BY <2>1, <2>3, <2>4 DEF FirstRun
  <1>5. CASE \/ BeginFetch(Main)
             \/ PollTop(Main) \/ Polled(Main) \/ PollFails(Main) \/ PollBatchDone(Main)
    <2>1. UNCHANGED <<runs, delivered, initial>>
      BY <1>5
         DEF BeginFetch, PollTop, Polled, PollFails, PollBatchDone, fetchVars, boundVars,
             dispatchVars
    <2>2. pc'[Main] \in EarlyLabels => pc[Main] \in EarlyLabels
      BY <1>0, <1>5, PollEffect, ThreeActors
    <2>3. runs <= 1 => FreshStart'
      BY <2>1, <2>2 DEF FirstRun, FreshStart
    <2>4. runs <= 1 /\ initial # 0 => OrderInv'
      BY <1>5, OrderPolls DEF FirstRun
    <2> QED
      BY <2>1, <2>3, <2>4 DEF FirstRun
  <1>6. CASE \/ BeginStopRequested \/ BeginLiveEnded
             \/ WarmUp \/ ResolveRoomFromHtml \/ ResolveRoomFromApi \/ LiveCheck \/ RoomInfo
             \/ InitialFetchThrows \/ ConnectEmitted
             \/ Teardown \/ DisconnectEmitted
             \/ DisconnectSetsStop \/ DisconnectStep
             \/ BeginFetchGiftList \/ EndFetchGiftList
             \/ Publish \/ Terminated \/ UNCHANGED vars
    <2>1. /\ UNCHANGED <<delivered, fetchVars, runs>>
          /\ pc'[Main] \in EarlyLabels => pc[Main] \in EarlyLabels
          /\ OrderInv => OrderInv'
      BY <1>6, OrderElsewhere, QuietOrder
    <2>2. UNCHANGED initial
      BY <2>1 DEF fetchVars
    <2> QED
      BY <2>1, <2>2 DEF FirstRun, FreshStart
  <1>7. ~ \/ Join
          \/ WsTop \/ WsSign \/ WsSigned \/ WsConnected \/ HandshakeFailed
          \/ WsLoopEnds \/ WsReceive \/ WsFrame \/ WsAgain \/ WsDropped \/ WsFrameDone
          \/ WsClose \/ WsRetry \/ WsBackoff \/ WsRefetched \/ WsRefetchFails \/ WakePoller
    BY DEF NoSocket, SharedLabels, Join, WsTop, WsSign, WsSigned, WsConnected,
           HandshakeFailed, WsLoopEnds, WsReceive, WsFrame, WsAgain, WsDropped, WsFrameDone,
           WsClose, WsRetry, WsBackoff, WsRefetched, WsRefetchFails, WakePoller, WsLoopStep
  <1> QED
    BY <1>0, <1>1, <1>2, <1>3, <1>4, <1>5, <1>6, <1>7, NoPollThread
       DEF Next, RunStep, ThreadStep

\* With polling alone, as long as the window of seen ids holds what was
\* delivered, a first run that started from a cursor delivers the messages one
\* after the other, whatever its fetches come to.
THEOREM PollingLeavesNothingOut ==
    Cardinality(Messages) <= kMaxSeenIds => (Spec => []PollingGapless)
  <1> SUFFICES ASSUME Cardinality(Messages) <= kMaxSeenIds
               PROVE  Spec => []PollingGapless
    OBVIOUS
  <1>1. Init => GapInv
    <2> SUFFICES ASSUME Init
                 PROVE  GapInv
      OBVIOUS
    <2>1. pc[Main] = "idle" /\ delivered = <<>> /\ initial = 0
      BY ThreeActors DEF Init, DispatchInit
    <2> QED
      BY <2>1 DEF GapInv, NoSocket, SharedLabels, FirstRun, FreshStart
  <1>2. /\ GapInv /\ SessionInv /\ PhaseInv /\ PollInv /\ WindowSuffices /\ [Next]_vars
        => GapInv'
    <2> SUFFICES ASSUME GapInv, SessionInv, PhaseInv, PollInv, WindowSuffices, [Next]_vars
                 PROVE  GapInv'
      OBVIOUS
    <2>1. UNCHANGED options
      BY OptionsStay DEF SessionInv
    <2>2. CASE PollingAlone
      BY <2>2, NoSocketStep, FirstRunStep DEF GapInv, SessionInv
    <2>3. CASE ~PollingAlone
      BY <2>1, <2>3 DEF GapInv, PollingAlone
    <2> QED
      BY <2>2, <2>3
  <1>3. SessionInv /\ GapInv => PollingGapless
    <2> SUFFICES ASSUME SessionInv, GapInv, PollingAlone, runs = 1, initial # 0,
                        NEW i \in 1..(Len(delivered) - 1)
                 PROVE  delivered[i + 1] = delivered[i] + 1
      BY DEF PollingGapless, PollingAlone
    <2>1. /\ Consecutive /\ Len(delivered) \in Nat /\ delivered \in Seq(Messages)
          /\ Messages \subseteq Nat
      BY LenProperties, SessionAssumption
         DEF GapInv, FirstRun, OrderInv, SessionInv, DispatchInv, DispatchTypeOK
    <2>2. i \in 1..Len(delivered) /\ i + 1 \in 1..Len(delivered)
      BY <2>1
    <2>3. /\ delivered[i] + Len(delivered) = Latest + i
          /\ delivered[i + 1] + Len(delivered) = Latest + (i + 1)
      BY <2>1, <2>2 DEF Consecutive
    <2>4. delivered[i] \in Nat /\ delivered[i + 1] \in Nat /\ Latest \in Nat
      <3>1. Len(delivered) \in 1..Len(delivered)
        BY <2>1, <2>2
      <3>2. \A k \in 1..Len(delivered) : delivered[k] \in Nat
        BY <2>1, ElementOfSeq
      <3> QED
        BY <2>2, <3>1, <3>2 DEF Latest
    <2> QED
      BY <2>1, <2>2, <2>3, <2>4
  <1>4. Spec => []WindowSuffices
    BY WindowLasts
  <1> QED
    BY <1>1, <1>2, <1>3, <1>4, SessionInvHolds, PhaseInvHolds, PollInvHolds, PTL DEF Spec
=============================================================================
