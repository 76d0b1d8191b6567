---------------------------- MODULE LiveSession ----------------------------
(***************************************************************************)
(* TikTokLiveClient::run() and everything that runs with it: the setup     *)
(* steps, the WebSocket with its reconnects, the poll loop (in this thread *)
(* or, in dual mode, in one of its own), disconnect() and                  *)
(* fetch_gift_list() from the application's thread, and the server.        *)
(*                                                                         *)
(* Threads are Main, which calls run(), and Poller; User is the            *)
(* application's other thread.  pc says where each one is.  The server's   *)
(* messages are 1, 2, ... in the order it produces them, and a cursor is   *)
(* the number of the last message it covers; 0 is the empty cursor.        *)
(*                                                                         *)
(* A loop condition reads several flags one after the other.  During a     *)
(* run each flag changes in one direction only (FlagsOneWay), so reading   *)
(* them at once loses no behaviour.                                        *)
(***************************************************************************)
EXTENDS Dispatch, FiniteSets

CONSTANTS
    Main, Poller, User,
    Options,            \* the ClientOptions a client may be built with
    kMaxHandshakeFails, \* failed reconnects in a row before WS-only gives up
    MaxRuns,            \* bound: how often the application calls run()
    MaxDisconnects      \* bound: how often it calls disconnect()

ASSUME SessionAssumption ==
    /\ Threads = {Main, Poller}
    /\ Main # Poller /\ User \notin Threads
    /\ Messages \subseteq Nat \ {0} /\ IsFiniteSet(Messages)
    /\ \A m \in Messages : 1..m \subseteq Messages
    /\ NoId = 0
    /\ Options \subseteq [use_websocket : BOOLEAN, use_polling : BOOLEAN,
                          process_connect_events : BOOLEAN,
                          room_id_override : BOOLEAN,
                          fetch_live_check : BOOLEAN]
    /\ kMaxHandshakeFails \in Nat \ {0}
    /\ MaxRuns \in Nat /\ MaxDisconnects \in Nat

VARIABLES
    options,            \* chosen once, when the client is built
    running, stop_requested,
    net_mu_,            \* the thread that holds the mutex, or NoThread
    pc,                 \* where Main, Poller and User are
    cursor,             \* per thread: the cursor its next fetch or socket uses
    initial,            \* the cursor of the initial fetch
    batch,              \* per thread: the messages it has still to dispatch
    batchCursor,        \* per thread: the cursor that came with them
    connected,          \* WsClient::connected()
    ws_ever_connected,
    fails,              \* consecutive_handshake_fails
    wsPos,              \* the server's side: the last message the socket sent
    published,          \* the server's side: the last message there is
    session,            \* history: what the callbacks saw, as in EventStream
    runs, disconnects   \* calls made so far, for the bounds

flagVars  == <<running, stop_requested>>
fetchVars == <<cursor, initial, batch, batchCursor>>
wsVars    == <<connected, ws_ever_connected, fails, wsPos>>
boundVars == <<runs, disconnects, options>>
vars == <<dispatchVars, flagVars, fetchVars, wsVars, boundVars,
          net_mu_, pc, published, session>>

Actors == Threads \cup {User}

Dual == options.use_websocket /\ options.use_polling

\* The default argument in dual mode too.
allow_fallback_Always == TRUE

\* The second parameter of run_websocket_with_reconnect().
allow_fallback == ~options.use_polling

\* A loop that only running and stop_requested end.
Going_IgnoresLiveEnd == running /\ ~stop_requested

\* The condition of the transport loops.
Going == running /\ ~stop_requested /\ ~live_ended

Goto(t, label) == pc' = [pc EXCEPT ![t] = label]

Init ==
    /\ DispatchInit
    /\ options \in Options
    /\ running = FALSE /\ stop_requested = FALSE
    /\ net_mu_ = NoThread
    /\ pc = [a \in Actors |-> IF a = Poller THEN "off" ELSE "idle"]
    /\ cursor = [t \in Threads |-> 0] /\ initial = 0
    /\ batch = [t \in Threads |-> {}] /\ batchCursor = [t \in Threads |-> 0]
    /\ connected = FALSE /\ ws_ever_connected = FALSE
    /\ fails = 0 /\ wsPos = 0
    /\ published = 0 /\ session = "none"
    /\ runs = 0 /\ disconnects = 0

-----------------------------------------------------------------------------
(* The server, as far as the client relies on it: a fetch with a cursor    *)
(* returns what follows it, without a cursor some recent messages; either  *)
(* with the cursor reached or, the field being optional, with none.        *)

Publish ==
    /\ published + 1 \in Messages
    /\ published' = published + 1
    /\ UNCHANGED <<dispatchVars, flagVars, fetchVars, wsVars, boundVars,
                   net_mu_, pc, session>>

\* Where the server resumes for a client that comes with cursor c.
ResumesAt(c) == IF c = 0 THEN 0..published ELSE {c}

FetchReplies(c) ==
    UNION {UNION {{[messages |-> (from + 1)..to, cursor |-> n] : n \in {0, to}}
                  : to \in from..published} : from \in ResumesAt(c)}

-----------------------------------------------------------------------------
(* run(): the flags, the setup steps, the initial fetch, Connect.          *)

\* An exception leaves run(): running stays set, no Disconnect is emitted.
RunThrows ==
    /\ Goto(Main, "idle")
    /\ session' = IF session = "open" THEN "aborted" ELSE session

\* std::terminate(): an exception left the poll thread, or left run() while
\* the poll thread was joinable.
Crash ==
    /\ pc' = [a \in Actors |-> "crashed"]
    /\ session' = IF session = "open" THEN "aborted" ELSE session

BeginRun ==
    /\ pc[Main] = "idle" /\ runs < MaxRuns
    /\ running' = TRUE
    /\ runs' = runs + 1
    /\ Goto(Main, "begin_stop")
    /\ UNCHANGED <<dispatchVars, stop_requested, fetchVars, wsVars, disconnects,
                   options, net_mu_, published, session>>

BeginStopRequested ==
    /\ pc[Main] = "begin_stop"
    /\ stop_requested' = FALSE
    /\ Goto(Main, "begin_live_ended")
    /\ UNCHANGED <<dispatchVars, running, fetchVars, wsVars, boundVars,
                   net_mu_, published, session>>

BeginLiveEnded ==
    /\ pc[Main] = "begin_live_ended"
    /\ ForgetLiveEnd
    /\ Goto(Main, "warmup")
    /\ UNCHANGED <<flagVars, fetchVars, wsVars, boundVars,
                   net_mu_, published, session>>

\* A setup step that touches nothing but the network, its cookie jar and
\* members no other thread reads; none of them looks at stop_requested.
SetupStep(from, to) ==
    /\ pc[Main] = from
    /\ Goto(Main, to)
    /\ UNCHANGED <<dispatchVars, flagVars, fetchVars, wsVars, boundVars,
                   net_mu_, published, session>>

SetupThrows(from) ==
    /\ pc[Main] = from
    /\ RunThrows
    /\ UNCHANGED <<dispatchVars, flagVars, fetchVars, wsVars, boundVars,
                   net_mu_, published>>

\* The homepage, whatever comes of it.
WarmUp ==
    SetupStep("warmup", IF options.room_id_override THEN "live_check" ELSE "room_html")

\* The profile page; what it does not give, the API may.
ResolveRoomFromHtml ==
    \/ SetupStep("room_html", "live_check")
    \/ SetupStep("room_html", "room_api")

ResolveRoomFromApi ==
    \/ SetupStep("room_api", "live_check")
    \/ SetupThrows("room_api")

LiveCheck ==
    \/ SetupStep("live_check", "room_info")
    \/ options.fetch_live_check /\ SetupThrows("live_check")

\* Stream URLs and gift list, both best effort.
RoomInfo == SetupStep("room_info", "initial_fetch")

-----------------------------------------------------------------------------
(* fetch_once(), under net_mu_, from its three call sites.                 *)

FetchingFrom ==
    [label \in {"initial_fetch", "ws_refetch", "poll_wait"} |->
         CASE label = "initial_fetch" -> "initial_fetching"
           [] label = "ws_refetch"    -> "ws_refetching"
           [] label = "poll_wait"     -> "poll_fetching"]

\* Take the mutex without looking whether it is free.
BeginFetch_NoLock(t) ==
    /\ pc[t] \in DOMAIN FetchingFrom
    /\ net_mu_' = t
    /\ Goto(t, FetchingFrom[pc[t]])
    /\ UNCHANGED <<dispatchVars, flagVars, fetchVars, wsVars, boundVars,
                   published, session>>

BeginFetch(t) ==
    /\ pc[t] \in DOMAIN FetchingFrom
    /\ net_mu_ = NoThread
    /\ net_mu_' = t
    /\ Goto(t, FetchingFrom[pc[t]])
    /\ UNCHANGED <<dispatchVars, flagVars, fetchVars, wsVars, boundVars,
                   published, session>>

InitialFetched ==
    /\ pc[Main] = "initial_fetching"
    /\ net_mu_' = NoThread
    /\ \E r \in FetchReplies(0) :
           /\ initial' = r.cursor
           /\ batch' = [batch EXCEPT ![Main] =
                            IF options.process_connect_events THEN r.messages ELSE {}]
    /\ Goto(Main, "connect_callback")
    /\ session' = "open"
    /\ UNCHANGED <<dispatchVars, flagVars, cursor, batchCursor, wsVars, boundVars,
                   published>>

InitialFetchThrows ==
    /\ pc[Main] = "initial_fetching"
    /\ net_mu_' = NoThread
    /\ RunThrows
    /\ UNCHANGED <<dispatchVars, flagVars, fetchVars, wsVars, boundVars, published>>

\* The Connect callbacks return, or throw.
ConnectEmitted ==
    \/ SetupStep("connect_callback", "backlog")
    \/ SetupThrows("connect_callback")

-----------------------------------------------------------------------------
(* process_fetch_result() on a backlog, a socket frame or a polled batch:  *)
(* dispatch_message() on each message in turn, by whichever thread.        *)

Dispatching(t) ==
    /\ pc[t] \in {"backlog", "ws_frame", "poll_batch"}
    /\ batch[t] # {}

FirstOf(S) == CHOOSE m \in S : \A n \in S : m <= n

Consume(t) == batch' = [batch EXCEPT ![t] = @ \ {FirstOf(@)}]

DispatchDuplicate(t) ==
    /\ Dispatching(t)
    /\ DropDuplicate(t, FirstOf(batch[t]))
    /\ Consume(t)
    /\ UNCHANGED <<flagVars, cursor, initial, batchCursor, wsVars, boundVars,
                   net_mu_, pc, published, session>>

DispatchNew(t) ==
    /\ Dispatching(t)
    /\ BeginDelivery(t, FirstOf(batch[t]))
    /\ UNCHANGED <<flagVars, fetchVars, wsVars, boundVars,
                   net_mu_, pc, published, session>>

DispatchReturns(t) ==
    /\ EndDelivery(t)
    /\ Consume(t)
    /\ UNCHANGED <<flagVars, cursor, initial, batchCursor, wsVars, boundVars,
                   net_mu_, pc, published, session>>

\* A callback throws.  Without a poll thread, run() passes the exception on.
DispatchThrows(t) ==
    /\ AbortDelivery(t)
    /\ batch' = [batch EXCEPT ![t] = {}]
    /\ IF pc[Poller] = "off" THEN RunThrows ELSE Crash
    /\ UNCHANGED <<flagVars, cursor, initial, batchCursor, wsVars, boundVars,
                   net_mu_, published>>

-----------------------------------------------------------------------------
(* Real-time transport: the threads that the options call for.             *)

StartTransport ==
    /\ pc[Main] = "backlog" /\ batch[Main] = {}
    /\ cursor' = [t \in Threads |-> initial]
    /\ fails' = 0
    /\ pc' = [pc EXCEPT ![Main] = IF options.use_websocket THEN "ws_top" ELSE "poll_top",
                        ![Poller] = IF Dual THEN "poll_top" ELSE "off"]
    /\ UNCHANGED <<dispatchVars, flagVars, initial, batch, batchCursor, connected,
                   ws_ever_connected, wsPos, boundVars, net_mu_, published, session>>

\* run_websocket_with_reconnect() returns; in dual mode the poll thread is
\* still to be woken and joined.
LeaveWebSocket == Goto(Main, IF Dual THEN "ws_left" ELSE "teardown")

\* A step of the reconnect loop: go on to the label if the condition holds,
\* else leave the loop.
WsLoopStep(from, condition, to) ==
    /\ pc[Main] = from
    /\ IF condition THEN Goto(Main, to) ELSE LeaveWebSocket
    /\ UNCHANGED <<dispatchVars, flagVars, fetchVars, wsVars, boundVars,
                   net_mu_, published, session>>

WsTop == WsLoopStep("ws_top", Going, "ws_sign")

\* build_ws_url() signs under net_mu_.
WsSign ==
    /\ pc[Main] = "ws_sign" /\ net_mu_ = NoThread
    /\ net_mu_' = Main
    /\ Goto(Main, "ws_signing")
    /\ UNCHANGED <<dispatchVars, flagVars, fetchVars, wsVars, boundVars,
                   published, session>>

WsSigned ==
    /\ pc[Main] = "ws_signing"
    /\ net_mu_' = NoThread
    /\ Goto(Main, "ws_handshake")
    /\ UNCHANGED <<dispatchVars, flagVars, fetchVars, wsVars, boundVars,
                   published, session>>

\* The handshake succeeds; enter_room is sent, which may lose the socket.
WsConnected ==
    /\ pc[Main] = "ws_handshake"
    /\ connected' \in BOOLEAN
    /\ ws_ever_connected' = TRUE
    /\ wsPos' \in ResumesAt(cursor[Main])
    /\ Goto(Main, "ws_loop")
    /\ UNCHANGED <<dispatchVars, flagVars, fetchVars, fails, boundVars,
                   net_mu_, published, session>>

\* One failure too many.
GivesUp_OffByOne ==
    allow_fallback /\ (~ws_ever_connected \/ fails >= kMaxHandshakeFails)

\* Whether a failed handshake makes the caller poll instead.
GivesUp ==
    allow_fallback /\ (~ws_ever_connected \/ fails + 1 >= kMaxHandshakeFails)

\* Polling goes on where the last socket would have.
FallbackCursor_OfSocket == cursor[Main]

\* Polling goes back to the initial fetch.
FallbackCursor == initial

\* WsResult::HandshakeFailed, and what the switch and its caller make of it:
\* giving up returns false, upon which WebSocket only polls; dual mode
\* discards what is returned.
HandshakeFailed ==
    /\ pc[Main] \in {"ws_signing", "ws_handshake"}
    /\ net_mu_' = IF net_mu_ = Main THEN NoThread ELSE net_mu_
    /\ IF GivesUp
       THEN /\ IF Dual
               THEN LeaveWebSocket /\ UNCHANGED cursor
               ELSE /\ Goto(Main, "poll_top")
                    /\ cursor' = [cursor EXCEPT ![Main] = FallbackCursor]
            /\ UNCHANGED fails
       ELSE /\ Goto(Main, "ws_retry")
            /\ fails' = IF allow_fallback THEN fails + 1 ELSE fails
            /\ UNCHANGED cursor
    /\ UNCHANGED <<dispatchVars, flagVars, initial, batch, batchCursor, connected,
                   ws_ever_connected, wsPos, boundVars, published, session>>

\* Only the socket's state ends the loop: disconnect() closes it, after all.
WsLoopEnds_WhenClosed ==
    /\ pc[Main] = "ws_loop"
    /\ ~connected
    /\ Goto(Main, "ws_close")
    /\ UNCHANGED <<dispatchVars, flagVars, fetchVars, wsVars, boundVars,
                   net_mu_, published, session>>

WsLoopEnds ==
    /\ pc[Main] = "ws_loop"
    /\ ~Going \/ ~connected
    /\ Goto(Main, "ws_close")
    /\ UNCHANGED <<dispatchVars, flagVars, fetchVars, wsVars, boundVars,
                   net_mu_, published, session>>

\* The condition holds; recv_binary() comes after it, so that what it gets may
\* come when the flags, or connected_, have changed.
WsReceive ==
    /\ pc[Main] = "ws_loop"
    /\ Going /\ connected
    /\ Goto(Main, "ws_receive")
    /\ UNCHANGED <<dispatchVars, flagVars, fetchVars, wsVars, boundVars,
                   net_mu_, published, session>>

\* A frame arrives.  It may not decode, and then its messages are lost; if it
\* asks for an ack, the ack goes out first and may lose the socket.
WsFrame ==
    /\ pc[Main] = "ws_receive"
    /\ \E to \in (wsPos + 1)..published :
           /\ wsPos' = to
           /\ batch' \in {[batch EXCEPT ![Main] = (wsPos + 1)..to], batch}
    /\ connected' \in {connected, FALSE}
    /\ Goto(Main, "ws_frame")
    /\ UNCHANGED <<dispatchVars, flagVars, cursor, initial, batchCursor,
                   ws_ever_connected, fails, boundVars, net_mu_, published, session>>

\* What ends a turn of the loop: a heartbeat, when one is due; sending it may
\* lose the socket.
WsTurnEnds ==
    /\ connected' \in {connected, FALSE}
    /\ Goto(Main, "ws_loop")
    /\ UNCHANGED <<dispatchVars, flagVars, fetchVars, ws_ever_connected, fails, wsPos,
                   boundVars, net_mu_, published, session>>

\* Nothing to receive yet.
WsAgain == pc[Main] = "ws_receive" /\ WsTurnEnds

\* The server closes the socket, or it fails, or disconnect() has closed it.
WsDropped ==
    /\ pc[Main] = "ws_receive"
    /\ connected' = FALSE
    /\ Goto(Main, "ws_close")
    /\ UNCHANGED <<dispatchVars, flagVars, fetchVars, ws_ever_connected, fails, wsPos,
                   boundVars, net_mu_, published, session>>

\* The frame is dispatched; a LiveEnd among its messages is in live_ended, so
\* leaving the loop for it is left to WsLoopEnds.
WsFrameDone == pc[Main] = "ws_frame" /\ batch[Main] = {} /\ WsTurnEnds

\* ws.close(), then the WsResult: Stopped, LiveEnded or Dropped.
WsClose ==
    /\ pc[Main] = "ws_close"
    /\ connected' = FALSE
    /\ wsPos' = 0
    /\ IF stop_requested \/ live_ended
       THEN LeaveWebSocket /\ UNCHANGED fails
       ELSE Goto(Main, "ws_retry") /\ fails' = 0
    /\ UNCHANGED <<dispatchVars, flagVars, fetchVars, ws_ever_connected, boundVars,
                   net_mu_, published, session>>

WsRetry == WsLoopStep("ws_retry", Going, "ws_backoff")

\* After the interruptible sleep live_ended is not looked at.
WsBackoff == WsLoopStep("ws_backoff", running /\ ~stop_requested, "ws_refetch")

\* cur is replaced, cursor or none; the messages that came with it are not
\* dispatched.
WsRefetched ==
    /\ pc[Main] = "ws_refetching"
    /\ net_mu_' = NoThread
    /\ \E r \in FetchReplies(cursor[Main]) : cursor' = [cursor EXCEPT ![Main] = r.cursor]
    /\ Goto(Main, "ws_top")
    /\ UNCHANGED <<dispatchVars, flagVars, initial, batch, batchCursor, wsVars,
                   boundVars, published, session>>

WsRefetchFails ==
    /\ pc[Main] = "ws_refetching"
    /\ net_mu_' = NoThread
    /\ Goto(Main, "ws_top")
    /\ UNCHANGED <<dispatchVars, flagVars, fetchVars, wsVars, boundVars,
                   published, session>>

-----------------------------------------------------------------------------
(* poll_loop(), by Main or, in dual mode, by Poller.                       *)

\* The loop condition and, interval_ms later, the same condition again.
PollTop(t) ==
    /\ pc[t] = "poll_top"
    /\ Goto(t, IF Going THEN "poll_wait"
               ELSE IF t = Poller THEN "exited" ELSE "teardown")
    /\ UNCHANGED <<dispatchVars, flagVars, fetchVars, wsVars, boundVars,
                   net_mu_, published, session>>

Polled(t) ==
    /\ pc[t] = "poll_fetching"
    /\ net_mu_' = NoThread
    /\ \E r \in FetchReplies(cursor[t]) :
           /\ batch' = [batch EXCEPT ![t] = r.messages]
           /\ batchCursor' = [batchCursor EXCEPT ![t] = r.cursor]
    /\ Goto(t, "poll_batch")
    /\ UNCHANGED <<dispatchVars, flagVars, cursor, initial, wsVars, boundVars,
                   published, session>>

PollFails(t) ==
    /\ pc[t] = "poll_fetching"
    /\ net_mu_' = NoThread
    /\ Goto(t, "poll_top")
    /\ UNCHANGED <<dispatchVars, flagVars, fetchVars, wsVars, boundVars,
                   published, session>>

\* A reply without a cursor leaves the loop without one, too.
PollBatchDone_ForgetsCursor(t) ==
    /\ pc[t] = "poll_batch" /\ batch[t] = {}
    /\ cursor' = [cursor EXCEPT ![t] = batchCursor[t]]
    /\ batchCursor' = [batchCursor EXCEPT ![t] = 0]
    /\ Goto(t, "poll_top")
    /\ UNCHANGED <<dispatchVars, flagVars, initial, batch, wsVars, boundVars,
                   net_mu_, published, session>>

PollBatchDone(t) ==
    /\ pc[t] = "poll_batch" /\ batch[t] = {}
    /\ cursor' = IF batchCursor[t] = 0 THEN cursor
                 ELSE [cursor EXCEPT ![t] = batchCursor[t]]
    /\ batchCursor' = [batchCursor EXCEPT ![t] = 0]
    /\ Goto(t, "poll_top")
    /\ UNCHANGED <<dispatchVars, flagVars, initial, batch, wsVars, boundVars,
                   net_mu_, published, session>>

-----------------------------------------------------------------------------
(* The end of run().                                                       *)

\* In dual mode, whatever made the reconnect loop return.
WakePoller ==
    /\ pc[Main] = "ws_left"
    /\ stop_requested' = TRUE
    /\ Goto(Main, "join")
    /\ UNCHANGED <<dispatchVars, running, fetchVars, wsVars, boundVars,
                   net_mu_, published, session>>

\* Go on without waiting for the poll thread.
Join_NoWait ==
    /\ pc[Main] = "join"
    /\ Goto(Main, "teardown")
    /\ UNCHANGED <<dispatchVars, flagVars, fetchVars, wsVars, boundVars,
                   net_mu_, published, session>>

Join ==
    /\ pc[Main] = "join" /\ pc[Poller] = "exited"
    /\ pc' = [pc EXCEPT ![Main] = "teardown", ![Poller] = "off"]
    /\ UNCHANGED <<dispatchVars, flagVars, fetchVars, wsVars, boundVars,
                   net_mu_, published, session>>

\* The flag is given back to the next run.
Teardown_ForgetsStop ==
    /\ pc[Main] = "teardown"
    /\ running' = FALSE /\ stop_requested' = FALSE
    /\ session' = "closed"
    /\ Goto(Main, "disconnect_callback")
    /\ UNCHANGED <<dispatchVars, fetchVars, wsVars, boundVars, net_mu_, published>>

Teardown ==
    /\ pc[Main] = "teardown"
    /\ running' = FALSE
    /\ session' = "closed"
    /\ Goto(Main, "disconnect_callback")
    /\ UNCHANGED <<dispatchVars, stop_requested, fetchVars, wsVars, boundVars,
                   net_mu_, published>>

\* The Disconnect callbacks return or throw, and so does run().
DisconnectEmitted == SetupStep("disconnect_callback", "idle")

-----------------------------------------------------------------------------
(* The application's other thread (or a callback, while it runs).          *)

UserStep(from, to) ==
    /\ pc[User] = from
    /\ Goto(User, to)
    /\ UNCHANGED <<dispatchVars, fetchVars, ws_ever_connected, fails, wsPos, runs,
                   options, net_mu_, published, session>>

DisconnectSetsStop ==
    /\ disconnects < MaxDisconnects
    /\ UserStep("idle", "clear_running")
    /\ disconnects' = disconnects + 1
    /\ stop_requested' = TRUE
    /\ UNCHANGED <<running, connected>>

DisconnectClearsRunning ==
    /\ UserStep("clear_running", "close_ws")
    /\ running' = FALSE
    /\ UNCHANGED <<stop_requested, connected, disconnects>>

DisconnectClosesSocket ==
    /\ UserStep("close_ws", "idle")
    /\ connected' = FALSE
    /\ UNCHANGED <<running, stop_requested, disconnects>>

\* fetch_gift_list(), once connected: the same HttpClient, no net_mu_.
BeginFetchGiftList ==
    /\ session = "open"
    /\ UserStep("idle", "gift_list")
    /\ UNCHANGED <<running, stop_requested, connected, disconnects>>

EndFetchGiftList ==
    /\ UserStep("gift_list", "idle")
    /\ UNCHANGED <<running, stop_requested, connected, disconnects>>

-----------------------------------------------------------------------------

\* What either thread does in dispatch_message(), fetch_once(), poll_loop().
ThreadStep(t) ==
    \/ DispatchDuplicate(t) \/ DispatchNew(t)
    \/ DispatchReturns(t) \/ DispatchThrows(t)
    \/ BeginFetch(t)
    \/ PollTop(t) \/ Polled(t) \/ PollFails(t) \/ PollBatchDone(t)

\* run(), once entered.
RunStep ==
    \/ ThreadStep(Main)
    \/ BeginStopRequested \/ BeginLiveEnded
    \/ WarmUp \/ ResolveRoomFromHtml \/ ResolveRoomFromApi \/ LiveCheck \/ RoomInfo
    \/ InitialFetched \/ InitialFetchThrows \/ ConnectEmitted \/ StartTransport
    \/ WsTop \/ WsSign \/ WsSigned \/ WsConnected \/ HandshakeFailed
    \/ WsLoopEnds \/ WsReceive \/ WsFrame \/ WsAgain \/ WsDropped \/ WsFrameDone
    \/ WsClose \/ WsRetry \/ WsBackoff \/ WsRefetched \/ WsRefetchFails
    \/ WakePoller \/ Join \/ Teardown \/ DisconnectEmitted

DisconnectStep == DisconnectClearsRunning \/ DisconnectClosesSocket

\* The application is done with the client, or the process is gone.
Terminated ==
    /\ pc[Main] \in {"idle", "crashed"}
    /\ UNCHANGED vars

Next ==
    \/ BeginRun \/ RunStep \/ ThreadStep(Poller)
    \/ DisconnectSetsStop \/ DisconnectStep
    \/ BeginFetchGiftList \/ EndFetchGiftList
    \/ Publish \/ Terminated

Spec == Init /\ [][Next]_vars

\* Threads that can move do, callbacks return, and a call of disconnect()
\* that was begun is finished; of the network, that every request is answered
\* or fails.  REST requests have a time limit that sees to this.  The upgrade
\* of the WebSocket has none (CURLOPT_TIMEOUT is 0): there it is an assumption
\* about the server.
FairSpec ==
    /\ Spec
    /\ WF_vars(RunStep)
    /\ WF_vars(ThreadStep(Poller))
    /\ WF_vars(DisconnectStep)

\* The same with a server that may leave the upgrade unanswered.
UntimedSpec ==
    /\ Spec
    /\ WF_vars(RunStep /\ pc[Main] # "ws_handshake")
    /\ WF_vars(ThreadStep(Poller))
    /\ WF_vars(DisconnectStep)

-----------------------------------------------------------------------------

SetupLabels == {"warmup", "room_html", "room_api", "live_check", "room_info"}

PollLabels == {"poll_top", "poll_wait", "poll_fetching", "poll_batch"}

MainLabels ==
    SetupLabels \cup PollLabels \cup
    {"idle", "crashed", "begin_stop", "begin_live_ended", "initial_fetch",
     "initial_fetching", "connect_callback", "backlog", "ws_top", "ws_sign",
     "ws_signing", "ws_handshake", "ws_loop", "ws_receive", "ws_frame", "ws_close",
     "ws_retry", "ws_backoff", "ws_refetch", "ws_refetching", "ws_left",
     "join", "teardown", "disconnect_callback"}

\* Every variable has its type, and every thread is somewhere it can be.
TypeOK ==
    /\ DispatchTypeOK
    /\ options \in Options
    /\ running \in BOOLEAN /\ stop_requested \in BOOLEAN
    /\ net_mu_ \in Threads \cup {NoThread}
    /\ pc \in [Actors -> MainLabels \cup {"off", "exited", "clear_running",
                                          "close_ws", "gift_list"}]
    /\ pc[Main] \in MainLabels
    /\ pc[Poller] \in PollLabels \cup {"off", "exited", "crashed"}
    /\ pc[User] \in {"idle", "clear_running", "close_ws", "gift_list", "crashed"}
    /\ cursor \in [Threads -> Nat] /\ initial \in Nat
    /\ batch \in [Threads -> SUBSET Messages] /\ batchCursor \in [Threads -> Nat]
    /\ connected \in BOOLEAN /\ ws_ever_connected \in BOOLEAN
    /\ fails \in 0..(kMaxHandshakeFails - 1) /\ wsPos \in Nat
    /\ published \in Nat
    /\ session \in {"none", "open", "closed", "aborted"}
    /\ runs \in 0..MaxRuns /\ disconnects \in 0..MaxDisconnects

Delivered(m) == \E i \in 1..Len(delivered) : delivered[i] = m

\* Connect and Disconnect are emitted without dispatch_mu_, yet their
\* callbacks never overlap those of a message: the poll thread is not there.
CallbacksSerialized ==
    pc[Main] \in {"connect_callback", "disconnect_callback"} =>
        dispatch_mu_ = NoThread /\ pc[Poller] = "off"

\* Whether an actor is inside the HttpClient or the signer.
UsesNet(a) ==
    pc[a] \in SetupLabels \cup {"initial_fetching", "ws_signing", "ws_refetching",
                                "poll_fetching", "gift_list"}

\* The threads of run() never use the HTTP handle or the signer at once,
\* though the setup steps take no lock.
NetSerialized ==
    \A a, b \in Threads : UsesNet(a) /\ UsesNet(b) => a = b

\* The comment on net_mu_: every network operation is mutually exclusive.
NetExclusive ==
    \A a, b \in Actors : UsesNet(a) /\ UsesNet(b) => a = b

\* However fetches fail, the socket races it or run() falls back to it, a
\* poll loop that has a cursor has delivered everything since the initial
\* fetch up to that cursor.
PollNeverSkips ==
    \A t \in Threads :
        pc[t] \in PollLabels \cup {"exited"} /\ initial # 0 =>
            \A m \in (initial + 1)..cursor[t] : Delivered(m)

\* With polling alone, once the initial fetch gave a cursor, the callbacks of a
\* first run get the messages one after the other: none twice, out of order or
\* left out, however fetches fail or come without a cursor.
PollingGapless ==
    ~options.use_websocket /\ runs = 1 /\ initial # 0 =>
        \A i \in 1..(Len(delivered) - 1) : delivered[i + 1] = delivered[i] + 1

\* "Neither stops the other except via stop_requested / live_ended": however
\* often handshakes and fetches fail, in dual mode the poll thread exits, and
\* the reconnect loop returns, only when a flag ends the run.
TransportsOutlastFailures ==
    pc[Poller] = "exited" \/ pc[Main] = "ws_left" => ~Going

\* raw_sink is called with what a fetch or the socket returned, and with each
\* message under dispatch_mu_.
UsesSink(t) ==
    \/ pc[t] \in {"initial_fetching", "ws_refetching", "poll_fetching", "ws_frame"}
    \/ dispatch_mu_ = t

\* "Called from the client thread": whichever mode, raw_sink is called by the
\* thread that called run().
SinkFromClientThread == \A t \in Threads : UsesSink(t) => t = Main

\* A thread that neither has messages to dispatch nor has passed the last
\* check of the flags before a fetch or a frame that may bring some.
Settled(t) ==
    batch[t] = {} /\ pc[t] \notin {"poll_wait", "poll_fetching", "ws_receive"}

\* What reaches the callbacks after a LiveEnd: once it is noted, a transport
\* finishes the batch, the fetch or the receive it is in, and then brings
\* nothing more, neither the one that saw the LiveEnd nor the other.
LiveEndStopsTransports ==
    [][live_ended /\ live_ended' =>
           \A t \in Threads : Settled(t) => Settled(t)']_vars

\* While a run lasts, running is only cleared, stop_requested and live_ended
\* only set.
FlagsOneWay ==
    [][pc[Main] \notin {"idle", "begin_stop", "begin_live_ended"} =>
           /\ running' => running
           /\ stop_requested => stop_requested'
           /\ live_ended => live_ended']_vars

\* The session the callbacks see: one Connect, each message at most once, one
\* Disconnect after the last of them, whichever transports run.
Stream == INSTANCE EventStream WITH
    Messages <- Messages, session <- session, delivered <- delivered

ImplementsEventStream == Stream!StreamSpec

Inside == pc[Main] \notin {"idle", "begin_stop", "begin_live_ended", "crashed"}

Left == pc[Main] \in {"idle", "crashed"}

\* Once stop_requested is set during a run, the run ends: no loop, sleep or
\* join outlasts it.
StopEndsRun == stop_requested /\ Inside ~> Left

\* Once a LiveEnd was dispatched, by either transport, the run ends.
LiveEndEndsRun == live_ended /\ Inside ~> Left

\* A disconnect() that has cleared running while run() executes ends it.
DisconnectStopsRun == pc[User] = "close_ws" /\ ~Left ~> Left

\* Dual mode at the end of the LIVE: every message up to the one that ended
\* it was delivered.
DualCountsAll ==
    Dual /\ session = "closed" /\ initial # 0 =>
        \A e \in EndMessages : Delivered(e) =>
            \A m \in (initial + 1)..e : Delivered(m)
=============================================================================
