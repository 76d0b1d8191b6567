--------------------------- MODULE MCLiveSession ---------------------------
(***************************************************************************)
(* The sets of ClientOptions that the configurations of LiveSession use.   *)
(***************************************************************************)
EXTENDS LiveSession

ClientOptions(ws, poll, backlog, override, check) ==
    [use_websocket |-> ws, use_polling |-> poll, process_connect_events |-> backlog,
     room_id_override |-> override, fetch_live_check |-> check]

\* One transport: the default options, the same without what is optional in
\* the setup, and polling only.
SingleTransport ==
    {ClientOptions(TRUE, FALSE, TRUE, FALSE, TRUE),
     ClientOptions(TRUE, FALSE, FALSE, TRUE, FALSE),
     ClientOptions(FALSE, TRUE, TRUE, FALSE, TRUE)}

PollingOnly == {ClientOptions(FALSE, TRUE, TRUE, TRUE, FALSE)}

DualMode == {ClientOptions(TRUE, TRUE, TRUE, TRUE, FALSE)}

AllModes == SingleTransport \cup DualMode

\* What keeps the instance small: dual mode, whose two threads race, is run once,
\* and so is one transport with all of the setup; where there is a second run
\* the LIVE does not end, or nobody calls disconnect().
SecondRunIsSimple ==
    runs <= 1
        \/ /\ options \notin DualMode
           /\ options.fetch_live_check => ~options.use_websocket
           /\ published <= 2 \/ disconnects = 0

\* In dual mode the application's other thread has disconnect() only; what
\* fetch_gift_list() races with is the matter of the run gift_list_race.
NoGiftListInDual == options \in DualMode => pc[User] # "gift_list"
=============================================================================
