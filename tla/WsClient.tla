------------------------------ MODULE WsClient ------------------------------
(***************************************************************************)
(* WsClient: one WebSocket on libcurl, reassembling the messages that curl *)
(* hands over in chunks.  Run is the thread of run(), which connects,      *)
(* sends, receives and closes; User is the thread that calls disconnect(), *)
(* which only closes.  A call into curl is two steps, so that calls of the *)
(* two threads can overlap; what overlapping calls do is undefined, and is *)
(* here any result curl can return.  impl_->curl is not atomic: User's     *)
(* close() reads it twice, as its source does, and may see two values.     *)
(*                                                                         *)
(* Connections, and their curl handles, are numbered from 1; handle 0 is   *)
(* the null pointer.  The server sends the messages 1, 2, ... of each      *)
(* connection in parts; control frames may come between any two parts.     *)
(***************************************************************************)
EXTENDS Naturals, Sequences

CONSTANTS
    MaxConnects,  \* bound: calls of connect()
    MaxCloses,    \* bound: calls of close() by User
    MaxMessages,  \* bound: messages that a connection gets to send
    MaxParts,     \* bound: parts of a message
    ControlFrames \* whether curl hands any control frame over

ASSUME WsAssumption ==
    /\ MaxConnects \in Nat /\ MaxCloses \in Nat /\ MaxMessages \in Nat /\ MaxParts \in Nat \ {0}
    /\ ControlFrames \in BOOLEAN

VARIABLES
    connected_,
    curl,      \* impl_->curl
    handles,   \* the handles made and not cleaned up
    partial,   \* impl_->partial, as the parts it is made of
    received,  \* history: what recv_binary() returned with Message
    pc,        \* where Run and User are
    userCurl,  \* the handle User's close() is using
    overlapped, \* history: a connect() ran during User's close()
    connects, closes,
    nextPart   \* the server's side: the part that comes next

vars == <<connected_, curl, handles, partial, received, pc, userCurl, overlapped,
          connects, closes, nextPart>>

\* A part as it arrives: of which message of which connection, and whether it
\* is the message's final one (neither bytesleft nor CURLWS_CONT).
Parts == [conn : 1..MaxConnects, msg : 1..MaxMessages, part : 1..MaxParts, last : BOOLEAN]

Init ==
    /\ connected_ = FALSE /\ curl = 0 /\ handles = {}
    /\ partial = <<>> /\ received = <<>>
    /\ pc = [t \in {"Run", "User"} |-> "away"]
    /\ userCurl = 0 /\ overlapped = FALSE
    /\ connects = 0 /\ closes = 0
    /\ nextPart = [msg |-> 1, part |-> 1]

Goto(t, label) == pc' = [pc EXCEPT ![t] = label]

-----------------------------------------------------------------------------
(* connect()                                                               *)

\* A new handle takes the place of the one before, which is not cleaned up;
\* partial and connected_ are left as they are: after an exception connected_
\* may still be set.
BeginConnect ==
    /\ pc["Run"] = "away" /\ connects < MaxConnects
    /\ connects' = connects + 1
    /\ curl' = connects'
    /\ handles' = handles \cup {curl'}
    /\ overlapped' = (overlapped \/ pc["User"] # "away")
    /\ Goto("Run", "connecting")
    /\ UNCHANGED <<connected_, partial, received, userCurl, closes, nextPart>>

Connected ==
    /\ pc["Run"] = "connecting"
    /\ connected_' = TRUE
    /\ nextPart' = [msg |-> 1, part |-> 1]
    /\ Goto("Run", "pumping")
    /\ UNCHANGED <<curl, handles, partial, received, userCurl, overlapped, connects, closes>>

\* The handle is cleaned up and the pointer to it kept.
ConnectFails_KeepsPointer ==
    /\ pc["Run"] = "connecting"
    /\ handles' = handles \ {curl}
    /\ Goto("Run", "away")
    /\ UNCHANGED <<connected_, curl, partial, received, userCurl, overlapped,
                   connects, closes, nextPart>>

\* connect() throws, and its caller gives up this socket.
ConnectFails ==
    /\ pc["Run"] = "connecting"
    /\ handles' = handles \ {curl}
    /\ curl' = 0
    /\ Goto("Run", "away")
    /\ UNCHANGED <<connected_, partial, received, userCurl, overlapped, connects, closes, nextPart>>

-----------------------------------------------------------------------------
(* send_binary() and recv_binary(); without a connection they return at    *)
(* once and change nothing.                                                *)

BeginCall(label) ==
    /\ pc["Run"] = "pumping"
    /\ connected_ /\ curl # 0
    /\ Goto("Run", label)
    /\ UNCHANGED <<connected_, curl, handles, partial, received, userCurl, overlapped,
                   connects, closes, nextPart>>

BeginSend == BeginCall("sending")

BeginRecv == BeginCall("receiving")

\* The call returns, with an error or a close frame if it loses the socket.
EndCall(label) ==
    /\ pc["Run"] = label
    /\ connected_' \in {connected_, FALSE}
    /\ Goto("Run", "pumping")
    /\ UNCHANGED <<curl, handles, partial, received, userCurl, overlapped, connects, closes,
                   nextPart>>

\* Any error of curl_ws_send() counts as a lost connection.
EndSend == EndCall("sending")

\* Nothing to read (Again), an error (Error) or a close frame (Closed).
RecvNothing == EndCall("receiving")

\* The next part arrives; whether it is the last one is up to the server.
Arriving(last) == [conn |-> connects, msg |-> nextPart.msg, part |-> nextPart.part,
                   last |-> last]

\* More of the message is still to come: keep the part.
RecvPart ==
    /\ pc["Run"] = "receiving"
    /\ nextPart.msg <= MaxMessages /\ nextPart.part < MaxParts
    /\ partial' = Append(partial, Arriving(FALSE))
    /\ nextPart' = [nextPart EXCEPT !.part = @ + 1]
    /\ Goto("Run", "pumping")
    /\ UNCHANGED <<connected_, curl, handles, received, userCurl, overlapped, connects, closes>>

\* The message is handed over and the buffer kept.
RecvLast_Keeps ==
    /\ pc["Run"] = "receiving"
    /\ nextPart.msg <= MaxMessages
    /\ partial' = Append(partial, Arriving(TRUE))
    /\ received' = Append(received, partial')
    /\ nextPart' = [msg |-> nextPart.msg + 1, part |-> 1]
    /\ Goto("Run", "pumping")
    /\ UNCHANGED <<connected_, curl, handles, userCurl, overlapped, connects, closes>>

\* The message is complete: everything in the buffer is returned as Message.
RecvLast ==
    /\ pc["Run"] = "receiving"
    /\ nextPart.msg <= MaxMessages
    /\ received' = Append(received, Append(partial, Arriving(TRUE)))
    /\ partial' = <<>>
    /\ nextPart' = [msg |-> nextPart.msg + 1, part |-> 1]
    /\ Goto("Run", "pumping")
    /\ UNCHANGED <<connected_, curl, handles, userCurl, overlapped, connects, closes>>

\* What a control frame leaves in the buffer is handed over like data.
RecvControl_Delivers ==
    /\ pc["Run"] = "receiving" /\ ControlFrames
    /\ received' = IF partial = <<>> THEN received ELSE Append(received, partial)
    /\ partial' = <<>>
    /\ Goto("Run", "pumping")
    /\ UNCHANGED <<connected_, curl, handles, userCurl, overlapped, connects, closes, nextPart>>

\* A control frame: the buffer is cleared, whatever it held.
RecvControl ==
    /\ pc["Run"] = "receiving" /\ ControlFrames
    /\ partial' = <<>>
    /\ Goto("Run", "pumping")
    /\ UNCHANGED <<connected_, curl, handles, received, userCurl, overlapped, connects, closes,
                   nextPart>>

\* A callback throws while a frame is handled: run() is left past ws.close(),
\* and nothing of the socket changes.
PumpThrows ==
    /\ pc["Run"] = "pumping"
    /\ Goto("Run", "away")
    /\ UNCHANGED <<connected_, curl, handles, partial, received, userCurl,
                   overlapped, connects, closes, nextPart>>

-----------------------------------------------------------------------------
(* close(): a close frame if there is a connection; the handle stays.      *)

RunBeginsClose ==
    /\ pc["Run"] = "pumping"
    /\ Goto("Run", IF curl # 0 /\ connected_ THEN "closing" ELSE "closed")
    /\ UNCHANGED <<connected_, curl, handles, partial, received, userCurl, overlapped,
                   connects, closes, nextPart>>

RunEndsClose ==
    /\ pc["Run"] \in {"closing", "closed"}
    /\ connected_' = FALSE
    /\ Goto("Run", "away")
    /\ UNCHANGED <<curl, handles, partial, received, userCurl, overlapped, connects, closes,
                   nextPart>>

\* The first read of impl_->curl.
UserBeginsClose ==
    /\ pc["User"] = "away" /\ closes < MaxCloses
    /\ closes' = closes + 1
    /\ overlapped' = (pc["Run"] = "connecting")
    /\ Goto("User", IF curl # 0 THEN "testing" ELSE "closed")
    /\ UNCHANGED <<connected_, curl, handles, partial, received, userCurl,
                   connects, nextPart>>

UserTestsConnected ==
    /\ pc["User"] = "testing"
    /\ Goto("User", IF connected_ THEN "loading" ELSE "closed")
    /\ UNCHANGED <<connected_, curl, handles, partial, received, userCurl,
                   overlapped, connects, closes, nextPart>>

\* impl_->curl is read again, and what it is now is passed to curl.
UserSendsClose ==
    /\ pc["User"] = "loading"
    /\ userCurl' = curl
    /\ Goto("User", "closing")
    /\ UNCHANGED <<connected_, curl, handles, partial, received, overlapped,
                   connects, closes, nextPart>>

UserEndsClose ==
    /\ pc["User"] \in {"closing", "closed"}
    /\ connected_' = FALSE
    /\ userCurl' = 0 /\ overlapped' = FALSE
    /\ Goto("User", "away")
    /\ UNCHANGED <<curl, handles, partial, received, connects, closes, nextPart>>

-----------------------------------------------------------------------------

\* Run may stop between two sockets.
Resting ==
    /\ pc["Run"] = "away" /\ pc["User"] = "away"
    /\ UNCHANGED vars

Next ==
    \/ BeginConnect \/ Connected \/ ConnectFails
    \/ BeginSend \/ EndSend
    \/ BeginRecv \/ RecvNothing \/ RecvPart \/ RecvLast \/ RecvControl
    \/ PumpThrows
    \/ RunBeginsClose \/ RunEndsClose
    \/ UserBeginsClose \/ UserTestsConnected \/ UserSendsClose \/ UserEndsClose
    \/ Resting

Spec == Init /\ [][Next]_vars

-----------------------------------------------------------------------------

RunLabels == {"away", "connecting", "pumping", "sending", "receiving", "closing", "closed"}

UserLabels == {"away", "testing", "loading", "closing", "closed"}

\* Every variable has its type; what waits in partial is never a last part.
TypeOK ==
    /\ connected_ \in BOOLEAN
    /\ curl \in 0..MaxConnects /\ userCurl \in 0..MaxConnects
    /\ handles \subseteq 1..MaxConnects
    /\ partial \in Seq({p \in Parts : ~p.last})
    /\ received \in Seq(Seq(Parts))
    /\ overlapped \in BOOLEAN
    /\ pc["Run"] \in RunLabels /\ pc["User"] \in UserLabels
    /\ pc \in [{"Run", "User"} -> RunLabels \cup UserLabels]
    /\ connects \in 0..MaxConnects /\ closes \in 0..MaxCloses
    /\ nextPart \in [msg : 1..(MaxMessages + 1), part : 1..MaxParts]

Final(parts) == parts[Len(parts)]

\* The parts of a returned message that came over the connection it ended on.
Own(parts) == {j \in 1..Len(parts) : parts[j].conn = Final(parts).conn}

\* How far a bad reassembly goes: what a message gets of its own connection is
\* an unbroken tail of one message up to its last part, and foreign parts
\* stand before it and come only with the first message of a connection.
DamageConfined ==
    \A i \in 1..Len(received) :
        LET r == received[i]
        IN  /\ Final(r).last
            /\ \A j \in Own(r) :
                   /\ r[j].msg = Final(r).msg
                   /\ r[j].part + (Len(r) - j) = Final(r).part
                   /\ j..Len(r) \subseteq Own(r)
            /\ \A k \in 1..(i - 1) :
                   Final(received[k]).conn = Final(r).conn => Own(r) = 1..Len(r)

\* No message is returned twice or out of the order the server sent it in.
InServerOrder ==
    \A i, k \in 1..Len(received) :
        LET a == Final(received[i])
            b == Final(received[k])
        IN  i < k => a.conn < b.conn \/ (a.conn = b.conn /\ a.msg < b.msg)

RunInCurl == pc["Run"] \in {"connecting", "sending", "receiving", "closing"}

\* Whatever handle a thread passes to curl, the null pointer aside, has been
\* made and not cleaned up: close() may be called from another thread at any
\* time.
HandlesInUseAreAlive ==
    /\ RunInCurl => curl \in handles
    /\ pc["User"] = "closing" => userCurl \in handles \cup {0}

\* How far that can go wrong: run()'s own thread never uses a dead handle, and
\* close() from another thread does only if a connect() ran while it did,
\* however many sockets failed, were replaced or left open by an exception.
HandlesAliveWithoutOverlap ==
    /\ RunInCurl => curl \in handles
    /\ pc["User"] = "closing" /\ ~overlapped => userCurl \in handles

\* "Receive one complete binary message": what recv_binary() returns as
\* Message is one message of one connection, from its first part to its last.
MessageIntact ==
    \A i \in 1..Len(received) :
        LET r == received[i]
        IN  Own(r) = 1..Len(r) /\ r[1].part = 1

\* "curl WS handles are not thread-safe": never two threads in curl with the
\* same handle.
SingleThreadedUse ==
    pc["User"] = "closing" /\ pc["Run"] \in {"sending", "receiving", "closing"} =>
        userCurl # curl
=============================================================================
