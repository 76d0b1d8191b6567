--------------------------- MODULE WsClientProofs ---------------------------
(***************************************************************************)
(* WsClient for any number of connections, messages and parts: types, when *)
(* a handle in use is alive, and that messages keep their order.           *)
(*                                                                         *)
(* HandlesAliveWithoutOverlap is not inductive: what close() of the other  *)
(* thread will read from impl_->curl must be a handle, and the connect()   *)
(* whose failure cleans one up must be known to close() while it runs.     *)
(***************************************************************************)
EXTENDS WsClient, SequenceTheorems, TLAPS

\* impl_->curl is null or alive and no null where run() uses it; a close()
\* that no connect() overlaps still finds the handle it saw.
PointerIsAlive ==
    /\ pc["Run"] # "away" => connects >= 1
    /\ curl # 0 => curl \in handles
    /\ RunInCurl => curl # 0
    /\ pc["User"] \in {"testing", "loading"} /\ ~overlapped => curl # 0
    /\ pc["User"] = "closing" /\ ~overlapped => userCurl \in handles
    /\ pc["Run"] = "connecting" /\ pc["User"] # "away" => overlapped

HandleInv ==
    /\ TypeOK
    /\ PointerIsAlive

LEMMA HandleInvInit == Init => HandleInv
  <1> SUFFICES ASSUME Init
               PROVE  HandleInv
    OBVIOUS
  <1>1. 1 \in 1..(MaxMessages + 1) /\ 1 \in 1..MaxParts
    BY WsAssumption
  <1>2. nextPart \in [msg : 1..(MaxMessages + 1), part : 1..MaxParts]
    BY <1>1 DEF Init
  <1>3. /\ partial \in Seq({p \in Parts : ~p.last})
        /\ received \in Seq(Seq(Parts))
    BY EmptySeq DEF Init
  <1>4. pc \in [{"Run", "User"} -> RunLabels \cup UserLabels]
    BY DEF Init, RunLabels, UserLabels
  <1>5. 0 \in 0..MaxConnects /\ 0 \in 0..MaxCloses
    BY WsAssumption
  <1>6. TypeOK
    <2>1. pc["Run"] \in RunLabels /\ pc["User"] \in UserLabels
      BY DEF Init, RunLabels, UserLabels
    <2> QED
      BY <1>2, <1>3, <1>4, <1>5, <2>1 DEF Init, TypeOK
  <1>7. PointerIsAlive
    BY DEF Init, PointerIsAlive, RunInCurl
  <1> QED
    BY <1>6, <1>7 DEF HandleInv

\* What the server's next part looks like, and what it makes of partial.
LEMMA ArrivingType ==
    ASSUME TypeOK, connects >= 1, nextPart.msg <= MaxMessages, NEW last \in BOOLEAN
    PROVE  /\ Arriving(last) \in Parts
           /\ Arriving(last).last = last
           /\ Arriving(last).conn = connects
           /\ Arriving(last).msg = nextPart.msg
  BY WsAssumption DEF TypeOK, Arriving, Parts

LEMMA HandleInvStep == HandleInv /\ [Next]_vars => HandleInv'
  <1> SUFFICES ASSUME HandleInv, [Next]_vars
               PROVE  HandleInv'
    OBVIOUS
  <1> USE WsAssumption
  <1>1. CASE BeginConnect
    <2>1. /\ pc'["Run"] = "connecting" /\ pc'["User"] = pc["User"]
          /\ pc' \in [{"Run", "User"} -> RunLabels \cup UserLabels]
      BY <1>1 DEF BeginConnect, Goto, HandleInv, TypeOK, RunLabels
    <2>2. /\ overlapped' \in BOOLEAN
          /\ overlapped \/ pc["User"] # "away" => overlapped'
      BY <1>1, Zenon DEF BeginConnect
    <2>3. TypeOK'
      BY <1>1, <2>1, <2>2 DEF BeginConnect, HandleInv, TypeOK, RunLabels
    <2>4. PointerIsAlive'
      BY <1>1, <2>1, <2>2 DEF BeginConnect, HandleInv, TypeOK, PointerIsAlive, RunInCurl
    <2> QED
      BY <2>3, <2>4 DEF HandleInv
  <1>2. CASE Connected
    BY <1>2 DEF Connected, Goto, HandleInv, TypeOK, PointerIsAlive,
                RunInCurl, RunLabels, UserLabels
  <1>3. CASE ConnectFails
    BY <1>3 DEF ConnectFails, Goto, HandleInv, TypeOK, PointerIsAlive,
                RunInCurl, RunLabels, UserLabels
  <1>4. CASE BeginSend \/ BeginRecv
    BY <1>4 DEF BeginSend, BeginRecv, BeginCall, Goto, HandleInv, TypeOK,
                PointerIsAlive,
                RunInCurl, RunLabels, UserLabels
  <1>5. CASE EndSend \/ RecvNothing
    BY <1>5 DEF EndSend, RecvNothing, EndCall, Goto, HandleInv, TypeOK,
                PointerIsAlive,
                RunInCurl, RunLabels, UserLabels
  <1>6. CASE RecvPart
    <2>1. Arriving(FALSE) \in {p \in Parts : ~p.last}
      BY <1>6, ArrivingType DEF RecvPart, HandleInv, PointerIsAlive
    <2>2. partial' \in Seq({p \in Parts : ~p.last})
      BY <1>6, <2>1, AppendProperties DEF RecvPart, HandleInv, TypeOK
    <2>3. nextPart' \in [msg : 1..(MaxMessages + 1), part : 1..MaxParts]
      <3>1. nextPart.msg \in 1..(MaxMessages + 1)
        BY DEF HandleInv, TypeOK
      <3>2. nextPart.part + 1 \in 1..MaxParts
        BY <1>6, SMTT(30) DEF RecvPart, HandleInv, TypeOK
      <3>3. nextPart' = [nextPart EXCEPT !.part = nextPart.part + 1]
        BY <1>6 DEF RecvPart
      <3> QED
        BY <3>1, <3>2, <3>3 DEF HandleInv, TypeOK
    <2> QED
      BY <1>6, <2>2, <2>3 DEF RecvPart, Goto, HandleInv, TypeOK,
                PointerIsAlive,
                RunInCurl, RunLabels, UserLabels
  <1>7. CASE RecvLast
    <2>1. Arriving(TRUE) \in Parts
      BY <1>7, ArrivingType DEF RecvLast, HandleInv, PointerIsAlive
    <2>2. partial \in Seq(Parts)
      BY DEF HandleInv, TypeOK
    <2>3. received' \in Seq(Seq(Parts))
      BY <1>7, <2>1, <2>2, AppendProperties DEF RecvLast, HandleInv, TypeOK
    <2>4. partial' \in Seq({p \in Parts : ~p.last})
      BY <1>7, EmptySeq DEF RecvLast
    <2>5. nextPart' \in [msg : 1..(MaxMessages + 1), part : 1..MaxParts]
      BY <1>7 DEF RecvLast, HandleInv, TypeOK
    <2> QED
      BY <1>7, <2>3, <2>4, <2>5 DEF RecvLast, Goto, HandleInv, TypeOK,
                PointerIsAlive,
                RunInCurl, RunLabels, UserLabels
  <1>8. CASE RecvControl
    <2>1. partial' \in Seq({p \in Parts : ~p.last})
      BY <1>8, EmptySeq DEF RecvControl
    <2> QED
      BY <1>8, <2>1 DEF RecvControl, Goto, HandleInv, TypeOK,
                PointerIsAlive,
                RunInCurl, RunLabels, UserLabels
  <1>9. CASE RunBeginsClose
    BY <1>9 DEF RunBeginsClose, Goto, HandleInv, TypeOK,
                PointerIsAlive,
                RunInCurl, RunLabels, UserLabels
  <1>13. CASE RunEndsClose
    <2>1. /\ pc' = [pc EXCEPT !["Run"] = "away"] /\ connected_' = FALSE
          /\ pc'["Run"] = "away" /\ pc'["User"] = pc["User"]
          /\ pc' \in [{"Run", "User"} -> RunLabels \cup UserLabels]
      BY <1>13 DEF RunEndsClose, Goto, HandleInv, TypeOK, RunLabels, UserLabels
    <2>2. TypeOK'
      BY <1>13, <2>1 DEF RunEndsClose, HandleInv, TypeOK, RunLabels
    <2> QED
      BY <1>13, <2>1, <2>2 DEF RunEndsClose, HandleInv, TypeOK, PointerIsAlive, RunInCurl
  <1>10. CASE UserBeginsClose
    <2>1. /\ pc'["Run"] = pc["Run"]
          /\ pc'["User"] = IF curl # 0 THEN "testing" ELSE "closed"
          /\ pc' \in [{"Run", "User"} -> RunLabels \cup UserLabels]
      BY <1>10 DEF UserBeginsClose, Goto, HandleInv, TypeOK, UserLabels
    <2>2. /\ overlapped' \in BOOLEAN
          /\ pc["Run"] = "connecting" => overlapped'
      BY <1>10, Zenon DEF UserBeginsClose
    <2>3. TypeOK'
      BY <1>10, <2>1, <2>2 DEF UserBeginsClose, HandleInv, TypeOK, UserLabels
    <2>4. PointerIsAlive'
      BY <1>10, <2>1, <2>2 DEF UserBeginsClose, HandleInv, TypeOK, PointerIsAlive, RunInCurl
    <2> QED
      BY <2>3, <2>4 DEF HandleInv
  <1>14. CASE UserTestsConnected \/ UserSendsClose
    BY <1>14 DEF UserTestsConnected, UserSendsClose, Goto, HandleInv, TypeOK,
                 PointerIsAlive, RunInCurl, RunLabels, UserLabels
  <1>15. CASE PumpThrows
    BY <1>15 DEF PumpThrows, Goto, HandleInv, TypeOK,
                 PointerIsAlive, RunInCurl, RunLabels, UserLabels
  <1>11. CASE UserEndsClose
    <2>1. /\ pc'["Run"] = pc["Run"] /\ pc'["User"] = "away"
          /\ pc' \in [{"Run", "User"} -> RunLabels \cup UserLabels]
      BY <1>11 DEF UserEndsClose, Goto, HandleInv, TypeOK, UserLabels
    <2>2. connected_' \in BOOLEAN /\ overlapped' \in BOOLEAN /\ userCurl' = 0
      BY <1>11, Zenon DEF UserEndsClose
    <2>3. TypeOK'
      BY <1>11, <2>1, <2>2 DEF UserEndsClose, HandleInv, TypeOK, UserLabels
    <2>4. PointerIsAlive'
      BY <1>11, <2>1 DEF UserEndsClose, HandleInv, PointerIsAlive, RunInCurl
    <2> QED
      BY <2>3, <2>4 DEF HandleInv
  <1>12. CASE Resting \/ UNCHANGED vars
    <2>1. UNCHANGED vars
      BY <1>12 DEF Resting
    <2> QED
      BY <2>1 DEF vars, HandleInv, TypeOK, PointerIsAlive, RunInCurl
  <1> QED
    BY <1>1, <1>2, <1>3, <1>4, <1>5, <1>6, <1>7, <1>8, <1>9, <1>10, <1>11, <1>12, <1>13,
       <1>14, <1>15 DEF Next

LEMMA HandleInvHolds == Spec => []HandleInv
  BY HandleInvInit, HandleInvStep, PTL DEF Spec

\* Type correctness of WsClient; partial never holds a last part.
THEOREM WsTypeCorrect == Spec => []TypeOK
  <1>1. HandleInv => TypeOK
    BY DEF HandleInv
  <1> QED
    BY <1>1, HandleInvHolds, PTL

\* run()'s thread never passes curl a handle that was cleaned up, and neither
\* does a close() from another thread that no connect() overlaps, whatever
\* failed, was replaced or was left open by an exception before.
THEOREM NoHandleUsedAfterCleanup == Spec => []HandlesAliveWithoutOverlap
  <1>1. HandleInv => HandlesAliveWithoutOverlap
    BY DEF HandleInv, PointerIsAlive, HandlesAliveWithoutOverlap
  <1> QED
    BY <1>1, HandleInvHolds, PTL

-----------------------------------------------------------------------------

\* The messages returned so far are the server's first ones on their
\* connection: none is of a connection to come, none of the present one has
\* the number of the next message.
BehindServer ==
    \A i \in 1..Len(received) :
        /\ received[i] # <<>>
        /\ Final(received[i]).conn <= connects
        /\ pc["Run"] = "connecting" => Final(received[i]).conn < connects
        /\ pc["Run"] \notin {"connecting", "away"}
               /\ Final(received[i]).conn = connects =>
                   Final(received[i]).msg < nextPart.msg

OrderInv ==
    /\ HandleInv
    /\ BehindServer
    /\ InServerOrder

\* What ends a returned message is a part: its fields are numbers.
LEMMA FinalType ==
    ASSUME TypeOK, NEW i \in 1..Len(received), received[i] # <<>>
    PROVE  /\ Final(received[i]) \in Parts
           /\ Final(received[i]).conn \in Nat
           /\ Final(received[i]).msg \in Nat
  <1>1. received[i] \in Seq(Parts)
    BY ElementOfSeq DEF TypeOK
  <1>2. Len(received[i]) \in 1..Len(received[i])
    BY <1>1, EmptySeq, LenProperties
  <1>3. received[i][Len(received[i])] \in Parts
    BY <1>1, <1>2, ElementOfSeq
  <1> QED
    BY <1>3 DEF Final, Parts

\* A returned message joins the history behind all others.
LEMMA OrderRecvLast == OrderInv /\ RecvLast => (BehindServer /\ InServerOrder)'
  <1> SUFFICES ASSUME OrderInv, RecvLast
               PROVE  (BehindServer /\ InServerOrder)'
    OBVIOUS
  <1> DEFINE a == Arriving(TRUE)
             r == Append(partial, a)
             n == Len(received)
  <1>1. TypeOK /\ connects >= 1 /\ connects \in Nat
    BY DEF OrderInv, HandleInv, PointerIsAlive, RecvLast, TypeOK
  <1>2. /\ a \in Parts /\ a.conn = connects /\ a.msg = nextPart.msg
        /\ nextPart.msg \in Nat
    <2>1. nextPart.msg <= MaxMessages
      BY DEF RecvLast
    <2>2. nextPart.msg \in Nat
      BY <1>1, WsAssumption DEF TypeOK
    <2> QED
      BY <1>1, <2>1, <2>2, ArrivingType
  <1>3. partial \in Seq(Parts) /\ received \in Seq(Seq(Parts)) /\ n \in Nat
    BY <1>1, LenProperties DEF TypeOK
  <1>4. r \in Seq(Parts) /\ r # <<>> /\ Final(r) = a
    <2>1. /\ r \in Seq(Parts) /\ Len(r) = Len(partial) + 1
          /\ r[Len(partial) + 1] = a
      BY <1>2, <1>3, AppendProperties
    <2>2. Len(partial) \in Nat
      BY <1>3, LenProperties
    <2>3. r # <<>>
      <3>1. Len(r) # 0
        BY <2>1, <2>2
      <3> HIDE DEF r
      <3> QED
        BY <3>1, EmptySeq
    <2> QED
      BY <2>1, <2>3 DEF Final
  <1>5. /\ Len(received') = n + 1
        /\ received'[n + 1] = r
        /\ \A i \in 1..n : received'[i] = received[i]
    <2>1. received' = Append(received, r)
      BY DEF RecvLast
    <2> HIDE DEF r
    <2> QED
      BY <1>3, <1>4, <2>1, AppendProperties
  <1>6. /\ pc["Run"] = "receiving" /\ pc'["Run"] = "pumping"
        /\ connects' = connects /\ nextPart'.msg = nextPart.msg + 1
    BY <1>1 DEF RecvLast, Goto, TypeOK, RunLabels
  <1>7. ASSUME NEW i \in 1..n
        PROVE  /\ received[i] # <<>>
               /\ Final(received[i]).conn \in Nat /\ Final(received[i]).msg \in Nat
               /\ Final(received[i]).conn <= connects
               /\ Final(received[i]).conn = connects =>
                      Final(received[i]).msg < nextPart.msg
    <2>1. received[i] # <<>>
      BY DEF OrderInv, BehindServer
    <2> QED
      BY <1>1, <1>6, <2>1, FinalType DEF OrderInv, BehindServer
  <1> HIDE DEF a, r, n
  <1>8. BehindServer'
    <2>1. ASSUME NEW i \in 1..(n + 1)
          PROVE  /\ received'[i] # <<>>
                 /\ Final(received'[i]).conn <= connects
                 /\ Final(received'[i]).conn = connects =>
                        Final(received'[i]).msg < nextPart.msg + 1
      <3>1. CASE i = n + 1
        BY <1>1, <1>2, <1>4, <1>5, <3>1
      <3>2. CASE i # n + 1
        <4>1. i \in 1..n
          BY <1>3, <3>2
        <4> QED
          BY <1>2, <1>5, <1>7, <4>1
      <3> QED
        BY <3>1, <3>2
    <2> QED
      BY <1>5, <1>6, <2>1 DEF BehindServer, Final
  <1>9. InServerOrder'
    <2>1. ASSUME NEW i \in 1..(n + 1), NEW k \in 1..(n + 1), i < k
          PROVE  \/ Final(received'[i]).conn < Final(received'[k]).conn
                 \/ /\ Final(received'[i]).conn = Final(received'[k]).conn
                    /\ Final(received'[i]).msg < Final(received'[k]).msg
      <3>1. i \in 1..n /\ received'[i] = received[i]
        BY <1>3, <1>5, <2>1
      <3>2. CASE k = n + 1
        BY <1>1, <1>2, <1>4, <1>5, <1>7, <3>1, <3>2
      <3>3. CASE k # n + 1
        <4>1. k \in 1..n /\ received'[k] = received[k]
          BY <1>3, <1>5, <3>3
        <4> QED
          BY <2>1, <3>1, <4>1 DEF OrderInv, InServerOrder, n
      <3> QED
        BY <3>2, <3>3
    <2> QED
      BY <1>5, <2>1 DEF InServerOrder, Final
  <1> QED
    BY <1>8, <1>9

LEMMA OrderInvStep == OrderInv /\ [Next]_vars => OrderInv'
  <1> SUFFICES ASSUME OrderInv, [Next]_vars
               PROVE  OrderInv'
    OBVIOUS
  <1>1. HandleInv'
    BY HandleInvStep DEF OrderInv
  <1>2. CASE RecvLast
    BY <1>1, <1>2, OrderRecvLast DEF OrderInv
  <1>3. CASE ~RecvLast
    <2>1. received' = received
      BY <1>3 DEF Next, vars, BeginConnect, Connected, ConnectFails, BeginSend, EndSend,
                  BeginRecv, BeginCall, EndCall, RecvNothing, RecvPart, RecvControl,
                  RunBeginsClose, RunEndsClose, PumpThrows, UserBeginsClose,
                  UserTestsConnected, UserSendsClose, UserEndsClose, Resting
    <2>2. InServerOrder'
      BY <2>1 DEF OrderInv, InServerOrder, Final
    <2>3. ASSUME NEW i \in 1..Len(received)
          PROVE  /\ received[i] # <<>>
                 /\ Final(received[i]).conn \in Nat
                 /\ Final(received[i]).conn <= connects
      <3>1. received[i] # <<>>
        BY DEF OrderInv, BehindServer
      <3> QED
        BY <3>1, FinalType DEF OrderInv, HandleInv, BehindServer
    <2>4. BehindServer'
      <3> USE <2>1, <2>3 DEF OrderInv, BehindServer
      <3>1. pc \in [{"Run", "User"} -> RunLabels \cup UserLabels] /\ connects \in Nat
        BY DEF HandleInv, TypeOK
      <3>2. CASE BeginConnect
        <4>1. connects' = connects + 1 /\ pc'["Run"] = "connecting"
          BY <3>1, <3>2 DEF BeginConnect, Goto
        <4> QED
          BY <3>1, <4>1 DEF Final
      <3>3. CASE Connected
        <4>1. /\ connects' = connects
              /\ pc["Run"] = "connecting" /\ pc'["Run"] = "pumping"
          BY <3>1, <3>3 DEF Connected, Goto
        <4> QED
          BY <3>1, <4>1 DEF Final
      <3>4. CASE ConnectFails
        <4>1. connects' = connects /\ pc'["Run"] = "away"
          BY <3>1, <3>4 DEF ConnectFails, Goto
        <4> QED
          BY <4>1 DEF Final
      <3>5. CASE RecvPart
        <4>1. /\ connects' = connects /\ nextPart'.msg = nextPart.msg
              /\ pc["Run"] = "receiving" /\ pc'["Run"] = "pumping"
          BY <3>1, <3>5 DEF RecvPart, Goto, HandleInv, TypeOK
        <4> QED
          BY <4>1 DEF Final
      <3>6. CASE RunBeginsClose \/ RunEndsClose \/ PumpThrows
        <4>1. /\ connects' = connects /\ nextPart' = nextPart
              /\ pc["Run"] \notin {"connecting", "away"} /\ pc'["Run"] # "connecting"
          BY <3>1, <3>6 DEF RunBeginsClose, RunEndsClose, PumpThrows, Goto
        <4> QED
          BY <4>1 DEF Final
      <3>7. CASE \/ UserBeginsClose \/ UserTestsConnected
                  \/ UserSendsClose \/ UserEndsClose
        <4>1. /\ connects' = connects /\ nextPart' = nextPart
              /\ pc'["Run"] = pc["Run"]
          BY <3>1, <3>7 DEF UserBeginsClose, UserTestsConnected, UserSendsClose,
                            UserEndsClose, Goto
        <4> QED
          BY <4>1 DEF Final
      <3>8. CASE BeginSend \/ EndSend \/ BeginRecv \/ RecvNothing \/ RecvControl
        <4>1. /\ connects' = connects /\ nextPart' = nextPart
              /\ pc["Run"] \notin {"connecting", "away"}
              /\ pc'["Run"] \notin {"connecting", "away"}
          BY <3>1, <3>8 DEF BeginSend, EndSend, BeginRecv, RecvNothing, RecvControl,
                            BeginCall, EndCall, Goto
        <4> QED
          BY <4>1 DEF Final
      <3>9. CASE Resting \/ UNCHANGED vars
        <4>1. UNCHANGED <<connects, nextPart, pc>>
          BY <3>9 DEF Resting, vars
        <4> QED
          BY <4>1 DEF Final
      <3> QED
        BY <1>3, <3>2, <3>3, <3>4, <3>5, <3>6, <3>7, <3>8, <3>9 DEF Next
    <2> QED
      BY <1>1, <2>2, <2>4 DEF OrderInv
  <1> QED
    BY <1>2, <1>3

\* recv_binary() returns no message twice and none out of order, however the
\* two threads' calls overlap and whatever connections are lost.
THEOREM MessagesKeepTheirOrder == Spec => []InServerOrder
  <1>1. Init => OrderInv
    BY HandleInvInit DEF Init, OrderInv, BehindServer, InServerOrder
  <1>2. OrderInv => InServerOrder
    BY DEF OrderInv
  <1> QED
    BY <1>1, <1>2, OrderInvStep, PTL DEF Spec

-----------------------------------------------------------------------------
(* How far a bad reassembly goes.  What DamageConfined says of a returned  *)
(* message has to hold of partial while the message is being put together. *)

\* A connection has returned a message.
HasReturned(conn) == \E i \in 1..Len(received) : Final(received[i]).conn = conn

\* What partial holds of the present connection is an unbroken tail, up to the
\* part that comes next; what it holds of earlier ones stands before that, and
\* is gone once the connection has returned a message.
PartialTail ==
    /\ \A j \in 1..Len(partial) :
           /\ partial[j].conn <= connects
           /\ pc["Run"] = "connecting" => partial[j].conn < connects
    /\ pc["Run"] \notin {"away", "connecting"} =>
           /\ \A j \in 1..Len(partial) : partial[j].conn = connects =>
                  /\ partial[j].msg = nextPart.msg
                  /\ partial[j].part + (Len(partial) + 1 - j) = nextPart.part
                  /\ \A k \in j..Len(partial) : partial[k].conn = connects
           /\ HasReturned(connects) =>
                  \A j \in 1..Len(partial) : partial[j].conn = connects

DamageInv ==
    /\ OrderInv
    /\ PartialTail
    /\ DamageConfined

\* One part more at the end of partial, returned or not, is the next one.
LEMMA OnePartMore ==
    ASSUME DamageInv, pc["Run"] = "receiving", nextPart.msg <= MaxMessages,
           NEW last \in BOOLEAN, NEW r, r = Append(partial, Arriving(last))
    PROVE  /\ r \in Seq(Parts) /\ Len(r) = Len(partial) + 1 /\ Len(partial) \in Nat
           /\ r[Len(r)] = Arriving(last)
           /\ \A j \in 1..Len(r) :
                  /\ r[j].conn <= connects
                  /\ r[j].conn = connects =>
                         /\ r[j].msg = nextPart.msg
                         /\ r[j].part + (Len(r) - j) = nextPart.part
                         /\ \A k \in j..Len(r) : r[k].conn = connects
           /\ HasReturned(connects) => \A j \in 1..Len(r) : r[j].conn = connects
  <1>0. TypeOK /\ connects >= 1 /\ connects \in Nat
    BY DEF DamageInv, OrderInv, HandleInv, PointerIsAlive, TypeOK
  <1>1. partial \in Seq(Parts) /\ Len(partial) \in Nat
    BY <1>0, LenProperties DEF TypeOK
  <1>2. /\ Arriving(last) \in Parts /\ Arriving(last).conn = connects
        /\ Arriving(last).msg = nextPart.msg
        /\ Arriving(last).part = nextPart.part /\ nextPart.part \in Nat
    BY <1>0, ArrivingType, WsAssumption DEF Arriving, TypeOK
  <1>3. /\ r \in Seq(Parts) /\ Len(r) = Len(partial) + 1
        /\ r[Len(partial) + 1] = Arriving(last)
        /\ \A j \in 1..Len(partial) : r[j] = partial[j]
    <2> HIDE DEF Arriving
    <2> QED
      BY <1>1, <1>2, AppendProperties
  <1>4. /\ \A j \in 1..Len(partial) :
               /\ partial[j].conn <= connects
               /\ partial[j].conn = connects =>
                      /\ partial[j].msg = nextPart.msg
                      /\ partial[j].part + (Len(partial) + 1 - j) = nextPart.part
                      /\ \A k \in j..Len(partial) : partial[k].conn = connects
        /\ HasReturned(connects) => \A j \in 1..Len(partial) : partial[j].conn = connects
    BY DEF DamageInv, PartialTail
  <1>5. \A j \in 1..Len(r) : j \in 1..Len(partial) \/ j = Len(partial) + 1
    BY <1>1, <1>3
  <1>6. ASSUME NEW j \in 1..Len(r)
        PROVE  /\ r[j].conn <= connects
               /\ r[j].conn = connects =>
                      /\ r[j].msg = nextPart.msg
                      /\ r[j].part + (Len(r) - j) = nextPart.part
                      /\ \A k \in j..Len(r) : r[k].conn = connects
    <2>1. CASE j = Len(partial) + 1
      <3>1. r[j] = Arriving(last) /\ Len(r) - j = 0 /\ \A k \in j..Len(r) : k = j
        BY <1>1, <1>3, <2>1
      <3> QED
        BY <1>0, <1>2, <3>1
    <2>2. CASE j \in 1..Len(partial)
      <3>1. r[j] = partial[j] /\ Len(r) - j = Len(partial) + 1 - j
        BY <1>1, <1>3, <2>2
      <3>2. ASSUME r[j].conn = connects, NEW k \in j..Len(r)
            PROVE  r[k].conn = connects
        <4>1. k \in j..Len(partial) \/ k = Len(partial) + 1
          BY <1>1, <1>3, <2>2
        <4>2. k \in j..Len(partial) => k \in 1..Len(partial)
          BY <1>1, <2>2
        <4> QED
          BY <1>2, <1>3, <1>4, <2>2, <3>1, <3>2, <4>1, <4>2
      <3> QED
        BY <1>4, <2>2, <3>1, <3>2
    <2> QED
      BY <1>5, <2>1, <2>2
  <1>7. HasReturned(connects) => \A j \in 1..Len(r) : r[j].conn = connects
    BY <1>2, <1>3, <1>4, <1>5
  <1> QED
    BY <1>1, <1>3, <1>6, <1>7

\* The message that RecvLast returns is damaged no further than its head.
LEMMA DamageRecvLast == DamageInv /\ RecvLast => (PartialTail /\ DamageConfined)'
  <1> SUFFICES ASSUME DamageInv, RecvLast
               PROVE  (PartialTail /\ DamageConfined)'
    OBVIOUS
  <1> DEFINE n == Len(received)
  <1>1. PICK r : r = Append(partial, Arriving(TRUE))
    OBVIOUS
  <1>0. /\ TypeOK /\ connects >= 1 /\ connects \in Nat
        /\ received \in Seq(Seq(Parts)) /\ n \in Nat
    <2>1. TypeOK /\ connects >= 1 /\ connects \in Nat
      BY DEF DamageInv, OrderInv, HandleInv, PointerIsAlive, RecvLast, TypeOK
    <2>2. received \in Seq(Seq(Parts))
      BY <2>1 DEF TypeOK
    <2> QED
      BY <2>1, <2>2, LenProperties
  <1>2. /\ pc["Run"] = "receiving" /\ nextPart.msg <= MaxMessages
        /\ received' = Append(received, r) /\ partial' = <<>>
    BY <1>1 DEF RecvLast
  <1>3. /\ Arriving(TRUE).conn = connects /\ Arriving(TRUE).last
        /\ Arriving(TRUE).msg = nextPart.msg /\ Arriving(TRUE).part = nextPart.part
    BY DEF Arriving
  <1>4. /\ r \in Seq(Parts) /\ Len(r) \in Nat /\ r[Len(r)] = Arriving(TRUE)
        /\ \A j \in 1..Len(r) :
               r[j].conn = connects =>
                   /\ r[j].msg = nextPart.msg
                   /\ r[j].part + (Len(r) - j) = nextPart.part
                   /\ \A k \in j..Len(r) : r[k].conn = connects
        /\ HasReturned(connects) => \A j \in 1..Len(r) : r[j].conn = connects
    <2>1. TRUE \in BOOLEAN
      OBVIOUS
    <2>2. r \in Seq(Parts) /\ Len(r) \in Nat
      BY <1>2, <1>1, <2>1, OnePartMore, LenProperties
    <2> QED
      BY <1>2, <1>1, <2>1, <2>2, OnePartMore, ZenonT(40)
  <1>5. Final(r) = Arriving(TRUE)
    BY <1>4 DEF Final
  <1>6. /\ Len(received') = n + 1 /\ received'[n + 1] = r
        /\ \A i \in 1..n : received'[i] = received[i]
    <2>1. received' = Append(received, r) /\ r \in Seq(Parts)
      BY <1>2, <1>4
    <2>2. received \in Seq(Seq(Parts))
      BY <1>0
    <2> QED
      BY <2>1, <2>2, AppendProperties
  <1>7. PartialTail'
    BY <1>2 DEF PartialTail
  <1> HIDE DEF n
  <1>8. \A j : j \in Own(r) <=> j \in 1..Len(r) /\ r[j].conn = connects
    BY <1>3, <1>5 DEF Own
  <1>9. /\ Final(r).last
        /\ \A j \in Own(r) :
               /\ r[j].msg = Final(r).msg
               /\ r[j].part + (Len(r) - j) = Final(r).part
               /\ j..Len(r) \subseteq Own(r)
    <2>1. ASSUME NEW j \in Own(r)
          PROVE  /\ r[j].msg = Final(r).msg
                 /\ r[j].part + (Len(r) - j) = Final(r).part
      BY <1>3, <1>4, <1>5, <1>8, <2>1
    <2>2. ASSUME NEW j \in Own(r), NEW k \in j..Len(r)
          PROVE  k \in Own(r)
      <3>1. j \in 1..Len(r) /\ r[j].conn = connects
        BY <1>8, <2>2
      <3>2. k \in 1..Len(r)
        BY <1>4, <2>2, <3>1
      <3> QED
        BY <1>4, <1>8, <2>2, <3>1, <3>2
    <2> QED
      BY <1>3, <1>5, <2>1, <2>2
  <1>10. HasReturned(connects) => Own(r) = 1..Len(r)
    BY <1>4, <1>8 DEF Own
  <1>11. ASSUME NEW i \in 1..(n + 1)
         PROVE  /\ Final(received'[i]).last
                /\ \A j \in Own(received'[i]) :
                       /\ received'[i][j].msg = Final(received'[i]).msg
                       /\ received'[i][j].part + (Len(received'[i]) - j)
                              = Final(received'[i]).part
                       /\ j..Len(received'[i]) \subseteq Own(received'[i])
                /\ \A k \in 1..(i - 1) :
                       Final(received'[k]).conn = Final(received'[i]).conn =>
                           Own(received'[i]) = 1..Len(received'[i])
    <2>1. CASE i = n + 1
      <3>1. /\ received'[i] = r
            /\ \A k \in 1..(i - 1) : k \in 1..n /\ received'[k] = received[k]
        <4>1. \A k \in 1..(i - 1) : k \in 1..n
          BY <1>0, <2>1
        <4> QED
          BY <1>6, <2>1, <4>1
      <3>2. ASSUME NEW k \in 1..(i - 1), Final(received'[k]).conn = Final(r).conn
            PROVE  Own(r) = 1..Len(r)
        <4>1. HasReturned(connects)
          BY <1>3, <1>5, <3>1, <3>2 DEF HasReturned, n
        <4> QED
          BY <1>10, <4>1
      <3> QED
        BY <1>9, <3>1, <3>2
    <2>2. CASE i # n + 1
      <3>1. i \in 1..n /\ received'[i] = received[i]
        BY <1>0, <1>6, <2>2
      <3>2. \A k \in 1..(i - 1) : received'[k] = received[k]
        BY <1>0, <1>6, <3>1
      <3> QED
        BY <3>1, <3>2 DEF DamageInv, DamageConfined, n
    <2> QED
      BY <2>1, <2>2
  <1>12. DamageConfined'
    BY <1>6, <1>11 DEF DamageConfined, Final, Own
  <1> QED
    BY <1>7, <1>12

\* More of a message waits in partial.
LEMMA DamageRecvPart == DamageInv /\ RecvPart => PartialTail'
  <1> SUFFICES ASSUME DamageInv, RecvPart
               PROVE  PartialTail'
    OBVIOUS
  <1>1. PICK r : r = Append(partial, Arriving(FALSE))
    OBVIOUS
  <1>2. /\ pc["Run"] = "receiving" /\ pc'["Run"] = "pumping" /\ nextPart.msg <= MaxMessages
        /\ partial' = r /\ connects' = connects /\ received' = received
        /\ nextPart'.msg = nextPart.msg /\ nextPart'.part = nextPart.part + 1
    <2>1. TypeOK
      BY DEF DamageInv, OrderInv, HandleInv
    <2> QED
      BY <1>1, <2>1 DEF RecvPart, Goto, TypeOK
  <1>3. /\ r \in Seq(Parts) /\ Len(r) \in Nat
        /\ \A j \in 1..Len(r) :
               /\ r[j].conn <= connects
               /\ r[j].conn = connects =>
                      /\ r[j].msg = nextPart.msg
                      /\ r[j].part + (Len(r) - j) = nextPart.part
                      /\ \A k \in j..Len(r) : r[k].conn = connects
        /\ HasReturned(connects) => \A j \in 1..Len(r) : r[j].conn = connects
    <2>1. FALSE \in BOOLEAN
      OBVIOUS
    <2>2. r \in Seq(Parts) /\ Len(r) \in Nat
      BY <1>1, <1>2, <2>1, OnePartMore, LenProperties
    <2> QED
      BY <1>1, <1>2, <2>1, <2>2, OnePartMore, ZenonT(40)
  <1>4. ASSUME NEW j \in 1..Len(r), r[j].conn = connects
        PROVE  r[j].part + (Len(r) + 1 - j) = nextPart.part + 1
    <2>1. r[j] \in Parts
      BY <1>3, ElementOfSeq
    <2>2. r[j].part \in Nat /\ Len(r) \in Nat
      BY <1>3, <2>1, WsAssumption DEF Parts
    <2>3. r[j].part + (Len(r) - j) = nextPart.part
      BY <1>3, <1>4
    <2> QED
      BY <2>2, <2>3
  <1>5. HasReturned(connects)' => HasReturned(connects)
    BY <1>2 DEF HasReturned, Final
  <1> QED
    BY <1>2, <1>3, <1>4, <1>5 DEF PartialTail

\* No other step adds to partial or to what was returned.
LEMMA DamageOthers ==
    ASSUME DamageInv, [Next]_vars, ~RecvPart, ~RecvLast
    PROVE  PartialTail' /\ DamageConfined'
  <1>1. received' = received
    BY DEF Next, vars, BeginConnect, Connected, ConnectFails, BeginSend, EndSend,
           BeginRecv, BeginCall, EndCall, RecvNothing, RecvControl,
           RunBeginsClose, RunEndsClose, PumpThrows, UserBeginsClose,
                  UserTestsConnected, UserSendsClose, UserEndsClose, Resting
  <1>2. DamageConfined'
    BY <1>1, SMTT(30) DEF DamageInv, DamageConfined, Final, Own
  <1> SUFFICES PartialTail'
    BY <1>2
  <1>3. HasReturned(connects)' /\ connects' = connects => HasReturned(connects)
    BY <1>1 DEF HasReturned, Final
  <1>4. pc \in [{"Run", "User"} -> RunLabels \cup UserLabels] /\ connects \in Nat
    BY DEF DamageInv, OrderInv, HandleInv, TypeOK
  <1>5. \A j \in 1..Len(partial) : partial[j].conn \in Nat
    <2>1. partial \in Seq(Parts)
      BY DEF DamageInv, OrderInv, HandleInv, TypeOK
    <2>2. \A j \in 1..Len(partial) : partial[j] \in Parts
      BY <2>1, ElementOfSeq
    <2> QED
      BY <2>2, WsAssumption DEF Parts
  <1>6. CASE RecvControl
    BY <1>6, EmptySeq DEF RecvControl, PartialTail
  <1>7. CASE BeginConnect
    <2>1. /\ connects' = connects + 1 /\ pc'["Run"] = "connecting"
          /\ partial' = partial
      BY <1>4, <1>7 DEF BeginConnect, Goto
    <2>2. \A j \in 1..Len(partial) : partial[j].conn <= connects
      BY DEF DamageInv, PartialTail
    <2> QED
      BY <1>4, <1>5, <2>1, <2>2 DEF PartialTail
  <1>8. CASE Connected
    <2>1. /\ connects' = connects /\ partial' = partial
          /\ pc["Run"] = "connecting" /\ pc'["Run"] = "pumping"
      BY <1>4, <1>8 DEF Connected, Goto
    <2>2. \A j \in 1..Len(partial) : partial[j].conn < connects
      BY <2>1 DEF DamageInv, PartialTail
    <2>3. ~HasReturned(connects)
      <3>1. ASSUME NEW i \in 1..Len(received)
            PROVE  Final(received[i]).conn # connects
        <4>1. received[i] # <<>> /\ Final(received[i]).conn < connects
          BY <2>1 DEF DamageInv, OrderInv, BehindServer
        <4>2. Final(received[i]).conn \in Nat
          BY <4>1, FinalType DEF DamageInv, OrderInv, HandleInv
        <4> QED
          BY <1>4, <4>1, <4>2
      <3> QED
        BY <3>1 DEF HasReturned
    <2> QED
      BY <1>3, <1>4, <1>5, <2>1, <2>2, <2>3 DEF PartialTail
  <1>9. ASSUME UNCHANGED <<connects, partial, nextPart>>,
               pc'["Run"] = "connecting" => pc["Run"] = "connecting",
               pc'["Run"] \notin {"away", "connecting"}
                   => pc["Run"] \notin {"away", "connecting"}
        PROVE  PartialTail'
    BY <1>3, <1>9 DEF DamageInv, PartialTail
  <1>10. CASE ConnectFails
    <2>1. pc'["Run"] = "away" /\ UNCHANGED <<connects, partial>>
      BY <1>4, <1>10 DEF ConnectFails, Goto
    <2> QED
      BY <2>1 DEF DamageInv, PartialTail
  <1>11. CASE BeginSend \/ EndSend \/ BeginRecv \/ RecvNothing
    BY <1>4, <1>9, <1>11
       DEF BeginSend, EndSend, BeginRecv, RecvNothing, BeginCall, EndCall, Goto
  <1>12. CASE RunBeginsClose \/ RunEndsClose \/ PumpThrows
    BY <1>4, <1>9, <1>12 DEF RunBeginsClose, RunEndsClose, PumpThrows, Goto
  <1>13. CASE \/ UserBeginsClose \/ UserTestsConnected
              \/ UserSendsClose \/ UserEndsClose
    BY <1>4, <1>9, <1>13 DEF UserBeginsClose, UserTestsConnected, UserSendsClose,
                             UserEndsClose, Goto
  <1>14. CASE Resting \/ UNCHANGED vars
    BY <1>9, <1>14 DEF Resting, vars
  <1> QED
    BY <1>6, <1>7, <1>8, <1>10, <1>11, <1>12, <1>13, <1>14 DEF Next

LEMMA DamageInvStep == DamageInv /\ [Next]_vars => DamageInv'
  <1> SUFFICES ASSUME DamageInv, [Next]_vars
               PROVE  DamageInv'
    OBVIOUS
  <1>1. OrderInv'
    BY OrderInvStep DEF DamageInv
  <1>2. CASE RecvPart
    <2>1. received' = received
      BY <1>2 DEF RecvPart
    <2>2. DamageConfined'
      BY <2>1 DEF DamageInv, DamageConfined, Final, Own
    <2> QED
      BY <1>1, <1>2, <2>2, DamageRecvPart DEF DamageInv
  <1>3. CASE RecvLast
    BY <1>1, <1>3, DamageRecvLast DEF DamageInv
  <1>4. CASE ~RecvPart /\ ~RecvLast
    BY <1>1, <1>4, DamageOthers DEF DamageInv
  <1> QED
    BY <1>2, <1>3, <1>4

\* What recv_binary() hands over as one message may begin with parts of an
\* earlier connection, and may have lost parts to a control frame; beyond that
\* it is one message of its connection, and only the first message of a
\* connection can begin with foreign parts.
THEOREM DamageStaysConfined == Spec => []DamageConfined
  <1>1. Init => DamageInv
    <2> SUFFICES ASSUME Init
                 PROVE  DamageInv
      OBVIOUS
    <2>1. OrderInv
      BY HandleInvInit DEF Init, OrderInv, BehindServer, InServerOrder
    <2>2. Len(partial) = 0 /\ Len(received) = 0
      BY EmptySeq DEF Init
    <2>3. PartialTail /\ DamageConfined
      BY <2>2 DEF PartialTail, HasReturned, DamageConfined
    <2> QED
      BY <2>1, <2>3 DEF DamageInv
  <1>2. DamageInv => DamageConfined
    BY DEF DamageInv
  <1> QED
    BY <1>1, <1>2, DamageInvStep, PTL DEF Spec
=============================================================================
