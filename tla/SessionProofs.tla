--------------------------- MODULE SessionProofs ---------------------------
(***************************************************************************)
(* Proofs about Session, for any room in the receive buffer and any amount *)
(* of data a socket takes: what a session that is gone leaves behind, and  *)
(* what a side that times a connection out has told the other.             *)
(***************************************************************************)
EXTENDS Session, SequenceTheorems, TLAPS

-----------------------------------------------------------------------------
(* The invariants.                                                         *)

\* What each stage of a session's life has outstanding.
Stage(n) ==
    \/ /\ life[n] = "none" /\ socket[n] = "none"
       /\ ~recv[n] /\ waiting[n] = {} /\ queued[n] = <<>>
    \/ /\ life[n] = "live" /\ socket[n] \in {"connecting", "failed"}
       /\ ~recv[n] /\ waiting[n] = {} /\ queued[n] = <<>>
    \/ life[n] = "live" /\ socket[n] \in {"open", "shut"}
    \/ /\ life[n] \in {"freed", "aborted"} /\ socket[n] \in {"failed", "closed"}
       /\ ~recv[n] /\ waiting[n] = {}

Stages ==
    /\ \A n \in Node : Stage(n)
    /\ socket[Client] # "none" /\ socket[Server] \notin {"connecting", "failed"}
    /\ socket[Server] # "none" => socket[Client] \in {"open", "shut", "closed"}

NoEof(s) == \A i \in 1..Len(s) : s[i] # "Eof"

\* A Close is received before the end of the data.
Told(s) == \E i \in 1..Len(s) : s[i] = "Close" /\ \A j \in 1..i - 1 : s[j] # "Eof"

\* What n has yet to receive, against the peer's side of the connection.
Ordered(n) ==
    /\ socket[Peer(n)] \notin {"shut", "closed"} => NoEof(net[n])
    /\ socket[Peer(n)] = "shut" /\ socket[n] \in {"none", "open"}
           => state[n] = "Closed" \/ Told(net[n])
    /\ Live(n) /\ ~recv[n] /\ socket[n] = "open"
           => /\ socket[Peer(n)] \in {"shut", "closed"}
              /\ socket[Peer(n)] = "shut" => state[n] = "Closed"

Order == \A n \in Node : Ordered(n)

-----------------------------------------------------------------------------
(* The two nodes and what the parts of an action do.                       *)

LEMMA Nodes ==
    /\ Client \in Node /\ Server \in Node /\ Client # Server
    /\ \A n \in Node : /\ Peer(n) \in Node /\ Peer(n) # n /\ Peer(Peer(n)) = n
                       /\ \A m \in Node : m = n \/ m = Peer(n)
<1>1. Client \in Node /\ Server \in Node /\ Client # Server
    BY SessionConstants DEF SessionConstants, Node
<1>2. Peer(Client) = Server /\ Peer(Server) = Client
    BY <1>1 DEF Node, Peer
<1> QED
    BY <1>1, <1>2 DEF Node

Sockets == {"none", "connecting", "failed", "open", "shut", "closed"}

\* The end of n's side, seen as a whole.
LEMMA Ends ==
    ASSUME TypeOK, NEW n \in Node, NEW how \in {"shut", "closed"}, NEW out \in Seq(Item),
           EndSocket(n, how, out)
    PROVE  /\ socket' \in [Node -> Sockets] /\ net' \in [Node -> Seq(Item)]
           /\ socket'[n] = how /\ socket'[Peer(n)] = socket[Peer(n)]
           /\ net'[n] = net[n]
           /\ net'[Peer(n)] = IF socket[n] = "shut" THEN net[Peer(n)]
                               ELSE IF Reaches(n) THEN (net[Peer(n)] \o out) \o <<"Eof">>
                               ELSE net[Peer(n)] \o <<"Eof">>
<1>1. /\ socket \in [Node -> Sockets] /\ net \in [Node -> Seq(Item)]
      /\ net[Peer(n)] \in Seq(Item) /\ Peer(n) \in Node /\ Peer(n) # n
    BY Nodes DEF TypeOK, Sockets
<1>2. /\ socket' = [socket EXCEPT ![n] = how]
      /\ net' = [net EXCEPT ![Peer(n)] =
                   IF socket[n] = "shut" THEN @
                   ELSE (IF Reaches(n) THEN @ \o out ELSE @) \o <<"Eof">>]
    BY DEF EndSocket
<1>3. how \in Sockets /\ <<"Eof">> \in Seq(Item)
    BY DEF Sockets, Item
<1>4. /\ net[Peer(n)] \o out \in Seq(Item)
      /\ (net[Peer(n)] \o out) \o <<"Eof">> \in Seq(Item)
      /\ net[Peer(n)] \o <<"Eof">> \in Seq(Item)
    BY <1>1, <1>3, ConcatProperties
<1> QED
    BY <1>1, <1>2, <1>3, <1>4

LEMMA Transfers ==
    ASSUME TypeOK, NEW n \in Node, NEW taken \in BOOLEAN, NEW out \in Seq(Item),
           taken => net[n] # <<>>, Transfer(n, taken, out)
    PROVE  /\ net' \in [Node -> Seq(Item)]
           /\ net'[n] = IF taken THEN Tail(net[n]) ELSE net[n]
           /\ net'[Peer(n)] = IF Reaches(n) THEN net[Peer(n)] \o out ELSE net[Peer(n)]
<1>1. /\ net \in [Node -> Seq(Item)] /\ net[n] \in Seq(Item) /\ net[Peer(n)] \in Seq(Item)
      /\ Peer(n) \in Node /\ Peer(n) # n
    BY Nodes DEF TypeOK
<1>2. net' = [net EXCEPT ![n] = IF taken THEN Tail(@) ELSE @,
                         ![Peer(n)] = IF Reaches(n) THEN @ \o out ELSE @]
    BY DEF Transfer
<1>3. net[Peer(n)] \o out \in Seq(Item)
    BY <1>1, ConcatProperties
<1>4. taken => Tail(net[n]) \in Seq(Item)
    BY <1>1
<1> QED
    BY <1>1, <1>2, <1>3, <1>4

LEMMA Switch ==
    ASSUME NEW f \in [Node -> BOOLEAN], NEW n \in Node, NEW b \in BOOLEAN
    PROVE  [f EXCEPT ![n] = b] \in [Node -> BOOLEAN]
OBVIOUS

\* A destructor runs on a session that is connected, or never was.
LEMMA Destroys ==
    ASSUME TypeOK, NEW n \in Node, Destroy(n), socket[n] # "closed"
    PROVE  /\ life' = [life EXCEPT ![n] = "freed"] /\ waiting' = [waiting EXCEPT ![n] = {}]
           /\ \/ socket[n] \in {"open", "shut"} /\ EndSocket(n, "closed", <<>>)
              \/ socket[n] \notin {"open", "shut"} /\ UNCHANGED <<socket, net>>
BY DEF Destroy

-----------------------------------------------------------------------------
(* Types.                                                                  *)

LEMMA TypeStep ==
    ASSUME TypeOK, [Next]_vars
    PROVE  TypeOK'
<1>1. CASE UNCHANGED vars
    BY <1>1 DEF vars, TypeOK
<1>2. <<>> \in Seq(Item) /\ <<>> \in Seq(Timer) /\ {} \in SUBSET Timer /\ Timer \in SUBSET Timer
    OBVIOUS
<1>3. <<"System">> \in Seq(Item) /\ <<"Close">> \in Seq(Item) /\ <<"Ping">> \in Seq(Item) /\ <<"Pong">> \in Seq(Item)
    BY DEF Item
<1>4. ASSUME NEW n \in Node, NEW how \in {"shut", "closed"}, NEW out \in Seq(Item), EndSocket(n, how, out)
      PROVE  /\ socket' \in [Node -> {"none", "connecting", "failed", "open", "shut", "closed"}]
             /\ net' \in [Node -> Seq(Item)]
    BY <1>4, Ends DEF Sockets
<1>5. ASSUME NEW n \in Node, Destroy(n), UNCHANGED <<state, room, queued>>,
             recv' \in [Node -> BOOLEAN], ref' \in [Node -> BOOLEAN]
      PROVE  TypeOK'
  <2>1. /\ life' = [life EXCEPT ![n] = "freed"] /\ waiting' = [waiting EXCEPT ![n] = {}]
        /\ \/ EndSocket(n, "closed", <<>>)
           \/ UNCHANGED <<socket, net>>
    BY <1>5 DEF Destroy
  <2>2. /\ socket' \in [Node -> {"none", "connecting", "failed", "open", "shut", "closed"}]
        /\ net' \in [Node -> Seq(Item)]
    BY <1>2, <1>4, <2>1 DEF TypeOK
  <2> QED
    BY <1>5, <2>1, <2>2 DEF TypeOK
<1>6. ASSUME NEW n \in Node, Abort(n) PROVE TypeOK'
  <2>1. EndSocket(n, "closed", <<>>)
    BY <1>6 DEF Abort
  <2>2. /\ socket' \in [Node -> {"none", "connecting", "failed", "open", "shut", "closed"}]
        /\ net' \in [Node -> Seq(Item)]
    BY <1>2, <1>4, <2>1
  <2>3. recv' \in [Node -> BOOLEAN]
    BY <1>6, Switch DEF Abort, TypeOK
  <2>4. /\ life' \in [Node -> {"none", "live", "freed", "aborted"}]
        /\ waiting' \in [Node -> SUBSET Timer] /\ queued' \in [Node -> Seq(Timer)]
    BY <1>2, <1>6 DEF Abort, TypeOK
  <2>5. UNCHANGED <<state, room, ref>>
    BY <1>6 DEF Abort
  <2> QED
    BY <2>2, <2>3, <2>4, <2>5 DEF TypeOK
<1>7. ASSUME NEW n \in Node, Release(n) PROVE TypeOK'
  <2>1. UNCHANGED <<state, recv, room, queued>> /\ ref' \in [Node -> BOOLEAN]
    BY <1>7, Switch DEF Release, TypeOK
  <2>2. CASE UNCHANGED <<socket, net, waiting, life>>
    BY <2>1, <2>2 DEF TypeOK
  <2>3. CASE Destroy(n)
    BY <1>5, <2>1, <2>3 DEF TypeOK
  <2> QED
    BY <1>7, <2>2, <2>3 DEF Release
<1>8. ASSUME NEW n \in Node, Start(n)
      PROVE  recv' \in [Node -> BOOLEAN] /\ waiting' \in [Node -> SUBSET Timer]
  <2>1. recv' \in [Node -> BOOLEAN]
    BY <1>8, Switch DEF Start, TypeOK
  <2> QED
    BY <1>2, <1>8, <2>1 DEF Start, TypeOK
<1>9. CASE OnSocketConnected
  <2>1. recv' \in [Node -> BOOLEAN] /\ waiting' \in [Node -> SUBSET Timer]
    BY <1>8, <1>9, Nodes DEF OnSocketConnected
  <2>2. /\ socket' \in [Node -> {"none", "connecting", "failed", "open", "shut", "closed"}]
        /\ state' \in [Node -> State]
    BY <1>9 DEF OnSocketConnected, TypeOK, State
  <2>3. net' \in [Node -> Seq(Item)]
    <3>1. net[Server] \in Seq(Item) /\ "System" \in Item
      BY Nodes DEF TypeOK, Item
    <3> QED
      BY <1>9, <3>1, AppendProperties DEF OnSocketConnected, TypeOK
  <2>4. UNCHANGED <<room, queued, ref, life>>
    BY <1>9 DEF OnSocketConnected
  <2> QED
    BY <2>1, <2>2, <2>3, <2>4 DEF TypeOK
<1>10. CASE OnSocketConnected_Asserts
    BY <1>6, <1>10, Nodes DEF OnSocketConnected_Asserts
<1>11. CASE OnConnectError
    BY <1>11 DEF OnConnectError, TypeOK
<1>12. CASE Accept
  <2>1. recv' \in [Node -> BOOLEAN] /\ waiting' \in [Node -> SUBSET Timer]
    BY <1>8, <1>12, Nodes DEF Accept
  <2>2. /\ socket' \in [Node -> {"none", "connecting", "failed", "open", "shut", "closed"}]
        /\ life' \in [Node -> {"none", "live", "freed", "aborted"}]
    BY <1>12 DEF Accept, TypeOK
  <2>3. ref' \in [Node -> BOOLEAN]
    BY <1>12, Switch, Nodes DEF Accept, TypeOK
  <2>4. UNCHANGED <<state, net, room, queued>>
    BY <1>12 DEF Accept
  <2> QED
    BY <2>1, <2>2, <2>3, <2>4 DEF TypeOK
<1>13. ASSUME NEW n \in Node, NEW taken \in BOOLEAN, NEW out \in Seq(Item),
              taken => net[n] # <<>>, Transfer(n, taken, out)
       PROVE  net' \in [Node -> Seq(Item)]
    BY <1>13, Transfers
\* What sends or receives a frame and nothing else.
<1>14. ASSUME NEW n \in Node, OnSystemFrame(n) \/ OnCloseFrame(n) \/ OnPingFrame(n) \/ OnPongFrame(n)
       PROVE  TypeOK'
  <2>1. net[n] # <<>> /\ \E out \in Seq(Item) : Transfer(n, TRUE, out)
    BY <1>2, <1>3, <1>14 DEF OnSystemFrame, OnCloseFrame, OnPingFrame, OnPongFrame, Receives
  <2>2. net' \in [Node -> Seq(Item)]
    BY <1>13, <2>1
  <2>3. state' \in [Node -> State] /\ UNCHANGED <<socket, recv, room, waiting, queued, ref, life>>
    BY <1>14 DEF OnSystemFrame, OnCloseFrame, OnPingFrame, OnPongFrame, TypeOK, State
  <2> QED
    BY <2>2, <2>3 DEF TypeOK
<1>15. ASSUME NEW n \in Node, OnReceivedClosed(n) PROVE TypeOK'
  <2>1. /\ net[n] # <<>> /\ Transfer(n, TRUE, <<>>) /\ room[n] # 0
        /\ room' = [room EXCEPT ![n] = @ - 1]
        /\ UNCHANGED <<state, socket, recv, waiting, queued, ref, life>>
    BY <1>15 DEF OnReceivedClosed, Receives, Full
  <2>2. net' \in [Node -> Seq(Item)]
    BY <1>2, <1>13, <2>1
  <2>3. room' \in [Node -> 0..Room]
    <3>1. room[n] - 1 \in 0..Room
      BY <2>1, SessionConstants DEF TypeOK, SessionConstants
    <3> QED
      BY <2>1, <3>1 DEF TypeOK
  <2> QED
    BY <2>1, <2>2, <2>3 DEF TypeOK
<1>16. ASSUME NEW n \in Node, OnReceiveError(n) PROVE TypeOK'
  <2>1. recv' \in [Node -> BOOLEAN] /\ UNCHANGED <<state, room, queued, ref>>
    BY <1>16, Switch DEF OnReceiveError, TypeOK
  <2>2. CASE UNCHANGED <<socket, net, waiting, life>>
    BY <2>1, <2>2 DEF TypeOK
  <2>3. CASE Destroy(n)
    BY <1>5, <2>1, <2>3 DEF TypeOK
  <2> QED
    BY <1>16, <2>2, <2>3 DEF OnReceiveError
<1>17. ASSUME NEW n \in Node, Close(n) PROVE TypeOK'
  <2>1. Transfer(n, FALSE, <<"Close">>) /\ UNCHANGED <<socket, recv, room, waiting, queued, ref, life>>
    BY <1>17 DEF Close, Send
  <2>2. net' \in [Node -> Seq(Item)]
    BY <1>3, <1>13, <2>1
  <2>3. state' \in [Node -> State]
    BY <1>17 DEF Close, TypeOK, State
  <2> QED
    BY <2>1, <2>2, <2>3 DEF TypeOK
\* The timers.
<1>18. ASSUME NEW n \in Node, NEW t, Runs(n, t)
       PROVE  queued' \in [Node -> Seq(Timer)]
    BY <1>18 DEF Runs, TypeOK
<1>19. ASSUME NEW n \in Node, TimersExpire(n) PROVE TypeOK'
  <2>1. PICK q \in {<<"expired">>, <<"expired", "timeout">>} :
           /\ queued' = [queued EXCEPT ![n] = q]
           /\ waiting' = [waiting EXCEPT ![n] = Timer \ {q[i] : i \in 1..Len(q)}]
    BY <1>19 DEF TimersExpire
  <2>2. q \in Seq(Timer)
    <3>1. "expired" \in Timer /\ "timeout" \in Timer
      BY DEF Timer
    <3>2. <<"expired">> \in Seq(Timer) /\ <<"expired", "timeout">> \in Seq(Timer)
      BY <3>1
    <3> QED
      BY <2>1, <3>2
  <2>3. queued' \in [Node -> Seq(Timer)] /\ waiting' \in [Node -> SUBSET Timer]
    BY <2>1, <2>2 DEF TypeOK
  <2>4. UNCHANGED <<state, socket, net, recv, room, ref, life>>
    BY <1>19 DEF TimersExpire
  <2> QED
    BY <2>3, <2>4 DEF TypeOK
<1>20. ASSUME NEW n \in Node, OnKeepAliveExpired(n) PROVE TypeOK'
  <2>1. Transfer(n, FALSE, <<"Ping">>) /\ UNCHANGED <<state, socket, recv, room, ref, life>>
    BY <1>20 DEF OnKeepAliveExpired, Send
  <2>2. net' \in [Node -> Seq(Item)] /\ queued' \in [Node -> Seq(Timer)]
    BY <1>3, <1>13, <1>18, <1>20, <2>1 DEF OnKeepAliveExpired
  <2>3. waiting' \in [Node -> SUBSET Timer]
    BY <1>2, <1>20 DEF OnKeepAliveExpired, TypeOK
  <2> QED
    BY <2>1, <2>2, <2>3 DEF TypeOK
<1>21. ASSUME NEW n \in Node, OnKeepAliveTimeout(n) PROVE TypeOK'
  <2>1. EndSocket(n, "shut", <<"Close">>) /\ UNCHANGED <<recv, room, waiting, ref, life>>
    BY <1>21 DEF OnKeepAliveTimeout
  <2>2. /\ socket' \in [Node -> {"none", "connecting", "failed", "open", "shut", "closed"}]
        /\ net' \in [Node -> Seq(Item)]
    BY <1>3, <1>4, <2>1
  <2>3. queued' \in [Node -> Seq(Timer)] /\ state' \in [Node -> State]
    BY <1>18, <1>21 DEF OnKeepAliveTimeout, TypeOK, State
  <2> QED
    BY <2>1, <2>2, <2>3 DEF TypeOK
<1>22. ASSUME NEW n \in Node, OnKeepAliveTimeout_Asserts(n) PROVE TypeOK'
    BY <1>6, <1>22 DEF OnKeepAliveTimeout_Asserts
<1>23. ASSUME NEW n \in Node, StaleHandler(n) PROVE TypeOK'
  <2>1. queued' \in [Node -> Seq(Timer)] /\ UNCHANGED <<state, socket, net, recv, room, waiting, ref, life>>
    BY <1>18, <1>23 DEF StaleHandler
  <2> QED
    BY <2>1 DEF TypeOK
<1> QED
    BY <1>1, <1>7, <1>9, <1>10, <1>11, <1>12, <1>14, <1>15, <1>16, <1>17, <1>19, <1>20, <1>21,
       <1>22, <1>23 DEF Next, Connects, OnReceived, OnTimer

-----------------------------------------------------------------------------
(* What a session has outstanding.                                         *)

\* Where a session is in its life, when only its sockets and timers move.
Same(m) ==
    /\ life'[m] = life[m] /\ socket'[m] = socket[m] /\ recv'[m] = recv[m]
    /\ waiting'[m] = waiting[m] /\ queued'[m] = queued[m]

LEMMA StageKept ==
    ASSUME NEW m \in Node, Stage(m), Same(m)
    PROVE  Stage(m)'
BY DEF Stage, Same

LEMMA StagesStep ==
    ASSUME TypeOK, Stages, [Next]_vars
    PROVE  Stages'
<1>1. CASE UNCHANGED vars
    BY <1>1 DEF vars, Stages, Stage
<1>2. CASE \E n \in Node : OnSystemFrame(n) \/ OnCloseFrame(n) \/ OnPingFrame(n) \/ OnPongFrame(n)
                          \/ OnReceivedClosed(n) \/ Close(n)
  <2>1. UNCHANGED <<socket, recv, waiting, queued, life>>
    BY <1>2 DEF OnSystemFrame, OnCloseFrame, OnPingFrame, OnPongFrame, OnReceivedClosed, Close
  <2> QED
    BY <2>1 DEF Stages, Stage
\* The end of a session, at which nothing of it is outstanding.
<1>3. ASSUME NEW n \in Node, NEW out \in Seq(Item), NEW how \in {"shut", "closed"},
             EndSocket(n, how, out), socket[n] \in {"connecting", "failed", "open", "shut"},
             how = "shut" => socket[n] \in {"open", "shut"},
             Stage(n)', \A m \in Node : m # n => Same(m)
      PROVE  Stages'
  <2>1. socket'[n] = how /\ \A m \in Node : m # n => socket'[m] = socket[m]
    BY <1>3, Ends, Nodes
  <2>2. \A m \in Node : Stage(m)'
    BY <1>3, StageKept DEF Stages
  <2>3. socket'[Server] # "none" => socket[Server] # "none"
    BY <1>3, <2>1, Nodes
  <2>4. socket'[Client] # "none" /\ socket'[Server] \notin {"connecting", "failed"}
    BY <1>3, <2>1, Nodes DEF Stages
  <2>5. socket[Client] \in {"open", "shut", "closed"} => socket'[Client] \in {"open", "shut", "closed"}
    BY <1>3, <2>1, Nodes
  <2> QED
    BY <2>2, <2>3, <2>4, <2>5 DEF Stages
<1>4. <<>> \in Seq(Item) /\ <<"Close">> \in Seq(Item)
    BY DEF Item
<1>5. ASSUME NEW n \in Node, Destroy(n), life[n] = "live", socket[n] # "connecting", recv'[n] = FALSE,
             queued' = queued, \A m \in Node : m # n => recv'[m] = recv[m]
      PROVE  Stages'
  <2>1. /\ life' = [life EXCEPT ![n] = "freed"] /\ waiting' = [waiting EXCEPT ![n] = {}]
        /\ life'[n] = "freed" /\ waiting'[n] = {}
        /\ \A m \in Node : m # n => life'[m] = life[m] /\ waiting'[m] = waiting[m]
    BY <1>5 DEF Destroy, TypeOK
  <2>2. socket[n] \in {"failed", "open", "shut"}
    BY <1>5 DEF Stages, Stage
  <2>3. CASE EndSocket(n, "closed", <<>>) /\ socket[n] \in {"open", "shut"}
    <3>1. socket'[n] = "closed" /\ \A m \in Node : m # n => socket'[m] = socket[m]
      BY <1>4, <2>3, Ends, Nodes
    <3>2. Stage(n)' /\ \A m \in Node : m # n => Same(m)
      BY <1>5, <2>1, <3>1 DEF Stage, Same
    <3> QED
      BY <1>3, <1>4, <2>3, <3>2
  <2>4. CASE UNCHANGED <<socket, net>> /\ socket[n] = "failed"
    <3>1. Stage(n)' /\ \A m \in Node : m # n => Same(m)
      BY <1>5, <2>1, <2>4 DEF Stage, Same
    <3>2. \A m \in Node : Stage(m)'
      BY <3>1, StageKept DEF Stages
    <3> QED
      BY <2>4, <3>2 DEF Stages
  <2> QED
    BY <1>5, <2>2, <2>3, <2>4 DEF Destroy
<1>6. ASSUME NEW n \in Node, Abort(n), socket[n] \in {"connecting", "open", "shut"}
      PROVE  Stages'
  <2>1. EndSocket(n, "closed", <<>>)
    BY <1>6 DEF Abort
  <2>2. socket'[n] = "closed" /\ \A m \in Node : m # n => socket'[m] = socket[m]
    BY <2>1 DEF EndSocket, TypeOK
  <2>3. /\ life'[n] = "aborted" /\ waiting'[n] = {} /\ ~recv'[n]
        /\ \A m \in Node : m # n => life'[m] = life[m] /\ waiting'[m] = waiting[m]
                                  /\ queued'[m] = queued[m] /\ recv'[m] = recv[m]
    BY <1>6 DEF Abort, TypeOK
  <2>4. Stage(n)' /\ \A m \in Node : m # n => Same(m)
    BY <2>2, <2>3 DEF Stage, Same
  <2> QED
    BY <1>3, <1>4, <1>6, <2>1, <2>4
<1>7. ASSUME NEW n \in Node, Release(n) PROVE Stages'
  <2>1. UNCHANGED <<recv, queued>> /\ Live(n)
    BY <1>7 DEF Release
  <2>2. CASE UNCHANGED <<socket, net, waiting, life>>
    BY <2>1, <2>2 DEF Stages, Stage
  <2>3. CASE Destroy(n) /\ ~recv[n] /\ socket[n] # "connecting"
    <3>1. recv'[n] = FALSE
      BY <2>1, <2>3 DEF TypeOK
    <3> QED
      BY <1>5, <2>1, <2>3, <3>1 DEF Live
  <2> QED
    BY <1>7, <2>2, <2>3 DEF Release
<1>8. ASSUME NEW n \in Node, OnReceiveError(n) PROVE Stages'
  <2>1. /\ Live(n) /\ recv[n] /\ recv' = [recv EXCEPT ![n] = FALSE]
        /\ UNCHANGED queued
    BY <1>8 DEF OnReceiveError, Receives
  <2>2. socket[n] \in {"open", "shut"} /\ recv'[n] = FALSE /\ \A m \in Node : m # n => recv'[m] = recv[m]
    BY <2>1 DEF Stages, Stage, Live, TypeOK
  <2>3. CASE UNCHANGED <<socket, net, waiting, life>>
    <3>1. Stage(n)' /\ \A m \in Node : m # n => Same(m)
      BY <2>1, <2>2, <2>3 DEF Stage, Same, Live
    <3>2. \A m \in Node : Stage(m)'
      BY <3>1, StageKept DEF Stages
    <3> QED
      BY <2>3, <3>2 DEF Stages
  <2>4. CASE Destroy(n)
    BY <1>5, <2>1, <2>2, <2>4 DEF Live
  <2> QED
    BY <1>8, <2>3, <2>4 DEF OnReceiveError
<1>9. CASE OnSocketConnected
  <2>1. /\ life[Client] = "live" /\ life'[Client] = "live" /\ socket'[Client] = "open"
        /\ Client \in Node
        /\ \A m \in Node : m # Client => Same(m)
    <3>1. Stage(Client) /\ socket[Client] = "connecting" /\ Client \in Node
      BY <1>9, Nodes DEF OnSocketConnected, Stages
    <3>2. life[Client] = "live"
      BY <3>1 DEF Stage
    <3>3. /\ socket' = [socket EXCEPT ![Client] = "open"] /\ UNCHANGED <<queued, life>>
          /\ recv' = [recv EXCEPT ![Client] = TRUE] /\ waiting' = [waiting EXCEPT ![Client] = Timer]
      BY <1>9 DEF OnSocketConnected, Start
    <3>4. socket'[Client] = "open" /\ \A m \in Node : m # Client => Same(m)
      BY <3>1, <3>3 DEF Same, TypeOK
    <3> QED
      BY <3>1, <3>2, <3>3, <3>4
  <2>2. Stage(Client)' /\ \A m \in Node : Stage(m)'
    BY <2>1, StageKept DEF Stages, Stage
  <2>3. socket'[Server] = socket[Server]
    BY <2>1, Nodes DEF Same
  <2> QED
    BY <2>1, <2>2, <2>3 DEF Stages
<1>10. CASE OnSocketConnected_Asserts
    BY <1>6, <1>10, Nodes DEF OnSocketConnected_Asserts
<1>11. CASE OnConnectError
  <2>1. /\ socket[Client] = "connecting" /\ socket'[Client] = "failed" /\ Client \in Node
        /\ life[Client] = "live" /\ life'[Client] \in {"live", "freed"}
        /\ ~recv[Client] /\ waiting[Client] = {} /\ queued[Client] = <<>>
        /\ UNCHANGED <<recv, waiting, queued>>
        /\ \A m \in Node : m # Client => Same(m)
    <3>1. Stage(Client) /\ socket[Client] = "connecting" /\ Client \in Node
      BY <1>11, Nodes DEF OnConnectError, Stages
    <3>2. life[Client] = "live" /\ ~recv[Client] /\ waiting[Client] = {} /\ queued[Client] = <<>>
      BY <3>1 DEF Stage
    <3>3. /\ socket' = [socket EXCEPT ![Client] = "failed"] /\ UNCHANGED <<recv, waiting, queued>>
          /\ life' = [life EXCEPT ![Client] = IF ref[Client] THEN @ ELSE "freed"]
      BY <1>11 DEF OnConnectError
    <3>4. /\ socket'[Client] = "failed" /\ life'[Client] \in {life[Client], "freed"}
          /\ \A m \in Node : m # Client => Same(m)
      BY <3>1, <3>3 DEF Same, TypeOK
    <3> QED
      BY <3>1, <3>2, <3>3, <3>4
  <2>2. Stage(Client)' /\ \A m \in Node : Stage(m)'
    BY <2>1, StageKept DEF Stages, Stage
  <2>3. socket'[Server] = socket[Server] /\ socket[Server] = "none"
    BY <2>1, Nodes DEF Same, Stages
  <2> QED
    BY <2>1, <2>2, <2>3 DEF Stages
<1>12. CASE Accept
  <2>1. /\ life'[Server] = "live" /\ socket'[Server] = "open" /\ Server \in Node
        /\ \A m \in Node : m # Server => Same(m)
    BY <1>12, Nodes DEF Accept, Start, Same, TypeOK
  <2>2. Stage(Server)' /\ \A m \in Node : Stage(m)'
    BY <2>1, StageKept DEF Stages, Stage
  <2>3. socket'[Client] = socket[Client] /\ socket[Client] \in {"open", "shut", "closed"}
    BY <1>12, <2>1, Nodes DEF Accept, Same
  <2> QED
    BY <2>1, <2>2, <2>3 DEF Stages
\* A timer handler is queued on a session that has been connected.
<1>13. ASSUME NEW n \in Node, queued[n] # <<>> \/ waiting[n] # {}, Live(n)
       PROVE  socket[n] \in {"open", "shut"}
    BY <1>13 DEF Stages, Stage, Live
<1>14. ASSUME NEW n \in Node, socket[n] \in {"open", "shut"}, UNCHANGED <<socket, recv, life>>, life[n] = "live",
              \A m \in Node : m # n => waiting'[m] = waiting[m] /\ queued'[m] = queued[m]
       PROVE  Stages'
  <2>1. Stage(n)' /\ \A m \in Node : m # n => Same(m)
    BY <1>14 DEF Stage, Same
  <2>2. \A m \in Node : Stage(m)'
    BY <2>1, StageKept DEF Stages
  <2> QED
    BY <1>14, <2>2 DEF Stages
<1>15. ASSUME NEW n \in Node, TimersExpire(n) PROVE Stages'
  <2>1. waiting[n] # {} /\ UNCHANGED <<socket, recv, life>>
    BY <1>15 DEF TimersExpire
  <2>2. life[n] = "live" /\ socket[n] \in {"open", "shut"}
    BY <2>1 DEF Stages, Stage
  <2>3. \A m \in Node : m # n => waiting'[m] = waiting[m] /\ queued'[m] = queued[m]
    BY <1>15 DEF TimersExpire, TypeOK
  <2> QED
    BY <1>14, <2>1, <2>2, <2>3
<1>16. ASSUME NEW n \in Node, OnKeepAliveExpired(n) PROVE Stages'
  <2>1. queued[n] # <<>> /\ Live(n) /\ UNCHANGED <<socket, recv, life>>
    BY <1>16 DEF OnKeepAliveExpired, Runs
  <2>2. \A m \in Node : m # n => waiting'[m] = waiting[m] /\ queued'[m] = queued[m]
    BY <1>16 DEF OnKeepAliveExpired, Runs, TypeOK
  <2> QED
    BY <1>13, <1>14, <2>1, <2>2 DEF Live
<1>17. ASSUME NEW n \in Node, OnKeepAliveTimeout(n) PROVE Stages'
  <2>1. /\ queued[n] # <<>> /\ Live(n) /\ EndSocket(n, "shut", <<"Close">>)
        /\ UNCHANGED <<recv, waiting, life>>
        /\ \A m \in Node : m # n => queued'[m] = queued[m]
    BY <1>17 DEF OnKeepAliveTimeout, Runs, TypeOK
  <2>2. socket[n] \in {"open", "shut"}
    BY <1>13, <2>1
  <2>3. socket'[n] = "shut" /\ \A m \in Node : m # n => socket'[m] = socket[m]
    BY <2>1 DEF EndSocket, TypeOK
  <2>4. Stage(n)' /\ \A m \in Node : m # n => Same(m)
    BY <2>1, <2>3 DEF Stage, Same, Live
  <2> QED
    BY <1>3, <1>4, <2>1, <2>2, <2>4
<1>18. ASSUME NEW n \in Node, OnKeepAliveTimeout_Asserts(n) PROVE Stages'
    BY <1>6, <1>13, <1>18 DEF OnKeepAliveTimeout_Asserts
\* What is left in the queue of a session that is gone.
<1>19. ASSUME NEW n \in Node, StaleHandler(n) PROVE Stages'
  <2>1. /\ life[n] = "freed" /\ UNCHANGED <<socket, recv, waiting, life>>
        /\ \A m \in Node : m # n => queued'[m] = queued[m]
    BY <1>19 DEF StaleHandler, Runs, TypeOK
  <2>2. Stage(n)' /\ \A m \in Node : m # n => Same(m)
    BY <2>1 DEF Stages, Stage, Same
  <2>3. \A m \in Node : Stage(m)'
    BY <2>2, StageKept DEF Stages
  <2> QED
    BY <2>1, <2>3 DEF Stages
<1> QED
    BY <1>1, <1>2, <1>7, <1>8, <1>9, <1>10, <1>11, <1>12, <1>15, <1>16, <1>17, <1>18, <1>19
    DEF Next, Connects, OnReceived, OnTimer

LEMMA Initially == Init => TypeOK /\ Stages /\ Order
  <1> SUFFICES ASSUME Init PROVE TypeOK /\ Stages /\ Order
    OBVIOUS
  <1>1. TypeOK
    <2>1. Room \in 0..Room
      BY SessionConstants DEF SessionConstants
    <2> QED
      BY <2>1 DEF Init, TypeOK, State
  <1>2. Stages
    BY Nodes DEF Init, Stages, Stage
  <1>3. Order
    <2>1. ASSUME NEW n \in Node
          PROVE  net[n] = <<>> /\ socket[n] \in {"none", "connecting"}
      BY <2>1 DEF Init
    <2> QED
      BY <2>1, Nodes DEF Order, Ordered, NoEof
  <1> QED
    BY <1>1, <1>2, <1>3

LEMMA Staged == Spec => [](TypeOK /\ Stages)
BY Initially, TypeStep, StagesStep, PTL DEF Spec

(* The type invariant.                                                     *)
THEOREM TypeCorrect == Spec => []TypeOK
BY Staged, PTL

(* Whatever ends a session - a release, an error, an abort, with timer     *)
(* handlers still queued - no connect, receive or wait of it is left.      *)
THEOREM NothingIsOutstanding == Spec => []NothingOutstanding
<1>1. Stages => NothingOutstanding
    BY DEF Stages, Stage, NothingOutstanding
<1> QED
    BY <1>1, Staged, PTL

-----------------------------------------------------------------------------
(* What is on its way to a side whose peer has shut down.                  *)

LEMMA NoEofTail ==
    ASSUME NEW s \in Seq(Item), s # <<>>, NoEof(s)
    PROVE  NoEof(Tail(s))
<1>1. /\ Len(s) \in Nat /\ Len(Tail(s)) = Len(s) - 1
      /\ \A i \in 1..Len(Tail(s)) : Tail(s)[i] = s[i + 1]
    BY HeadTailProperties, LenProperties
<1>2. \A i \in 1..Len(Tail(s)) : i + 1 \in 1..Len(s)
    BY <1>1
<1> QED
    BY <1>1, <1>2 DEF NoEof

LEMMA NoEofConcat ==
    ASSUME NEW s \in Seq(Item), NEW t \in Seq(Item), NoEof(s), NoEof(t)
    PROVE  NoEof(s \o t)
<1>1. /\ Len(s) \in Nat /\ Len(t) \in Nat /\ Len(s \o t) = Len(s) + Len(t)
      /\ \A i \in 1..Len(s) + Len(t) : (s \o t)[i] = IF i <= Len(s) THEN s[i] ELSE t[i - Len(s)]
    BY ConcatProperties, LenProperties
<1>2. ASSUME NEW i \in 1..Len(s \o t) PROVE (s \o t)[i] # "Eof"
  <2>1. CASE i <= Len(s)
    BY <1>1, <2>1 DEF NoEof
  <2>2. CASE ~(i <= Len(s))
    <3>1. i - Len(s) \in 1..Len(t)
      BY <1>1, <2>2
    <3> QED
      BY <1>1, <2>2, <3>1 DEF NoEof
  <2> QED
    BY <2>1, <2>2
<1> QED
    BY <1>2 DEF NoEof

LEMMA ToldTail ==
    ASSUME NEW s \in Seq(Item), s # <<>>, Told(s), Head(s) # "Close"
    PROVE  Told(Tail(s))
<1>1. /\ Len(s) \in Nat /\ Len(Tail(s)) = Len(s) - 1 /\ Head(s) = s[1]
      /\ \A i \in 1..Len(Tail(s)) : Tail(s)[i] = s[i + 1]
    BY HeadTailProperties, LenProperties
<1>2. PICK i \in 1..Len(s) : s[i] = "Close" /\ \A j \in 1..i - 1 : s[j] # "Eof"
    BY DEF Told
<1>3. i # 1
    BY <1>1, <1>2
<1>4. i - 1 \in 1..Len(Tail(s)) /\ (i - 1) + 1 = i
    BY <1>1, <1>3
<1>5. ASSUME NEW j \in 1..(i - 1) - 1 PROVE Tail(s)[j] # "Eof"
  <2>1. j + 1 \in 1..i - 1 /\ j \in 1..Len(Tail(s))
    BY <1>1, <1>4
  <2> QED
    BY <1>1, <1>2, <2>1
<1>6. Tail(s)[i - 1] = "Close"
    BY <1>1, <1>2, <1>4
<1> QED
    BY <1>4, <1>5, <1>6 DEF Told

LEMMA ToldHead ==
    ASSUME NEW s \in Seq(Item), s # <<>>, Told(s)
    PROVE  Head(s) # "Eof"
<1>1. PICK i \in 1..Len(s) : s[i] = "Close" /\ \A j \in 1..i - 1 : s[j] # "Eof"
    BY DEF Told
<1>2. Head(s) = s[1] /\ Len(s) \in Nat
    OBVIOUS
<1>3. CASE i = 1
    BY <1>1, <1>2, <1>3
<1>4. CASE i # 1
  <2>1. 1 \in 1..i - 1
    BY <1>2, <1>4
  <2> QED
    BY <1>1, <1>2, <2>1
<1> QED
    BY <1>3, <1>4

LEMMA ToldEnd ==
    ASSUME NEW s \in Seq(Item), NoEof(s)
    PROVE  Told((s \o <<"Close">>) \o <<"Eof">>)
<1> DEFINE d == (s \o <<"Close">>) \o <<"Eof">>
<1>1. <<"Close">> \in Seq(Item) /\ <<"Eof">> \in Seq(Item) /\ Len(s) \in Nat
      /\ Len(<<"Close">>) = 1 /\ Len(<<"Eof">>) = 1
    BY DEF Item
<1>2. /\ s \o <<"Close">> \in Seq(Item) /\ Len(s \o <<"Close">>) = Len(s) + 1
      /\ \A i \in 1..Len(s) + 1 : (s \o <<"Close">>)[i] = IF i <= Len(s) THEN s[i] ELSE <<"Close">>[i - Len(s)]
    BY <1>1, ConcatProperties
<1>3. /\ Len(d) = Len(s) + 2
      /\ \A i \in 1..Len(s) + 2 : i <= Len(s) + 1 => d[i] = (s \o <<"Close">>)[i]
  <2>1. /\ Len(d) = (Len(s) + 1) + 1
        /\ \A i \in 1..(Len(s) + 1) + 1 :
              d[i] = IF i <= Len(s) + 1 THEN (s \o <<"Close">>)[i] ELSE <<"Eof">>[i - (Len(s) + 1)]
    BY <1>1, <1>2, ConcatProperties
  <2>2. (Len(s) + 1) + 1 = Len(s) + 2
    BY <1>1
  <2> QED
    BY <2>1, <2>2
<1> HIDE DEF d
<1>4. Len(s) + 1 \in 1..Len(d) /\ d[Len(s) + 1] = "Close"
  <2>1. Len(s) + 1 \in 1..Len(s) + 2 /\ Len(s) + 1 \in 1..Len(s) + 1 /\ ~(Len(s) + 1 <= Len(s))
        /\ (Len(s) + 1) - Len(s) = 1
    BY <1>1
  <2> QED
    BY <1>2, <1>3, <2>1
<1>5. ASSUME NEW j \in 1..(Len(s) + 1) - 1 PROVE d[j] # "Eof"
  <2>1. j \in 1..Len(s) /\ j \in 1..Len(s) + 1 /\ j \in 1..Len(s) + 2 /\ j <= Len(s) /\ j <= Len(s) + 1
    BY <1>1
  <2> QED
    BY <1>2, <1>3, <2>1 DEF NoEof
<1>6. Told(d)
    BY <1>4, <1>5 DEF Told
<1> QED
    BY <1>6 DEF d

\* n takes or sends a frame; what is taken is not an end, and a Close closes.
LEMMA OrderTransfer ==
    ASSUME TypeOK, Order, NEW n \in Node, NEW taken \in BOOLEAN, NEW out \in Seq(Item),
           Transfer(n, taken, out), NoEof(out), UNCHANGED <<socket, recv, life>>,
           taken => net[n] # <<>>,
           taken /\ Head(net[n]) = "Close" => state'[n] = "Closed",
           \A m \in Node : state[m] = "Closed" => state'[m] = "Closed"
    PROVE  Order'
<1>1. /\ net'[n] = IF taken THEN Tail(net[n]) ELSE net[n]
      /\ net'[Peer(n)] = IF Reaches(n) THEN net[Peer(n)] \o out ELSE net[Peer(n)]
    BY Transfers
<1>2. /\ Peer(n) \in Node /\ Peer(Peer(n)) = n /\ \A m \in Node : m = n \/ m = Peer(n)
      /\ net[n] \in Seq(Item) /\ net[Peer(n)] \in Seq(Item)
      /\ Ordered(n) /\ Ordered(Peer(n))
    BY Nodes DEF TypeOK, Order
<1>3. Ordered(n)'
  <2>1. NoEof(net[n]) => NoEof(net'[n])
    BY <1>1, <1>2, NoEofTail
  <2>2. Told(net[n]) => state'[n] = "Closed" \/ Told(net'[n])
    BY <1>1, <1>2, ToldTail
  <2> QED
    BY <1>2, <2>1, <2>2 DEF Ordered, Live
<1>4. Ordered(Peer(n))'
  <2>1. NoEof(net[Peer(n)]) => NoEof(net'[Peer(n)])
    BY <1>1, <1>2, NoEofConcat
  <2>2. socket[n] = "shut" => net'[Peer(n)] = net[Peer(n)]
    BY <1>1 DEF Reaches
  <2> QED
    BY <1>2, <2>1, <2>2 DEF Ordered, Live
<1> QED
    BY <1>2, <1>3, <1>4 DEF Order

\* n's side ends: by a shutdown after a Close, or for good.
LEMMA OrderEnd ==
    ASSUME TypeOK, Order, NEW n \in Node, NEW how \in {"shut", "closed"}, NEW out \in Seq(Item),
           EndSocket(n, how, out), socket[n] \in {"connecting", "open", "shut"},
           how = "shut" => out = <<"Close">> /\ socket[n] # "connecting",
           recv'[Peer(n)] = recv[Peer(n)], life'[Peer(n)] = life[Peer(n)],
           state'[Peer(n)] = state[Peer(n)]
    PROVE  Order'
<1>1. /\ socket'[n] = how /\ socket'[Peer(n)] = socket[Peer(n)]
      /\ net'[n] = net[n]
      /\ net'[Peer(n)] = IF socket[n] = "shut" THEN net[Peer(n)]
                         ELSE IF Reaches(n) THEN (net[Peer(n)] \o out) \o <<"Eof">>
                         ELSE net[Peer(n)] \o <<"Eof">>
    BY Ends
<1>2. /\ Peer(n) \in Node /\ Peer(Peer(n)) = n /\ \A m \in Node : m = n \/ m = Peer(n)
      /\ net[Peer(n)] \in Seq(Item)
      /\ Ordered(n) /\ Ordered(Peer(n))
    BY Nodes DEF TypeOK, Order
<1>3. Ordered(n)'
    BY <1>1, <1>2 DEF Ordered
<1>4. Ordered(Peer(n))'
  <2>1. CASE socket[n] = "shut"
    BY <1>1, <1>2, <2>1 DEF Ordered, Live
  <2>2. CASE socket[n] # "shut"
    <3>1. NoEof(net[Peer(n)]) /\ ~(Live(Peer(n)) /\ ~recv[Peer(n)] /\ socket[Peer(n)] = "open")
      BY <1>2, <2>2 DEF Ordered
    <3>2. ASSUME how = "shut", socket[Peer(n)] \in {"none", "open"}
          PROVE  Told(net'[Peer(n)])
      <4>1. net'[Peer(n)] = (net[Peer(n)] \o <<"Close">>) \o <<"Eof">>
        BY <1>1, <2>2, <3>2 DEF Reaches
      <4> QED
        BY <1>2, <3>1, <4>1, ToldEnd
    <3> QED
      BY <1>1, <1>2, <3>1, <3>2 DEF Ordered, Live
  <2> QED
    BY <2>1, <2>2
<1> QED
    BY <1>2, <1>3, <1>4 DEF Order

LEMMA OrderStep ==
    ASSUME TypeOK, Stages, Order, [Next]_vars
    PROVE  Order'
<1>1. ASSUME UNCHANGED <<state, socket, net, recv, life>> PROVE Order'
    BY <1>1 DEF Order, Ordered, NoEof, Told, Live
<1>2. /\ <<>> \in Seq(Item) /\ <<"System">> \in Seq(Item) /\ <<"Close">> \in Seq(Item)
      /\ <<"Ping">> \in Seq(Item) /\ <<"Pong">> \in Seq(Item)
    BY DEF Item
<1>3. NoEof(<<>>) /\ NoEof(<<"System">>) /\ NoEof(<<"Close">>) /\ NoEof(<<"Ping">>) /\ NoEof(<<"Pong">>)
    BY DEF NoEof
<1>4. ASSUME NEW n \in Node, OnSystemFrame(n) PROVE Order'
  <2>1. PICK out \in {<<"System">>, <<>>} : Transfer(n, TRUE, out)
    BY <1>4 DEF OnSystemFrame
  <2>2. /\ net[n] # <<>> /\ Head(net[n]) = "System" /\ state[n] # "Closed"
        /\ state' = [state EXCEPT ![n] = "Connected"] /\ UNCHANGED <<socket, recv, life>>
    BY <1>4 DEF OnSystemFrame, Receives
  <2>3. \A m \in Node : state[m] = "Closed" => state'[m] = "Closed"
    BY <2>2 DEF TypeOK
  <2> QED
    BY <1>2, <1>3, <2>1, <2>2, <2>3, OrderTransfer
<1>5. ASSUME NEW n \in Node, OnCloseFrame(n) PROVE Order'
  <2>1. PICK out \in {<<"Close">>, <<>>} : Transfer(n, TRUE, out)
    BY <1>5 DEF OnCloseFrame
  <2>2. /\ net[n] # <<>>
        /\ state' = [state EXCEPT ![n] = "Closed"] /\ UNCHANGED <<socket, recv, life>>
    BY <1>5 DEF OnCloseFrame, Receives
  <2>3. state'[n] = "Closed" /\ \A m \in Node : state[m] = "Closed" => state'[m] = "Closed"
    BY <2>2 DEF TypeOK
  <2> QED
    BY <1>2, <1>3, <2>1, <2>2, <2>3, OrderTransfer
<1>6. ASSUME NEW n \in Node, OnPingFrame(n) \/ OnPongFrame(n) PROVE Order'
  <2>1. PICK out \in {<<"Pong">>, <<>>} : Transfer(n, TRUE, out)
    BY <1>6 DEF OnPingFrame, OnPongFrame
  <2>2. net[n] # <<>> /\ Head(net[n]) # "Close" /\ UNCHANGED <<state, socket, recv, life>>
    BY <1>6 DEF OnPingFrame, OnPongFrame, Receives
  <2> QED
    BY <1>2, <1>3, <2>1, <2>2, OrderTransfer
<1>7. ASSUME NEW n \in Node, OnReceivedClosed(n) PROVE Order'
  <2>1. /\ Transfer(n, TRUE, <<>>) /\ net[n] # <<>> /\ state'[n] = "Closed"
        /\ UNCHANGED <<state, socket, recv, life>>
    BY <1>7 DEF OnReceivedClosed, Receives
  <2> QED
    BY <1>2, <1>3, <2>1, OrderTransfer
<1>8. ASSUME NEW n \in Node, Close(n) PROVE Order'
  <2>1. /\ Transfer(n, FALSE, <<"Close">>) /\ state[n] # "Closed"
        /\ state' = [state EXCEPT ![n] = "Closing"] /\ UNCHANGED <<socket, recv, life>>
    BY <1>8 DEF Close, Send
  <2>2. \A m \in Node : state[m] = "Closed" => state'[m] = "Closed"
    BY <2>1 DEF TypeOK
  <2> QED
    BY <1>2, <1>3, <2>1, <2>2, OrderTransfer
<1>9. ASSUME NEW n \in Node, OnKeepAliveExpired(n) PROVE Order'
  <2>1. Transfer(n, FALSE, <<"Ping">>) /\ UNCHANGED <<state, socket, recv, life>>
    BY <1>9 DEF OnKeepAliveExpired, Send
  <2> QED
    BY <1>2, <1>3, <2>1, OrderTransfer
\* The end of a session.
<1>10. ASSUME NEW n \in Node, Destroy(n), Live(n), socket[n] # "connecting", UNCHANGED state,
              recv'[Peer(n)] = recv[Peer(n)]
       PROVE  Order'
  <2>1. socket[n] \in {"failed", "open", "shut"} /\ Peer(n) \in Node /\ Peer(n) # n
    BY <1>10, Nodes DEF Stages, Stage, Live
  <2>2. life'[n] = "freed" /\ life'[Peer(n)] = life[Peer(n)]
    BY <1>10, <2>1 DEF Destroy, TypeOK
  <2>3. CASE EndSocket(n, "closed", <<>>) /\ socket[n] \in {"open", "shut"}
    BY <1>2, <1>10, <2>2, <2>3, OrderEnd
  <2>4. CASE UNCHANGED <<socket, net>> /\ socket[n] = "failed"
    <3>1. Ordered(n) /\ Ordered(Peer(n)) /\ \A m \in Node : m = n \/ m = Peer(n)
      BY <2>1, Nodes DEF Order
    <3>2. Ordered(n)' /\ Ordered(Peer(n))'
      BY <1>10, <2>2, <2>4, <3>1 DEF Ordered, NoEof, Told, Live
    <3> QED
      BY <3>1, <3>2 DEF Order
  <2> QED
    BY <1>10, <2>1, <2>3, <2>4 DEF Destroy
<1>11. ASSUME NEW n \in Node, Abort(n), socket[n] \in {"connecting", "open", "shut"}
       PROVE  Order'
  <2>1. Peer(n) \in Node /\ Peer(n) # n
    BY Nodes
  <2>2. /\ EndSocket(n, "closed", <<>>) /\ UNCHANGED state
        /\ recv'[Peer(n)] = recv[Peer(n)] /\ life'[Peer(n)] = life[Peer(n)]
    BY <1>11, <2>1 DEF Abort, TypeOK
  <2> QED
    BY <1>2, <1>11, <2>2, OrderEnd
<1>12. ASSUME NEW n \in Node, Release(n) PROVE Order'
  <2>1. UNCHANGED <<state, recv>> /\ Live(n)
    BY <1>12 DEF Release
  <2>2. CASE UNCHANGED <<socket, net, waiting, life>>
    BY <1>1, <2>1, <2>2
  <2>3. CASE Destroy(n) /\ socket[n] # "connecting"
    BY <1>10, <2>1, <2>3
  <2> QED
    BY <1>12, <2>2, <2>3 DEF Release
<1>13. ASSUME NEW n \in Node, OnReceiveError(n) PROVE Order'
  <2>1. /\ Live(n) /\ recv[n] /\ recv' = [recv EXCEPT ![n] = FALSE] /\ UNCHANGED state
        /\ (net[n] # <<>> /\ Head(net[n]) = "Eof") \/ socket[n] = "shut"
    BY <1>13 DEF OnReceiveError, Receives
  <2>2. Peer(n) \in Node /\ Peer(n) # n /\ Peer(Peer(n)) = n /\ \A m \in Node : m = n \/ m = Peer(n)
    BY Nodes
  <2>3. recv'[Peer(n)] = recv[Peer(n)]
    BY <2>1, <2>2 DEF TypeOK
  <2>4. CASE UNCHANGED <<socket, net, waiting, life>>
    <3>1. Ordered(n) /\ Ordered(Peer(n)) /\ net[n] \in Seq(Item)
      BY <2>2 DEF Order, TypeOK
    <3>2. Ordered(Peer(n))'
      BY <2>1, <2>2, <2>3, <2>4, <3>1 DEF Ordered, NoEof, Told, Live
    <3>3. ASSUME socket[n] = "open"
          PROVE  /\ socket[Peer(n)] \in {"shut", "closed"}
                 /\ socket[Peer(n)] = "shut" => state[n] = "Closed"
      <4>1. net[n] # <<>> /\ Head(net[n]) = "Eof"
        BY <2>1, <3>3
      <4>2. ~NoEof(net[n])
        <5>1. 1 \in 1..Len(net[n]) /\ net[n][1] = "Eof"
          BY <3>1, <4>1
        <5> QED
          BY <5>1 DEF NoEof
      <4>3. ~Told(net[n])
        BY <3>1, <4>1, ToldHead
      <4> QED
        BY <3>1, <3>3, <4>2, <4>3 DEF Ordered
    <3>4. Ordered(n)'
      BY <2>1, <2>4, <3>1, <3>3 DEF Ordered, NoEof, Told, Live
    <3> QED
      BY <2>2, <3>2, <3>4 DEF Order
  <2>5. CASE Destroy(n)
    <3>1. socket[n] # "connecting"
      BY <2>1 DEF Stages, Stage, Live
    <3> QED
      BY <1>10, <2>1, <2>3, <2>5, <3>1
  <2> QED
    BY <1>13, <2>4, <2>5 DEF OnReceiveError
\* Connecting.
<1>14. /\ Client \in Node /\ Server \in Node /\ Peer(Client) = Server /\ Peer(Server) = Client
       /\ Client # Server /\ \A m \in Node : m = Client \/ m = Server
    BY Nodes
<1>15. Ordered(Client) /\ Ordered(Server)
    BY <1>14 DEF Order
<1>16. CASE OnSocketConnected
  <2>1. /\ socket[Client] = "connecting" /\ socket[Server] = "none"
        /\ socket'[Client] = "open" /\ socket'[Server] = "none"
        /\ net'[Client] = net[Client] /\ net'[Server] = Append(net[Server], "System")
    BY <1>14, <1>16 DEF OnSocketConnected, Stages, TypeOK
  <2>2. recv'[Client]
    BY <1>14, <1>16 DEF OnSocketConnected, Start, TypeOK
  <2>3. NoEof(net'[Server])
    <3>1. net[Server] \in Seq(Item) /\ NoEof(net[Server])
      BY <1>14, <1>15, <2>1 DEF Ordered, TypeOK
    <3>2. Append(net[Server], "System") = net[Server] \o <<"System">>
      BY <3>1
    <3> QED
      BY <1>2, <1>3, <2>1, <3>1, <3>2, NoEofConcat
  <2>4. Ordered(Client)'
    BY <1>14, <1>15, <2>1, <2>2 DEF Ordered
  <2>5. Ordered(Server)'
    BY <1>14, <2>1, <2>3 DEF Ordered
  <2> QED
    BY <1>14, <2>4, <2>5 DEF Order
<1>17. CASE OnSocketConnected_Asserts
    BY <1>11, <1>14, <1>17 DEF OnSocketConnected_Asserts
<1>18. CASE OnConnectError
  <2>1. /\ socket[Client] = "connecting" /\ socket[Server] = "none"
        /\ socket'[Client] = "failed" /\ socket'[Server] = "none" /\ net' = net
    BY <1>14, <1>18 DEF OnConnectError, Stages, TypeOK
  <2>2. Ordered(Client)' /\ Ordered(Server)'
    BY <1>14, <1>15, <2>1 DEF Ordered
  <2> QED
    BY <1>14, <2>2 DEF Order
<1>19. CASE Accept
  <2>1. /\ socket[Server] = "none" /\ socket'[Server] = "open" /\ socket'[Client] = socket[Client]
        /\ UNCHANGED <<state, net>>
    BY <1>14, <1>19 DEF Accept, Stages, Stage, TypeOK
  <2>2. recv'[Server] /\ recv'[Client] = recv[Client] /\ life'[Client] = life[Client]
    BY <1>14, <1>19 DEF Accept, Start, TypeOK
  <2>3. Ordered(Client)'
    BY <1>14, <1>15, <2>1, <2>2 DEF Ordered, Live
  <2>4. Ordered(Server)'
    BY <1>14, <1>15, <2>1, <2>2 DEF Ordered
  <2> QED
    BY <1>14, <2>3, <2>4 DEF Order
\* The timers.
<1>20. ASSUME NEW n \in Node, queued[n] # <<>>, Live(n)
       PROVE  socket[n] \in {"open", "shut"}
    BY <1>20 DEF Stages, Stage, Live
<1>21. ASSUME NEW n \in Node, OnKeepAliveTimeout(n) PROVE Order'
  <2>1. /\ Live(n) /\ queued[n] # <<>> /\ EndSocket(n, "shut", <<"Close">>) /\ UNCHANGED <<recv, life>>
        /\ state' = [state EXCEPT ![n] = "Closing"]
    BY <1>21 DEF OnKeepAliveTimeout, Runs
  <2>2. socket[n] \in {"open", "shut"}
    BY <1>20, <2>1
  <2>3. state'[Peer(n)] = state[Peer(n)]
    BY <2>1, Nodes DEF TypeOK
  <2> QED
    BY <1>2, <2>1, <2>2, <2>3, OrderEnd
<1>22. ASSUME NEW n \in Node, OnKeepAliveTimeout_Asserts(n) PROVE Order'
    BY <1>11, <1>20, <1>22 DEF OnKeepAliveTimeout_Asserts
<1>23. CASE \E n \in Node : TimersExpire(n) \/ StaleHandler(n)
    BY <1>1, <1>23 DEF TimersExpire, StaleHandler
<1>24. CASE UNCHANGED vars
    BY <1>1, <1>24 DEF vars
<1> QED
    BY <1>4, <1>5, <1>6, <1>7, <1>8, <1>9, <1>12, <1>13, <1>16, <1>17, <1>18, <1>19, <1>21, <1>22,
       <1>23, <1>24 DEF Next, Connects, OnReceived, OnTimer

(* A side that times a connection out says so before the end of its data:  *)
(* a peer that has seen the end, and whose connection is still open, has   *)
(* handled the Close.                                                      *)
THEOREM TimeoutIsTold == Spec => []TimeoutTellsPeer
<1>1. Order => TimeoutTellsPeer
    BY DEF Order, Ordered, TimeoutTellsPeer
<1> QED
    BY <1>1, Initially, TypeStep, StagesStep, OrderStep, PTL DEF Spec
=============================================================================
