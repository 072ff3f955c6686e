------------------------------ MODULE Session ------------------------------
(***************************************************************************)
(* Two WSocketBase sessions (include/ASIO_WSocket.hpp) from connecting to  *)
(* their destruction: the socket and its loop of receives, the handlers of *)
(* the keep-alive timers and who holds the session.  A client connects, a  *)
(* server accepts.  Of the context (include/WSocketContext.hpp) the states *)
(* are kept and the frames that change them or keep the link busy; texts   *)
(* are the concern of module WSocketContext.  Time is not counted: timers  *)
(* expire in the order Flush sets them in, on a loop as late as it likes.  *)
(* A failing assert aborts the process.                                    *)
(***************************************************************************)
EXTENDS Naturals, Sequences

CONSTANTS
    Client, Server,
    Room,    \* frames a receive buffer holds once nothing is parsed any more
    MaxNet   \* frames a socket takes before send() blocks

Node == {Client, Server}

ASSUME SessionConstants ==
    /\ Client # Server
    /\ Room \in Nat
    /\ MaxNet \in Nat \ {0}

Peer(n) == CHOOSE m \in Node : m # n

State == {"Init", "Connecting", "Connected", "Closing", "Closed"}
\* "Eof" ends what the peer sends.
Item == {"System", "Close", "Ping", "Pong", "Eof"}
Timer == {"expired", "timeout"}

VARIABLES
    state,   \* state_ of the context
    socket,  \* "none", "connecting", "failed", "open", "shut" down or "closed"
    net,     \* net[n]: what n's socket has yet to receive
    recv,    \* an async_receive is outstanding, whose handler holds the session
    room,    \* room left in the receive buffer, in frames
    waiting, \* the timers with an outstanding wait
    queued,  \* the timer handlers that are due, in order
    ref,     \* the application holds the session
    life     \* "none" before it is created, "live", "freed" or "aborted"

vars == <<state, socket, net, recv, room, waiting, queued, ref, life>>

TypeOK ==
    /\ state \in [Node -> State]
    /\ socket \in [Node -> {"none", "connecting", "failed", "open", "shut", "closed"}]
    /\ net \in [Node -> Seq(Item)]
    /\ recv \in [Node -> BOOLEAN]
    /\ room \in [Node -> 0..Room]
    /\ waiting \in [Node -> SUBSET Timer]
    /\ queued \in [Node -> Seq(Timer)]
    /\ ref \in [Node -> BOOLEAN]
    /\ life \in [Node -> {"none", "live", "freed", "aborted"}]

\* The client has called Handshake(endpoint).
Init ==
    /\ state = [n \in Node |-> "Init"]
    /\ socket = [n \in Node |-> IF n = Client THEN "connecting" ELSE "none"]
    /\ net = [n \in Node |-> <<>>]
    /\ recv = [n \in Node |-> FALSE]
    /\ room = [n \in Node |-> Room]
    /\ waiting = [n \in Node |-> {}]
    /\ queued = [n \in Node |-> <<>>]
    /\ ref = [n \in Node |-> n = Client]
    /\ life = [n \in Node |-> IF n = Client THEN "live" ELSE "none"]

-----------------------------------------------------------------------------
(* The socket.                                                             *)

\* Whether what n sends is kept for the peer; otherwise send() fails or the
\* bytes are thrown away, and nobody sends them again.
Reaches(n) == socket[n] = "open" /\ socket[Peer(n)] \in {"none", "open"}

\* A full socket blocks send(): the handler that sends waits.  In the code the
\* loop of n waits with it; here the other handlers of n may run meanwhile.
CanSend(n) == Reaches(n) => Len(net[Peer(n)]) < MaxNet

\* n takes the first received item if taken, and sends the frames of out.
Transfer(n, taken, out) ==
    /\ out # <<>> => CanSend(n)
    /\ net' = [net EXCEPT ![n] = IF taken THEN Tail(@) ELSE @,
                          ![Peer(n)] = IF Reaches(n) THEN @ \o out ELSE @]

Send(n, f) == Transfer(n, FALSE, <<f>>)

\* n's side of the connection ends, after the frames of out.
EndSocket(n, how, out) ==
    /\ socket' = [socket EXCEPT ![n] = how]
    /\ net' = [net EXCEPT ![Peer(n)] =
                 IF socket[n] = "shut" THEN @
                 ELSE (IF Reaches(n) THEN @ \o out ELSE @) \o <<"Eof">>]

-----------------------------------------------------------------------------
(* The end of a session.                                                   *)

\* Mutant: the keep-alive timers are not stopped.
Destroy_NoStop(n) ==
    /\ life' = [life EXCEPT ![n] = "freed"]
    /\ UNCHANGED waiting
    /\ IF socket[n] \in {"open", "shut"}
       THEN EndSocket(n, "closed", <<>>) ELSE UNCHANGED <<socket, net>>

\* ~WSocketBase closes the socket, ~KeepAliveManager stops the timers; a
\* handler that is queued already stays.
Destroy(n) ==
    /\ life' = [life EXCEPT ![n] = "freed"]
    /\ waiting' = [waiting EXCEPT ![n] = {}]
    /\ IF socket[n] \in {"open", "shut"}
       THEN EndSocket(n, "closed", <<>>) ELSE UNCHANGED <<socket, net>>

\* An assert fails: the process is gone, and its socket with it.
Abort(n) ==
    /\ life' = [life EXCEPT ![n] = "aborted"]
    /\ waiting' = [waiting EXCEPT ![n] = {}]
    /\ queued' = [queued EXCEPT ![n] = <<>>]
    /\ recv' = [recv EXCEPT ![n] = FALSE]
    /\ EndSocket(n, "closed", <<>>)
    /\ UNCHANGED <<state, room, ref>>

Live(n) == life[n] = "live"

\* The application lets go of the session.
Release(n) ==
    /\ Live(n)
    /\ ref[n]
    /\ ref' = [ref EXCEPT ![n] = FALSE]
    /\ IF recv[n] \/ socket[n] = "connecting"
       THEN UNCHANGED <<socket, net, waiting, life>> ELSE Destroy(n)
    /\ UNCHANGED <<state, recv, room, queued>>

-----------------------------------------------------------------------------
(* Connecting.                                                             *)

Start(n) ==
    /\ recv' = [recv EXCEPT ![n] = TRUE]
    /\ waiting' = [waiting EXCEPT ![n] = Timer]

\* OnSocketConnected: Start, then the context's Handshake.
OnSocketConnected ==
    /\ socket[Client] = "connecting"
    /\ state[Client] = "Init"
    /\ socket' = [socket EXCEPT ![Client] = "open"]
    /\ Start(Client)
    /\ state' = [state EXCEPT ![Client] = "Connecting"]
    /\ net' = [net EXCEPT ![Server] = Append(@, "System")]
    /\ UNCHANGED <<room, queued, ref, life>>

\* The application has called Close meanwhile, and Handshake asserts Init.
OnSocketConnected_Asserts ==
    /\ socket[Client] = "connecting"
    /\ state[Client] # "Init"
    /\ Abort(Client)

\* OnError; the handler's hold on the session ends.
OnConnectError ==
    /\ socket[Client] = "connecting"
    /\ socket' = [socket EXCEPT ![Client] = "failed"]
    /\ life' = [life EXCEPT ![Client] = IF ref[Client] THEN @ ELSE "freed"]
    /\ UNCHANGED <<state, net, recv, room, waiting, queued, ref>>

\* The server creates a session for the accepted socket and starts it.
Accept ==
    /\ life[Server] = "none"
    /\ socket[Client] \in {"open", "shut", "closed"}
    /\ life' = [life EXCEPT ![Server] = "live"]
    /\ ref' = [ref EXCEPT ![Server] = TRUE]
    /\ socket' = [socket EXCEPT ![Server] = "open"]
    /\ Start(Server)
    /\ UNCHANGED <<state, net, room, queued>>

-----------------------------------------------------------------------------
(* Receiving.                                                              *)

\* Mutant: the receive does not mind how much room is left.
Full_Never(n) == FALSE

\* A receive into a full buffer has length zero: it completes at once with
\* no bytes and no error, again and again, and never sees the end.  Before the
\* close only a frame longer than the buffer fills it (FrameParser), and none of
\* the frames here is.
Full(n) == state[n] = "Closed" /\ room[n] = 0

Receives(n, f) ==
    /\ Live(n)
    /\ recv[n]
    /\ ~Full(n)
    /\ net[n] # <<>>
    /\ Head(net[n]) = f

\* OnReceived: the context handles the frame and the next receive starts.
OnSystemFrame(n) ==
    /\ Receives(n, "System")
    /\ state[n] # "Closed"
    /\ Transfer(n, TRUE, IF state[n] = "Init" THEN <<"System">> ELSE <<>>)
    /\ state' = [state EXCEPT ![n] = "Connected"]
    /\ UNCHANGED <<socket, recv, room, waiting, queued, ref, life>>

OnCloseFrame(n) ==
    /\ Receives(n, "Close")
    /\ state[n] # "Closed"
    /\ Transfer(n, TRUE, IF state[n] # "Closing" THEN <<"Close">> ELSE <<>>)
    /\ state' = [state EXCEPT ![n] = "Closed"]
    /\ UNCHANGED <<socket, recv, room, waiting, queued, ref, life>>

OnPingFrame(n) ==
    /\ Receives(n, "Ping")
    /\ state[n] # "Closed"
    /\ Transfer(n, TRUE, <<"Pong">>)
    /\ UNCHANGED <<state, socket, recv, room, waiting, queued, ref, life>>

OnPongFrame(n) ==
    /\ Receives(n, "Pong")
    /\ state[n] # "Closed"
    /\ Transfer(n, TRUE, <<>>)
    /\ UNCHANGED <<state, socket, recv, room, waiting, queued, ref, life>>

\* Nothing is parsed on a Closed context: the frame stays in the buffer.
OnReceivedClosed(n) ==
    /\ \E f \in Item \ {"Eof"} : Receives(n, f)
    /\ state[n] = "Closed"
    /\ Transfer(n, TRUE, <<>>)
    /\ room' = [room EXCEPT ![n] = @ - 1]
    /\ UNCHANGED <<state, socket, recv, waiting, queued, ref, life>>

\* Mutant: the next receive starts after an error, too.
OnReceiveError_Again(n) ==
    /\ Receives(n, "Eof")
    /\ UNCHANGED vars

\* The end of the peer's data, or of all data once the own socket is shut:
\* OnError, and no other receive.  The handler's hold on the session ends.
OnReceiveError(n) ==
    /\ \/ Receives(n, "Eof")
       \/ Live(n) /\ recv[n] /\ ~Full(n) /\ socket[n] = "shut" /\ net[n] = <<>>
    /\ recv' = [recv EXCEPT ![n] = FALSE]
    /\ IF ref[n] THEN UNCHANGED <<socket, net, waiting, life>> ELSE Destroy(n)
    /\ UNCHANGED <<state, room, queued, ref>>

-----------------------------------------------------------------------------
(* The application and the timers.                                         *)

\* The application closes a session it has not closed and that is not Closed.
Close(n) ==
    /\ Live(n)
    /\ state[n] \notin {"Closing", "Closed"}
    /\ state' = [state EXCEPT ![n] = "Closing"]
    /\ Send(n, "Close")
    /\ UNCHANGED <<socket, recv, room, waiting, queued, ref, life>>

\* The loop has run what was queued and queues what has expired since: the
\* expiry timer and, if the loop is late enough, the timeout after it.
TimersExpire(n) ==
    /\ "expired" \in waiting[n]
    /\ queued[n] = <<>>
    /\ \E expired \in {<<"expired">>, <<"expired", "timeout">>} :
          /\ queued' = [queued EXCEPT ![n] = expired]
          /\ waiting' = [waiting EXCEPT ![n] = Timer \ {expired[i] : i \in 1..Len(expired)}]
    /\ UNCHANGED <<state, socket, net, recv, room, ref, life>>

Runs(n, t) ==
    /\ queued[n] # <<>>
    /\ Head(queued[n]) = t
    /\ queued' = [queued EXCEPT ![n] = Tail(@)]

\* Flush, then Ping, also on a Closed context and on a socket that is shut.
OnKeepAliveExpired(n) ==
    /\ Live(n)
    /\ Runs(n, "expired")
    /\ waiting' = [waiting EXCEPT ![n] = Timer]
    /\ Send(n, "Ping")
    /\ UNCHANGED <<state, socket, recv, room, ref, life>>

\* Mutant: the socket is shut down before the Close frame is sent.
OnKeepAliveTimeout_ShutFirst(n) ==
    /\ Live(n)
    /\ Runs(n, "timeout")
    /\ state[n] # "Closed"
    /\ state' = [state EXCEPT ![n] = "Closing"]
    /\ EndSocket(n, "shut", <<>>)
    /\ UNCHANGED <<recv, room, waiting, ref, life>>

\* Close, then shut the socket down.
OnKeepAliveTimeout(n) ==
    /\ Live(n)
    /\ Runs(n, "timeout")
    /\ state[n] # "Closed"
    /\ CanSend(n)
    /\ state' = [state EXCEPT ![n] = "Closing"]
    /\ EndSocket(n, "shut", <<"Close">>)
    /\ UNCHANGED <<recv, room, waiting, ref, life>>

\* The same on a Closed context, where Close asserts.
OnKeepAliveTimeout_Asserts(n) ==
    /\ Live(n)
    /\ queued[n] # <<>>
    /\ Head(queued[n]) = "timeout"
    /\ state[n] = "Closed"
    /\ Abort(n)

\* A queued handler of a session that is gone reads through the plain pointer
\* it holds to its KeepAliveManager.
StaleHandler(n) ==
    /\ life[n] = "freed"
    /\ \E t \in Timer : Runs(n, t)
    /\ UNCHANGED <<state, socket, net, recv, room, waiting, ref, life>>

-----------------------------------------------------------------------------

Connects == OnSocketConnected \/ OnSocketConnected_Asserts \/ OnConnectError

OnReceived(n) ==
    \/ OnSystemFrame(n)
    \/ OnCloseFrame(n)
    \/ OnPingFrame(n)
    \/ OnPongFrame(n)
    \/ OnReceivedClosed(n)
    \/ OnReceiveError(n)

OnTimer(n) ==
    \/ OnKeepAliveExpired(n)
    \/ OnKeepAliveTimeout(n)
    \/ OnKeepAliveTimeout_Asserts(n)
    \/ StaleHandler(n)

Next ==
    \/ Connects
    \/ Accept
    \/ \E n \in Node :
          \/ Release(n)
          \/ Close(n)
          \/ OnReceived(n)
          \/ TimersExpire(n)
          \/ OnTimer(n)

Spec == Init /\ [][Next]_vars

\* Connections are set up, data arrives, time passes and the loop runs what is
\* queued.
FairSpec ==
    /\ Spec
    /\ WF_vars(Connects)
    /\ WF_vars(Accept)
    /\ \A n \in Node :
          /\ WF_vars(OnReceived(n))
          /\ WF_vars(TimersExpire(n))
          /\ WF_vars(OnTimer(n))

\* The connection of n has ended on this side or the other.
Gone(n) == socket[n] = "shut" \/ (socket[n] = "open" /\ socket[Peer(n)] \in {"shut", "closed"})

\* Nothing of a session is left behind: once the connection is gone and the
\* application has let go, the session is destroyed, unless its context was
\* closed and its buffer has filled up since.
Reclaimed == \A n \in Node : (~ref[n] /\ Gone(n)) ~> (~Live(n) \/ Full(n))

\* A side that times a connection out says so: the other has handled its Close
\* frame by the time it sees the end of the data.
TimeoutTellsPeer ==
    \A n \in Node :
        Live(n) /\ ~recv[n] /\ socket[n] = "open" /\ socket[Peer(n)] = "shut"
            => state[n] = "Closed"

\* A session is never destroyed under an operation that would still call it: no
\* connect, no receive into its buffer and no wait of its timers is outstanding.
NothingOutstanding ==
    \A n \in Node : life[n] \in {"freed", "aborted"} =>
        /\ ~recv[n]
        /\ waiting[n] = {}
        /\ socket[n] \in {"failed", "closed"}

\* Two contexts that are closed do not keep their connection for ever.
ConnectionsClose ==
    (\A n \in Node : state[n] = "Closed") ~> (\E n \in Node : socket[n] # "open")

=============================================================================
