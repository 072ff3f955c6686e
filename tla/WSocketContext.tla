--------------------------- MODULE WSocketContext ---------------------------
(***************************************************************************)
(* Two WSocketContexts (include/WSocketContext.hpp) joined by a transport  *)
(* that delivers whole frames reliably and in order, as TCP and the frame  *)
(* parser do.  A context is driven by calls of its application (Handshake, *)
(* Close, SendText, ...) and by the frames its parser hands to OnFrame;    *)
(* either runs to completion before the next one starts on that context.   *)
(* Calls the listener makes from the tail of a callback are calls of the   *)
(* application made right after the frame.                                 *)
(***************************************************************************)
EXTENDS Naturals, Sequences

CONSTANTS
    Node,        \* the two contexts
    Initiator,   \* those whose application may call Handshake()
    Registered,  \* Registered[n]: codecs built into n's CompressManager
    Accepts,     \* Accepts[n]: codecs n's OnHandshake is willing to return
    OpenMayFail, \* contexts on which ZstdContext::Open() may fail
    MaxSent      \* MaxSent[n][t]: bound on the frames of type t that n sends on its own

State == {"Init", "Closed", "Closing", "Connecting", "Connected", "Error"}
FrameType == {"System", "Text", "Binary", "Close", "Ping", "Pong", "Other"}
Codec == {"Zstd"}
CompressType == Codec \cup {"None"}

ASSUME NodePair == \E a, b \in Node : a # b /\ Node = {a, b}
ASSUME ConstantTypes ==
    /\ Initiator \subseteq Node
    /\ OpenMayFail \subseteq Node
    /\ Registered \in [Node -> SUBSET Codec]
    /\ Accepts \in [Node -> SUBSET Codec]
    /\ MaxSent \in [Node -> [FrameType -> Nat]]

Peer(n) == CHOOSE m \in Node : m # n

(***************************************************************************)
(* A frame keeps of its bytes what a context acts on: the type and FIN     *)
(* bit, the codec names of a System frame, and for a data frame the codec  *)
(* that encoded the payload and its place among the sender's texts.        *)
(***************************************************************************)
Frame == [type : FrameType, fin : BOOLEAN,
          names : SUBSET Codec, enc : CompressType, no : Nat]

Basic(t, fin) == [type |-> t, fin |-> fin, names |-> {}, enc |-> "None", no |-> 0]
SystemFrame(names) ==
    [type |-> "System", fin |-> TRUE, names |-> names, enc |-> "None", no |-> 0]
TextFrame(enc, no) ==
    [type |-> "Text", fin |-> TRUE, names |-> {}, enc |-> enc, no |-> no]
BinaryFrame == Basic("Binary", TRUE)
CloseFrame == Basic("Close", TRUE)
PingFrame == Basic("Ping", TRUE)
PongFrame == Basic("Pong", FALSE) \* Pong() never calls Finished(true)
\* A frame on which the code does nothing: an unknown opcode, a Close of less
\* than two bytes.
OtherFrame == Basic("Other", TRUE)

VARIABLES
    state,  \* state_ of each context
    codec,  \* compress_context_: its codec, "None" for nullptr
    net,    \* net[n]: frames sent to n and not yet handled by n
    sent,   \* sent[n][t]: frames of type t that n has sent
    opened, \* number of OnConnected callbacks the application has had
    closed, \* number of OnClose callbacks the application has had
    got,    \* number of Text frames handled
    bad,    \* frame types that reached the application damaged or as an error
    lost,   \* the context took no codec though the peer had agreed on one
    quit    \* the application called Close or was told its text failed

vars == <<state, codec, net, sent, opened, closed, got, bad, lost, quit>>

TypeOK ==
    /\ state \in [Node -> State]
    /\ codec \in [Node -> CompressType]
    /\ net \in [Node -> Seq(Frame)]
    /\ sent \in [Node -> [FrameType -> Nat]]
    /\ opened \in [Node -> Nat]
    /\ closed \in [Node -> Nat]
    /\ got \in [Node -> Nat]
    /\ bad \in [Node -> SUBSET FrameType]
    /\ lost \in [Node -> BOOLEAN]
    /\ quit \in [Node -> BOOLEAN]

Init ==
    /\ state = [n \in Node |-> "Init"]
    /\ codec = [n \in Node |-> "None"]
    /\ net = [n \in Node |-> <<>>]
    /\ sent = [n \in Node |-> [t \in FrameType |-> 0]]
    /\ opened = [n \in Node |-> 0]
    /\ closed = [n \in Node |-> 0]
    /\ got = [n \in Node |-> 0]
    /\ bad = [n \in Node |-> {}]
    /\ lost = [n \in Node |-> FALSE]
    /\ quit = [n \in Node |-> FALSE]

-----------------------------------------------------------------------------
(* SendFrame, on its own and from within the handling of a frame.          *)

SendFrame(n, f) ==
    /\ net' = [net EXCEPT ![Peer(n)] = Append(@, f)]
    /\ sent' = [sent EXCEPT ![n][f.type] = @ + 1]

Consume(n) ==
    /\ net' = [net EXCEPT ![n] = Tail(@)]
    /\ UNCHANGED sent

Reply(n, f) ==
    /\ net' = [net EXCEPT ![n] = Tail(@), ![Peer(n)] = Append(@, f)]
    /\ sent' = [sent EXCEPT ![n][f.type] = @ + 1]

-----------------------------------------------------------------------------
(* CompressManager: what one side makes of the other side's codec names.   *)

\* Mutant: names codecs that are not registered.
GetSupportedCompressors_Unfiltered(n, types) == types

GetSupportedCompressors(n, types) == types \cap Registered[n]

GetSupportedCompressTypes(n, names) == names \cap Registered[n]

\* Listener::OnHandshake: an acceptable codec of the request, else None.
NotifyHandshake(n, types) ==
    IF types \cap Accepts[n] = {} THEN {"None"} ELSE types \cap Accepts[n]

\* ZstdContext::Create() is nullptr if Open() fails.
Create(n, type) == {type} \cup (IF n \in OpenMayFail THEN {"None"} ELSE {})

\* Unregistered types have no context.
GetCompressContext(n, type) ==
    IF type \in Registered[n] THEN Create(n, type) ELSE {"None"}

NegotiatedCodecs(n, names) ==
    UNION {GetCompressContext(n, type) :
             type \in NotifyHandshake(n, GetSupportedCompressTypes(n, names))}

\* The context takes codec c on a System frame with these names.  No frame
\* tells the peer of it, unless the context answers from Init.
Adopt(n, c, names) ==
    /\ codec' = [codec EXCEPT ![n] = c]
    /\ lost' = [lost EXCEPT ![n] = @ \/ (/\ state[n] # "Init"
                                        /\ c = "None"
                                        /\ GetSupportedCompressTypes(n, names) # {})]

-----------------------------------------------------------------------------
(* Calls of the application.  Their guards are what an application that    *)
(* watches its callbacks knows; the asserts of the code are invariants.    *)

MayHandshake(n) ==
    n \in Initiator /\ sent[n]["System"] = 0 /\ opened[n] = 0 /\ closed[n] = 0 /\ ~quit[n]

MaySend(n) == opened[n] > 0 /\ closed[n] = 0 /\ ~quit[n]

MayClose(n) == closed[n] = 0

Within(n, t) == sent[n][t] < MaxSent[n][t]

Handshake(n) ==
    /\ MayHandshake(n)
    /\ state' = [state EXCEPT ![n] = "Connecting"]
    /\ SendFrame(n, SystemFrame(Registered[n]))
    /\ UNCHANGED <<codec, opened, closed, got, bad, lost, quit>>

\* A reason that does not fit makes Close report it and close again with
\* INTERNAL_ERROR: one frame is sent in either case.
Close(n) ==
    /\ MayClose(n)
    /\ Within(n, "Close")
    /\ state' = [state EXCEPT ![n] = "Closing"]
    /\ SendFrame(n, CloseFrame)
    /\ quit' = [quit EXCEPT ![n] = TRUE]
    /\ UNCHANGED <<codec, opened, closed, got, bad, lost>>

SendText(n) ==
    /\ MaySend(n)
    /\ Within(n, "Text")
    /\ SendFrame(n, TextFrame(codec[n], sent[n]["Text"] + 1))
    /\ UNCHANGED <<state, codec, opened, closed, got, bad, lost, quit>>

\* Compress() fails: OnError(CompressError), then Close(INTERNAL_ERROR).
SendTextFails(n) ==
    /\ MaySend(n)
    /\ codec[n] # "None"
    /\ Within(n, "Close")
    /\ state' = [state EXCEPT ![n] = "Closing"]
    /\ SendFrame(n, CloseFrame)
    /\ quit' = [quit EXCEPT ![n] = TRUE]
    /\ UNCHANGED <<codec, opened, closed, got, bad, lost>>

\* The payload is sent as it is, whatever compress_context_ says.
SendBinary(n) ==
    /\ MaySend(n)
    /\ Within(n, "Binary")
    /\ SendFrame(n, BinaryFrame)
    /\ UNCHANGED <<state, codec, opened, closed, got, bad, lost, quit>>

\* Ping and Pong look at no state: the keep-alive timer pings in any of them.
Ping(n) ==
    /\ Within(n, "Ping")
    /\ SendFrame(n, PingFrame)
    /\ UNCHANGED <<state, codec, opened, closed, got, bad, lost, quit>>

Pong(n) ==
    /\ Within(n, "Pong")
    /\ SendFrame(n, PongFrame)
    /\ UNCHANGED <<state, codec, opened, closed, got, bad, lost, quit>>

\* Not a call of the API: the peer's implementation sends a frame of its own.
SendOther(n) ==
    /\ Within(n, "Other")
    /\ SendFrame(n, OtherFrame)
    /\ UNCHANGED <<state, codec, opened, closed, got, bad, lost, quit>>

-----------------------------------------------------------------------------
(* OnFrame: one frame of the ParseProcess loop.                            *)

\* Mutant: ParseProcess goes on after the close.
Handles_Closed(n, t) ==
    /\ net[n] # <<>>
    /\ Head(net[n]).type = t

Handles(n, t) ==
    /\ state[n] \notin {"Closed", "Error"}
    /\ net[n] # <<>>
    /\ Head(net[n]).type = t

\* Mutant: the answer names the type OnHandshake returned, not the type of the
\* context that could be created.
OnSystemFrame_AnswersType(n) ==
    /\ Handles(n, "System")
    /\ \E type \in NotifyHandshake(n, GetSupportedCompressTypes(n, Head(net[n]).names)) :
       \E c \in GetCompressContext(n, type) :
          /\ Adopt(n, c, Head(net[n]).names)
          /\ IF state[n] = "Init"
             THEN Reply(n, SystemFrame(GetSupportedCompressors(n, {type})))
             ELSE Consume(n)
    /\ state' = [state EXCEPT ![n] = "Connected"]
    /\ opened' = [opened EXCEPT ![n] = @ + 1]
    /\ UNCHANGED <<closed, got, bad, quit>>

\* Mutant: a handshake is not answered.
OnSystemFrame_NoAnswer(n) ==
    /\ Handles(n, "System")
    /\ \E c \in NegotiatedCodecs(n, Head(net[n]).names) : Adopt(n, c, Head(net[n]).names)
    /\ Consume(n)
    /\ state' = [state EXCEPT ![n] = "Connected"]
    /\ opened' = [opened EXCEPT ![n] = @ + 1]
    /\ UNCHANGED <<closed, got, bad, quit>>

OnSystemFrame(n) ==
    /\ Handles(n, "System")
    /\ \E c \in NegotiatedCodecs(n, Head(net[n]).names) :
          /\ Adopt(n, c, Head(net[n]).names)
          /\ IF state[n] = "Init"
             THEN Reply(n, SystemFrame(GetSupportedCompressors(n, {c})))
             ELSE Consume(n)
    /\ state' = [state EXCEPT ![n] = "Connected"]
    /\ opened' = [opened EXCEPT ![n] = @ + 1]
    /\ UNCHANGED <<closed, got, bad, quit>>

\* The listener calls Close from within OnHandshake: the context is no longer
\* in Init when OnHandshake returns, so it does not answer the handshake.
OnSystemFrameRejected(n) ==
    /\ Handles(n, "System")
    /\ MayClose(n)
    /\ Within(n, "Close")
    /\ \E c \in NegotiatedCodecs(n, Head(net[n]).names) : Adopt(n, c, Head(net[n]).names)
    /\ Reply(n, CloseFrame)
    /\ state' = [state EXCEPT ![n] = "Connected"]
    /\ opened' = [opened EXCEPT ![n] = @ + 1]
    /\ quit' = [quit EXCEPT ![n] = TRUE]
    /\ UNCHANGED <<closed, got, bad>>

\* Decompress fails on a payload its codec did not write, and a context
\* without a codec passes encoded bytes on as they are.
Intact(n, f) == f.enc = codec[n]

OnDataFrame(n, t) ==
    /\ Handles(n, t)
    /\ Consume(n)
    /\ bad' = [bad EXCEPT ![n] = IF Intact(n, Head(net[n])) THEN @ ELSE @ \cup {t}]
    /\ UNCHANGED <<state, codec, opened, closed, lost, quit>>

\* Mutant: a text that arrives after the own Close is dropped.
OnTextFrame_DropsClosing(n) ==
    /\ OnDataFrame(n, "Text")
    /\ got' = [got EXCEPT ![n] = IF state[n] = "Closing" THEN @ ELSE @ + 1]

OnTextFrame(n) ==
    /\ OnDataFrame(n, "Text")
    /\ got' = [got EXCEPT ![n] = @ + 1]

OnBinaryFrame(n) ==
    /\ OnDataFrame(n, "Binary")
    /\ UNCHANGED got

\* Mutant: a Close frame is not acknowledged.
OnCloseFrame_NoReply(n) ==
    /\ Handles(n, "Close")
    /\ Consume(n)
    /\ state' = [state EXCEPT ![n] = "Closed"]
    /\ closed' = [closed EXCEPT ![n] = @ + 1]
    /\ UNCHANGED <<codec, opened, got, bad, lost, quit>>

\* Mutant: the listener is not told of the close.
OnCloseFrame_Silent(n) ==
    /\ Handles(n, "Close")
    /\ IF state[n] # "Closing" THEN Reply(n, CloseFrame) ELSE Consume(n)
    /\ state' = [state EXCEPT ![n] = "Closed"]
    /\ UNCHANGED <<codec, opened, closed, got, bad, lost, quit>>

OnCloseFrame(n) ==
    /\ Handles(n, "Close")
    /\ IF state[n] # "Closing" THEN Reply(n, CloseFrame) ELSE Consume(n)
    /\ state' = [state EXCEPT ![n] = "Closed"]
    /\ closed' = [closed EXCEPT ![n] = @ + 1]
    /\ UNCHANGED <<codec, opened, got, bad, lost, quit>>

\* The listener is WSocketBase, whose OnPing answers with a Pong.
OnPingFrame(n) ==
    /\ Handles(n, "Ping")
    /\ Reply(n, PongFrame)
    /\ UNCHANGED <<state, codec, opened, closed, got, bad, lost, quit>>

OnPongFrame(n) ==
    /\ Handles(n, "Pong")
    /\ Consume(n)
    /\ UNCHANGED <<state, codec, opened, closed, got, bad, lost, quit>>

\* Mutant: the frame is left in the buffer.
OnOtherFrame_Stays(n) ==
    /\ Handles(n, "Other")
    /\ UNCHANGED vars

\* No case of the switch, or the early return of OnCloseFrame: skipped.  For an
\* unknown opcode ReadMe.md 153-155 has a Close frame (1002) and the end of the
\* connection instead; nothing in the code answers one.
OnOtherFrame(n) ==
    /\ Handles(n, "Other")
    /\ Consume(n)
    /\ UNCHANGED <<state, codec, opened, closed, got, bad, lost, quit>>

-----------------------------------------------------------------------------

Call(n) ==
    \/ Handshake(n)
    \/ Close(n)
    \/ SendText(n)
    \/ SendTextFails(n)
    \/ SendBinary(n)
    \/ Ping(n)
    \/ Pong(n)
    \/ SendOther(n)

OnFrame(n) ==
    \/ OnSystemFrame(n)
    \/ OnSystemFrameRejected(n)
    \/ OnTextFrame(n)
    \/ OnBinaryFrame(n)
    \/ OnCloseFrame(n)
    \/ OnPingFrame(n)
    \/ OnPongFrame(n)
    \/ OnOtherFrame(n)

Next == \E n \in Node : Call(n) \/ OnFrame(n)

Spec == Init /\ [][Next]_vars

\* The transport delivers and the event loop reads; applications owe nothing.
FairSpec == Spec /\ \A n \in Node : WF_vars(OnFrame(n))

-----------------------------------------------------------------------------
(* Properties.                                                             *)

\* The asserts of Handshake, SendText, SendBinary and Close never fire on an
\* application that goes by its callbacks: what it may call, the state allows.
AssertsHold ==
    \A n \in Node :
        /\ MayHandshake(n) => state[n] = "Init"
        /\ MaySend(n) => state[n] = "Connected"
        /\ MayClose(n) => state[n] # "Closed"

\* OnConnected and OnClose reach the application at most once per connection,
\* however handshakes and closes of the two sides cross.
CallbacksOnce == \A n \in Node : opened[n] <= 1 /\ closed[n] <= 1

InFlight(n, t) == \E i \in 1..Len(net[n]) : net[n][i].type = t

\* No half-closed connection: once OnCloseFrame has closed one side, the other
\* is closed or has a Close frame on its way.
CloseReachesPeer ==
    \A n \in Node :
        state[n] = "Closed" => state[Peer(n)] = "Closed" \/ InFlight(Peer(n), "Close")

\* A close loses nothing: when OnClose is called, every text the other side
\* ever sent has been handled, those that crossed the own Close included (and
\* handed over as TextIntact says).
CloseFlushesTexts ==
    \A n \in Node : state[n] = "Closed" => got[n] = sent[Peer(n)]["Text"]

\* Negotiation: a text is decoded by the codec that encoded it, so that none
\* arrives damaged or as DecompressError, unless one side failed to create the
\* codec, or refused it, where the protocol has no frame left to say so.
TextIntact == \A n \in Node : "Text" \in bad[n] => \E m \in Node : lost[m]

\* Binary messages arrive as they were sent.
BinaryIntact == \A n \in Node : "Binary" \notin bad[n]

\* A side sends a Close frame to start the close or to acknowledge the other
\* side's, so one whose application closes at most once sends at most one.
OneCloseFrame == \A n \in Node : sent[n]["Close"] <= 1

\* A context that has sent a Close frame is closed in the end, and so is the
\* other: neither waits for ever on an answer that does not come.
CloseCompletes ==
    \A n \in Node :
        sent[n]["Close"] > 0 ~> (state[n] = "Closed" /\ state[Peer(n)] = "Closed")

\* A handshake ends: its caller is told that it is connected or closed.
HandshakeCompletes ==
    \A n \in Node : sent[n]["System"] > 0 ~> (opened[n] > 0 \/ closed[n] > 0)

\* The pair implements the stream its applications see.  This is about texts:
\* the stream may be stopped by either side at any time, so it allows the code,
\* which skips a frame of unknown opcode and goes on, and would allow the close
\* that ReadMe.md 153-155 asks for just as well.
Phase(n) ==
    IF closed[n] > 0 THEN "done" ELSE IF opened[n] > 0 THEN "open" ELSE "fresh"

Stream == INSTANCE DuplexStream WITH
    phase <- [n \in Node |-> Phase(n)],
    stopped <- [n \in Node |-> sent[n]["Close"] > 0],
    sent <- [n \in Node |-> sent[n]["Text"]]

StreamSpec == Stream!FairSpec

=============================================================================
