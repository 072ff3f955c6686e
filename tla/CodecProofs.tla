---------------------------- MODULE CodecProofs ----------------------------
(***************************************************************************)
(* Proof that the two sides of a connection agree on a codec, whichever    *)
(* codecs they have, accept and fail to create, and however their          *)
(* handshakes cross.                                                       *)
(***************************************************************************)
EXTENDS StreamProofs

-----------------------------------------------------------------------------
(* What the frames on their way to n say of the codec its peer p has (c),  *)
(* where o is the number of OnConnected callbacks at p.                    *)

\* A text comes from a side that has its codec.  A System frame is a request
\* with all of p's codecs, until p has handled n's; then what n can make of it
\* is the codec that p has.
Fit(f, n, c, o) ==
    /\ f.type = "Text" => o > 0 /\ f.enc = c
    /\ f.type = "System" =>
          IF o = 0 THEN f.names = Registered[Peer(n)]
          ELSE f.names \cap Registered[n] = {c} \ {"None"}

AllFit(q, n, c, o) == \A i \in 1..Len(q) : Fit(q[i], n, c, o)

Agreed(n) ==
    /\ AllFit(net[n], n, codec[Peer(n)], opened[Peer(n)])
    /\ opened[n] > 0 /\ opened[Peer(n)] > 0 => codec[n] = codec[Peer(n)]
    /\ "Text" \notin bad[n]

\* A side took no codec where the other had.
Lossy == \E m \in Node : lost[m]

Agree == Lossy \/ \A n \in Node : Agreed(n)

LEMMA AllFitAppend ==
    ASSUME NEW q \in Seq(Frame), NEW f \in Frame, NEW n, NEW c, NEW o, AllFit(q, n, c, o), Fit(f, n, c, o)
    PROVE  AllFit(Append(q, f), n, c, o)
<1>1. ASSUME NEW i \in 1..Len(Append(q, f)) PROVE Fit(Append(q, f)[i], n, c, o)
  <2>1. i \in 1..Len(q) \/ i = Len(q) + 1
    BY AppendElems
  <2> QED
    BY <2>1, AppendElems DEF AllFit
<1> QED
    BY <1>1 DEF AllFit

LEMMA AllFitTail ==
    ASSUME NEW q \in Seq(Frame), q # <<>>, NEW n, NEW c, NEW o, AllFit(q, n, c, o)
    PROVE  AllFit(Tail(q), n, c, o) /\ Fit(Head(q), n, c, o)
<1>1. ASSUME NEW i \in 1..Len(Tail(q)) PROVE Fit(Tail(q)[i], n, c, o)
  <2>1. i + 1 \in 1..Len(q) /\ Tail(q)[i] = q[i + 1]
    BY TailElems
  <2> QED
    BY <2>1 DEF AllFit
<1>2. 1 \in 1..Len(q) /\ Head(q) = q[1]
    BY TailElems
<1> QED
    BY <1>1, <1>2 DEF AllFit

\* The codec of a context is one the request named and it has, or none.
LEMMA CodecOf ==
    ASSUME NEW n \in Node, NEW names \in SUBSET Codec, NEW c \in NegotiatedCodecs(n, names)
    PROVE  /\ Registered[n] \in SUBSET Codec /\ c \in CompressType
           /\ c # "None" => c \in names \cap Registered[n]
           /\ c # "None" => names \cap Registered[n] = {c} \ {"None"}
<1>1. Registered[n] \in SUBSET Codec /\ "None" \notin Registered[n]
    BY ConstantTypes DEF ConstantTypes, Codec
<1>2. PICK type \in NotifyHandshake(n, GetSupportedCompressTypes(n, names)) : c \in GetCompressContext(n, type)
    BY DEF NegotiatedCodecs
<1>3. c # "None" => c = type /\ type \in Registered[n]
    BY <1>2 DEF GetCompressContext, Create
<1>4. type # "None" => type \in names \cap Registered[n]
    BY <1>2 DEF NotifyHandshake, GetSupportedCompressTypes
<1>5. c \in CompressType
    BY CodecTypes
<1>6. c # "None" => c \in names \cap Registered[n]
    BY <1>3, <1>4
<1>7. c # "None" => names \cap Registered[n] = {c} \ {"None"}
    BY <1>1, <1>6 DEF Codec
<1> QED
    BY <1>1, <1>5, <1>6, <1>7

-----------------------------------------------------------------------------
(* One step.                                                               *)

Keeps(m) == codec'[m] = codec[m] /\ opened'[m] = opened[m] /\ bad'[m] = bad[m]

\* n sends f.
LEMMA SendAgrees ==
    ASSUME TypeOK, NEW n \in Node, NEW f \in Frame, SendFrame(n, f),
           Agreed(n), Agreed(Peer(n)), Fit(f, Peer(n), codec[n], opened[n]),
           Keeps(n), Keeps(Peer(n))
    PROVE  Agreed(n)' /\ Agreed(Peer(n))'
<1> DEFINE p == Peer(n)
<1>1. p \in Node /\ Peer(p) = n /\ net[p] \in Seq(Frame)
    BY PeerProps DEF TypeOK
<1>2. net'[n] = net[n] /\ net'[p] = Append(net[p], f)
    BY SendFrameFacts
<1>3. AllFit(net'[p], p, codec[n], opened[n])
    BY <1>1, <1>2, AllFitAppend DEF Agreed
<1> QED
    BY <1>1, <1>2, <1>3 DEF Agreed, Keeps

\* n takes a frame, keeps its codec, and may send one that says nothing of it.
LEMMA TakeAgrees ==
    ASSUME TypeOK, NEW n \in Node, net[n] # <<>>,
           \/ Consume(n)
           \/ \E f \in {CloseFrame, PongFrame} : Reply(n, f),
           Agreed(n), Agreed(Peer(n)),
           codec'[n] = codec[n], opened'[n] = opened[n], "Text" \notin bad'[n], Keeps(Peer(n))
    PROVE  Agreed(n)' /\ Agreed(Peer(n))'
<1> DEFINE p == Peer(n)
<1>1. p \in Node /\ Peer(p) = n /\ net[p] \in Seq(Frame) /\ net[n] \in Seq(Frame)
    BY PeerProps DEF TypeOK
<1>2. /\ net'[n] = Tail(net[n])
      /\ \/ net'[p] = net[p]
         \/ \E f \in {CloseFrame, PongFrame} : net'[p] = Append(net[p], f)
  <2>1. CASE Consume(n)
    BY <2>1, ConsumeFacts
  <2>2. CASE \E f \in {CloseFrame, PongFrame} : Reply(n, f)
    <3>1. PICK f \in {CloseFrame, PongFrame} : Reply(n, f)
      BY <2>2
    <3>2. f \in Frame
      BY FrameFields
    <3>3. net'[n] = Tail(net[n]) /\ net'[p] = Append(net[p], f)
      BY <3>1, <3>2, ReplyFacts
    <3> QED
      BY <3>3
  <2> QED
    BY <2>1, <2>2
<1>3. AllFit(net'[n], n, codec[p], opened[p])
  <2>1. AllFit(net[n], n, codec[p], opened[p])
    BY DEF Agreed
  <2> QED
    BY <1>1, <1>2, <2>1, AllFitTail
<1>4. AllFit(net'[p], p, codec[n], opened[n])
  <2>1. AllFit(net[p], p, codec[n], opened[n])
    BY <1>1 DEF Agreed
  <2>2. ASSUME NEW f \in {CloseFrame, PongFrame}
        PROVE  AllFit(Append(net[p], f), p, codec[n], opened[n])
    <3>1. f \in Frame /\ f.type \notin {"Text", "System"}
      BY FrameFields
    <3>2. Fit(f, p, codec[n], opened[n])
      BY <3>1 DEF Fit
    <3> QED
      BY <1>1, <2>1, <3>1, <3>2, AllFitAppend
  <2> QED
    BY <1>2, <2>1, <2>2
<1> QED
    BY <1>1, <1>3, <1>4 DEF Agreed, Keeps

\* n takes a System frame, the codec c and so is opened; it sends its answer,
\* a Close or nothing.
LEMMA AdoptAgrees ==
    ASSUME IInv, NEW n \in Node, Handles(n, "System"), NEW c \in NegotiatedCodecs(n, Head(net[n]).names),
           Adopt(n, c, Head(net[n]).names), opened' = [opened EXCEPT ![n] = @ + 1], bad' = bad,
           \/ state[n] = "Init" /\ Reply(n, SystemFrame(GetSupportedCompressors(n, {c})))
           \/ state[n] # "Init" /\ Consume(n)
           \/ Reply(n, CloseFrame),
           Agreed(n), Agreed(Peer(n)), ~lost'[n]
    PROVE  Agreed(n)' /\ Agreed(Peer(n))'
<1> DEFINE p == Peer(n)
           f == SystemFrame(GetSupportedCompressors(n, {c}))
<1> USE DEF p
<1>1. /\ TypeOK /\ Local(n) /\ Link(n) /\ Link(p)
      /\ p \in Node /\ p # n /\ Peer(p) = n
      /\ net[n] \in Seq(Frame) /\ net[p] \in Seq(Frame)
      /\ opened[n] \in Nat /\ opened[p] \in Nat
      /\ sent[n]["System"] \in Nat
    BY PeerProps, TypesAt DEF IInv
<1>2. net[n] # <<>> /\ Head(net[n]).type = "System" /\ Has(net[n], "System")
  <2>1. net[n] # <<>> /\ Head(net[n]).type = "System"
    BY DEF Handles
  <2> QED
    BY <1>1, <2>1, HasTail
<1>3. Head(net[n]) \in Frame
    BY <1>1, <1>2
<1> DEFINE names == Head(net[n]).names
           S == names \cap Registered[n]
<1>4. names \in SUBSET Codec
    BY <1>3 DEF Frame
<1>5. /\ Registered[n] \in SUBSET Codec /\ c \in CompressType
      /\ c # "None" => c \in S
      /\ c # "None" => S = {c} \ {"None"}
    BY <1>4, CodecOf
\* n had not been connected, nor asked if it answers now.
<1>6. opened[n] = 0 /\ opened'[n] = 1 /\ opened'[p] = opened[p]
    BY <1>1, <1>2 DEF Link, TypeOK
<1>7. opened[p] > 0 => sent[n]["System"] > 0
    BY <1>1 DEF Link
<1>8. sent[n]["System"] > 0 => state[n] # "Init"
    BY <1>1 DEF Local
<1>9. codec'[n] = c /\ codec'[p] = codec[p]
    BY <1>1 DEF Adopt, TypeOK
\* A side that has asked takes what both have, or it has lost the codec.
<1>10. state[n] # "Init" => S = {c} \ {"None"}
  <2>1. ASSUME state[n] # "Init", c = "None" PROVE S = {}
    <3>1. lost' = [lost EXCEPT ![n] = @ \/ (/\ state[n] # "Init" /\ c = "None"
                                          /\ GetSupportedCompressTypes(n, names) # {})]
      BY DEF Adopt
    <3>2. ~(GetSupportedCompressTypes(n, names) # {})
      <4>1. ASSUME GetSupportedCompressTypes(n, names) # {} PROVE lost'[n]
        BY <2>1, <3>1, <4>1, <1>1, Zenon DEF TypeOK
      <4> QED
        BY <4>1
    <3> QED
      BY <3>2 DEF GetSupportedCompressTypes
  <2> QED
    BY <1>5, <2>1
<1>11. AllFit(net[n], n, codec[p], opened[p]) /\ AllFit(net[p], p, codec[n], 0)
    BY <1>1, <1>6 DEF Agreed
<1>12. Fit(Head(net[n]), n, codec[p], opened[p]) /\ AllFit(Tail(net[n]), n, codec[p], opened[p])
    BY <1>1, <1>2, <1>11, AllFitTail
<1>13. opened[p] = 0 => names = Registered[p]
    BY <1>2, <1>12 DEF Fit
\* Both are connected: they agree.
<1>14. opened[p] > 0 => c = codec[p]
  <2>1. ASSUME opened[p] > 0 PROVE c = codec[p]
    <3>1. S = {codec[p]} \ {"None"}
      BY <1>1, <1>2, <1>12, <2>1 DEF Fit
    <3>2. S = {c} \ {"None"}
      BY <1>7, <1>8, <1>10, <2>1
    <3>3. codec[p] \in CompressType
      BY <1>1 DEF TypeOK
    <3> QED
      BY <1>5, <3>1, <3>2, <3>3 DEF CompressType
  <2> QED
    BY <2>1
\* The request of n that p has yet to handle.
<1>15. AllFit(net[p], p, c, 1)
  <2>1. ASSUME NEW i \in 1..Len(net[p]) PROVE Fit(net[p][i], p, c, 1)
    <3>1. Fit(net[p][i], p, codec[n], 0)
      BY <1>11 DEF AllFit
    <3>2. net[p][i].type # "Text"
      BY <3>1 DEF Fit
    <3>3. ASSUME net[p][i].type = "System"
          PROVE  net[p][i].names \cap Registered[p] = {c} \ {"None"}
      <4>1. net[p][i].names = Registered[n]
        BY <1>1, <3>1, <3>3 DEF Fit
      <4>2. Has(net[p], "System")
        BY <3>3 DEF Has
      <4>3. opened[p] = 0 /\ sent[n]["System"] > 0
        BY <1>1, <4>2 DEF Link
      <4>4. S = {c} \ {"None"} /\ names = Registered[p]
        BY <1>8, <1>10, <1>13, <4>3
      <4> QED
        BY <4>1, <4>4
    <3> QED
      BY <3>2, <3>3 DEF Fit
  <2> QED
    BY <2>1 DEF AllFit
\* The answer of n.
<1>16. state[n] = "Init" => f \in Frame /\ Fit(f, p, c, 1)
  <2>1. f \in Frame /\ f.type = "System"
    BY CodecTypes, FrameFields
  <2>2. f.names = {c} \cap Registered[n]
    BY DEF SystemFrame, GetSupportedCompressors
  <2>3. ASSUME state[n] = "Init" PROVE names = Registered[p]
    BY <1>1, <1>7, <1>8, <1>13, <2>3
  <2>4. "None" \notin Registered[n]
    BY <1>5 DEF Codec
  <2>5. ASSUME state[n] = "Init" PROVE f.names \cap Registered[p] = {c} \ {"None"}
    BY <1>5, <2>2, <2>3, <2>4, <2>5
  <2> HIDE DEF f
  <2>6. ASSUME state[n] = "Init" PROVE Fit(f, p, c, 1)
    BY <2>1, <2>5, <2>6 DEF Fit
  <2> QED
    BY <2>1, <2>6
<1>17. AllFit(net'[n], n, codec[p], opened[p]) /\ AllFit(net'[p], p, c, 1)
  <2>1. CASE state[n] = "Init" /\ Reply(n, f)
    <3>1. net'[n] = Tail(net[n]) /\ net'[p] = Append(net[p], f)
      BY <1>1, <1>2, <1>16, <2>1, ReplyFacts
    <3> QED
      BY <1>1, <1>12, <1>15, <1>16, <2>1, <3>1, AllFitAppend
  <2>2. CASE Consume(n)
    BY <1>1, <1>2, <1>12, <1>15, <2>2, ConsumeFacts
  <2>3. CASE Reply(n, CloseFrame)
    <3>1. CloseFrame \in Frame /\ CloseFrame.type = "Close"
      BY FrameFields
    <3>2. net'[n] = Tail(net[n]) /\ net'[p] = Append(net[p], CloseFrame)
      BY <1>1, <1>2, <2>3, <3>1, ReplyFacts
    <3>3. Fit(CloseFrame, p, c, 1)
      BY <3>1 DEF Fit
    <3> QED
      BY <1>1, <1>12, <1>15, <3>1, <3>2, <3>3, AllFitAppend
  <2> QED
    BY <2>1, <2>2, <2>3
<1>18. Agreed(n)'
    BY <1>6, <1>9, <1>14, <1>17 DEF Agreed
<1>19. Agreed(p)'
    BY <1>1, <1>6, <1>9, <1>14, <1>17 DEF Agreed
<1> QED
    BY <1>18, <1>19

\* A call of n: a request names all codecs of n, a text has its codec.
LEMMA CallAgrees ==
    ASSUME IInv, Opens, NEW n \in Node, Call(n), Agreed(n), Agreed(Peer(n))
    PROVE  Agreed(n)' /\ Agreed(Peer(n))'
<1> DEFINE p == Peer(n)
<1>1. /\ TypeOK /\ Local(n) /\ p \in Node /\ Peer(p) = n /\ opened[n] \in Nat
      /\ codec[n] \in CompressType /\ sent[n]["Text"] + 1 \in Nat
  <2>1. TypeOK /\ Local(n)
    BY DEF IInv
  <2>2. p \in Node /\ Peer(p) = n
    BY PeerProps
  <2>3. opened[n] \in Nat /\ sent[n]["Text"] \in Nat
    BY <2>1, TypesAt
  <2>4. codec[n] \in CompressType
    BY <2>1 DEF TypeOK
  <2>5. sent[n]["Text"] + 1 \in Nat
    BY <2>3
  <2> QED
    BY <2>1, <2>2, <2>3, <2>4, <2>5
<1>2. Keeps(n) /\ Keeps(p)
  <2>1. codec' = codec /\ opened' = opened /\ bad' = bad
    BY DEF Call, Handshake, Close, SendText, SendTextFails, SendBinary, Ping, Pong, SendOther
  <2> QED
    BY <2>1 DEF Keeps
<1>3. CASE Handshake(n)
  <2> DEFINE f == SystemFrame(Registered[n])
  <2>1. f \in Frame /\ f.type = "System" /\ f.names = Registered[n]
    BY FrameFields, ConstantTypes DEF ConstantTypes, SystemFrame
  <2>2. SendFrame(n, f) /\ opened[n] = 0
    BY <1>3 DEF Handshake, MayHandshake
  <2> HIDE DEF f
  <2>3. Fit(f, p, codec[n], opened[n])
    BY <1>1, <2>1, <2>2 DEF Fit
  <2> QED
    BY <1>1, <1>2, <2>1, <2>2, <2>3, SendAgrees
<1>4. CASE SendText(n)
  <2> DEFINE f == TextFrame(codec[n], sent[n]["Text"] + 1)
  <2>1. f \in Frame /\ f.type = "Text" /\ f.enc = codec[n]
    BY <1>1, FrameFields DEF TextFrame
  <2>2. SendFrame(n, f) /\ opened[n] > 0
    BY <1>4 DEF SendText, MaySend
  <2> HIDE DEF f
  <2>3. Fit(f, p, codec[n], opened[n])
    BY <2>1, <2>2 DEF Fit
  <2> QED
    BY <1>1, <1>2, <2>1, <2>2, <2>3, SendAgrees
<1>5. CASE Close(n) \/ SendTextFails(n) \/ SendBinary(n) \/ Ping(n) \/ Pong(n) \/ SendOther(n)
  <2>1. PICK f \in {CloseFrame, BinaryFrame, PingFrame, PongFrame, OtherFrame} : SendFrame(n, f)
    BY <1>5 DEF Close, SendTextFails, SendBinary, Ping, Pong, SendOther
  <2>2. f \in Frame /\ f.type \notin {"System", "Text"}
    BY <2>1, FrameFields
  <2>3. Fit(f, p, codec[n], opened[n])
    BY <2>2 DEF Fit
  <2> QED
    BY <1>1, <1>2, <2>1, <2>2, <2>3, SendAgrees
<1> QED
    BY <1>3, <1>4, <1>5 DEF Call

LEMMA OnFrameAgrees ==
    ASSUME IInv, Opens, NEW n \in Node, OnFrame(n), ~lost'[n], Agreed(n), Agreed(Peer(n))
    PROVE  Agreed(n)' /\ Agreed(Peer(n))'
<1> DEFINE p == Peer(n)
<1>1. /\ TypeOK /\ Opening(n) /\ p \in Node /\ p # n /\ Peer(p) = n
      /\ opened[n] \in Nat /\ net[n] \in Seq(Frame)
    BY PeerProps, TypesAt DEF IInv, Opens
<1>2. CASE OnSystemFrame(n)
  <2>1. PICK c \in NegotiatedCodecs(n, Head(net[n]).names) :
          /\ Adopt(n, c, Head(net[n]).names)
          /\ IF state[n] = "Init"
             THEN Reply(n, SystemFrame(GetSupportedCompressors(n, {c})))
             ELSE Consume(n)
    BY <1>2 DEF OnSystemFrame
  <2>2. Handles(n, "System") /\ opened' = [opened EXCEPT ![n] = @ + 1] /\ bad' = bad
    BY <1>2 DEF OnSystemFrame
  <2> QED
    BY <2>1, <2>2, AdoptAgrees
<1>3. CASE OnSystemFrameRejected(n)
  <2>1. PICK c \in NegotiatedCodecs(n, Head(net[n]).names) : Adopt(n, c, Head(net[n]).names)
    BY <1>3 DEF OnSystemFrameRejected
  <2>2. /\ Handles(n, "System") /\ opened' = [opened EXCEPT ![n] = @ + 1] /\ bad' = bad
        /\ Reply(n, CloseFrame)
    BY <1>3 DEF OnSystemFrameRejected
  <2> QED
    BY <2>1, <2>2, AdoptAgrees
<1>4. CASE OnTextFrame(n)
  <2>1. /\ Handles(n, "Text") /\ Consume(n) /\ UNCHANGED <<codec, opened>>
        /\ bad' = [bad EXCEPT ![n] = IF Intact(n, Head(net[n])) THEN @ ELSE @ \cup {"Text"}]
    BY <1>4 DEF OnTextFrame, OnDataFrame
  <2>2. net[n] # <<>> /\ Head(net[n]).type = "Text"
    BY <2>1 DEF Handles
  <2>3. Fit(Head(net[n]), n, codec[p], opened[p])
    BY <1>1, <2>2, AllFitTail DEF Agreed
  <2>4. Head(net[n]).enc = codec[p] /\ opened[p] > 0
    BY <2>2, <2>3 DEF Fit
  <2>5. opened[n] > 0
    BY <1>1, <2>2, SystemFirstTail DEF Opening
  <2>6. Intact(n, Head(net[n]))
    BY <2>4, <2>5 DEF Agreed, Intact
  <2>7. bad'[n] = bad[n] /\ bad'[p] = bad[p]
    BY <1>1, <2>1, <2>6 DEF TypeOK
  <2>8. "Text" \notin bad'[n] /\ Keeps(p)
    BY <2>1, <2>7 DEF Agreed, Keeps
  <2> QED
    BY <1>1, <2>1, <2>2, <2>8, TakeAgrees
<1>5. CASE OnBinaryFrame(n)
  <2>1. /\ Handles(n, "Binary") /\ Consume(n) /\ UNCHANGED <<codec, opened>>
        /\ bad' = [bad EXCEPT ![n] = IF Intact(n, Head(net[n])) THEN @ ELSE @ \cup {"Binary"}]
    BY <1>5 DEF OnBinaryFrame, OnDataFrame
  <2>2. bad'[n] \subseteq bad[n] \cup {"Binary"} /\ bad'[p] = bad[p]
    BY <1>1, <2>1 DEF TypeOK
  <2>3. "Text" \notin bad'[n] /\ Keeps(p) /\ net[n] # <<>>
    BY <2>1, <2>2 DEF Agreed, Keeps, Handles
  <2> QED
    BY <1>1, <2>1, <2>3, TakeAgrees
<1>6. CASE OnCloseFrame(n) \/ OnPingFrame(n) \/ OnPongFrame(n) \/ OnOtherFrame(n)
  <2>1. /\ net[n] # <<>> /\ UNCHANGED <<codec, opened, bad>>
        /\ Consume(n) \/ \E f \in {CloseFrame, PongFrame} : Reply(n, f)
    BY <1>6 DEF OnCloseFrame, OnPingFrame, OnPongFrame, OnOtherFrame, Handles
  <2>2. "Text" \notin bad'[n] /\ Keeps(p)
    BY <2>1 DEF Agreed, Keeps
  <2> QED
    BY <1>1, <2>1, <2>2, TakeAgrees
<1> QED
    BY <1>2, <1>3, <1>4, <1>5, <1>6 DEF OnFrame

\* What is lost stays lost.
LEMMA LossStays ==
    ASSUME TypeOK, [Next]_vars, NEW m \in Node, lost[m]
    PROVE  lost'[m]
<1>1. CASE lost' = lost
    BY <1>1
<1>2. ASSUME NEW n \in Node, NEW c, NEW names, Adopt(n, c, names) PROVE lost'[m]
  <2>1. PICK b : lost' = [lost EXCEPT ![n] = @ \/ b]
    BY <1>2 DEF Adopt
  <2>2. CASE m = n
    <3>1. lost'[m] = (lost[m] \/ b)
      BY <2>1, <2>2, Zenon DEF TypeOK
    <3> QED
      BY <3>1
  <2>3. CASE m # n
    <3>1. lost'[m] = lost[m]
      BY <2>1, <2>3, Zenon DEF TypeOK
    <3> QED
      BY <3>1
  <2> QED
    BY <2>2, <2>3
<1>3. lost' = lost \/ \E n \in Node : \E c, names : Adopt(n, c, names)
  <2>1. ASSUME NEW n \in Node, OnSystemFrame(n) \/ OnSystemFrameRejected(n)
        PROVE  \E c, names : Adopt(n, c, names)
    BY <2>1 DEF OnSystemFrame, OnSystemFrameRejected
  <2>2. ASSUME NEW n \in Node, Call(n) PROVE lost' = lost
    BY <2>2 DEF Call, Handshake, Close, SendText, SendTextFails, SendBinary, Ping, Pong, SendOther
  <2>3. ASSUME NEW n \in Node,
               \/ OnTextFrame(n) \/ OnBinaryFrame(n) \/ OnCloseFrame(n)
               \/ OnPingFrame(n) \/ OnPongFrame(n) \/ OnOtherFrame(n)
        PROVE  lost' = lost
    BY <2>3 DEF OnTextFrame, OnBinaryFrame, OnDataFrame, OnCloseFrame, OnPingFrame, OnPongFrame, OnOtherFrame
  <2>4. UNCHANGED vars => lost' = lost
    BY DEF vars
  <2> QED
    BY <2>1, <2>2, <2>3, <2>4 DEF Next, OnFrame
<1> QED
    BY <1>1, <1>2, <1>3

LEMMA AgreeStep ==
    ASSUME IInv, Opens, Agree, [Next]_vars
    PROVE  Agree'
<1>1. SUFFICES ASSUME ~Lossy' PROVE \A m \in Node : Agreed(m)'
    BY DEF Agree
<1>2. TypeOK /\ \A m \in Node : ~lost'[m]
    BY <1>1 DEF Lossy, IInv
<1>3. ~Lossy
    BY <1>2, LossStays DEF Lossy
<1>4. \A m \in Node : Agreed(m)
    BY <1>3 DEF Agree
<1>5. ASSUME NEW n \in Node, Call(n) \/ OnFrame(n) PROVE \A m \in Node : Agreed(m)'
  <2>1. Peer(n) \in Node /\ \A m \in Node : m = n \/ m = Peer(n)
    BY PeerProps
  <2>2. Agreed(n)' /\ Agreed(Peer(n))'
    BY <1>2, <1>4, <1>5, <2>1, CallAgrees, OnFrameAgrees
  <2> QED
    BY <2>1, <2>2
<1>6. CASE UNCHANGED vars
    BY <1>4, <1>6 DEF vars, Agreed, AllFit
<1> QED
    BY <1>5, <1>6 DEF Next

LEMMA InitAgree == Init => Agree
<1> SUFFICES ASSUME Init, NEW n \in Node PROVE Agreed(n)
    BY DEF Agree
<1>1. net[n] = <<>> /\ opened[n] = 0 /\ bad[n] = {}
    BY DEF Init
<1>2. AllFit(net[n], n, codec[Peer(n)], opened[Peer(n)])
    BY <1>1 DEF AllFit
<1> QED
    BY <1>1, <1>2 DEF Agreed

(* No text reaches an application damaged, and none is reported to it as   *)
(* one that cannot be decompressed, unless a side took no codec where its  *)
(* peer had one: what the answer to a handshake names is what its sender   *)
(* uses, and no text overtakes it.                                         *)
THEOREM TextIntactAlways == Spec => []TextIntact
<1>1. IInv /\ Opens /\ Agree /\ [Next]_vars => Agree'
    BY AgreeStep
<1>2. Agree => TextIntact
    BY DEF Agree, Agreed, Lossy, TextIntact
<1> QED
    BY <1>1, <1>2, InitAgree, Inductive, OpensAlways, PTL DEF Spec
=============================================================================
