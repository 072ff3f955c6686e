------------------------ MODULE WSocketContextProofs ------------------------
(***************************************************************************)
(* Proofs about WSocketContext, for every pair of contexts, every choice   *)
(* of codecs and listeners and every number of calls.                      *)
(***************************************************************************)
EXTENDS WSocketContext, TLAPS

(* The two contexts are each other's peers.                                *)
LEMMA PeerProps ==
    ASSUME NEW n \in Node
    PROVE  /\ Peer(n) \in Node
           /\ Peer(n) # n
           /\ Peer(Peer(n)) = n
           /\ \A m \in Node : m = n \/ m = Peer(n)
<1>1. PICK a, b \in Node : a # b /\ Node = {a, b}
    BY NodePair
<1>2. \E m \in Node : m # n
    BY <1>1
<1>3. Peer(n) \in Node /\ Peer(n) # n
    BY <1>2 DEF Peer
<1>4. \E m \in Node : m # Peer(n)
    BY <1>3
<1>5. Peer(Peer(n)) \in Node /\ Peer(Peer(n)) # Peer(n)
    BY <1>4 DEF Peer
<1> QED
    BY <1>1, <1>3, <1>5

(* The frames a context sends are frames.                                  *)
LEMMA FrameTypes ==
    ASSUME NEW names \in SUBSET Codec, NEW enc \in CompressType, NEW no \in Nat
    PROVE  /\ SystemFrame(names) \in Frame
           /\ TextFrame(enc, no) \in Frame
           /\ BinaryFrame \in Frame
           /\ CloseFrame \in Frame
           /\ PingFrame \in Frame
           /\ PongFrame \in Frame
           /\ OtherFrame \in Frame
BY DEF Frame, FrameType, CompressType, Basic, SystemFrame, TextFrame,
       BinaryFrame, CloseFrame, PingFrame, PongFrame, OtherFrame

(* Negotiation yields a codec or none.                                     *)
LEMMA CodecTypes ==
    ASSUME NEW n \in Node, NEW names, NEW c \in NegotiatedCodecs(n, names)
    PROVE  c \in CompressType /\ GetSupportedCompressors(n, {c}) \in SUBSET Codec
<1>1. PICK type : c \in GetCompressContext(n, type)
    BY DEF NegotiatedCodecs
<1>2. c \in Registered[n] \/ c = "None"
    BY <1>1 DEF GetCompressContext, Create
<1>3. Registered[n] \in SUBSET Codec
    BY ConstantTypes DEF ConstantTypes
<1> QED
    BY <1>2, <1>3 DEF GetSupportedCompressors, CompressType

(* Adopt changes the codec and whether it was lost.                        *)
LEMMA AdoptTypes ==
    ASSUME TypeOK, NEW n \in Node, NEW names, NEW c \in CompressType, Adopt(n, c, names)
    PROVE  codec' \in [Node -> CompressType] /\ lost' \in [Node -> BOOLEAN]
<1>1. codec' \in [Node -> CompressType]
    BY DEF TypeOK, Adopt
<1>2. lost[n] \in BOOLEAN
    BY DEF TypeOK
<1>3. PICK b \in BOOLEAN : lost' = [lost EXCEPT ![n] = b]
    BY <1>2, Zenon DEF Adopt
<1> QED
    BY <1>1, <1>3 DEF TypeOK

(* What the three ways of moving frames do to the channels and counters.   *)
LEMMA SendFrameFacts ==
    ASSUME TypeOK, NEW n \in Node, NEW f \in Frame, SendFrame(n, f)
    PROVE  /\ net' \in [Node -> Seq(Frame)]
           /\ sent' \in [Node -> [FrameType -> Nat]]
           /\ net'[n] = net[n]
           /\ net'[Peer(n)] = Append(net[Peer(n)], f)
           /\ sent'[n] = [sent[n] EXCEPT ![f.type] = @ + 1]
           /\ sent'[Peer(n)] = sent[Peer(n)]
<1>1. Peer(n) \in Node /\ Peer(n) # n
    BY PeerProps
<1>2. f.type \in FrameType
    BY DEF Frame
<1>3. Append(net[Peer(n)], f) \in Seq(Frame)
    BY <1>1 DEF TypeOK
<1>4. [sent[n] EXCEPT ![f.type] = @ + 1] \in [FrameType -> Nat]
    BY <1>2 DEF TypeOK
<1> QED
    BY <1>1, <1>3, <1>4 DEF TypeOK, SendFrame

LEMMA ConsumeFacts ==
    ASSUME TypeOK, NEW n \in Node, net[n] # <<>>, Consume(n)
    PROVE  /\ net' \in [Node -> Seq(Frame)]
           /\ sent' \in [Node -> [FrameType -> Nat]]
           /\ net'[n] = Tail(net[n])
           /\ net'[Peer(n)] = net[Peer(n)]
           /\ sent' = sent
<1>1. Peer(n) \in Node /\ Peer(n) # n
    BY PeerProps
<1>2. Tail(net[n]) \in Seq(Frame)
    BY DEF TypeOK
<1> QED
    BY <1>1, <1>2 DEF TypeOK, Consume

LEMMA ReplyFacts ==
    ASSUME TypeOK, NEW n \in Node, net[n] # <<>>, NEW f \in Frame, Reply(n, f)
    PROVE  /\ net' \in [Node -> Seq(Frame)]
           /\ sent' \in [Node -> [FrameType -> Nat]]
           /\ net'[n] = Tail(net[n])
           /\ net'[Peer(n)] = Append(net[Peer(n)], f)
           /\ sent'[n] = [sent[n] EXCEPT ![f.type] = @ + 1]
           /\ sent'[Peer(n)] = sent[Peer(n)]
<1>1. Peer(n) \in Node /\ Peer(n) # n
    BY PeerProps
<1>2. f.type \in FrameType
    BY DEF Frame
<1>3. Append(net[Peer(n)], f) \in Seq(Frame) /\ Tail(net[n]) \in Seq(Frame)
    BY <1>1 DEF TypeOK
<1>4. [sent[n] EXCEPT ![f.type] = @ + 1] \in [FrameType -> Nat]
    BY <1>2 DEF TypeOK
<1> QED
    BY <1>1, <1>3, <1>4 DEF TypeOK, Reply
-----------------------------------------------------------------------------
(* Type correctness.                                                       *)

LEMMA InitTypeOK == Init => TypeOK
BY DEF Init, TypeOK, State, CompressType, FrameType

LEMMA CallTypeOK ==
    ASSUME TypeOK, NEW n \in Node, Call(n)
    PROVE  TypeOK'
<1>1. /\ BinaryFrame \in Frame
      /\ CloseFrame \in Frame
      /\ PingFrame \in Frame
      /\ PongFrame \in Frame
      /\ OtherFrame \in Frame
      /\ SystemFrame(Registered[n]) \in Frame
      /\ TextFrame(codec[n], sent[n]["Text"] + 1) \in Frame
  <2>1. Registered[n] \in SUBSET Codec
    BY ConstantTypes DEF ConstantTypes
  <2>2. codec[n] \in CompressType /\ sent[n]["Text"] + 1 \in Nat
    BY DEF TypeOK, FrameType
  <2>3. /\ BinaryFrame \in Frame /\ CloseFrame \in Frame /\ PingFrame \in Frame
        /\ PongFrame \in Frame /\ OtherFrame \in Frame
    BY FrameTypes, 0 \in Nat, "None" \in CompressType DEF CompressType
  <2> QED
    BY <2>1, <2>2, <2>3, FrameTypes
<1>2. CASE Handshake(n)
    BY <1>1, <1>2, SendFrameFacts DEF Handshake, TypeOK, State
<1>3. CASE Close(n) \/ SendTextFails(n)
    BY <1>1, <1>3, SendFrameFacts DEF Close, SendTextFails, TypeOK, State
<1>4. CASE SendText(n)
    BY <1>1, <1>4, SendFrameFacts DEF SendText, TypeOK
<1>5. CASE SendBinary(n) \/ Ping(n) \/ Pong(n) \/ SendOther(n)
    BY <1>1, <1>5, SendFrameFacts DEF SendBinary, Ping, Pong, SendOther, TypeOK
<1> QED
    BY <1>2, <1>3, <1>4, <1>5 DEF Call

LEMMA OnFrameTypeOK ==
    ASSUME TypeOK, NEW n \in Node, OnFrame(n)
    PROVE  TypeOK'
<1>1. CloseFrame \in Frame /\ PongFrame \in Frame
    BY FrameTypes, 0 \in Nat, "None" \in CompressType DEF CompressType
<1>2. CASE OnSystemFrame(n)
  <2>1. PICK c \in NegotiatedCodecs(n, Head(net[n]).names) :
          /\ Adopt(n, c, Head(net[n]).names)
          /\ IF state[n] = "Init"
             THEN Reply(n, SystemFrame(GetSupportedCompressors(n, {c})))
             ELSE Consume(n)
    BY <1>2 DEF OnSystemFrame
  <2>2. c \in CompressType /\ SystemFrame(GetSupportedCompressors(n, {c})) \in Frame
    BY CodecTypes, FrameTypes, 0 \in Nat, "None" \in CompressType DEF CompressType
  <2>3. net[n] # <<>>
    BY <1>2 DEF OnSystemFrame, Handles
  <2>4. net' \in [Node -> Seq(Frame)] /\ sent' \in [Node -> [FrameType -> Nat]]
    BY <2>1, <2>2, <2>3, ReplyFacts, ConsumeFacts
  <2>5. codec' \in [Node -> CompressType] /\ lost' \in [Node -> BOOLEAN]
    BY <2>1, <2>2, AdoptTypes
  <2>6. state' \in [Node -> State] /\ opened' \in [Node -> Nat]
    BY <1>2 DEF OnSystemFrame, TypeOK, State
  <2> QED
    BY <1>2, <2>4, <2>5, <2>6 DEF OnSystemFrame, TypeOK
<1>3. CASE OnSystemFrameRejected(n)
  <2>1. PICK c \in NegotiatedCodecs(n, Head(net[n]).names) :
          Adopt(n, c, Head(net[n]).names)
    BY <1>3 DEF OnSystemFrameRejected
  <2>2. codec' \in [Node -> CompressType] /\ lost' \in [Node -> BOOLEAN]
    BY <2>1, CodecTypes, AdoptTypes
  <2>3. net' \in [Node -> Seq(Frame)] /\ sent' \in [Node -> [FrameType -> Nat]]
    BY <1>1, <1>3, ReplyFacts DEF OnSystemFrameRejected, Handles
  <2>4. state' \in [Node -> State] /\ opened' \in [Node -> Nat]
    BY <1>3 DEF OnSystemFrameRejected, TypeOK, State
  <2>5. quit' \in [Node -> BOOLEAN]
    BY <1>3 DEF OnSystemFrameRejected, TypeOK
  <2> QED
    BY <1>3, <2>2, <2>3, <2>4, <2>5 DEF OnSystemFrameRejected, TypeOK
<1>4. ASSUME NEW t \in FrameType, OnDataFrame(n, t)
      PROVE  /\ net' \in [Node -> Seq(Frame)]
             /\ sent' \in [Node -> [FrameType -> Nat]]
             /\ bad' \in [Node -> SUBSET FrameType]
  <2>1. net' \in [Node -> Seq(Frame)] /\ sent' \in [Node -> [FrameType -> Nat]]
    BY <1>4, ConsumeFacts DEF OnDataFrame, Handles
  <2>2. bad[n] \in SUBSET FrameType /\ bad[n] \cup {t} \in SUBSET FrameType
    BY DEF TypeOK
  <2> QED
    BY <1>4, <2>1, <2>2 DEF OnDataFrame, TypeOK
<1>5. CASE OnTextFrame(n) \/ OnBinaryFrame(n)
  <2>1. /\ net' \in [Node -> Seq(Frame)]
        /\ sent' \in [Node -> [FrameType -> Nat]]
        /\ bad' \in [Node -> SUBSET FrameType]
    BY <1>4, <1>5 DEF OnTextFrame, OnBinaryFrame, FrameType
  <2>2. got' \in [Node -> Nat]
    <3>1. CASE OnTextFrame(n)
      BY <3>1 DEF OnTextFrame, TypeOK
    <3>2. CASE OnBinaryFrame(n)
      BY <3>2 DEF OnBinaryFrame, TypeOK
    <3> QED
      BY <1>5, <3>1, <3>2
  <2> QED
    BY <1>5, <2>1, <2>2 DEF OnTextFrame, OnBinaryFrame, OnDataFrame, TypeOK
<1>6. CASE OnCloseFrame(n)
  <2>1. net' \in [Node -> Seq(Frame)] /\ sent' \in [Node -> [FrameType -> Nat]]
    BY <1>1, <1>6, ConsumeFacts, ReplyFacts DEF OnCloseFrame, Handles
  <2>2. state' \in [Node -> State] /\ closed' \in [Node -> Nat]
    BY <1>6 DEF OnCloseFrame, TypeOK, State
  <2> QED
    BY <1>6, <2>1, <2>2 DEF OnCloseFrame, TypeOK
<1>7. CASE OnPingFrame(n)
    BY <1>1, <1>7, ReplyFacts DEF OnPingFrame, Handles, TypeOK
<1>8. CASE OnPongFrame(n) \/ OnOtherFrame(n)
    BY <1>8, ConsumeFacts DEF OnPongFrame, OnOtherFrame, Handles, TypeOK
<1> QED
    BY <1>2, <1>3, <1>5, <1>6, <1>7, <1>8 DEF OnFrame

(* The variables of the two contexts keep their types.                     *)
THEOREM TypeCorrect == Spec => []TypeOK
<1>1. TypeOK /\ [Next]_vars => TypeOK'
  <2> SUFFICES ASSUME TypeOK, [Next]_vars PROVE TypeOK'
    OBVIOUS
  <2>1. CASE Next
    BY <2>1, CallTypeOK, OnFrameTypeOK DEF Next
  <2>2. CASE UNCHANGED vars
    BY <2>2 DEF TypeOK, vars
  <2> QED
    BY <2>1, <2>2
<1> QED
    BY InitTypeOK, <1>1, PTL DEF Spec
-----------------------------------------------------------------------------
(***************************************************************************)
(* The inductive invariant.  Local ties the state of one context to what   *)
(* its application has been told and to what it has sent; Link ties the    *)
(* frames in a channel to what both its ends have counted.                 *)
(***************************************************************************)

Has(q, t) == \E i \in 1..Len(q) : q[i].type = t

AtMostOne(q, t) ==
    \A i, j \in 1..Len(q) : q[i].type = t /\ q[j].type = t => i = j

\* The texts in q are those from g + 1 to s, in order.
TextsFrom(q, g, s) ==
    /\ \A i \in 1..Len(q) : q[i].type = "Text" => q[i].no > g /\ q[i].no <= s
    /\ \A k \in 1..s : k > g => \E i \in 1..Len(q) : q[i].type = "Text" /\ q[i].no = k
    /\ \A i, j \in 1..Len(q) :
          i < j /\ q[i].type = "Text" /\ q[j].type = "Text" => q[i].no < q[j].no

NoTextAfterClose(q) ==
    \A i, j \in 1..Len(q) : i < j /\ q[i].type = "Close" => q[j].type # "Text"

Local(n) ==
    /\ state[n] # "Error"
    /\ state[n] = "Init" => opened[n] = 0 /\ sent[n]["System"] = 0
    /\ state[n] = "Connecting" => opened[n] = 0 /\ sent[n]["System"] > 0
    /\ state[n] = "Connected" => opened[n] > 0
    /\ state[n] = "Closing" => quit[n] /\ sent[n]["Close"] > 0
    /\ state[n] = "Closed" <=> closed[n] > 0
    /\ closed[n] > 0 => sent[n]["Close"] > 0
    /\ sent[n]["Close"] > 0 => quit[n] \/ closed[n] > 0
    /\ sent[n]["System"] <= 1
    /\ closed[n] <= 1

Link(n) ==
    /\ TextsFrom(net[n], got[n], sent[Peer(n)]["Text"])
    /\ got[n] <= sent[Peer(n)]["Text"]
    /\ NoTextAfterClose(net[n])
    /\ Has(net[n], "Close") => sent[Peer(n)]["Close"] > 0
    /\ sent[Peer(n)]["Close"] > 0 => closed[n] > 0 \/ Has(net[n], "Close")
    /\ closed[n] > 0 => sent[Peer(n)]["Close"] > 0 /\ got[n] = sent[Peer(n)]["Text"]
    /\ AtMostOne(net[n], "System")
    /\ Has(net[n], "System") => opened[n] = 0 /\ sent[Peer(n)]["System"] > 0
    /\ opened[n] > 0 => sent[Peer(n)]["System"] > 0
    /\ opened[n] <= 1

IInv == TypeOK /\ \A n \in Node : Local(n) /\ Link(n)

-----------------------------------------------------------------------------
(* One channel: what appending a frame and handling the first one do to    *)
(* the sequence predicates of Link.                                        *)

LEMMA AppendElems ==
    ASSUME NEW q \in Seq(Frame), NEW f \in Frame
    PROVE  /\ Len(q) \in Nat
           /\ Len(Append(q, f)) = Len(q) + 1
           /\ \A i \in 1..Len(q) : Append(q, f)[i] = q[i]
           /\ Append(q, f)[Len(q) + 1] = f
OBVIOUS

LEMMA TailElems ==
    ASSUME NEW q \in Seq(Frame), q # <<>>
    PROVE  /\ Len(q) \in Nat \ {0}
           /\ Len(Tail(q)) = Len(q) - 1
           /\ \A i \in 1..Len(q) - 1 : Tail(q)[i] = q[i + 1]
           /\ Head(q) = q[1]
OBVIOUS

LEMMA ElemTypes ==
    ASSUME NEW q \in Seq(Frame), NEW i \in 1..Len(q)
    PROVE  q[i] \in Frame /\ q[i].no \in Nat
<1>1. q[i] \in Frame
    OBVIOUS
<1> QED
    BY <1>1 DEF Frame

LEMMA HasAppend ==
    ASSUME NEW q \in Seq(Frame), NEW f \in Frame, NEW t
    PROVE  Has(Append(q, f), t) <=> Has(q, t) \/ f.type = t
<1>1. ASSUME NEW i \in 1..Len(Append(q, f)) PROVE i \in 1..Len(q) \/ i = Len(q) + 1
    BY AppendElems
<1>2. 1..Len(q) \subseteq 1..Len(Append(q, f)) /\ Len(q) + 1 \in 1..Len(Append(q, f))
    BY AppendElems
<1> QED
    BY <1>1, <1>2, AppendElems DEF Has

LEMMA HasTail ==
    ASSUME NEW q \in Seq(Frame), q # <<>>, NEW t
    PROVE  Has(q, t) <=> Head(q).type = t \/ Has(Tail(q), t)
<1>1. ASSUME NEW i \in 1..Len(q) PROVE i = 1 \/ (i - 1 \in 1..Len(Tail(q)) /\ Tail(q)[i - 1] = q[i])
    BY TailElems
<1>2. ASSUME NEW i \in 1..Len(Tail(q)) PROVE i + 1 \in 1..Len(q) /\ q[i + 1] = Tail(q)[i]
    BY TailElems
<1>3. 1 \in 1..Len(q) /\ q[1] = Head(q)
    BY TailElems
<1> QED
    BY <1>1, <1>2, <1>3 DEF Has

LEMMA AtMostOneAppend ==
    ASSUME NEW q \in Seq(Frame), NEW f \in Frame, NEW t,
           AtMostOne(q, t), f.type = t => ~Has(q, t)
    PROVE  AtMostOne(Append(q, f), t)
BY AppendElems DEF AtMostOne, Has

LEMMA AtMostOneTail ==
    ASSUME NEW q \in Seq(Frame), q # <<>>, NEW t, AtMostOne(q, t)
    PROVE  AtMostOne(Tail(q), t) /\ (Head(q).type = t => ~Has(Tail(q), t))
BY TailElems DEF AtMostOne, Has

LEMMA NoTextAfterCloseAppend ==
    ASSUME NEW q \in Seq(Frame), NEW f \in Frame,
           NoTextAfterClose(q), f.type = "Text" => ~Has(q, "Close")
    PROVE  NoTextAfterClose(Append(q, f))
BY AppendElems DEF NoTextAfterClose, Has

LEMMA NoTextAfterCloseTail ==
    ASSUME NEW q \in Seq(Frame), q # <<>>, NoTextAfterClose(q)
    PROVE  /\ NoTextAfterClose(Tail(q))
           /\ Head(q).type = "Close" => ~Has(q, "Text")
BY TailElems DEF NoTextAfterClose, Has

\* s is 1 more when the frame is the next text.
LEMMA TextsFromAppend ==
    ASSUME NEW q \in Seq(Frame), NEW f \in Frame,
           NEW g \in Nat, NEW s \in Nat, NEW s2 \in Nat,
           TextsFrom(q, g, s), g <= s,
           IF f.type = "Text" THEN s2 = s + 1 /\ f.no = s2 ELSE s2 = s
    PROVE  TextsFrom(Append(q, f), g, s2)
<1> DEFINE r == Append(q, f)
<1>1. ASSUME NEW i \in 1..Len(r)
      PROVE  (i \in 1..Len(q) /\ r[i] = q[i]) \/ (i = Len(q) + 1 /\ r[i] = f)
    BY AppendElems
<1>2. ASSUME NEW i \in 1..Len(q) PROVE i \in 1..Len(r) /\ r[i] = q[i] /\ q[i].no \in Nat
    BY AppendElems, ElemTypes
<1>3. Len(q) \in Nat /\ Len(q) + 1 \in 1..Len(r) /\ r[Len(q) + 1] = f
    BY AppendElems
<1> HIDE DEF r
<1>4. ASSUME NEW i \in 1..Len(r), r[i].type = "Text" PROVE r[i].no > g /\ r[i].no <= s2
    BY <1>1, <1>2, <1>4 DEF TextsFrom
<1>5. ASSUME NEW k \in 1..s2, k > g
      PROVE  \E i \in 1..Len(r) : r[i].type = "Text" /\ r[i].no = k
  <2>1. CASE k \in 1..s
    BY <1>2, <1>5, <2>1 DEF TextsFrom
  <2>2. CASE k = s + 1 /\ f.type = "Text"
    BY <1>3, <2>2
  <2> QED
    BY <2>1, <2>2
<1>6. ASSUME NEW i \in 1..Len(r), NEW j \in 1..Len(r),
             i < j, r[i].type = "Text", r[j].type = "Text"
      PROVE  r[i].no < r[j].no
  <2>1. i \in 1..Len(q) /\ r[i] = q[i] /\ q[i].no <= s
    BY <1>1, <1>3, <1>6 DEF TextsFrom
  <2>2. CASE j \in 1..Len(q) /\ r[j] = q[j]
    BY <1>6, <2>1, <2>2 DEF TextsFrom
  <2>3. CASE r[j] = f
    BY <1>2, <1>6, <2>1, <2>3
  <2> QED
    BY <1>1, <2>2, <2>3
<1>7. TextsFrom(r, g, s2)
    BY <1>4, <1>5, <1>6 DEF TextsFrom
<1> QED
    BY <1>7 DEF r

\* g is 1 more when the frame is a text.
LEMMA TextsFromTail ==
    ASSUME NEW q \in Seq(Frame), q # <<>>, NEW g \in Nat, NEW s \in Nat, NEW g2 \in Nat,
           TextsFrom(q, g, s), g <= s,
           IF Head(q).type = "Text" THEN g2 = g + 1 ELSE g2 = g
    PROVE  TextsFrom(Tail(q), g2, s) /\ g2 <= s
<1> DEFINE r == Tail(q)
<1>1. ASSUME NEW i \in 1..Len(r)
      PROVE  i + 1 \in 1..Len(q) /\ r[i] = q[i + 1] /\ q[i + 1].no \in Nat
  <2>1. i + 1 \in 1..Len(q) /\ r[i] = q[i + 1]
    BY TailElems
  <2> QED
    BY <2>1, ElemTypes
<1>2. ASSUME NEW i \in 1..Len(q), i # 1 PROVE i - 1 \in 1..Len(r) /\ r[i - 1] = q[i]
    BY <1>2, TailElems
<1>3. 1 \in 1..Len(q) /\ q[1] = Head(q) /\ q[1].no \in Nat
  <2>1. 1 \in 1..Len(q) /\ q[1] = Head(q)
    BY TailElems
  <2> QED
    BY <2>1, ElemTypes
<1> HIDE DEF r
<1>4. Head(q).type = "Text" => q[1].no = g + 1
  <2> SUFFICES ASSUME Head(q).type = "Text" PROVE q[1].no = g + 1
    OBVIOUS
  <2>1. q[1].no > g /\ q[1].no <= s
    BY <1>3 DEF TextsFrom
  <2>2. PICK i \in 1..Len(q) : q[i].type = "Text" /\ q[i].no = g + 1
    BY <1>3, <2>1 DEF TextsFrom
  <2>3. i # 1 => q[1].no < q[i].no
    BY <1>3, <2>2 DEF TextsFrom
  <2> QED
    BY <1>3, <2>1, <2>2, <2>3
<1>5. g2 <= s
    BY <1>3, <1>4 DEF TextsFrom
<1>6. ASSUME NEW i \in 1..Len(r), r[i].type = "Text" PROVE r[i].no > g2 /\ r[i].no <= s
  <2>1. i + 1 \in 1..Len(q) /\ q[i + 1].type = "Text" /\ 1 < i + 1
    BY <1>1, <1>6
  <2>2. q[i + 1].no > g /\ q[i + 1].no <= s
    BY <2>1 DEF TextsFrom
  <2>3. Head(q).type = "Text" => q[1].no < q[i + 1].no
    BY <1>3, <2>1 DEF TextsFrom
  <2> QED
    BY <1>1, <1>3, <1>4, <2>2, <2>3
<1>7. ASSUME NEW k \in 1..s, k > g2
      PROVE  \E i \in 1..Len(r) : r[i].type = "Text" /\ r[i].no = k
  <2>1. PICK i \in 1..Len(q) : q[i].type = "Text" /\ q[i].no = k
    BY <1>7 DEF TextsFrom
  <2>2. i # 1
    BY <1>3, <1>4, <1>7, <2>1
  <2> QED
    BY <1>2, <2>1, <2>2
<1>8. ASSUME NEW i \in 1..Len(r), NEW j \in 1..Len(r),
             i < j, r[i].type = "Text", r[j].type = "Text"
      PROVE  r[i].no < r[j].no
  <2>1. /\ i + 1 \in 1..Len(q) /\ j + 1 \in 1..Len(q) /\ i + 1 < j + 1
        /\ q[i + 1].type = "Text" /\ q[j + 1].type = "Text"
    BY <1>1, <1>8
  <2>2. q[i + 1].no < q[j + 1].no
    BY <2>1 DEF TextsFrom
  <2> QED
    BY <1>1, <2>2
<1>9. TextsFrom(r, g2, s)
    BY <1>6, <1>7, <1>8 DEF TextsFrom
<1> QED
    BY <1>5, <1>9 DEF r

\* A channel without texts has delivered them all.
LEMMA TextsFromNone ==
    ASSUME NEW q \in Seq(Frame), NEW g \in Nat, NEW s \in Nat,
           TextsFrom(q, g, s), g <= s, ~Has(q, "Text")
    PROVE  g = s
BY DEF TextsFrom, Has
-----------------------------------------------------------------------------
(* One link: what a step of the sender and of the receiver do to it.       *)

LEMMA TypesAt ==
    ASSUME TypeOK, NEW n \in Node
    PROVE  /\ net[n] \in Seq(Frame)
           /\ got[n] \in Nat /\ opened[n] \in Nat /\ closed[n] \in Nat
           /\ sent[n] \in [FrameType -> Nat]
           /\ sent[n]["Text"] \in Nat /\ sent[n]["System"] \in Nat /\ sent[n]["Close"] \in Nat
<1>1. sent[n] \in [FrameType -> Nat]
    BY DEF TypeOK
<1>2. sent[n]["Text"] \in Nat /\ sent[n]["System"] \in Nat /\ sent[n]["Close"] \in Nat
    BY <1>1 DEF FrameType
<1> QED
    BY <1>1, <1>2 DEF TypeOK

LEMMA CountsAfter ==
    ASSUME TypeOK', NEW n \in Node
    PROVE  got'[n] \in Nat /\ opened'[n] \in Nat /\ closed'[n] \in Nat
BY DEF TypeOK

\* The sender p of n sends f.
LEMMA SendKeepsLink ==
    ASSUME TypeOK, TypeOK', NEW p \in Node, NEW n \in Node, p = Peer(n), NEW f \in Frame,
           Local(p), Link(n),
           net'[n] = Append(net[n], f),
           sent'[p] = [sent[p] EXCEPT ![f.type] = @ + 1],
           opened'[n] = opened[n], closed'[n] = closed[n], got'[n] = got[n],
           f.type = "System" => sent[p]["System"] = 0,
           f.type = "Text" => f.no = sent[p]["Text"] + 1 /\ sent[p]["Close"] = 0
    PROVE  Link(n)'
<1>1. /\ net[n] \in Seq(Frame)
      /\ got[n] \in Nat /\ opened[n] \in Nat /\ closed[n] \in Nat
      /\ sent[p]["Text"] \in Nat /\ sent[p]["System"] \in Nat /\ sent[p]["Close"] \in Nat
    BY TypesAt
<1>2. /\ sent'[p]["Text"] = IF f.type = "Text" THEN sent[p]["Text"] + 1 ELSE sent[p]["Text"]
      /\ sent'[p]["System"] = IF f.type = "System" THEN sent[p]["System"] + 1 ELSE sent[p]["System"]
      /\ sent'[p]["Close"] = IF f.type = "Close" THEN sent[p]["Close"] + 1 ELSE sent[p]["Close"]
  <2>1. f.type \in FrameType /\ {"Text", "System", "Close"} \subseteq FrameType
    BY DEF Frame, FrameType
  <2> QED
    BY <2>1, TypesAt
<1>3. TextsFrom(net'[n], got'[n], sent'[p]["Text"]) /\ got'[n] <= sent'[p]["Text"]
    BY <1>1, <1>2, TextsFromAppend DEF Link
<1>4. NoTextAfterClose(net'[n])
    BY <1>1, NoTextAfterCloseAppend DEF Link
<1>5. /\ Has(net'[n], "Close") => sent'[p]["Close"] > 0
      /\ sent'[p]["Close"] > 0 => closed'[n] > 0 \/ Has(net'[n], "Close")
    BY <1>1, <1>2, HasAppend DEF Link
<1>6. closed'[n] > 0 => sent'[p]["Close"] > 0 /\ got'[n] = sent'[p]["Text"]
    BY <1>1, <1>2 DEF Link
<1>7. /\ AtMostOne(net'[n], "System")
      /\ Has(net'[n], "System") => opened'[n] = 0 /\ sent'[p]["System"] > 0
      /\ opened'[n] > 0 => sent'[p]["System"] > 0
      /\ opened'[n] <= 1
    BY <1>1, <1>2, HasAppend, AtMostOneAppend DEF Link
<1> QED
    BY <1>3, <1>4, <1>5, <1>6, <1>7 DEF Link

\* The receiver n handles the first frame.
LEMMA TakeKeepsLink ==
    ASSUME TypeOK, TypeOK', NEW n \in Node, Link(n),
           net[n] # <<>>, net'[n] = Tail(net[n]), sent'[Peer(n)] = sent[Peer(n)],
           closed[n] = 0,
           opened'[n] = IF Head(net[n]).type = "System" THEN opened[n] + 1 ELSE opened[n],
           closed'[n] = IF Head(net[n]).type = "Close" THEN closed[n] + 1 ELSE closed[n],
           got'[n] = IF Head(net[n]).type = "Text" THEN got[n] + 1 ELSE got[n]
    PROVE  Link(n)'
<1> DEFINE p == Peer(n)
<1>1. /\ net[n] \in Seq(Frame)
      /\ got[n] \in Nat /\ opened[n] \in Nat /\ closed[n] \in Nat
      /\ got'[n] \in Nat /\ opened'[n] \in Nat /\ closed'[n] \in Nat
      /\ p \in Node
      /\ sent[p]["Text"] \in Nat /\ sent[p]["System"] \in Nat /\ sent[p]["Close"] \in Nat
  <2>1. p \in Node
    BY PeerProps
  <2>2. sent[p]["Text"] \in Nat /\ sent[p]["System"] \in Nat /\ sent[p]["Close"] \in Nat
    BY <2>1, TypesAt
  <2>3. /\ net[n] \in Seq(Frame)
        /\ got[n] \in Nat /\ opened[n] \in Nat /\ closed[n] \in Nat
    BY TypesAt
  <2>4. got'[n] \in Nat /\ opened'[n] \in Nat /\ closed'[n] \in Nat
    BY CountsAfter
  <2> QED
    BY <2>1, <2>2, <2>3, <2>4
<1>2. TextsFrom(net'[n], got'[n], sent'[p]["Text"]) /\ got'[n] <= sent'[p]["Text"]
  <2>1. TextsFrom(net[n], got[n], sent[p]["Text"]) /\ got[n] <= sent[p]["Text"]
    BY DEF Link
  <2>2. IF Head(net[n]).type = "Text" THEN got'[n] = got[n] + 1 ELSE got'[n] = got[n]
    OBVIOUS
  <2> DEFINE q == net[n]
             s == sent[p]["Text"]
             g == got[n]
             h == got'[n]
  <2>3. /\ q \in Seq(Frame) /\ q # <<>> /\ g \in Nat /\ s \in Nat /\ h \in Nat
        /\ TextsFrom(q, g, s) /\ g <= s
        /\ IF Head(q).type = "Text" THEN h = g + 1 ELSE h = g
    BY <1>1, <2>1, <2>2
  <2>4. net'[n] = Tail(q) /\ sent'[p]["Text"] = s /\ got'[n] = h
    OBVIOUS
  <2> HIDE DEF q, s, g, h
  <2>5. TextsFrom(Tail(q), h, s) /\ h <= s
    BY ONLY <2>3, TextsFromTail
  <2> QED
    BY <2>4, <2>5
<1>3. NoTextAfterClose(net'[n])
    BY <1>1, NoTextAfterCloseTail DEF Link
<1>4. /\ Has(net'[n], "Close") => sent'[p]["Close"] > 0
      /\ sent'[p]["Close"] > 0 => closed'[n] > 0 \/ Has(net'[n], "Close")
  <2>1. /\ Has(net[n], "Close") => sent[p]["Close"] > 0
        /\ sent[p]["Close"] > 0 => closed[n] > 0 \/ Has(net[n], "Close")
    BY DEF Link
  <2>2. Has(net'[n], "Close") => Has(net[n], "Close")
    BY <1>1, HasTail
  <2>3. Has(net[n], "Close") => Head(net[n]).type = "Close" \/ Has(net'[n], "Close")
    BY <1>1, HasTail
  <2> QED
    BY <1>1, <2>1, <2>2, <2>3
<1>5. closed'[n] > 0 => sent'[p]["Close"] > 0 /\ got'[n] = sent'[p]["Text"]
  <2> SUFFICES ASSUME Head(net[n]).type = "Close"
               PROVE  sent[p]["Close"] > 0 /\ got[n] = sent[p]["Text"]
    BY <1>1
  <2>1. Has(net[n], "Close")
    BY <1>1, HasTail
  <2>2. ~Has(net[n], "Text")
    BY <1>1, NoTextAfterCloseTail DEF Link
  <2> QED
    BY <1>1, <2>1, <2>2, TextsFromNone DEF Link
<1>6. AtMostOne(net'[n], "System")
    BY <1>1, AtMostOneTail DEF Link
<1>7. /\ Has(net'[n], "System") => opened'[n] = 0 /\ sent'[p]["System"] > 0
      /\ opened'[n] > 0 => sent'[p]["System"] > 0
      /\ opened'[n] <= 1
  <2>1. CASE Head(net[n]).type = "System"
    <3>1. Has(net[n], "System") /\ ~Has(net'[n], "System")
      BY <1>1, <2>1, HasTail, AtMostOneTail DEF Link
    <3> QED
      BY <1>1, <2>1, <3>1 DEF Link
  <2>2. CASE Head(net[n]).type # "System"
    BY <1>1, <2>2, HasTail DEF Link
  <2> QED
    BY <2>1, <2>2
<1> QED
    BY <1>2, <1>3, <1>4, <1>5, <1>6, <1>7 DEF Link

\* Nothing the link depends on changes.
LEMMA QuietKeepsLink ==
    ASSUME NEW n \in Node, Link(n),
           net'[n] = net[n], sent'[Peer(n)] = sent[Peer(n)],
           opened'[n] = opened[n], closed'[n] = closed[n], got'[n] = got[n]
    PROVE  Link(n)'
BY DEF Link
-----------------------------------------------------------------------------
(* One step: every action sends, takes a frame, or takes one and sends.    *)

LEMMA BothNodes ==
    ASSUME NEW n \in Node, TypeOK',
           Local(n)', Link(n)', Local(Peer(n))', Link(Peer(n))'
    PROVE  IInv'
BY PeerProps DEF IInv

\* What a step of n leaves alone on the other side.
PeerUntouched(n) ==
    /\ state'[Peer(n)] = state[Peer(n)]
    /\ opened'[Peer(n)] = opened[Peer(n)]
    /\ closed'[Peer(n)] = closed[Peer(n)]
    /\ got'[Peer(n)] = got[Peer(n)]
    /\ quit'[Peer(n)] = quit[Peer(n)]

\* What the first frame adds to the counters of its receiver.
Counted(n) ==
    /\ opened'[n] = IF Head(net[n]).type = "System" THEN opened[n] + 1 ELSE opened[n]
    /\ closed'[n] = IF Head(net[n]).type = "Close" THEN closed[n] + 1 ELSE closed[n]
    /\ got'[n] = IF Head(net[n]).type = "Text" THEN got[n] + 1 ELSE got[n]

\* The conditions under which n may send f.
MayEmit(n, f) ==
    /\ f.type = "System" => sent[n]["System"] = 0
    /\ f.type = "Text" => f.no = sent[n]["Text"] + 1 /\ sent[n]["Close"] = 0

LEMMA SendStep ==
    ASSUME IInv, TypeOK', NEW n \in Node, NEW f \in Frame, SendFrame(n, f),
           MayEmit(n, f), PeerUntouched(n), UNCHANGED <<opened, closed, got>>, Local(n)'
    PROVE  IInv'
<1> DEFINE p == Peer(n)
<1>1. p \in Node /\ n = Peer(p) /\ Local(n) /\ Local(p) /\ Link(n) /\ Link(p) /\ TypeOK
    BY PeerProps DEF IInv
<1>2. /\ net'[n] = net[n] /\ net'[p] = Append(net[p], f)
      /\ sent'[n] = [sent[n] EXCEPT ![f.type] = @ + 1] /\ sent'[p] = sent[p]
    BY <1>1, SendFrameFacts
<1>3. Link(p)'
    BY <1>1, <1>2, SendKeepsLink DEF MayEmit
<1>4. Link(n)'
    BY <1>1, <1>2, QuietKeepsLink
<1>5. Local(p)'
    BY <1>1, <1>2 DEF Local, PeerUntouched
<1> QED
    BY <1>3, <1>4, <1>5, BothNodes

LEMMA TakeStep ==
    ASSUME IInv, TypeOK', NEW n \in Node, net[n] # <<>>, closed[n] = 0, Consume(n),
           PeerUntouched(n), Counted(n), Local(n)'
    PROVE  IInv'
<1> DEFINE p == Peer(n)
<1>1. p \in Node /\ n = Peer(p) /\ Local(n) /\ Local(p) /\ Link(n) /\ Link(p) /\ TypeOK
    BY PeerProps DEF IInv
<1>2. net'[n] = Tail(net[n]) /\ net'[p] = net[p] /\ sent' = sent
    BY <1>1, ConsumeFacts
<1>3. Link(n)'
    BY <1>1, <1>2, TakeKeepsLink DEF Counted
<1>4. Link(p)'
    BY <1>1, <1>2, QuietKeepsLink DEF PeerUntouched
<1>5. Local(p)'
    BY <1>1, <1>2 DEF Local, PeerUntouched
<1> QED
    BY <1>3, <1>4, <1>5, BothNodes

LEMMA ReplyStep ==
    ASSUME IInv, TypeOK', NEW n \in Node, net[n] # <<>>, closed[n] = 0,
           NEW f \in Frame, Reply(n, f), MayEmit(n, f),
           PeerUntouched(n), Counted(n), Local(n)'
    PROVE  IInv'
<1> DEFINE p == Peer(n)
<1>1. p \in Node /\ n = Peer(p) /\ Local(n) /\ Local(p) /\ Link(n) /\ Link(p) /\ TypeOK
    BY PeerProps DEF IInv
<1>2. /\ net'[n] = Tail(net[n]) /\ net'[p] = Append(net[p], f)
      /\ sent'[n] = [sent[n] EXCEPT ![f.type] = @ + 1] /\ sent'[p] = sent[p]
    BY <1>1, ReplyFacts
<1>3. Link(n)'
    BY <1>1, <1>2, TakeKeepsLink DEF Counted
<1>4. Link(p)'
    BY <1>1, <1>2, SendKeepsLink DEF MayEmit, PeerUntouched
<1>5. Local(p)'
    BY <1>1, <1>2 DEF Local, PeerUntouched
<1> QED
    BY <1>3, <1>4, <1>5, BothNodes
-----------------------------------------------------------------------------
(* Every call of the application and every frame keeps the invariant.      *)

LEMMA FrameFields ==
    /\ CloseFrame \in Frame /\ CloseFrame.type = "Close"
    /\ BinaryFrame \in Frame /\ BinaryFrame.type = "Binary"
    /\ PingFrame \in Frame /\ PingFrame.type = "Ping"
    /\ PongFrame \in Frame /\ PongFrame.type = "Pong"
    /\ OtherFrame \in Frame /\ OtherFrame.type = "Other"
    /\ \A names \in SUBSET Codec :
          SystemFrame(names) \in Frame /\ SystemFrame(names).type = "System"
    /\ \A enc \in CompressType, no \in Nat :
          /\ TextFrame(enc, no) \in Frame
          /\ TextFrame(enc, no).type = "Text"
          /\ TextFrame(enc, no).no = no
<1>1. 0 \in Nat /\ "None" \in CompressType /\ {} \in SUBSET Codec
    BY DEF CompressType
<1> QED
    BY <1>1, FrameTypes
    DEF Basic, CloseFrame, BinaryFrame, PingFrame, PongFrame, OtherFrame, SystemFrame, TextFrame

\* The counters of n after it has sent f.
LEMMA SentAfter ==
    ASSUME TypeOK, NEW n \in Node, NEW f \in Frame, SendFrame(n, f) \/ (net[n] # <<>> /\ Reply(n, f))
    PROVE  \A t \in {"System", "Text", "Close"} :
              /\ sent[n][t] \in Nat
              /\ sent'[n][t] = IF f.type = t THEN sent[n][t] + 1 ELSE sent[n][t]
<1>1. sent'[n] = [sent[n] EXCEPT ![f.type] = @ + 1]
    BY SendFrameFacts, ReplyFacts
<1>2. f.type \in FrameType /\ {"System", "Text", "Close"} \subseteq FrameType
    BY DEF Frame, FrameType
<1> QED
    BY <1>1, <1>2, TypesAt

LEMMA CallKeepsIInv ==
    ASSUME IInv, NEW n \in Node, Call(n)
    PROVE  IInv'
<1>1. /\ TypeOK /\ Local(n) /\ TypeOK'
      /\ Peer(n) \in Node /\ Peer(n) # n
      /\ opened[n] \in Nat /\ closed[n] \in Nat
    BY PeerProps, CallTypeOK, TypesAt DEF IInv
<1>2. CASE Handshake(n)
  <2> DEFINE f == SystemFrame(Registered[n])
  <2>1. f \in Frame /\ f.type = "System"
    BY FrameFields, ConstantTypes DEF ConstantTypes
  <2>2. SendFrame(n, f) /\ UNCHANGED <<opened, closed, got, quit>>
    BY <1>2 DEF Handshake
  <2>3. state'[n] = "Connecting" /\ state'[Peer(n)] = state[Peer(n)]
    BY <1>1, <1>2 DEF Handshake, TypeOK
  <2>4. MayEmit(n, f) /\ PeerUntouched(n)
    BY <1>2, <2>1, <2>2, <2>3 DEF Handshake, MayHandshake, MayEmit, PeerUntouched
  <2>5. Local(n)'
    BY <1>1, <1>2, <2>1, <2>2, <2>3, SentAfter DEF Handshake, MayHandshake, Local
  <2> QED
    BY <1>1, <2>1, <2>2, <2>4, <2>5, SendStep
<1>3. CASE Close(n) \/ SendTextFails(n)
  <2>1. /\ SendFrame(n, CloseFrame) /\ closed[n] = 0 /\ UNCHANGED <<opened, closed, got>>
    BY <1>3 DEF Close, SendTextFails, MayClose, MaySend
  <2>2. /\ state'[n] = "Closing" /\ state'[Peer(n)] = state[Peer(n)]
        /\ quit'[n] = TRUE /\ quit'[Peer(n)] = quit[Peer(n)]
    BY <1>1, <1>3 DEF Close, SendTextFails, TypeOK
  <2>3. MayEmit(n, CloseFrame) /\ PeerUntouched(n)
    BY <2>1, <2>2, FrameFields DEF MayEmit, PeerUntouched
  <2>4. Local(n)'
    BY <1>1, <2>1, <2>2, FrameFields, SentAfter DEF Local
  <2> QED
    BY <1>1, <2>1, <2>3, <2>4, FrameFields, SendStep
<1>4. CASE SendText(n)
  <2> DEFINE f == TextFrame(codec[n], sent[n]["Text"] + 1)
  <2>1. f \in Frame /\ f.type = "Text" /\ f.no = sent[n]["Text"] + 1
    <3>1. codec[n] \in CompressType
      BY <1>1 DEF TypeOK
    <3>2. sent[n]["Text"] + 1 \in Nat
      BY <1>1, TypesAt
    <3> QED
      BY <3>1, <3>2, FrameFields
  <2>2. SendFrame(n, f) /\ UNCHANGED <<state, opened, closed, got, quit>>
    BY <1>4 DEF SendText
  <2>3. sent[n]["Close"] = 0
    BY <1>1, <1>4, TypesAt DEF SendText, MaySend, Local
  <2>4. MayEmit(n, f) /\ PeerUntouched(n)
    BY <2>1, <2>2, <2>3 DEF MayEmit, PeerUntouched
  <2>5. Local(n)'
    BY <1>1, <2>1, <2>2, SentAfter DEF Local
  <2> QED
    BY <1>1, <2>1, <2>2, <2>4, <2>5, SendStep
<1>5. CASE SendBinary(n) \/ Ping(n) \/ Pong(n) \/ SendOther(n)
  <2>1. PICK f \in {BinaryFrame, PingFrame, PongFrame, OtherFrame} : SendFrame(n, f)
    BY <1>5 DEF SendBinary, Ping, Pong, SendOther
  <2>2. f \in Frame /\ f.type \notin {"System", "Text", "Close"}
    BY <2>1, FrameFields
  <2>3. UNCHANGED <<state, opened, closed, got, quit>>
    BY <1>5 DEF SendBinary, Ping, Pong, SendOther
  <2>4. MayEmit(n, f) /\ PeerUntouched(n)
    BY <2>2, <2>3 DEF MayEmit, PeerUntouched
  <2>5. Local(n)'
    BY <1>1, <2>1, <2>2, <2>3, SentAfter DEF Local
  <2> QED
    BY <1>1, <2>1, <2>2, <2>3, <2>4, <2>5, SendStep
<1> QED
    BY <1>2, <1>3, <1>4, <1>5 DEF Call
LEMMA OnFrameKeepsIInv ==
    ASSUME IInv, NEW n \in Node, OnFrame(n)
    PROVE  IInv'
<1>1. /\ TypeOK /\ Local(n) /\ TypeOK'
      /\ Peer(n) \in Node /\ Peer(n) # n
      /\ opened[n] \in Nat /\ closed[n] \in Nat
    BY PeerProps, OnFrameTypeOK, TypesAt DEF IInv
<1>2. ASSUME NEW t, Handles(n, t)
      PROVE  net[n] # <<>> /\ Head(net[n]).type = t /\ closed[n] = 0 /\ state[n] # "Closed"
    BY <1>1, <1>2 DEF Handles, Local
<1>3. CASE OnSystemFrame(n)
  <2>1. PICK c \in NegotiatedCodecs(n, Head(net[n]).names) :
          IF state[n] = "Init"
          THEN Reply(n, SystemFrame(GetSupportedCompressors(n, {c})))
          ELSE Consume(n)
    BY <1>3 DEF OnSystemFrame
  <2> DEFINE f == SystemFrame(GetSupportedCompressors(n, {c}))
  <2>2. f \in Frame /\ f.type = "System"
    BY CodecTypes, FrameFields
  <2>3. /\ net[n] # <<>> /\ Head(net[n]).type = "System" /\ closed[n] = 0
        /\ UNCHANGED <<closed, got, quit>>
    BY <1>2, <1>3 DEF OnSystemFrame
  <2>4. /\ state'[n] = "Connected" /\ opened'[n] = opened[n] + 1
        /\ state'[Peer(n)] = state[Peer(n)] /\ opened'[Peer(n)] = opened[Peer(n)]
    BY <1>1, <1>3 DEF OnSystemFrame, TypeOK
  <2>5. PeerUntouched(n) /\ Counted(n)
    BY <2>3, <2>4 DEF PeerUntouched, Counted
  <2>6. CASE state[n] = "Init"
    <3>1. MayEmit(n, f)
      BY <1>1, <2>2, <2>6 DEF MayEmit, Local
    <3>2. Local(n)'
      BY <1>1, <2>1, <2>2, <2>3, <2>4, <2>6, SentAfter DEF Local
    <3> QED
      BY <1>1, <2>1, <2>2, <2>3, <2>5, <2>6, <3>1, <3>2, ReplyStep
  <2>7. CASE state[n] # "Init"
    <3>1. sent' = sent
      BY <2>1, <2>7 DEF Consume
    <3>2. Local(n)'
      BY <1>1, <2>3, <2>4, <2>7, <3>1 DEF Local
    <3> QED
      BY <1>1, <2>1, <2>3, <2>5, <2>7, <3>2, TakeStep
  <2> QED
    BY <2>6, <2>7
<1>4. CASE OnSystemFrameRejected(n)
  <2>1. /\ net[n] # <<>> /\ Head(net[n]).type = "System" /\ closed[n] = 0
        /\ Reply(n, CloseFrame) /\ UNCHANGED <<closed, got>>
    BY <1>2, <1>4 DEF OnSystemFrameRejected
  <2>2. /\ state'[n] = "Connected" /\ opened'[n] = opened[n] + 1 /\ quit'[n] = TRUE
        /\ state'[Peer(n)] = state[Peer(n)] /\ opened'[Peer(n)] = opened[Peer(n)]
        /\ quit'[Peer(n)] = quit[Peer(n)]
    BY <1>1, <1>4 DEF OnSystemFrameRejected, TypeOK
  <2>3. PeerUntouched(n) /\ Counted(n) /\ MayEmit(n, CloseFrame)
    BY <2>1, <2>2, FrameFields DEF PeerUntouched, Counted, MayEmit
  <2>4. Local(n)'
    BY <1>1, <2>1, <2>2, FrameFields, SentAfter DEF Local
  <2> QED
    BY <1>1, <2>1, <2>3, <2>4, FrameFields, ReplyStep
<1>5. ASSUME NEW t \in {"Text", "Binary", "Pong", "Other"}, Handles(n, t), Consume(n),
             UNCHANGED <<state, opened, closed, quit>>, PeerUntouched(n), Counted(n)
      PROVE  IInv'
  <2>1. net[n] # <<>> /\ closed[n] = 0 /\ sent' = sent
    BY <1>2, <1>5 DEF Consume
  <2>2. Local(n)'
    BY <1>1, <1>5, <2>1 DEF Local
  <2> QED
    BY <1>5, <1>1, <2>1, <2>2, TakeStep
<1>6. CASE OnTextFrame(n)
  <2>1. Handles(n, "Text") /\ Consume(n) /\ UNCHANGED <<state, opened, closed, quit>>
    BY <1>6 DEF OnTextFrame, OnDataFrame
  <2>2. got'[n] = got[n] + 1 /\ got'[Peer(n)] = got[Peer(n)]
    BY <1>1, <1>6 DEF OnTextFrame, TypeOK
  <2>3. PeerUntouched(n) /\ Counted(n)
    BY <1>2, <2>1, <2>2 DEF PeerUntouched, Counted
  <2> QED
    BY <1>5, <2>1, <2>3
<1>7. CASE OnBinaryFrame(n) \/ OnPongFrame(n) \/ OnOtherFrame(n)
  <2>1. PICK t \in {"Binary", "Pong", "Other"} : Handles(n, t)
    BY <1>7 DEF OnBinaryFrame, OnDataFrame, OnPongFrame, OnOtherFrame
  <2>2. Consume(n) /\ UNCHANGED <<state, opened, closed, quit, got>>
    BY <1>7 DEF OnBinaryFrame, OnDataFrame, OnPongFrame, OnOtherFrame
  <2>3. PeerUntouched(n) /\ Counted(n)
    BY <1>2, <2>1, <2>2 DEF PeerUntouched, Counted
  <2> QED
    BY <1>5, <2>1, <2>2, <2>3
<1>8. CASE OnCloseFrame(n)
  <2>1. /\ net[n] # <<>> /\ Head(net[n]).type = "Close" /\ closed[n] = 0
        /\ UNCHANGED <<opened, got, quit>>
    BY <1>2, <1>8 DEF OnCloseFrame
  <2>2. /\ state'[n] = "Closed" /\ closed'[n] = closed[n] + 1
        /\ state'[Peer(n)] = state[Peer(n)] /\ closed'[Peer(n)] = closed[Peer(n)]
    BY <1>1, <1>8 DEF OnCloseFrame, TypeOK
  <2>3. PeerUntouched(n) /\ Counted(n) /\ MayEmit(n, CloseFrame)
    BY <2>1, <2>2, FrameFields DEF PeerUntouched, Counted, MayEmit
  <2>4. CASE state[n] # "Closing" /\ Reply(n, CloseFrame)
    <3>1. Local(n)'
      BY <1>1, <2>1, <2>2, <2>4, FrameFields, SentAfter DEF Local
    <3> QED
      BY <1>1, <2>1, <2>3, <2>4, <3>1, FrameFields, ReplyStep
  <2>5. CASE state[n] = "Closing" /\ Consume(n)
    <3>1. Local(n)'
      BY <1>1, <2>1, <2>2, <2>5 DEF Local, Consume
    <3> QED
      BY <1>1, <2>1, <2>3, <2>5, <3>1, TakeStep
  <2> QED
    BY <1>8, <2>4, <2>5 DEF OnCloseFrame
<1>9. CASE OnPingFrame(n)
  <2>1. /\ net[n] # <<>> /\ Head(net[n]).type = "Ping" /\ closed[n] = 0
        /\ Reply(n, PongFrame) /\ UNCHANGED <<state, opened, closed, got, quit>>
    BY <1>2, <1>9 DEF OnPingFrame
  <2>2. PeerUntouched(n) /\ Counted(n) /\ MayEmit(n, PongFrame)
    BY <2>1, FrameFields DEF PeerUntouched, Counted, MayEmit
  <2>3. Local(n)'
    BY <1>1, <2>1, FrameFields, SentAfter DEF Local
  <2> QED
    BY <1>1, <2>1, <2>2, <2>3, FrameFields, ReplyStep
<1> QED
    BY <1>3, <1>4, <1>6, <1>7, <1>8, <1>9 DEF OnFrame

LEMMA InitIInv == Init => IInv
<1> SUFFICES ASSUME Init PROVE IInv
    OBVIOUS
<1>1. ASSUME NEW n \in Node PROVE Local(n)
    BY DEF Init, Local, FrameType
<1>2. ASSUME NEW n \in Node PROVE Link(n)
  <2>1. /\ Peer(n) \in Node /\ net[n] = <<>> /\ got[n] = 0 /\ closed[n] = 0 /\ opened[n] = 0
        /\ \A t \in {"System", "Text", "Close"} : sent[Peer(n)][t] = 0
    BY PeerProps DEF Init, FrameType
  <2> QED
    BY <2>1 DEF Link, TextsFrom, NoTextAfterClose, AtMostOne, Has
<1> QED
    BY <1>1, <1>2, InitTypeOK DEF IInv

\* IInv is an inductive invariant.
THEOREM Inductive == Spec => []IInv
<1>1. IInv /\ [Next]_vars => IInv'
  <2> SUFFICES ASSUME IInv, [Next]_vars PROVE IInv'
    OBVIOUS
  <2>1. CASE Next
    BY <2>1, CallKeepsIInv, OnFrameKeepsIInv DEF Next
  <2>2. CASE UNCHANGED vars
    BY <2>2 DEF IInv, TypeOK, Local, Link, vars
  <2> QED
    BY <2>1, <2>2
<1> QED
    BY InitIInv, <1>1, PTL DEF Spec

-----------------------------------------------------------------------------
(* What the invariant says of the connection.                              *)

(* The asserts of Handshake, SendText, SendBinary and Close never fire.    *)
THEOREM AssertsHoldAlways == Spec => []AssertsHold
<1>1. IInv => AssertsHold
  <2> SUFFICES ASSUME IInv, NEW n \in Node
               PROVE  /\ MayHandshake(n) => state[n] = "Init"
                      /\ MaySend(n) => state[n] = "Connected"
                      /\ MayClose(n) => state[n] # "Closed"
    BY DEF AssertsHold
  <2>1. /\ Local(n) /\ state[n] \in State
        /\ opened[n] \in Nat /\ closed[n] \in Nat /\ sent[n]["System"] \in Nat
    BY TypesAt DEF IInv, TypeOK
  <2> QED
    BY <2>1 DEF State, Local, MayHandshake, MaySend, MayClose
<1> QED
    BY Inductive, <1>1, PTL

(* OnConnected and OnClose are called at most once.                        *)
THEOREM CallbacksOnceAlways == Spec => []CallbacksOnce
<1>1. IInv => CallbacksOnce
    BY DEF IInv, Local, Link, CallbacksOnce
<1> QED
    BY Inductive, <1>1, PTL

(* A closed context leaves its peer closed or with a Close frame to read.  *)
THEOREM CloseReachesPeerAlways == Spec => []CloseReachesPeer
<1>1. IInv => CloseReachesPeer
  <2> SUFFICES ASSUME IInv, NEW n \in Node, state[n] = "Closed"
               PROVE  state[Peer(n)] = "Closed" \/ InFlight(Peer(n), "Close")
    BY DEF CloseReachesPeer
  <2>1. Peer(n) \in Node /\ Peer(Peer(n)) = n /\ Local(n) /\ Local(Peer(n)) /\ Link(Peer(n))
    BY PeerProps DEF IInv
  <2> QED
    BY <2>1 DEF Local, Link, Has, InFlight
<1> QED
    BY Inductive, <1>1, PTL

(* When OnClose is called, every text of the other side has been handled.  *)
THEOREM CloseFlushesTextsAlways == Spec => []CloseFlushesTexts
<1>1. IInv => CloseFlushesTexts
    BY DEF IInv, Local, Link, CloseFlushesTexts
<1> QED
    BY Inductive, <1>1, PTL
=============================================================================
