---------------------------- MODULE StreamProofs ----------------------------
(***************************************************************************)
(* Proof that a pair of WSocketContexts implements DuplexStream: every     *)
(* step of the contexts is a step of the stream their applications see, or *)
(* none of their concern.                                                  *)
(***************************************************************************)
EXTENDS WSocketContextProofs

-----------------------------------------------------------------------------
(* A text is not handed over before OnConnected: in the channel there is a *)
(* System frame before it.  IInv does not say so.                          *)

SystemFirst(q) ==
    \A i \in 1..Len(q) : q[i].type = "Text" => \E j \in 1..i - 1 : q[j].type = "System"

Opening(n) ==
    /\ opened[n] > 0 /\ ~quit[n] => sent[n]["System"] > 0
    /\ sent[Peer(n)]["System"] > 0 => opened[n] > 0 \/ Has(net[n], "System")
    /\ opened[n] = 0 => SystemFirst(net[n])

Opens == \A n \in Node : Opening(n)

LEMMA SystemFirstAppend ==
    ASSUME NEW q \in Seq(Frame), NEW f \in Frame, SystemFirst(q), f.type = "Text" => Has(q, "System")
    PROVE  SystemFirst(Append(q, f))
<1>1. ASSUME NEW i \in 1..Len(Append(q, f)), Append(q, f)[i].type = "Text"
      PROVE  \E j \in 1..i - 1 : Append(q, f)[j].type = "System"
  <2>1. CASE i \in 1..Len(q)
    <3>1. PICK j \in 1..i - 1 : q[j].type = "System"
      BY <1>1, <2>1, AppendElems DEF SystemFirst
    <3>2. j \in 1..Len(q)
      BY <2>1, AppendElems
    <3> QED
      BY <3>1, <3>2, AppendElems
  <2>2. CASE i = Len(q) + 1
    <3>1. PICK j \in 1..Len(q) : q[j].type = "System"
      BY <1>1, <2>2, AppendElems DEF Has
    <3>2. j \in 1..i - 1 /\ Append(q, f)[j].type = "System"
      BY <2>2, <3>1, AppendElems
    <3> QED
      BY <3>2
  <2> QED
    BY <2>1, <2>2, AppendElems
<1> QED
    BY <1>1 DEF SystemFirst

LEMMA SystemFirstTail ==
    ASSUME NEW q \in Seq(Frame), q # <<>>, SystemFirst(q)
    PROVE  /\ Head(q).type # "Text"
           /\ Head(q).type # "System" => SystemFirst(Tail(q))
<1>1. Head(q).type # "Text"
  <2>1. 1 \in 1..Len(q) /\ Head(q) = q[1] /\ 1..1 - 1 = {}
    BY TailElems
  <2> QED
    BY <2>1 DEF SystemFirst
<1>2. ASSUME Head(q).type # "System", NEW i \in 1..Len(Tail(q)), Tail(q)[i].type = "Text"
      PROVE  \E j \in 1..i - 1 : Tail(q)[j].type = "System"
  <2>1. i + 1 \in 1..Len(q) /\ Tail(q)[i] = q[i + 1] /\ (i + 1) - 1 = i
    BY TailElems
  <2>2. PICK j \in 1..i : q[j].type = "System"
    BY <1>2, <2>1 DEF SystemFirst
  <2>3. j # 1
    BY <1>2, <2>2, TailElems
  <2>4. j - 1 \in 1..i - 1 /\ j - 1 \in 1..Len(q) - 1 /\ (j - 1) + 1 = j
    BY <2>3, TailElems
  <2>5. Tail(q)[j - 1] = q[j]
    BY <2>4, TailElems
  <2> QED
    BY <2>2, <2>4, <2>5
<1> QED
    BY <1>1, <1>2 DEF SystemFirst

-----------------------------------------------------------------------------
(* What a step does to Opening on each side.                               *)

\* The peer p of n sends f, and n does nothing.
LEMMA SendKeepsOpening ==
    ASSUME TypeOK, NEW p \in Node, NEW n \in Node, p = Peer(n), NEW f \in Frame, Opening(n),
           net'[n] = Append(net[n], f), sent'[p] = [sent[p] EXCEPT ![f.type] = @ + 1],
           sent'[n] = sent[n], opened'[n] = opened[n], quit'[n] = quit[n],
           f.type = "Text" => sent[p]["System"] > 0
    PROVE  Opening(n)'
<1>1. net[n] \in Seq(Frame) /\ opened[n] \in Nat /\ sent[p]["System"] \in Nat
    BY TypesAt
<1>2. sent'[p]["System"] = IF f.type = "System" THEN sent[p]["System"] + 1 ELSE sent[p]["System"]
    BY TypesAt DEF Frame, FrameType
<1>3. Has(net'[n], "System") <=> Has(net[n], "System") \/ f.type = "System"
    BY <1>1, HasAppend
<1>4. ASSUME opened[n] = 0 PROVE SystemFirst(net'[n])
    BY <1>1, <1>4, SystemFirstAppend DEF Opening
<1> QED
    BY <1>1, <1>2, <1>3, <1>4 DEF Opening

\* n takes its first frame.
LEMMA TakeKeepsOpening ==
    ASSUME TypeOK, NEW n \in Node, Opening(n), net[n] # <<>>, net'[n] = Tail(net[n]),
           opened'[n] = IF Head(net[n]).type = "System" THEN opened[n] + 1 ELSE opened[n],
           sent'[Peer(n)] = sent[Peer(n)],
           opened'[n] > 0 /\ ~quit'[n] => sent'[n]["System"] > 0
    PROVE  Opening(n)'
<1>1. net[n] \in Seq(Frame) /\ opened[n] \in Nat
    BY TypesAt
<1>2. Has(net[n], "System") <=> Head(net[n]).type = "System" \/ Has(net'[n], "System")
    BY <1>1, HasTail
<1>3. CASE Head(net[n]).type = "System"
    BY <1>1, <1>3 DEF Opening
<1>4. CASE Head(net[n]).type # "System"
  <2>1. opened[n] = 0 => SystemFirst(net'[n])
    BY <1>1, <1>4, SystemFirstTail DEF Opening
  <2> QED
    BY <1>1, <1>2, <1>4, <2>1 DEF Opening
<1> QED
    BY <1>3, <1>4

\* n sends a frame, or does nothing.
LEMMA QuietKeepsOpening ==
    ASSUME NEW n \in Node, Opening(n), net'[n] = net[n], opened'[n] = opened[n],
           sent'[Peer(n)] = sent[Peer(n)],
           opened'[n] > 0 /\ ~quit'[n] => sent'[n]["System"] > 0
    PROVE  Opening(n)'
BY DEF Opening, SystemFirst, Has

-----------------------------------------------------------------------------
(* One step, seen from both sides.                                         *)

\* An application that is connected and goes on has sent its System frame.
Answered(n) == opened[n] > 0 /\ ~quit[n] => sent[n]["System"] > 0

LEMMA SendOpens ==
    ASSUME IInv, Opens, NEW n \in Node, NEW f \in Frame, SendFrame(n, f),
           f.type = "Text" => sent[n]["System"] > 0, PeerUntouched(n),
           opened'[n] = opened[n], Answered(n)'
    PROVE  Opens'
<1> DEFINE p == Peer(n)
<1>1. p \in Node /\ n = Peer(p) /\ TypeOK /\ Opening(n) /\ Opening(p) /\ \A m \in Node : m = n \/ m = p
    BY PeerProps DEF IInv, Opens
<1>2. /\ net'[n] = net[n] /\ net'[p] = Append(net[p], f)
      /\ sent'[n] = [sent[n] EXCEPT ![f.type] = @ + 1] /\ sent'[p] = sent[p]
    BY <1>1, SendFrameFacts
<1>3. Opening(p)'
    BY <1>1, <1>2, SendKeepsOpening DEF PeerUntouched
<1>4. Opening(n)'
    BY <1>1, <1>2, QuietKeepsOpening DEF Answered
<1> QED
    BY <1>1, <1>3, <1>4 DEF Opens

LEMMA TakeOpens ==
    ASSUME IInv, Opens, NEW n \in Node, net[n] # <<>>, Consume(n), PeerUntouched(n), Counted(n),
           Answered(n)'
    PROVE  Opens'
<1> DEFINE p == Peer(n)
<1>1. p \in Node /\ n = Peer(p) /\ TypeOK /\ Opening(n) /\ Opening(p) /\ \A m \in Node : m = n \/ m = p
    BY PeerProps DEF IInv, Opens
<1>2. net'[n] = Tail(net[n]) /\ net'[p] = net[p] /\ sent' = sent
    BY <1>1, ConsumeFacts
<1>3. Opening(n)'
    BY <1>1, <1>2, TakeKeepsOpening DEF Answered, Counted
<1>4. Opening(p)'
  <2>1. opened'[p] > 0 /\ ~quit'[p] => sent'[p]["System"] > 0
    BY <1>1, <1>2 DEF Opening, PeerUntouched
  <2> QED
    BY <1>1, <1>2, <2>1, QuietKeepsOpening DEF PeerUntouched
<1> QED
    BY <1>1, <1>3, <1>4 DEF Opens

LEMMA ReplyOpens ==
    ASSUME IInv, Opens, NEW n \in Node, net[n] # <<>>, NEW f \in Frame, f.type # "Text", Reply(n, f),
           PeerUntouched(n), Counted(n), Answered(n)'
    PROVE  Opens'
<1> DEFINE p == Peer(n)
<1>1. p \in Node /\ n = Peer(p) /\ TypeOK /\ Opening(n) /\ Opening(p) /\ \A m \in Node : m = n \/ m = p
    BY PeerProps DEF IInv, Opens
<1>2. /\ net'[n] = Tail(net[n]) /\ net'[p] = Append(net[p], f)
      /\ sent'[n] = [sent[n] EXCEPT ![f.type] = @ + 1] /\ sent'[p] = sent[p]
    BY <1>1, ReplyFacts
<1>3. Opening(n)'
    BY <1>1, <1>2, TakeKeepsOpening DEF Answered, Counted
<1>4. Opening(p)'
    BY <1>1, <1>2, SendKeepsOpening DEF PeerUntouched
<1> QED
    BY <1>1, <1>3, <1>4 DEF Opens

-----------------------------------------------------------------------------
(* The actions of the stream.                                              *)

\* What n's counters say to its application.
Seen(m) ==
    /\ opened'[m] = opened[m] /\ closed'[m] = closed[m] /\ got'[m] = got[m]
    /\ sent'[m]["Text"] = sent[m]["Text"]
    /\ sent'[m]["Close"] > 0 <=> sent[m]["Close"] > 0

LEMMA Stutters ==
    ASSUME TypeOK, TypeOK', \A m \in Node : Seen(m)
    PROVE  UNCHANGED Stream!vars
<1>1. [n \in Node |-> Phase(n)]' = [n \in Node |-> Phase(n)]
    BY DEF Seen, Phase
<1>2. [n \in Node |-> sent[n]["Close"] > 0]' = [n \in Node |-> sent[n]["Close"] > 0]
    BY DEF Seen
<1>3. [n \in Node |-> sent[n]["Text"]]' = [n \in Node |-> sent[n]["Text"]]
    BY DEF Seen
<1>4. got' = got
    BY DEF Seen, TypeOK
<1> QED
    BY <1>1, <1>2, <1>3, <1>4 DEF Stream!vars

LEMMA Sends ==
    ASSUME TypeOK, TypeOK', NEW n \in Node, opened[n] > 0, closed[n] = 0, sent[n]["Close"] = 0,
           sent'[n]["Text"] = sent[n]["Text"] + 1, sent'[n]["Close"] = 0,
           opened' = opened, closed' = closed, got' = got,
           \A m \in Node : m # n => Seen(m)
    PROVE  Stream!Send(n)
<1>1. [m \in Node |-> Phase(m)]' = [m \in Node |-> Phase(m)] /\ Phase(n) = "open"
    BY DEF Seen, Phase
<1>2. [m \in Node |-> sent[m]["Close"] > 0]' = [m \in Node |-> sent[m]["Close"] > 0]
    BY DEF Seen
<1>3. [m \in Node |-> sent[m]["Text"]]' = [[m \in Node |-> sent[m]["Text"]] EXCEPT ![n] = @ + 1]
    BY DEF Seen
<1>4. ~(sent[n]["Close"] > 0)
    OBVIOUS
<1> QED
    BY <1>1, <1>2, <1>3, <1>4 DEF Stream!Send

\* stopped' when n has sent a Close, and when it has not.
LEMMA StopsThen ==
    ASSUME NEW n \in Node, \A m \in Node : m # n => Seen(m)
    PROVE  /\ sent'[n]["Close"] > 0 =>
                  [m \in Node |-> sent[m]["Close"] > 0]'
                      = [[m \in Node |-> sent[m]["Close"] > 0] EXCEPT ![n] = TRUE]
           /\ (sent'[n]["Close"] > 0 <=> sent[n]["Close"] > 0) =>
                  [m \in Node |-> sent[m]["Close"] > 0]' = [m \in Node |-> sent[m]["Close"] > 0]
<1>1. ASSUME NEW m \in Node, m # n PROVE sent'[m]["Close"] > 0 <=> sent[m]["Close"] > 0
    BY <1>1 DEF Seen
<1>2. ASSUME sent'[n]["Close"] > 0
      PROVE  [m \in Node |-> sent[m]["Close"] > 0]'
                 = [[m \in Node |-> sent[m]["Close"] > 0] EXCEPT ![n] = TRUE]
  <2>1. ASSUME NEW m \in Node
        PROVE  (sent'[m]["Close"] > 0) = (IF m = n THEN TRUE ELSE sent[m]["Close"] > 0)
    <3>1. CASE m = n
      BY <1>2, <3>1
    <3>2. CASE m # n
      BY <1>1, <3>2
    <3> QED
      BY <3>1, <3>2
  <2> QED
    BY <2>1, Zenon
<1>3. ASSUME sent'[n]["Close"] > 0 <=> sent[n]["Close"] > 0
      PROVE  [m \in Node |-> sent[m]["Close"] > 0]' = [m \in Node |-> sent[m]["Close"] > 0]
    BY <1>1, <1>3
<1> QED
    BY <1>2, <1>3

LEMMA Stops ==
    ASSUME TypeOK, TypeOK', NEW n \in Node, closed[n] = 0, sent'[n]["Close"] > 0,
           opened' = opened, closed' = closed, got' = got, sent'[n]["Text"] = sent[n]["Text"],
           \A m \in Node : m # n => Seen(m)
    PROVE  Stream!Stop(n)
<1>1. [m \in Node |-> Phase(m)]' = [m \in Node |-> Phase(m)] /\ Phase(n) # "done"
    BY DEF Phase
<1>2. [m \in Node |-> sent[m]["Text"]]' = [m \in Node |-> sent[m]["Text"]]
    BY DEF Seen
<1>3. [m \in Node |-> sent[m]["Close"] > 0]' = [[m \in Node |-> sent[m]["Close"] > 0] EXCEPT ![n] = TRUE]
    BY StopsThen
<1> QED
    BY <1>1, <1>2, <1>3 DEF Stream!Stop

LEMMA Opened ==
    ASSUME TypeOK, TypeOK', NEW n \in Node, opened[n] = 0, closed[n] = 0,
           opened'[n] = 1, closed'[n] = 0, got' = got, sent'[n]["Text"] = sent[n]["Text"],
           (sent'[n]["Close"] > 0 <=> sent[n]["Close"] > 0) \/ sent'[n]["Close"] > 0,
           \A m \in Node : m # n => Seen(m)
    PROVE  Stream!Open(n)
<1>1. Phase(n) = "fresh" /\ Phase(n)' = "open"
    BY DEF Phase
<1>2. [m \in Node |-> Phase(m)]' = [[m \in Node |-> Phase(m)] EXCEPT ![n] = "open"]
    BY <1>1 DEF Seen, Phase
<1>3. [m \in Node |-> sent[m]["Text"]]' = [m \in Node |-> sent[m]["Text"]]
    BY DEF Seen
<1> DEFINE old == [m \in Node |-> sent[m]["Close"] > 0]
           new == [m \in Node |-> sent'[m]["Close"] > 0]
<1>4. \E refuse \in BOOLEAN : new = [old EXCEPT ![n] = @ \/ refuse]
  <2>1. CASE sent'[n]["Close"] > 0
    <3>1. new = [old EXCEPT ![n] = TRUE]
      BY <2>1, StopsThen
    <3>2. new = [old EXCEPT ![n] = @ \/ TRUE]
      BY <3>1
    <3> QED
      BY <3>2
  <2>2. CASE sent'[n]["Close"] > 0 <=> sent[n]["Close"] > 0
    <3>1. new = old
      BY <2>2, StopsThen
    <3>2. old = [old EXCEPT ![n] = @ \/ FALSE]
      <4>1. (old[n] \/ FALSE) = old[n]
        <5>1. old[n] = (sent[n]["Close"] > 0)
          BY Zenon
        <5> HIDE DEF old
        <5>2. ((sent[n]["Close"] > 0) \/ FALSE) = (sent[n]["Close"] > 0)
          OBVIOUS
        <5> QED
          BY <5>1, <5>2, Zenon
      <4>2. [old EXCEPT ![n] = old[n]] = old
        BY Zenon
      <4> QED
        BY <4>1, <4>2, Zenon
    <3> QED
      BY <3>1, <3>2
  <2> QED
    BY <2>1, <2>2
<1> QED
    BY <1>1, <1>2, <1>3, <1>4 DEF Stream!Open

LEMMA SamePeer == ASSUME NEW n PROVE Stream!Peer(n) = Peer(n)
BY DEF Stream!Peer, Peer

LEMMA Delivers ==
    ASSUME TypeOK, TypeOK', NEW n \in Node, opened[n] > 0, closed[n] = 0,
           got[n] < sent[Peer(n)]["Text"], got' = [got EXCEPT ![n] = @ + 1],
           opened' = opened, closed' = closed, sent' = sent
    PROVE  Stream!Deliver(n)
<1>1. [m \in Node |-> Phase(m)]' = [m \in Node |-> Phase(m)] /\ Phase(n) = "open"
    BY DEF Phase
<1>2. Peer(n) \in Node
    BY PeerProps
<1> QED
    BY <1>1, <1>2, SamePeer DEF Stream!Deliver

LEMMA Finishes ==
    ASSUME TypeOK, TypeOK', NEW n \in Node, closed[n] = 0, closed'[n] = 1, opened' = opened, got' = got,
           sent[Peer(n)]["Close"] > 0, got[n] = sent[Peer(n)]["Text"],
           sent'[n]["Close"] > 0, sent'[n]["Text"] = sent[n]["Text"],
           \A m \in Node : m # n => Seen(m)
    PROVE  Stream!Finish(n)
<1>1. Phase(n) # "done" /\ Phase(n)' = "done"
    BY DEF Phase
<1>2. [m \in Node |-> Phase(m)]' = [[m \in Node |-> Phase(m)] EXCEPT ![n] = "done"]
    BY <1>1 DEF Seen, Phase
<1>3. [m \in Node |-> sent[m]["Text"]]' = [m \in Node |-> sent[m]["Text"]]
    BY DEF Seen
<1>4. [m \in Node |-> sent[m]["Close"] > 0]' = [[m \in Node |-> sent[m]["Close"] > 0] EXCEPT ![n] = TRUE]
    BY StopsThen
<1>5. Peer(n) \in Node
    BY PeerProps
<1> QED
    BY <1>1, <1>2, <1>3, <1>4, <1>5, SamePeer DEF Stream!Finish

-----------------------------------------------------------------------------
(* Every call of the application and every frame.                          *)

StreamStep == [Stream!Next]_(Stream!vars)

LEMMA CallImplements ==
    ASSUME IInv, Opens, NEW n \in Node, Call(n), IInv'
    PROVE  Opens' /\ StreamStep
<1> DEFINE p == Peer(n)
<1>1. /\ TypeOK /\ TypeOK' /\ Local(n) /\ Answered(n)
      /\ p \in Node /\ p # n /\ \A m \in Node : m = n \/ m = p
      /\ opened[n] \in Nat /\ closed[n] \in Nat /\ sent[n]["System"] \in Nat
      /\ sent[n]["Close"] \in Nat
    BY PeerProps, TypesAt DEF IInv, Opens, Opening, Answered
\* A frame is sent, and nothing on the other side changes.
<1>2. ASSUME NEW f \in Frame, SendFrame(n, f), UNCHANGED <<opened, closed, got>>
      PROVE  /\ \A m \in Node : m # n => Seen(m)
             /\ \A t \in {"System", "Text", "Close"} :
                   /\ sent[n][t] \in Nat
                   /\ sent'[n][t] = IF f.type = t THEN sent[n][t] + 1 ELSE sent[n][t]
  <2>1. sent'[p] = sent[p]
    BY <1>1, <1>2, SendFrameFacts
  <2>2. Seen(p)
    BY <1>2, <2>1 DEF Seen
  <2> QED
    BY <1>1, <1>2, <2>2, SentAfter
<1>3. CASE Handshake(n)
  <2> DEFINE f == SystemFrame(Registered[n])
  <2>1. f \in Frame /\ f.type = "System"
    BY FrameFields, ConstantTypes DEF ConstantTypes
  <2>2. SendFrame(n, f) /\ UNCHANGED <<opened, closed, got, quit>>
    BY <1>3 DEF Handshake
  <2>3. state'[p] = state[p]
    BY <1>1, <1>3 DEF Handshake, TypeOK
  <2>4. PeerUntouched(n) /\ Answered(n)' /\ \A m \in Node : Seen(m)
    BY <1>1, <1>2, <2>1, <2>2, <2>3 DEF PeerUntouched, Answered, Seen
  <2>5. Opens'
    BY <2>1, <2>2, <2>4, SendOpens
  <2> QED
    BY <1>1, <2>4, <2>5, Stutters DEF StreamStep
<1>4. CASE Close(n) \/ SendTextFails(n)
  <2>1. SendFrame(n, CloseFrame) /\ closed[n] = 0 /\ UNCHANGED <<opened, closed, got>>
    BY <1>4 DEF Close, SendTextFails, MayClose, MaySend
  <2>2. state'[p] = state[p] /\ quit'[n] = TRUE /\ quit'[p] = quit[p]
    BY <1>1, <1>4 DEF Close, SendTextFails, TypeOK
  <2>3. PeerUntouched(n) /\ Answered(n)'
    BY <2>1, <2>2 DEF PeerUntouched, Answered
  <2>4. Opens'
    BY <2>1, <2>3, FrameFields, SendOpens
  <2>5. sent'[n]["Close"] > 0 /\ sent'[n]["Text"] = sent[n]["Text"] /\ \A m \in Node : m # n => Seen(m)
    BY <1>2, <2>1, FrameFields
  <2>6. Stream!Stop(n)
    BY <1>1, <2>1, <2>5, Stops
  <2> QED
    BY <2>4, <2>6 DEF StreamStep, Stream!Next
<1>5. CASE SendText(n)
  <2> DEFINE f == TextFrame(codec[n], sent[n]["Text"] + 1)
  <2>1. f \in Frame /\ f.type = "Text"
    <3>1. codec[n] \in CompressType
      BY <1>1 DEF TypeOK
    <3>2. sent[n]["Text"] + 1 \in Nat
      BY <1>1, TypesAt
    <3> QED
      BY <3>1, <3>2, FrameFields
  <2>2. SendFrame(n, f) /\ UNCHANGED <<state, opened, closed, got, quit>>
    BY <1>5 DEF SendText
  <2>3. opened[n] > 0 /\ closed[n] = 0 /\ ~quit[n]
    BY <1>5 DEF SendText, MaySend
  <2>4. sent[n]["System"] > 0 /\ sent[n]["Close"] = 0
    BY <1>1, <2>3 DEF Answered, Local
  <2>5. /\ sent'[n]["System"] = sent[n]["System"] /\ sent'[n]["Text"] = sent[n]["Text"] + 1
        /\ sent'[n]["Close"] = 0 /\ \A m \in Node : m # n => Seen(m)
    BY <1>2, <2>1, <2>2, <2>4
  <2>6. PeerUntouched(n) /\ Answered(n)'
    BY <2>2, <2>4, <2>5 DEF PeerUntouched, Answered
  <2>7. Opens'
    BY <2>1, <2>2, <2>4, <2>6, SendOpens
  <2>8. Stream!Send(n)
    BY <1>1, <2>2, <2>3, <2>4, <2>5, Sends
  <2> QED
    BY <2>7, <2>8 DEF StreamStep, Stream!Next
<1>6. CASE SendBinary(n) \/ Ping(n) \/ Pong(n) \/ SendOther(n)
  <2>1. PICK f \in {BinaryFrame, PingFrame, PongFrame, OtherFrame} : SendFrame(n, f)
    BY <1>6 DEF SendBinary, Ping, Pong, SendOther
  <2>2. f \in Frame /\ f.type \notin {"System", "Text", "Close"}
    BY <2>1, FrameFields
  <2>3. UNCHANGED <<state, opened, closed, got, quit>>
    BY <1>6 DEF SendBinary, Ping, Pong, SendOther
  <2>4. PeerUntouched(n) /\ Answered(n)' /\ \A m \in Node : Seen(m)
    BY <1>1, <1>2, <2>1, <2>2, <2>3 DEF PeerUntouched, Answered, Seen
  <2>5. Opens'
    BY <2>1, <2>2, <2>3, <2>4, SendOpens
  <2> QED
    BY <1>1, <2>4, <2>5, Stutters DEF StreamStep
<1> QED
    BY <1>3, <1>4, <1>5, <1>6 DEF Call

LEMMA OnFrameImplements ==
    ASSUME IInv, Opens, NEW n \in Node, OnFrame(n), IInv'
    PROVE  Opens' /\ StreamStep
<1> DEFINE p == Peer(n)
<1>1. /\ TypeOK /\ TypeOK' /\ Local(n) /\ Local(n)' /\ Link(n) /\ Link(n)' /\ Answered(n) /\ Opening(n)
      /\ p \in Node /\ p # n /\ \A m \in Node : m = n \/ m = p
      /\ opened[n] \in Nat /\ closed[n] \in Nat /\ got[n] \in Nat
      /\ sent[n]["Close"] \in Nat /\ net[n] \in Seq(Frame)
    BY PeerProps, TypesAt DEF IInv, Opens, Opening, Answered
<1>2. ASSUME NEW t, Handles(n, t)
      PROVE  net[n] # <<>> /\ Head(net[n]).type = t /\ closed[n] = 0 /\ Has(net[n], t)
  <2>1. net[n] # <<>> /\ Head(net[n]).type = t /\ closed[n] = 0
    BY <1>1, <1>2 DEF Handles, Local
  <2> QED
    BY <1>1, <2>1, HasTail
\* What the two ways of handling a frame leave alone.
<1>3. ASSUME net[n] # <<>>, Consume(n), PeerUntouched(n)
      PROVE  sent' = sent /\ \A m \in Node : m # n => Seen(m)
    BY <1>1, <1>3, ConsumeFacts DEF PeerUntouched, Seen
<1>4. ASSUME NEW f \in Frame, net[n] # <<>>, Reply(n, f), PeerUntouched(n)
      PROVE  /\ \A m \in Node : m # n => Seen(m)
             /\ \A t \in {"System", "Text", "Close"} :
                   /\ sent[n][t] \in Nat
                   /\ sent'[n][t] = IF f.type = t THEN sent[n][t] + 1 ELSE sent[n][t]
  <2>1. sent'[p] = sent[p]
    BY <1>1, <1>4, ReplyFacts
  <2>2. Seen(p)
    BY <1>4, <2>1 DEF PeerUntouched, Seen
  <2> QED
    BY <1>1, <1>4, <2>2, SentAfter
<1>5. ASSUME Handles(n, "System"), opened' = [opened EXCEPT ![n] = @ + 1],
             state' = [state EXCEPT ![n] = "Connected"], UNCHANGED <<closed, got>>,
             quit'[p] = quit[p]
      PROVE  /\ PeerUntouched(n) /\ Counted(n) /\ opened[n] = 0 /\ opened'[n] = 1
             /\ closed[n] = 0 /\ closed'[n] = 0
  <2>1. opened[n] = 0
    BY <1>1, <1>2, <1>5 DEF Link
  <2>2. opened'[n] = 1 /\ opened'[p] = opened[p] /\ state'[p] = state[p]
    BY <1>1, <1>5, <2>1 DEF TypeOK
  <2> QED
    BY <1>2, <1>5, <2>1, <2>2 DEF PeerUntouched, Counted
<1>6. CASE OnSystemFrame(n)
  <2>1. PICK c \in NegotiatedCodecs(n, Head(net[n]).names) :
          IF state[n] = "Init"
          THEN Reply(n, SystemFrame(GetSupportedCompressors(n, {c})))
          ELSE Consume(n)
    BY <1>6 DEF OnSystemFrame
  <2> DEFINE f == SystemFrame(GetSupportedCompressors(n, {c}))
  <2>2. f \in Frame /\ f.type = "System"
    BY CodecTypes, FrameFields
  <2>3. /\ Handles(n, "System") /\ opened' = [opened EXCEPT ![n] = @ + 1]
        /\ state' = [state EXCEPT ![n] = "Connected"] /\ UNCHANGED <<closed, got, quit>>
    BY <1>6 DEF OnSystemFrame
  <2>4. /\ PeerUntouched(n) /\ Counted(n) /\ opened[n] = 0 /\ opened'[n] = 1
        /\ closed[n] = 0 /\ closed'[n] = 0 /\ net[n] # <<>>
    BY <1>2, <1>5, <2>3
  <2>5. CASE state[n] = "Init"
    <3>1. Reply(n, f)
      BY <2>1, <2>5
    <3>2. /\ sent'[n]["System"] > 0 /\ sent'[n]["Text"] = sent[n]["Text"]
          /\ sent'[n]["Close"] = sent[n]["Close"] /\ \A m \in Node : m # n => Seen(m)
      BY <1>4, <2>2, <2>4, <3>1
    <3>3. Opens'
      BY <2>2, <2>4, <3>1, <3>2, ReplyOpens DEF Answered
    <3>4. Stream!Open(n)
      BY <1>1, <2>3, <2>4, <3>2, Opened
    <3> QED
      BY <3>3, <3>4 DEF StreamStep, Stream!Next
  <2>6. CASE state[n] # "Init"
    <3>1. Consume(n)
      BY <2>1, <2>6
    <3>2. sent' = sent /\ \A m \in Node : m # n => Seen(m)
      BY <1>3, <2>4, <3>1
    <3>3. quit[n] \/ sent[n]["System"] > 0
      <4>1. state[n] \in {"Connecting", "Connected", "Closing"}
        BY <1>1, <2>3, <2>6 DEF Handles, TypeOK, State
      <4> QED
        BY <1>1, <2>4, <4>1 DEF Local
    <3>4. Opens'
      BY <2>3, <2>4, <3>1, <3>2, <3>3, TakeOpens DEF Answered
    <3>5. Stream!Open(n)
      BY <1>1, <2>3, <2>4, <3>2, Opened
    <3> QED
      BY <3>4, <3>5 DEF StreamStep, Stream!Next
  <2> QED
    BY <2>5, <2>6
<1>7. CASE OnSystemFrameRejected(n)
  <2>1. /\ Handles(n, "System") /\ opened' = [opened EXCEPT ![n] = @ + 1] /\ Reply(n, CloseFrame)
        /\ state' = [state EXCEPT ![n] = "Connected"] /\ UNCHANGED <<closed, got>>
        /\ quit'[n] = TRUE /\ quit'[p] = quit[p]
    BY <1>1, <1>7 DEF OnSystemFrameRejected, TypeOK
  <2>2. /\ PeerUntouched(n) /\ Counted(n) /\ opened[n] = 0 /\ opened'[n] = 1
        /\ closed[n] = 0 /\ closed'[n] = 0 /\ net[n] # <<>>
    BY <1>2, <1>5, <2>1
  <2>3. /\ sent'[n]["Text"] = sent[n]["Text"] /\ sent'[n]["Close"] > 0
        /\ \A m \in Node : m # n => Seen(m)
    BY <1>4, <2>1, <2>2, FrameFields
  <2>4. Opens'
    BY <2>1, <2>2, FrameFields, ReplyOpens DEF Answered
  <2>5. Stream!Open(n)
    BY <1>1, <2>1, <2>2, <2>3, Opened
  <2> QED
    BY <2>4, <2>5 DEF StreamStep, Stream!Next
<1>8. CASE OnTextFrame(n)
  <2>1. Handles(n, "Text") /\ Consume(n) /\ UNCHANGED <<state, opened, closed, quit>>
    BY <1>8 DEF OnTextFrame, OnDataFrame
  <2>2. got' = [got EXCEPT ![n] = @ + 1] /\ got'[n] = got[n] + 1 /\ got'[p] = got[p]
    BY <1>1, <1>8 DEF OnTextFrame, TypeOK
  <2>3. PeerUntouched(n) /\ Counted(n) /\ net[n] # <<>> /\ closed[n] = 0 /\ Head(net[n]).type = "Text"
    BY <1>2, <2>1, <2>2 DEF PeerUntouched, Counted
  <2>4. sent' = sent
    BY <1>3, <2>1, <2>3
  <2>5. Opens'
    BY <1>1, <2>1, <2>3, <2>4, TakeOpens DEF Answered
  <2>6. opened[n] > 0
    BY <1>1, <2>3, SystemFirstTail DEF Opening
  <2>7. got[n] < sent[p]["Text"]
    <3>1. got'[n] <= sent'[p]["Text"] /\ sent[p]["Text"] \in Nat
      BY <1>1, TypesAt DEF Link
    <3> QED
      BY <1>1, <2>2, <2>4, <3>1
  <2>8. Stream!Deliver(n)
    BY <1>1, <2>1, <2>2, <2>3, <2>4, <2>6, <2>7, Delivers
  <2> QED
    BY <2>5, <2>8 DEF StreamStep, Stream!Next
<1>9. CASE OnBinaryFrame(n) \/ OnPongFrame(n) \/ OnOtherFrame(n)
  <2>1. PICK t \in {"Binary", "Pong", "Other"} : Handles(n, t)
    BY <1>9 DEF OnBinaryFrame, OnDataFrame, OnPongFrame, OnOtherFrame
  <2>2. Consume(n) /\ UNCHANGED <<state, opened, closed, quit, got>>
    BY <1>9 DEF OnBinaryFrame, OnDataFrame, OnPongFrame, OnOtherFrame
  <2>3. PeerUntouched(n) /\ Counted(n) /\ net[n] # <<>>
    BY <1>2, <2>1, <2>2 DEF PeerUntouched, Counted
  <2>4. sent' = sent /\ \A m \in Node : Seen(m)
    BY <1>3, <2>2, <2>3 DEF Seen
  <2>5. Opens'
    BY <1>1, <2>2, <2>3, <2>4, TakeOpens DEF Answered
  <2> QED
    BY <1>1, <2>4, <2>5, Stutters DEF StreamStep
<1>10. CASE OnPingFrame(n)
  <2>1. /\ Handles(n, "Ping") /\ Reply(n, PongFrame) /\ UNCHANGED <<state, opened, closed, got, quit>>
    BY <1>10 DEF OnPingFrame
  <2>2. PeerUntouched(n) /\ Counted(n) /\ net[n] # <<>>
    BY <1>2, <2>1 DEF PeerUntouched, Counted
  <2>3. /\ \A m \in Node : m # n => Seen(m)
        /\ \A t \in {"System", "Text", "Close"} : sent'[n][t] = sent[n][t]
    BY <1>4, <2>1, <2>2, FrameFields
  <2>4. Answered(n)' /\ \A m \in Node : Seen(m)
    BY <1>1, <2>1, <2>3 DEF Answered, Seen
  <2>5. Opens'
    BY <2>1, <2>2, <2>4, FrameFields, ReplyOpens
  <2> QED
    BY <1>1, <2>4, <2>5, Stutters DEF StreamStep
<1>11. CASE OnCloseFrame(n)
  <2>1. /\ Handles(n, "Close") /\ closed' = [closed EXCEPT ![n] = @ + 1]
        /\ state' = [state EXCEPT ![n] = "Closed"] /\ UNCHANGED <<opened, got, quit>>
        /\ IF state[n] # "Closing" THEN Reply(n, CloseFrame) ELSE Consume(n)
    BY <1>11 DEF OnCloseFrame
  <2>2. net[n] # <<>> /\ Head(net[n]).type = "Close" /\ closed[n] = 0 /\ Has(net[n], "Close")
    BY <1>2, <2>1
  <2>3. closed'[n] = 1 /\ closed'[p] = closed[p] /\ state'[p] = state[p]
    BY <1>1, <2>1, <2>2 DEF TypeOK
  <2>4. PeerUntouched(n) /\ Counted(n)
    BY <2>1, <2>2, <2>3 DEF PeerUntouched, Counted
  <2>5. /\ sent'[n]["System"] = sent[n]["System"] /\ sent'[n]["Text"] = sent[n]["Text"]
        /\ sent'[n]["Close"] > 0 /\ \A m \in Node : m # n => Seen(m)
        /\ Opens'
    <3>1. CASE state[n] # "Closing" /\ Reply(n, CloseFrame)
      <4>1. /\ sent'[n]["System"] = sent[n]["System"] /\ sent'[n]["Text"] = sent[n]["Text"]
            /\ sent'[n]["Close"] > 0 /\ \A m \in Node : m # n => Seen(m)
        BY <1>4, <2>2, <2>4, <3>1, FrameFields
      <4>2. Answered(n)'
        BY <1>1, <2>1, <4>1 DEF Answered
      <4> QED
        BY <2>2, <2>4, <3>1, <4>1, <4>2, FrameFields, ReplyOpens
    <3>2. CASE state[n] = "Closing" /\ Consume(n)
      <4>1. sent' = sent /\ sent[n]["Close"] > 0 /\ \A m \in Node : m # n => Seen(m)
        BY <1>1, <1>3, <2>2, <2>4, <3>2 DEF Local
      <4>2. Answered(n)'
        BY <1>1, <2>1, <4>1 DEF Answered
      <4> QED
        BY <2>2, <2>4, <3>2, <4>1, <4>2, TakeOpens
    <3> QED
      BY <2>1, <3>1, <3>2
  <2>6. sent[p]["Close"] > 0 /\ got[n] = sent[p]["Text"]
    <3>1. sent[p]["Close"] > 0
      BY <1>1, <2>2 DEF Link
    <3>2. got'[n] = sent'[p]["Text"]
      BY <1>1, <2>3 DEF Link
    <3>3. sent'[p]["Text"] = sent[p]["Text"]
      BY <1>1, <2>5 DEF Seen
    <3> QED
      BY <2>1, <3>1, <3>2, <3>3
  <2>7. Stream!Finish(n)
    BY <1>1, <2>1, <2>2, <2>3, <2>5, <2>6, Finishes
  <2> QED
    BY <2>5, <2>7 DEF StreamStep, Stream!Next
<1> QED
    BY <1>6, <1>7, <1>8, <1>9, <1>10, <1>11 DEF OnFrame

LEMMA InitOpens == Init => Opens
<1> SUFFICES ASSUME Init, NEW n \in Node PROVE Opening(n)
    BY DEF Opens
<1>1. /\ Peer(n) \in Node /\ net[n] = <<>> /\ opened[n] = 0 /\ sent[Peer(n)]["System"] = 0
    BY PeerProps DEF Init, FrameType
<1> QED
    BY <1>1 DEF Opening, SystemFirst

LEMMA InitStream == Init => Stream!Init
<1> SUFFICES ASSUME Init PROVE Stream!Init
    OBVIOUS
<1>1. \A n \in Node : Phase(n) = "fresh" /\ sent[n]["Text"] = 0 /\ sent[n]["Close"] = 0
  <2>1. ASSUME NEW n \in Node PROVE opened[n] = 0 /\ closed[n] = 0
    BY DEF Init
  <2>2. ASSUME NEW n \in Node PROVE sent[n]["Text"] = 0 /\ sent[n]["Close"] = 0
    BY DEF Init, FrameType
  <2>3. ASSUME NEW n \in Node PROVE Phase(n) = "fresh"
    <3>1. ~(closed[n] > 0) /\ ~(opened[n] > 0)
      BY <2>1
    <3> QED
      BY <3>1 DEF Phase
  <2> QED
    BY <2>2, <2>3
<1>2. [n \in Node |-> Phase(n)] = [n \in Node |-> "fresh"]
    BY <1>1
<1>3. [n \in Node |-> sent[n]["Close"] > 0] = [n \in Node |-> FALSE]
  <2>1. ASSUME NEW n \in Node PROVE (sent[n]["Close"] > 0) = FALSE
    <3>1. ~(sent[n]["Close"] > 0)
      BY <1>1
    <3> QED
      BY <3>1
  <2> QED
    BY <2>1, Zenon
<1>4. [n \in Node |-> sent[n]["Text"]] = [n \in Node |-> 0]
    BY <1>1
<1>5. got = [n \in Node |-> 0]
    BY DEF Init
<1> QED
    BY <1>2, <1>3, <1>4, <1>5 DEF Stream!Init

LEMMA StepImplements ==
    ASSUME IInv, Opens, [Next]_vars, IInv'
    PROVE  Opens' /\ StreamStep
<1>1. CASE Next
    BY <1>1, CallImplements, OnFrameImplements DEF Next
<1>2. CASE UNCHANGED vars
  <2>1. Opens'
    BY <1>2 DEF vars, Opens, Opening, SystemFirst, Has
  <2>2. \A m \in Node : Seen(m)
    BY <1>2 DEF vars, Seen
  <2> QED
    BY <2>1, <2>2, Stutters DEF IInv, StreamStep
<1> QED
    BY <1>1, <1>2

LEMMA OpensAlways == Spec => []Opens
BY StepImplements, InitOpens, Inductive, PTL DEF Spec

(* A pair of contexts implements the stream of texts: to the applications  *)
(* every step of the protocol is an opening, a text, its delivery, a stop  *)
(* or the end of a direction, or it is nothing.                            *)
THEOREM ImplementsStream == Spec => Stream!Spec
<1>1. IInv /\ Opens /\ [Next]_vars /\ IInv' => StreamStep
    BY StepImplements
<1> QED
    BY <1>1, InitStream, OpensAlways, Inductive, PTL DEF Spec, Stream!Spec, StreamStep
=============================================================================
