----------------------- MODULE SynchronousPairProofs -----------------------
(***************************************************************************)
(* Proofs about SynchronousPair: for every safe policy of the listeners    *)
(* and any number of calls, the stack is at most two calls deep, so that   *)
(* no Feed comes back to a context that is in the middle of a frame.       *)
(***************************************************************************)
EXTENDS SynchronousPair, SequenceTheorems, FiniteSetTheorems, TLAPS

-----------------------------------------------------------------------------
(* The stacks that occur.  y has called out to x, whose ParseProcess is    *)
(* the outer one; a frame x sends meanwhile is parsed by y, the inner one. *)

Settles == {"Init", "Connected", "Closed"}

\* Nothing is under way between x and y.
Quiet(x, y) ==
    /\ state[x] = state[y]
    /\ state[x] \in Settles
    /\ state[x] # "Closed" => buffer[x] = <<>> /\ buffer[y] = <<>>

\* The states before x has handled a frame of type t that y has sent ...
Before(x, y, t) ==
    IF t = "System" THEN state[x] = "Init" /\ state[y] = "Connecting" /\ y = Initiator
    ELSE IF t = "Close" THEN state[x] \in {"Init", "Connected"} /\ state[y] = "Closing"
    ELSE state[x] \in {"Init", "Connected"} /\ state[y] = state[x]

\* ... while y handles x's answer to it ...
Answered(x, y, t) ==
    \/ t = "System" /\ y = Initiator /\ state[x] = "Connecting" /\ state[y] = "Connecting"
    \/ t = "Close" /\ state[x] = "Closing" /\ state[y] = "Closing"

\* ... and once y has handled the answer, if there is one.
Between(x, y, t) ==
    IF t = "System" THEN state[x] = "Connecting" /\ state[y] = "Connected" /\ x # Initiator
    ELSE IF t = "Close" THEN state[x] = "Closing" /\ state[y] = "Closed"
    ELSE state[x] \in {"Init", "Connected"} /\ state[y] = state[x]

\* The outer call alone on the stack.
Outer(x, y, a) ==
    /\ a.node = x
    /\ CASE a.next = "parse" ->
              \/ Quiet(x, y)
              \/ \E t \in FrameType :
                    Before(x, y, t) /\ buffer[x] = <<t>> /\ buffer[y] = <<>>
         [] a.next = "notify" ->
              /\ Between(x, y, a.frame)
              /\ buffer[x] = <<a.frame>> /\ buffer[y] = <<>>
         [] a.next = "consume" ->
              /\ state[x] = state[y] /\ state[x] \in Settles
              /\ buffer[x] = <<a.frame>> /\ buffer[y] = <<>>

\* The inner call on a frame t: to come, under way or done.
Handles(b, y, t) ==
    \/ b.next = "parse" /\ buffer[y] = <<t>>
    \/ b.next \in {"notify", "consume"} /\ b.frame = t /\ buffer[y] = <<t>>
    \/ b.next = "parse" /\ buffer[y] = <<>>

\* y has handled all of the inner call's frame but its Consume.
Over(b, y) == b.next = "consume" \/ (b.next = "parse" /\ buffer[y] = <<>>)

Inner(x, y, a, b) ==
    /\ a.node = x
    /\ b.node = y
    /\ buffer[x] = <<a.frame>>
    /\ CASE a.next = "parse" -> FALSE
         [] a.next = "notify" ->   \* b handles x's answer
              /\ a.frame \in {"System", "Close"}
              /\ Handles(b, y, a.frame)
              /\ IF Over(b, y) THEN Between(x, y, a.frame) ELSE Answered(x, y, a.frame)
         [] a.next = "consume" ->  \* b handles what x's callback has sent
              /\ state[x] = state[y] /\ state[x] \in {"Init", "Connected"}
              /\ \E r \in Reply :
                    /\ r \in Notified => react[y][r] = "None"
                    /\ Handles(b, y, r)

Depth(x, y) ==
    \/ stack = <<>> /\ Quiet(x, y)
    \/ \E a \in Activation : stack = <<a>> /\ Outer(x, y, a)
    \/ \E a, b \in Activation : stack = <<b, a>> /\ Inner(x, y, a, b)

Types ==
    /\ react \in {p \in Policy : Safe(p)}
    /\ state \in [Node -> State]
    /\ buffer \in [Node -> Seq(FrameType)]

DInv == Types /\ \E x, y \in Node : x # y /\ Depth(x, y)

-----------------------------------------------------------------------------
(* Sequences and nodes.                                                    *)

LEMMA Single ==
    ASSUME NEW t
    PROVE  /\ Head(<<t>>) = t /\ Tail(<<t>>) = <<>> /\ Append(<<>>, t) = <<t>>
           /\ <<t>> # <<>> /\ Len(<<t>>) = 1 /\ <<t>> \o <<>> = <<t>>
<1>1. <<t>> \in Seq({t})
    OBVIOUS
<1>2. <<t>> \o <<>> = <<t>>
    BY <1>1, ConcatEmptySeq
<1> QED
    BY <1>2

LEMMA Pair ==
    ASSUME NEW a, NEW b
    PROVE  /\ <<a>> \o <<b>> = <<a, b>> /\ Head(<<a, b>>) = a /\ Tail(<<a, b>>) = <<b>>
           /\ <<a, b>> # <<>>
<1> DEFINE S == {a, b}
<1>1. <<a>> \in Seq(S) /\ <<b>> \in Seq(S) /\ <<a, b>> \in Seq(S)
    OBVIOUS
<1>2. <<a>> \o <<b>> \in Seq(S) /\ Len(<<a>> \o <<b>>) = Len(<<a, b>>)
    BY <1>1, ConcatProperties
<1>3. \A i \in 1..2 : (<<a>> \o <<b>>)[i] = <<a, b>>[i]
    BY <1>1, ConcatProperties
<1>4. <<a>> \o <<b>> = <<a, b>>
    BY <1>1, <1>2, <1>3, SeqEqual
<1>5. Tail(<<a, b>>) = <<b>>
  <2>1. Tail(<<a, b>>) \in Seq(S) /\ Len(Tail(<<a, b>>)) = 1 /\ Tail(<<a, b>>)[1] = b
    BY <1>1, HeadTailProperties
  <2> QED
    BY <1>1, <2>1, SeqEqual
<1> QED
    BY <1>4, <1>5

LEMMA PeerOf ==
    ASSUME NEW x \in Node, NEW y \in Node, x # y
    PROVE  Node = {x, y} /\ Peer(x) = y /\ Peer(y) = x
<1>1. Node = {x, y}
    BY SynchronousConstants DEF SynchronousConstants
<1> QED
    BY <1>1 DEF Peer

\* What a call on top of the stack becomes, with nothing below it and with one
\* call below it, and what SendFrame puts on top of either.
Call1(n) == [node |-> n, frame |-> "None", next |-> "parse"]

LEMMA Alone ==
    ASSUME NEW a \in Activation, stack = <<a>>
    PROVE  /\ stack # <<>> /\ Head(stack) = a /\ Tail(stack) = <<>>
           /\ \A t \in FrameType \cup {"None"}, k \in {"parse", "notify", "consume"} :
                 \E c \in Activation :
                    /\ Then(t, k) = <<c>> /\ c.node = a.node /\ c.frame = t /\ c.next = k
                    /\ \A n \in Node : <<Call1(n)>> \o Then(t, k) = <<Call1(n), c>>
<1>1. Head(stack) = a /\ Tail(stack) = <<>> /\ stack # <<>>
    BY Single
<1>2. ASSUME NEW t \in FrameType \cup {"None"}, NEW k \in {"parse", "notify", "consume"}
      PROVE  \E c \in Activation :
                 /\ Then(t, k) = <<c>> /\ c.node = a.node /\ c.frame = t /\ c.next = k
                 /\ \A n \in Node : <<Call1(n)>> \o Then(t, k) = <<Call1(n), c>>
  <2> DEFINE c == [a EXCEPT !.frame = t, !.next = k]
  <2>1. c \in Activation /\ c.node = a.node /\ c.frame = t /\ c.next = k
    BY DEF Activation
  <2>2. Then(t, k) = <<c>> \o <<>>
    BY <1>1 DEF Then
  <2>3. Then(t, k) = <<c>>
    BY <2>2, Single
  <2> HIDE DEF c
  <2> QED
    BY <2>1, <2>3, Pair
<1> QED
    BY <1>1, <1>2

LEMMA Nested ==
    ASSUME NEW a \in Activation, NEW b \in Activation, stack = <<b, a>>
    PROVE  /\ stack # <<>> /\ Head(stack) = b /\ Tail(stack) = <<a>>
           /\ \A t \in FrameType \cup {"None"}, k \in {"parse", "notify", "consume"} :
                 \E c \in Activation :
                    Then(t, k) = <<c, a>> /\ c.node = b.node /\ c.frame = t /\ c.next = k
<1>1. Head(stack) = b /\ Tail(stack) = <<a>> /\ stack # <<>>
    BY Pair
<1>2. ASSUME NEW t \in FrameType \cup {"None"}, NEW k \in {"parse", "notify", "consume"}
      PROVE  \E c \in Activation :
                 Then(t, k) = <<c, a>> /\ c.node = b.node /\ c.frame = t /\ c.next = k
  <2> DEFINE c == [b EXCEPT !.frame = t, !.next = k]
  <2>1. c \in Activation /\ c.node = b.node /\ c.frame = t /\ c.next = k
    BY DEF Activation
  <2>2. Then(t, k) = <<c>> \o <<a>>
    BY <1>1 DEF Then
  <2>3. Then(t, k) = <<c, a>>
    BY <2>2, Pair
  <2> HIDE DEF c
  <2> QED
    BY <2>1, <2>3
<1> QED
    BY <1>1, <1>2
-----------------------------------------------------------------------------
(* Every step leads from one of these stacks to another.                   *)

LEMMA Sends ==
    ASSUME Types, NEW x \in Node, NEW y \in Node, x # y,
           NEW t \in FrameType, NEW rest, SendFrame(y, t, rest)
    PROVE  /\ buffer' \in [Node -> Seq(FrameType)]
           /\ buffer'[x] = Append(buffer[x], t) /\ buffer'[y] = buffer[y]
           /\ stack' = <<Call1(x)>> \o rest
BY PeerOf DEF SendFrame, Feed, Types, Call1

LEMMA CallStep ==
    ASSUME Types, NEW x \in Node, NEW y \in Node, x # y, stack = <<>>, Quiet(x, y),
           Handshake(y) \/ SendText(y) \/ Ping(y) \/ Pong(y) \/ Close(y)
    PROVE  Types' /\ Depth(x, y)'
<1>1. ASSUME NEW t \in FrameType, Call(y, t)
      PROVE  /\ buffer' \in [Node -> Seq(FrameType)] /\ react' = react
             /\ buffer'[x] = Append(buffer[x], t) /\ buffer'[y] = buffer[y]
             /\ stack' = <<Call1(x)>>
  <2>1. SendFrame(y, t, <<>>) /\ react' = react
    BY <1>1 DEF Call
  <2> QED
    BY <2>1, Sends, Single
<1>2. Call1(x) \in Activation
    BY DEF Call1, Activation
<1>3. ASSUME NEW t \in FrameType, Call(y, t), state' \in [Node -> State],
             state[x] # "Closed" => Before(x, y, t)',
             state[x] = "Closed" => UNCHANGED state
      PROVE  Types' /\ Depth(x, y)'
  <2>1. Types'
    BY <1>1, <1>3 DEF Types
  <2>2. CASE state[x] = "Closed"
    <3>1. Quiet(x, y)'
      BY <1>3, <2>2 DEF Quiet
    <3> QED
      BY <1>1, <1>2, <1>3, <2>1, <3>1 DEF Depth, Outer, Call1
  <2>3. CASE state[x] # "Closed"
    <3>1. buffer'[x] = <<t>> /\ buffer'[y] = <<>>
      BY <1>1, <1>3, <2>3, Single DEF Quiet
    <3>2. Outer(x, y, Call1(x))'
      BY <1>3, <2>3, <3>1 DEF Outer, Call1
    <3> QED
      BY <1>1, <1>2, <1>3, <2>1, <3>2 DEF Depth
  <2> QED
    BY <2>2, <2>3
<1>4. CASE Handshake(y)
  <2>1. /\ Call(y, "System") /\ "System" \in FrameType
        /\ state' \in [Node -> State] /\ Before(x, y, "System")' /\ state[x] # "Closed"
    BY <1>4 DEF Handshake, Before, Quiet, Types, State, FrameType
  <2> QED
    BY <1>3, <2>1
<1>5. CASE Close(y)
  <2>1. /\ Call(y, "Close") /\ "Close" \in FrameType
        /\ state' \in [Node -> State] /\ Before(x, y, "Close")' /\ state[x] # "Closed"
    BY <1>5 DEF Close, Before, Quiet, Settles, Types, State, FrameType
  <2> QED
    BY <1>3, <2>1
<1>6. CASE SendText(y) \/ Ping(y) \/ Pong(y)
  <2>1. PICK t \in {"Text", "Ping", "Pong"} : Call(y, t) /\ UNCHANGED state
    BY <1>6 DEF SendText, Ping, Pong
  <2>2. /\ t \in FrameType /\ state' \in [Node -> State]
        /\ state[x] # "Closed" => Before(x, y, t)'
    BY <2>1 DEF Before, Quiet, Settles, Types, FrameType
  <2> QED
    BY <1>3, <2>1, <2>2
<1> QED
    BY <1>4, <1>5, <1>6
LEMMA OuterStep ==
    ASSUME Types, NEW x \in Node, NEW y \in Node, x # y,
           NEW a \in Activation, stack = <<a>>, Outer(x, y, a),
           OnFrame(x) \/ Notify(x) \/ Consume(x) \/ Return(x)
    PROVE  Types' /\ Depth(x, y)'
<1>1. Head(stack) = a /\ Tail(stack) = <<>> /\ a.frame \in FrameType \cup {"None"}
    BY Alone DEF Activation
<1>2. ASSUME NEW t \in FrameType \cup {"None"}, NEW k \in {"parse", "notify", "consume"}
      PROVE  \E c \in Activation :
                 /\ Then(t, k) = <<c>> /\ c.node = x /\ c.frame = t /\ c.next = k
                 /\ <<Call1(y)>> \o Then(t, k) = <<Call1(y), c>>
    BY Alone DEF Outer
<1>3. Call1(y) \in Activation /\ Call1(y).node = y /\ Call1(y).next = "parse"
    BY DEF Call1, Activation
<1>4. CASE OnFrame(x)
  <2>1. a.next = "parse" /\ state[x] # "Closed" /\ buffer[x] # <<>>
    BY <1>1, <1>4 DEF OnFrame, Runs
  <2>2. PICK t \in FrameType : Before(x, y, t) /\ buffer[x] = <<t>> /\ buffer[y] = <<>>
    BY <2>1 DEF Outer, Quiet
  <2>3. Head(buffer[x]) = t
    BY <2>2, Single
  <2>4. PICK c \in Activation :
            /\ Then(t, "notify") = <<c>> /\ c.node = x /\ c.frame = t /\ c.next = "notify"
            /\ <<Call1(y)>> \o Then(t, "notify") = <<Call1(y), c>>
    BY <1>2
  <2>5. CASE Answers(x, t)
    <3>1. /\ t \in {"System", "Close"} /\ SendFrame(x, t, Then(t, "notify")) /\ react' = react
          /\ state' = [state EXCEPT ![x] = IF t = "System" THEN "Connecting" ELSE "Closing"]
      BY <1>4, <2>3, <2>5 DEF OnFrame, Answers
    <3>2. /\ buffer' \in [Node -> Seq(FrameType)]
          /\ buffer'[y] = <<t>> /\ buffer'[x] = <<t>> /\ stack' = <<Call1(y), c>>
      <4>1. /\ buffer' \in [Node -> Seq(FrameType)]
            /\ buffer'[y] = Append(buffer[y], t) /\ buffer'[x] = buffer[x]
            /\ stack' = <<Call1(y)>> \o Then(t, "notify")
        BY <3>1, Sends
      <4> QED
        BY <2>2, <2>4, <4>1, Single
    <3>3. state' \in [Node -> State] /\ Answered(x, y, t)'
      BY <2>2, <3>1 DEF Types, State, Before, Answered
    <3>4. Handles(Call1(y), y, t)' /\ ~Over(Call1(y), y)'
      BY <1>3, <3>2, Single DEF Handles, Over
    <3>5. Inner(x, y, c, Call1(y))'
      BY <1>3, <2>4, <3>1, <3>2, <3>3, <3>4 DEF Inner
    <3> QED
      BY <1>3, <3>1, <3>2, <3>3, <3>5 DEF Types, Depth
  <2>6. CASE ~Answers(x, t)
    <3>1. UNCHANGED <<react, state, buffer>> /\ stack' = <<c>>
      BY <1>4, <2>3, <2>4, <2>6 DEF OnFrame
    <3>2. t # "System" /\ t # "Close"
      BY <2>2, <2>6 DEF Answers, Before
    <3>3. Outer(x, y, c)'
      BY <2>2, <2>4, <3>1, <3>2 DEF Outer, Before, Between
    <3> QED
      BY <3>1, <3>3 DEF Types, Depth
  <2> QED
    BY <2>5, <2>6
<1>5. CASE Notify(x)
  <2> DEFINE t == a.frame
             after == CASE t = "System" -> "Connected" [] t = "Close" -> "Closed" [] OTHER -> state[x]
  <2>1. a.next = "notify"
    BY <1>1, <1>5 DEF Notify, Runs
  <2>2. Between(x, y, t) /\ buffer[x] = <<t>> /\ buffer[y] = <<>>
    BY <2>1 DEF Outer
  <2>3. PICK c \in Activation :
            /\ Then(t, "consume") = <<c>> /\ c.node = x /\ c.frame = t /\ c.next = "consume"
            /\ <<Call1(y)>> \o Then(t, "consume") = <<Call1(y), c>>
    BY <1>1, <1>2
  <2>4. react' = react /\ state' = [state EXCEPT ![x] = after]
    BY <1>1, <1>5 DEF Notify
  <2>5. /\ state' \in [Node -> State] /\ state'[x] = state'[y] /\ state'[x] \in Settles
        /\ t # "Close" => state'[x] \in {"Init", "Connected"}
    BY <2>2, <2>4 DEF Between, Settles, Types, State
  <2>6. CASE Reaction(x, t) # "None"
    <3>1. t \in Notified /\ Reaction(x, t) = react[x][t]
      BY <2>6 DEF Reaction
    <3>2. PICK r \in Reply : r = Reaction(x, t) /\ (r \in Notified => react[y][r] = "None")
      BY <2>6, <3>1, PeerOf DEF Types, Policy, Safe, Notified
    <3>3. r \in FrameType /\ SendFrame(x, r, Then(t, "consume"))
      BY <1>1, <1>5, <2>6, <3>2 DEF Notify, Reply, FrameType
    <3>4. /\ buffer' \in [Node -> Seq(FrameType)]
          /\ buffer'[y] = <<r>> /\ buffer'[x] = <<t>> /\ stack' = <<Call1(y), c>>
      <4>1. /\ buffer' \in [Node -> Seq(FrameType)]
            /\ buffer'[y] = Append(buffer[y], r) /\ buffer'[x] = buffer[x]
            /\ stack' = <<Call1(y)>> \o Then(t, "consume")
        BY <3>3, Sends
      <4> QED
        BY <2>2, <2>3, <4>1, Single
    <3>5. Handles(Call1(y), y, r)'
      BY <1>3, <3>4 DEF Handles
    <3>6. state'[x] \in {"Init", "Connected"}
      BY <2>5, <3>1 DEF Notified
    <3>7. Inner(x, y, c, Call1(y))'
      <4>1. \E q \in Reply : (q \in Notified => react'[y][q] = "None") /\ Handles(Call1(y), y, q)'
        BY <2>4, <3>2, <3>5
      <4> QED
        BY <1>3, <2>3, <2>5, <3>4, <3>6, <4>1 DEF Inner
    <3> QED
      BY <1>3, <2>4, <2>5, <3>4, <3>7 DEF Types, Depth
  <2>7. CASE Reaction(x, t) = "None"
    <3>1. UNCHANGED buffer /\ stack' = <<c>>
      BY <1>1, <1>5, <2>3, <2>7 DEF Notify
    <3>2. Outer(x, y, c)'
      BY <2>2, <2>3, <2>5, <3>1 DEF Outer
    <3> QED
      BY <2>4, <2>5, <3>1, <3>2 DEF Types, Depth
  <2> QED
    BY <2>6, <2>7
<1>6. CASE Consume(x)
  <2>1. a.next = "consume"
    BY <1>1, <1>6 DEF Consume, Runs
  <2>2. state[x] = state[y] /\ state[x] \in Settles /\ buffer[x] = <<a.frame>> /\ buffer[y] = <<>>
    BY <2>1 DEF Outer
  <2>3. PICK c \in Activation : Then("None", "parse") = <<c>> /\ c.node = x /\ c.next = "parse"
    BY <1>2
  <2>4. /\ UNCHANGED <<react, state>> /\ stack' = <<c>>
        /\ buffer' = [buffer EXCEPT ![x] = Tail(@)]
    BY <1>6, <2>2, <2>3, Single DEF Consume
  <2>5. /\ buffer' \in [Node -> Seq(FrameType)]
        /\ buffer'[x] = <<>> /\ buffer'[y] = <<>>
    BY <2>2, <2>4, Single DEF Types
  <2>6. Outer(x, y, c)'
    BY <2>2, <2>3, <2>4, <2>5 DEF Outer, Quiet
  <2> QED
    BY <2>4, <2>5, <2>6 DEF Types, Depth
<1>7. CASE Return(x)
  <2>1. /\ a.next = "parse" /\ (state[x] = "Closed" \/ buffer[x] = <<>>)
        /\ UNCHANGED <<react, state, buffer>> /\ stack' = <<>>
    BY <1>1, <1>7 DEF Return, Runs
  <2>2. ASSUME NEW t \in FrameType, Before(x, y, t), buffer[x] = <<t>> PROVE FALSE
    BY <2>1, <2>2, Single DEF Before
  <2>3. Quiet(x, y)
    BY <2>1, <2>2 DEF Outer
  <2> QED
    BY <2>1, <2>3 DEF Types, Depth, Quiet
<1> QED
    BY <1>4, <1>5, <1>6, <1>7

LEMMA InnerStep ==
    ASSUME Types, NEW x \in Node, NEW y \in Node, x # y,
           NEW a \in Activation, NEW b \in Activation, stack = <<b, a>>, Inner(x, y, a, b),
           OnFrame(y) \/ Notify(y) \/ Consume(y) \/ Return(y)
    PROVE  Types' /\ Depth(x, y)'
<1>1. /\ Head(stack) = b /\ Tail(stack) = <<a>>
      /\ a.frame \in FrameType \cup {"None"} /\ b.frame \in FrameType \cup {"None"}
    BY Nested DEF Activation
<1>2. ASSUME NEW t \in FrameType \cup {"None"}, NEW k \in {"parse", "notify", "consume"}
      PROVE  \E c \in Activation : Then(t, k) = <<c, a>> /\ c.node = y /\ c.frame = t /\ c.next = k
    BY Nested DEF Inner
<1>3. a.node = x /\ buffer[x] = <<a.frame>> /\ a.next \in {"notify", "consume"}
    BY DEF Inner, Activation
\* The frame t the inner call is for: x's answer, or what its callback sends.
<1>4. PICK t \in FrameType :
          /\ Handles(b, y, t)
          /\ a.next = "notify" =>
                /\ t = a.frame /\ t \in {"System", "Close"}
                /\ IF Over(b, y) THEN Between(x, y, t) ELSE Answered(x, y, t)
          /\ a.next = "consume" =>
                /\ state[x] = state[y] /\ state[x] \in {"Init", "Connected"}
                /\ t \in Reply /\ (t \in Notified => react[y][t] = "None")
    BY <1>3 DEF Inner, Reply, FrameType
\* What the case of a.next = "notify" or "consume" asks of the next state.
<1>5. ASSUME NEW c \in Activation, c.node = y, stack' = <<c, a>>, UNCHANGED react,
             buffer' \in [Node -> Seq(FrameType)], buffer'[x] = buffer[x],
             state' \in [Node -> State], Handles(c, y, t)',
             a.next = "notify" =>
                IF Over(c, y)' THEN Between(x, y, t)' ELSE Answered(x, y, t)',
             a.next = "consume" => UNCHANGED state
      PROVE  Types' /\ Depth(x, y)'
  <2>1. Types'
    BY <1>5 DEF Types
  <2>2. CASE a.next = "notify"
    <3>1. Inner(x, y, a, c)'
      BY <1>3, <1>4, <1>5, <2>2 DEF Inner
    <3> QED
      BY <1>5, <2>1, <3>1 DEF Depth
  <2>3. CASE a.next = "consume"
    <3>1. Inner(x, y, a, c)'
      BY <1>3, <1>4, <1>5, <2>3 DEF Inner
    <3> QED
      BY <1>5, <2>1, <3>1 DEF Depth
  <2> QED
    BY <1>3, <2>2, <2>3
<1>6. CASE OnFrame(y)
  <2>1. b.next = "parse" /\ buffer[y] # <<>>
    BY <1>1, <1>6 DEF OnFrame, Runs
  <2>2. buffer[y] = <<t>> /\ Head(buffer[y]) = t
    BY <1>4, <2>1, Single DEF Handles
  <2>3. ~Over(b, y)
    BY <2>1 DEF Over
  <2>4. ~Answers(y, t)
    BY <1>3, <1>4, <2>3 DEF Answers, Answered, Reply
  <2>5. PICK c \in Activation :
            Then(t, "notify") = <<c, a>> /\ c.node = y /\ c.frame = t /\ c.next = "notify"
    BY <1>2
  <2>6. UNCHANGED <<react, state, buffer>> /\ stack' = <<c, a>>
    BY <1>6, <2>2, <2>4, <2>5 DEF OnFrame
  <2>7. Handles(c, y, t)' /\ ~Over(c, y)'
    BY <2>2, <2>5, <2>6 DEF Handles, Over
  <2>8. a.next = "notify" => Answered(x, y, t)'
    BY <1>4, <2>3, <2>6 DEF Answered
  <2> QED
    BY <1>5, <2>5, <2>6, <2>7, <2>8 DEF Types
<1>7. CASE Notify(y)
  <2>1. b.next = "notify" /\ b.frame = t /\ buffer[y] = <<t>>
    BY <1>1, <1>4, <1>7 DEF Notify, Runs, Handles
  <2>2. ~Over(b, y)
    BY <2>1 DEF Over
  <2>3. Reaction(y, t) = "None"
    <3>1. CASE t = "System"
      BY <1>3, <1>4, <2>2, <3>1 DEF Answered, Reaction, Reply, Types, Safe
    <3>2. CASE t = "Close"
      BY <3>2 DEF Reaction, Notified
    <3>3. CASE t # "System" /\ t # "Close"
      BY <1>3, <1>4, <3>3 DEF Reaction
    <3> QED
      BY <3>1, <3>2, <3>3
  <2>4. PICK c \in Activation :
            Then(t, "consume") = <<c, a>> /\ c.node = y /\ c.frame = t /\ c.next = "consume"
    BY <1>2
  <2>5. /\ UNCHANGED <<react, buffer>> /\ stack' = <<c, a>>
        /\ state' = [state EXCEPT ![y] =
                       CASE t = "System" -> "Connected" [] t = "Close" -> "Closed" [] OTHER -> @]
    BY <1>1, <1>7, <2>1, <2>3, <2>4 DEF Notify
  <2>6. Handles(c, y, t)' /\ Over(c, y)'
    BY <2>1, <2>4, <2>5 DEF Handles, Over
  <2>7. state' \in [Node -> State]
    BY <2>5 DEF Types, State
  <2>8. a.next = "notify" => Between(x, y, t)'
    BY <1>4, <2>2, <2>5 DEF Answered, Between, Types
  <2>9. a.next = "consume" => UNCHANGED state
    BY <1>4, <2>5 DEF Reply, Types
  <2> QED
    BY <1>5, <2>4, <2>5, <2>6, <2>7, <2>8, <2>9 DEF Types
<1>8. CASE Consume(y)
  <2>1. b.next = "consume" /\ buffer[y] = <<t>>
    BY <1>1, <1>4, <1>8 DEF Consume, Runs, Handles
  <2>2. PICK c \in Activation : Then("None", "parse") = <<c, a>> /\ c.node = y /\ c.next = "parse"
    BY <1>2
  <2>3. /\ UNCHANGED <<react, state>> /\ stack' = <<c, a>>
        /\ buffer' = [buffer EXCEPT ![y] = Tail(@)]
    BY <1>8, <2>1, <2>2, Single DEF Consume
  <2>4. buffer' \in [Node -> Seq(FrameType)] /\ buffer'[y] = <<>> /\ buffer'[x] = buffer[x]
    BY <2>1, <2>3, Single DEF Types
  <2>5. Handles(c, y, t)' /\ Over(c, y)'
    BY <2>2, <2>4 DEF Handles, Over
  <2>6. a.next = "notify" => Between(x, y, t)'
    BY <1>4, <2>1, <2>3 DEF Over, Between
  <2> QED
    BY <1>5, <2>2, <2>3, <2>4, <2>5, <2>6 DEF Types
<1>9. CASE Return(y)
  <2>1. /\ b.next = "parse" /\ (state[y] = "Closed" \/ buffer[y] = <<>>)
        /\ UNCHANGED <<react, state, buffer>> /\ stack' = <<a>>
    BY <1>1, <1>9 DEF Return, Runs
  <2>2. buffer[y] = <<>>
    BY <1>3, <1>4, <2>1 DEF Over, Answered
  <2>3. CASE a.next = "notify"
    <3>1. Between(x, y, a.frame)
      BY <1>4, <2>1, <2>2, <2>3 DEF Over
    <3>2. Outer(x, y, a)'
      BY <1>3, <2>1, <2>2, <2>3, <3>1 DEF Outer, Between
    <3> QED
      BY <2>1, <3>2 DEF Types, Depth
  <2>4. CASE a.next = "consume"
    <3>1. Outer(x, y, a)'
      BY <1>3, <1>4, <2>1, <2>2, <2>4 DEF Outer, Settles
    <3> QED
      BY <2>1, <3>1 DEF Types, Depth
  <2> QED
    BY <1>3, <2>3, <2>4
<1> QED
    BY <1>6, <1>7, <1>8, <1>9
LEMMA KeepsDInv ==
    ASSUME DInv, [Next]_vars
    PROVE  DInv'
<1>1. PICK x \in Node, y \in Node : x # y /\ Depth(x, y)
    BY DEF DInv
<1>2. Types /\ Node = {x, y}
    BY <1>1, PeerOf DEF DInv
<1>3. ASSUME Next PROVE DInv'
  <2>1. CASE stack = <<>>
    <3>1. Quiet(x, y) /\ Quiet(y, x)
      <4>1. Quiet(x, y)
        BY <1>1, <2>1, Single, Pair DEF Depth
      <4> QED
        BY <4>1 DEF Quiet
    <3>2. PICK n \in Node : Handshake(n) \/ SendText(n) \/ Ping(n) \/ Pong(n) \/ Close(n)
      BY <1>3, <2>1 DEF Next, ParseProcess, OnFrame, Notify, Consume, Return, Runs
    <3>3. CASE n = y
      BY <1>1, <1>2, <2>1, <3>1, <3>2, <3>3, CallStep DEF DInv
    <3>4. CASE n = x
      <4>1. Types' /\ Depth(y, x)'
        BY <1>1, <1>2, <2>1, <3>1, <3>2, <3>4, CallStep
      <4> QED
        BY <1>1, <4>1 DEF DInv
    <3> QED
      BY <1>2, <3>3, <3>4
  <2>2. CASE \E a \in Activation : stack = <<a>> /\ Outer(x, y, a)
    <3>1. PICK a \in Activation : stack = <<a>> /\ Outer(x, y, a)
      BY <2>2
    <3>2. stack # <<>> /\ Head(stack).node = x
      BY <3>1, Single DEF Outer
    <3>3. OnFrame(x) \/ Notify(x) \/ Consume(x) \/ Return(x)
      BY <1>3, <3>2 DEF Next, ParseProcess, OnFrame, Notify, Consume, Return, Runs,
         Handshake, SendText, Ping, Pong, Close, Call
    <3> QED
      BY <1>1, <1>2, <3>1, <3>3, OuterStep DEF DInv
  <2>3. CASE \E a, b \in Activation : stack = <<b, a>> /\ Inner(x, y, a, b)
    <3>1. PICK a \in Activation, b \in Activation : stack = <<b, a>> /\ Inner(x, y, a, b)
      BY <2>3
    <3>2. stack # <<>> /\ Head(stack).node = y
      BY <3>1, Pair DEF Inner
    <3>3. OnFrame(y) \/ Notify(y) \/ Consume(y) \/ Return(y)
      BY <1>3, <3>2 DEF Next, ParseProcess, OnFrame, Notify, Consume, Return, Runs,
         Handshake, SendText, Ping, Pong, Close, Call
    <3> QED
      BY <1>1, <1>2, <3>1, <3>3, InnerStep DEF DInv
  <2> QED
    BY <1>1, <2>1, <2>2, <2>3 DEF Depth
<1>4. CASE UNCHANGED vars
  <2>1. UNCHANGED <<react, state, buffer, stack>>
    BY <1>4 DEF vars
  <2>2. Quiet(x, y)' = Quiet(x, y)
    BY <2>1 DEF Quiet
  <2>3. ASSUME NEW a \in Activation PROVE Outer(x, y, a)' = Outer(x, y, a)
    BY <2>1, <2>2 DEF Outer, Before, Between
  <2>4. ASSUME NEW a \in Activation, NEW b \in Activation
        PROVE  Inner(x, y, a, b)' = Inner(x, y, a, b)
    <3>1. \A t : Handles(b, y, t)' = Handles(b, y, t)
      BY <2>1 DEF Handles
    <3>2. Over(b, y)' = Over(b, y)
      BY <2>1 DEF Over
    <3> QED
      BY <2>1, <3>1, <3>2 DEF Inner, Answered, Between
  <2>5. Types' /\ Depth(x, y)'
    BY <1>1, <1>2, <2>1, <2>2, <2>3, <2>4 DEF Types, Depth
  <2> QED
    BY <1>1, <2>5 DEF DInv
<1> QED
    BY <1>3, <1>4

LEMMA InitDInv == Init => DInv
<1> SUFFICES ASSUME Init PROVE DInv
    OBVIOUS
<1>1. PICK x \in Node, y \in Node : x # y
    BY SynchronousConstants DEF SynchronousConstants
<1>2. Types
    BY DEF Init, Types, State
<1>3. Quiet(x, y)
    BY DEF Init, Quiet, Settles
<1> QED
    BY <1>1, <1>2, <1>3 DEF DInv, Depth, Init

LEMMA StackOf ==
    ASSUME DInv
    PROVE  stack \in Seq(Activation) /\ NoReentry /\ Settled
<1>1. PICK x \in Node, y \in Node : x # y /\ Depth(x, y)
    BY DEF DInv
<1>2. Node = {x, y} /\ Peer(x) = y /\ Peer(y) = x
    BY <1>1, PeerOf
<1>3. CASE stack = <<>> /\ Quiet(x, y)
  <2>1. NoReentry
    BY <1>3 DEF NoReentry
  <2> QED
    BY <1>2, <1>3, <2>1 DEF Settled, Quiet, Settles
<1>4. CASE \E a \in Activation : stack = <<a>> /\ Outer(x, y, a)
  <2>1. PICK a \in Activation : stack = <<a>> /\ Outer(x, y, a)
    BY <1>4
  <2>2. stack # <<>> /\ stack \in Seq(Activation) /\ Len(stack) = 1 /\ stack[1] = a
    BY <2>1, Single
  <2>3. a.next # "parse" => buffer[a.node] # <<>> /\ Head(buffer[a.node]) = a.frame
    BY <2>1, Single DEF Outer, Activation
  <2> QED
    BY <2>2, <2>3 DEF NoReentry, Handling, Settled
<1>5. CASE \E a, b \in Activation : stack = <<b, a>> /\ Inner(x, y, a, b)
  <2>1. PICK a \in Activation, b \in Activation : stack = <<b, a>> /\ Inner(x, y, a, b)
    BY <1>5
  <2>2. /\ stack # <<>> /\ stack \in Seq(Activation) /\ Len(stack) = 2
        /\ stack[1] = b /\ stack[2] = a /\ a.node # b.node
    BY <1>1, <2>1, Pair DEF Inner
  <2>3. buffer[a.node] # <<>> /\ Head(buffer[a.node]) = a.frame
    BY <2>1, Single DEF Inner
  <2>4. b.next # "parse" => buffer[b.node] # <<>> /\ Head(buffer[b.node]) = b.frame
    BY <2>1, Single DEF Inner, Handles, Activation
  <2> QED
    BY <2>2, <2>3, <2>4 DEF NoReentry, Handling, Settled
<1> QED
    BY <1>1, <1>3, <1>4, <1>5 DEF Depth

LEMMA Shapes == Spec => []DInv
BY InitDInv, KeepsDInv, PTL DEF Spec

(* However the two sides' listeners answer, as long as what a callback     *)
(* sends is taken in silence, no Feed comes back to a context in the       *)
(* middle of a frame: ParseOne consumes the frame it has handled.          *)
THEOREM NoReentryAlways == Spec => []NoReentry
<1>1. DInv => NoReentry
    BY StackOf
<1> QED
    BY <1>1, Shapes, PTL

(* When a call has returned the two contexts are in the same state, with   *)
(* no handshake or close under way and no frame left to parse.             *)
THEOREM SettledAlways == Spec => []Settled
<1>1. DInv => Settled
    BY StackOf
<1> QED
    BY <1>1, Shapes, PTL

-----------------------------------------------------------------------------
(* Counting: what comes in, what is handled and what is left.              *)

Busy(s, n) == \E i \in 1..Len(s) : s[i].node = n /\ s[i].next # "parse"

Held(s, n) == IF Busy(s, n) THEN 1 ELSE 0

held == [n \in Node |-> Held(stack, n)]

Counted ==
    /\ ~corrupt
    /\ sent \in [Node -> Nat] /\ handled \in [Node -> Nat]
    /\ \A n \in Node : handled[n] + Len(buffer[n]) = sent[n] + held[n]

LEMMA HeldIs ==
    /\ held \in [Node -> Nat]
    /\ \A n \in Node : held[n] = Held(stack, n) /\ held'[n] = Held(stack', n)
BY DEF held, Held

LEMMA HeldFirst ==
    ASSUME NEW s \in Seq(Activation), NEW d \in Seq(Activation), Len(d) = Len(s) + 1,
           \A i \in 1..Len(s) : d[i + 1] = s[i], NEW n
    PROVE  Held(d, n) = IF d[1].node = n /\ d[1].next # "parse" THEN 1 ELSE Held(s, n)
<1>1. Len(s) \in Nat /\ 1 \in 1..Len(d)
    OBVIOUS
<1>2. ASSUME Busy(s, n) PROVE Busy(d, n)
  <2>1. PICK i \in 1..Len(s) : s[i].node = n /\ s[i].next # "parse"
    BY <1>2 DEF Busy
  <2>2. i + 1 \in 1..Len(d)
    BY <1>1
  <2> QED
    BY <2>1, <2>2 DEF Busy
<1>3. ASSUME d[1].node = n, d[1].next # "parse" PROVE Busy(d, n)
    BY <1>1, <1>3 DEF Busy
<1>4. ASSUME Busy(d, n), ~(d[1].node = n /\ d[1].next # "parse") PROVE Busy(s, n)
  <2>1. PICK i \in 1..Len(d) : d[i].node = n /\ d[i].next # "parse"
    BY <1>4 DEF Busy
  <2>2. i # 1
    BY <1>4, <2>1
  <2>3. i - 1 \in 1..Len(s) /\ (i - 1) + 1 = i
    BY <1>1, <2>2
  <2>4. s[i - 1] = d[i]
    BY <2>3
  <2> QED
    BY <2>1, <2>3, <2>4 DEF Busy
<1> QED
    BY <1>2, <1>3, <1>4 DEF Held

LEMMA HeldPush ==
    ASSUME NEW s \in Seq(Activation), NEW c \in Activation, NEW n
    PROVE  Held(<<c>> \o s, n) = IF c.node = n /\ c.next # "parse" THEN 1 ELSE Held(s, n)
<1> DEFINE d == <<c>> \o s
<1>1. <<c>> \in Seq(Activation) /\ Len(<<c>>) = 1 /\ Len(s) \in Nat
    OBVIOUS
<1>2. d \in Seq(Activation) /\ Len(d) = Len(s) + 1 /\ d[1] = c
    BY <1>1, ConcatProperties
<1>3. ASSUME NEW i \in 1..Len(s) PROVE d[i + 1] = s[i]
  <2>1. i + 1 \in 1..Len(<<c>>) + Len(s) /\ ~(i + 1 <= Len(<<c>>)) /\ (i + 1) - Len(<<c>>) = i
    BY <1>1
  <2> QED
    BY <1>1, <2>1, ConcatProperties
<1> HIDE DEF d
<1>4. Held(d, n) = IF d[1].node = n /\ d[1].next # "parse" THEN 1 ELSE Held(s, n)
    BY <1>2, <1>3, HeldFirst
<1> QED
    BY <1>2, <1>4 DEF d

LEMMA HeldTop ==
    ASSUME stack \in Seq(Activation), stack # <<>>, NoReentry, NEW n \in Node, Head(stack).node = n
    PROVE  /\ Head(stack) \in Activation /\ Tail(stack) \in Seq(Activation)
           /\ Held(Tail(stack), n) = 0
           /\ Held(stack, n) = IF Head(stack).next # "parse" THEN 1 ELSE 0
           /\ \A m \in Node : m # n => Held(stack, m) = Held(Tail(stack), m)
<1>1. /\ Head(stack) \in Activation /\ Tail(stack) \in Seq(Activation)
      /\ Len(stack) \in Nat \ {0} /\ Len(Tail(stack)) = Len(stack) - 1
      /\ stack[1] = Head(stack)
      /\ \A i \in 1..Len(Tail(stack)) : Tail(stack)[i] = stack[i + 1]
    BY HeadTailProperties, LenProperties, EmptySeq
<1>2. ASSUME NEW m \in Node
      PROVE  Held(stack, m) = IF Head(stack).node = m /\ Head(stack).next # "parse"
                              THEN 1 ELSE Held(Tail(stack), m)
  <2>1. /\ Len(stack) = Len(Tail(stack)) + 1
        /\ \A i \in 1..Len(Tail(stack)) : stack[i + 1] = Tail(stack)[i]
    BY <1>1
  <2>2. Held(stack, m) = IF stack[1].node = m /\ stack[1].next # "parse"
                         THEN 1 ELSE Held(Tail(stack), m)
    BY <1>1, <2>1, HeldFirst
  <2> QED
    BY <1>1, <2>2
<1>3. ~Busy(Tail(stack), n)
  <2>1. ASSUME NEW i \in 1..Len(Tail(stack)),
               Tail(stack)[i].node = n, Tail(stack)[i].next # "parse"
        PROVE  FALSE
    <3>1. i + 1 \in Handling(n) /\ i + 1 \in 1..Len(stack) /\ 1 \in 1..(i + 1) - 1
      BY <1>1, <2>1 DEF Handling
    <3> QED
      BY <1>1, <3>1 DEF NoReentry
  <2> QED
    BY <2>1 DEF Busy
<1>4. Held(Tail(stack), n) = 0
    BY <1>3 DEF Held
<1> QED
    BY <1>1, <1>2, <1>4

\* What a change of the counters and of who is handling a frame must add up to.
LEMMA CountStep ==
    ASSUME DInv, Counted, [Next]_vars
    PROVE  Counted'
<1>1. stack \in Seq(Activation) /\ NoReentry /\ Types
    BY StackOf DEF DInv
<1>2. ASSUME NEW n \in Node, NEW t \in FrameType, NEW rest \in Seq(Activation), SendFrame(n, t, rest),
             UNCHANGED <<handled, corrupt>>,
             \A m \in Node : Held(rest, m) = Held(stack, m)
      PROVE  Counted'
  <2>1. PICK m \in Node : m # n /\ Peer(n) = m /\ Node = {n, m}
    BY PeerOf, SynchronousConstants DEF SynchronousConstants
  <2>2. /\ buffer' = [buffer EXCEPT ![m] = Append(@, t)] /\ sent' = [sent EXCEPT ![m] = @ + 1]
        /\ stack' = <<Call1(m)>> \o rest
    BY <1>2, <2>1 DEF SendFrame, Feed, Call1
  <2>3. Len(buffer'[m]) = Len(buffer[m]) + 1 /\ buffer'[n] = buffer[n] /\ Len(buffer[m]) \in Nat
    BY <1>1, <2>1, <2>2 DEF Types
  <2>4. \A k \in Node : held'[k] = held[k]
    <3>1. Call1(m) \in Activation /\ Call1(m).next = "parse"
      BY DEF Call1, Activation
    <3>2. ASSUME NEW k \in Node PROVE Held(stack', k) = Held(rest, k)
      BY <1>2, <2>2, <3>1, HeldPush
    <3> QED
      BY <1>2, <3>2, HeldIs
  <2>5. sent' \in [Node -> Nat] /\ sent'[m] = sent[m] + 1 /\ sent'[n] = sent[n] /\ handled' = handled
    BY <1>2, <2>1, <2>2 DEF Counted
  <2>6. /\ handled[m] \in Nat /\ sent[m] \in Nat /\ held[m] \in Nat
        /\ handled[m] + Len(buffer[m]) = sent[m] + held[m]
    BY HeldIs DEF Counted
  <2>7. handled'[m] + Len(buffer'[m]) = sent'[m] + held'[m]
    <3>1. handled[m] + (Len(buffer[m]) + 1) = (sent[m] + 1) + held[m]
      <4> DEFINE h == handled[m]
                 l == Len(buffer[m])
                 t0 == sent[m]
                 b == held[m]
      <4>1. h \in Nat /\ l \in Nat /\ t0 \in Nat /\ b \in Nat /\ h + l = t0 + b
        BY <2>3, <2>6
      <4> HIDE DEF h, l, t0, b
      <4>2. h + (l + 1) = (t0 + 1) + b
        BY <4>1
      <4> QED
        BY <4>2 DEF h, l, t0, b
    <3> QED
      BY <2>1, <2>3, <2>4, <2>5, <3>1, Zenon
  <2>8. handled'[n] + Len(buffer'[n]) = sent'[n] + held'[n]
    BY <2>3, <2>4, <2>5 DEF Counted
  <2> QED
    BY <1>2, <2>1, <2>5, <2>7, <2>8 DEF Counted
<1>3. ASSUME NEW n \in Node, Handshake(n) \/ SendText(n) \/ Ping(n) \/ Pong(n) \/ Close(n)
      PROVE  Counted'
  <2>1. PICK t \in FrameType : Call(n, t)
    BY <1>3 DEF Handshake, SendText, Ping, Pong, Close, FrameType
  <2>2. stack = <<>> /\ SendFrame(n, t, <<>>) /\ UNCHANGED <<handled, corrupt>>
    BY <2>1 DEF Call
  <2>3. <<>> \in Seq(Activation)
    OBVIOUS
  <2> QED
    BY <1>2, <2>2, <2>3
\* A step of the innermost call n.
<1>4. ASSUME NEW n \in Node, stack # <<>>, Head(stack).node = n
      PROVE  /\ Head(stack) \in Activation /\ Tail(stack) \in Seq(Activation)
             /\ Held(Tail(stack), n) = 0
             /\ Held(stack, n) = IF Head(stack).next # "parse" THEN 1 ELSE 0
             /\ \A m \in Node : m # n => Held(stack, m) = Held(Tail(stack), m)
             /\ \A t \in FrameType \cup {"None"}, k \in {"parse", "notify", "consume"} :
                   /\ Then(t, k) \in Seq(Activation)
                   /\ Held(Then(t, k), n) = IF k # "parse" THEN 1 ELSE 0
                   /\ \A m \in Node : m # n => Held(Then(t, k), m) = Held(stack, m)
  <2>1. /\ Head(stack) \in Activation /\ Tail(stack) \in Seq(Activation)
        /\ Held(Tail(stack), n) = 0
             /\ Held(stack, n) = IF Head(stack).next # "parse" THEN 1 ELSE 0
        /\ \A m \in Node : m # n => Held(stack, m) = Held(Tail(stack), m)
    BY <1>1, <1>4, HeldTop
  <2>2. ASSUME NEW t \in FrameType \cup {"None"}, NEW k \in {"parse", "notify", "consume"}
        PROVE  /\ Then(t, k) \in Seq(Activation)
               /\ Held(Then(t, k), n) = IF k # "parse" THEN 1 ELSE 0
               /\ \A m \in Node : m # n => Held(Then(t, k), m) = Held(stack, m)
    <3> DEFINE c == [Head(stack) EXCEPT !.frame = t, !.next = k]
    <3>1. c \in Activation /\ c.node = n /\ c.next = k
      BY <1>4, <2>1 DEF Activation
    <3>2. Then(t, k) = <<c>> \o Tail(stack)
      BY DEF Then
    <3> HIDE DEF c
    <3>3. ASSUME NEW m \in Node
          PROVE  Held(Then(t, k), m) = IF m = n /\ k # "parse" THEN 1 ELSE Held(Tail(stack), m)
      <4>1. Held(<<c>> \o Tail(stack), m)
            = IF c.node = m /\ c.next # "parse" THEN 1 ELSE Held(Tail(stack), m)
        BY <2>1, <3>1, HeldPush
      <4> QED
        BY <3>1, <3>2, <4>1
    <3>4. <<c>> \in Seq(Activation)
      BY <3>1
    <3>5. Then(t, k) \in Seq(Activation)
      BY <2>1, <3>2, <3>4, ConcatProperties
    <3> QED
      BY <2>1, <3>1, <3>3, <3>5
  <2> QED
    BY <2>1, <2>2
<1>5. ASSUME NEW n \in Node, OnFrame(n) PROVE Counted'
  <2>1. /\ stack # <<>> /\ Head(stack).node = n /\ Head(stack).next = "parse"
        /\ buffer[n] # <<>> /\ handled' = [handled EXCEPT ![n] = @ + 1] /\ corrupt' = corrupt
    BY <1>5 DEF OnFrame, Runs
  <2>2. PICK t \in FrameType : t = Head(buffer[n])
    BY <1>1, <2>1 DEF Types
  <2>3. /\ Then(t, "notify") \in Seq(Activation)
        /\ Held(Then(t, "notify"), n) = 1 /\ held[n] = 0 /\ held \in [Node -> Nat]
        /\ \A m \in Node : m # n => Held(Then(t, "notify"), m) = held[m]
    BY <1>4, <2>1, HeldIs
  <2>4. /\ handled' \in [Node -> Nat] /\ handled'[n] = handled[n] + 1
        /\ \A m \in Node : m # n => handled'[m] = handled[m]
    BY <2>1 DEF Counted
  <2>5. CASE UNCHANGED <<buffer, sent>> /\ stack' = Then(t, "notify")
    <3>1. \A m \in Node : Len(buffer[m]) \in Nat
      BY <1>1 DEF Types
    <3>2. held'[n] = 1 /\ \A m \in Node : m # n => held'[m] = held[m]
      BY <2>3, <2>5, HeldIs
    <3>3. handled'[n] + Len(buffer'[n]) = sent'[n] + held'[n]
      BY <2>3, <2>4, <2>5, <3>1, <3>2 DEF Counted
    <3>4. ASSUME NEW m \in Node, m # n
          PROVE  handled'[m] + Len(buffer'[m]) = sent'[m] + held'[m]
      BY <2>4, <2>5, <3>2, <3>4 DEF Counted
    <3> QED
      BY <2>1, <2>4, <2>5, <3>3, <3>4 DEF Counted
  <2>6. CASE SendFrame(n, t, Then(t, "notify"))
    <3>1. PICK m \in Node : m # n /\ Peer(n) = m /\ Node = {n, m}
      BY PeerOf, SynchronousConstants DEF SynchronousConstants
    <3>2. /\ buffer' = [buffer EXCEPT ![m] = Append(@, t)] /\ sent' = [sent EXCEPT ![m] = @ + 1]
          /\ stack' = <<Call1(m)>> \o Then(t, "notify")
      BY <2>6, <3>1 DEF SendFrame, Feed, Call1
    <3>3. /\ Len(buffer'[m]) = Len(buffer[m]) + 1 /\ buffer'[n] = buffer[n]
          /\ Len(buffer[m]) \in Nat /\ Len(buffer[n]) \in Nat
      BY <1>1, <3>1, <3>2 DEF Types
    <3>4. held'[n] = 1 /\ held'[m] = held[m]
      <4>1. Call1(m) \in Activation /\ Call1(m).next = "parse"
        BY DEF Call1, Activation
      <4>2. ASSUME NEW k \in Node PROVE Held(stack', k) = Held(Then(t, "notify"), k)
        BY <2>3, <3>2, <4>1, HeldPush
      <4> QED
        BY <2>3, <3>1, <4>2, HeldIs
    <3>5. /\ sent' \in [Node -> Nat] /\ sent'[m] = sent[m] + 1 /\ sent'[n] = sent[n]
          /\ sent[m] \in Nat /\ sent[n] \in Nat /\ handled[m] \in Nat /\ handled[n] \in Nat
      BY <3>1, <3>2 DEF Counted
    <3>6. /\ handled[m] + Len(buffer[m]) = sent[m] + held[m]
          /\ handled[n] + Len(buffer[n]) = sent[n] + held[n]
          /\ held[m] \in Nat
      BY <3>1, HeldIs DEF Counted
    <3>7. handled'[m] + Len(buffer'[m]) = sent'[m] + held'[m]
      <4>1. handled[m] + (Len(buffer[m]) + 1) = (sent[m] + 1) + held[m]
        <5> DEFINE h == handled[m]
                   l == Len(buffer[m])
                   t0 == sent[m]
                   b == held[m]
        <5>1. h \in Nat /\ l \in Nat /\ t0 \in Nat /\ b \in Nat /\ h + l = t0 + b
          BY <3>3, <3>5, <3>6
        <5> HIDE DEF h, l, t0, b
        <5>2. h + (l + 1) = (t0 + 1) + b
          BY <5>1
        <5> QED
          BY <5>2 DEF h, l, t0, b
      <4>2. handled'[m] = handled[m]
        BY <2>4, <3>1
      <4> QED
        BY <3>3, <3>4, <3>5, <4>1, <4>2, Zenon
    <3>8. handled'[n] + Len(buffer'[n]) = sent'[n] + held'[n]
      <4>1. (handled[n] + 1) + Len(buffer[n]) = sent[n] + 1
        <5> DEFINE h == handled[n]
                   l == Len(buffer[n])
                   t0 == sent[n]
                   b == held[n]
        <5>1. h \in Nat /\ l \in Nat /\ t0 \in Nat /\ b \in Nat /\ h + l = t0 + b
          BY <2>3, <3>3, <3>5, <3>6
        <5>2. b = 0
          BY <2>3
        <5> HIDE DEF h, l, t0, b
        <5>3. (h + 1) + l = t0 + 1
          BY <5>1, <5>2
        <5> QED
          BY <5>3 DEF h, l, t0, b
      <4> QED
        BY <2>4, <3>3, <3>4, <3>5, <4>1, Zenon
    <3> QED
      BY <2>1, <2>4, <3>1, <3>5, <3>7, <3>8 DEF Counted
  <2> QED
    BY <1>5, <2>2, <2>5, <2>6 DEF OnFrame
<1>6. ASSUME NEW n \in Node, Notify(n) PROVE Counted'
  <2>1. /\ stack # <<>> /\ Head(stack).node = n /\ Head(stack).next = "notify"
        /\ UNCHANGED <<handled, corrupt>>
    BY <1>6 DEF Notify, Runs
  <2>2. PICK t \in FrameType \cup {"None"} : t = Head(stack).frame
    BY <1>4, <2>1 DEF Activation
  <2>3. /\ Then(t, "consume") \in Seq(Activation)
        /\ \A m \in Node : Held(Then(t, "consume"), m) = Held(stack, m)
    BY <1>4, <2>1
  <2>4. CASE UNCHANGED <<buffer, sent>> /\ stack' = Then(t, "consume")
    <3>1. \A m \in Node : held'[m] = held[m]
      BY <2>3, <2>4, HeldIs
    <3> QED
      BY <2>1, <2>4, <3>1 DEF Counted
  <2>5. CASE Reaction(n, t) # "None" /\ SendFrame(n, Reaction(n, t), Then(t, "consume"))
    <3>1. PICK r \in FrameType : r = Reaction(n, t)
      <4>1. t \in Notified /\ Reaction(n, t) = react[n][t]
        BY <2>5 DEF Reaction
      <4> QED
        BY <1>1, <2>5, <4>1 DEF Types, Policy, Reply, FrameType
    <3> QED
      BY <1>2, <2>1, <2>3, <2>5, <3>1
  <2> QED
    BY <1>6, <2>2, <2>4, <2>5 DEF Notify
<1>7. ASSUME NEW n \in Node, Consume(n) PROVE Counted'
  <2>1. /\ stack # <<>> /\ Head(stack).node = n /\ Head(stack).next = "consume"
    BY <1>7 DEF Consume, Runs
  <2>2. buffer[n] # <<>>
    <3>1. 1 \in 1..Len(stack) /\ stack[1] = Head(stack)
      BY <1>1, <2>1
    <3>2. 1 \in Handling(n)
      BY <2>1, <3>1 DEF Handling
    <3> QED
      BY <1>1, <3>1, <3>2 DEF NoReentry
  <2>3. /\ buffer' = [buffer EXCEPT ![n] = Tail(@)] /\ UNCHANGED <<sent, handled, corrupt>>
        /\ stack' = Then("None", "parse")
    BY <1>7, <2>2 DEF Consume
  <2>4. /\ Len(buffer'[n]) = Len(buffer[n]) - 1 /\ Len(buffer[n]) \in Nat
        /\ \A m \in Node : m # n => buffer'[m] = buffer[m]
    BY <1>1, <2>2, <2>3 DEF Types
  <2>5. /\ held[n] = 1 /\ held'[n] = 0
        /\ \A m \in Node : m # n => held'[m] = held[m]
    BY <1>4, <2>1, <2>3, HeldIs
  <2>6. handled[n] \in Nat /\ sent[n] \in Nat /\ handled[n] + Len(buffer[n]) = sent[n] + 1
    BY <2>5 DEF Counted
  <2>7. handled'[n] + Len(buffer'[n]) = sent'[n] + held'[n]
    BY <2>3, <2>4, <2>5, <2>6
  <2>8. ASSUME NEW m \in Node, m # n
        PROVE  handled'[m] + Len(buffer'[m]) = sent'[m] + held'[m]
    BY <2>3, <2>4, <2>5, <2>8 DEF Counted
  <2> QED
    BY <2>3, <2>7, <2>8 DEF Counted
<1>8. ASSUME NEW n \in Node, Return(n) PROVE Counted'
  <2>1. /\ stack # <<>> /\ Head(stack).node = n /\ Head(stack).next = "parse"
        /\ stack' = Tail(stack) /\ UNCHANGED <<buffer, sent, handled, corrupt>>
    BY <1>8 DEF Return, Runs
  <2>2. \A m \in Node : held'[m] = held[m]
    BY <1>4, <2>1, HeldIs
  <2> QED
    BY <2>1, <2>2 DEF Counted
<1>9. CASE UNCHANGED vars
  <2>1. UNCHANGED <<buffer, stack, sent, handled, corrupt>>
    BY <1>9 DEF vars
  <2> QED
    BY <2>1 DEF Counted, held
<1> QED
    BY <1>3, <1>5, <1>6, <1>7, <1>8, <1>9 DEF Next, ParseProcess

LEMMA Counts == Spec => []Counted
<1>1. Init => Counted
  <2> SUFFICES ASSUME Init PROVE Counted
    OBVIOUS
  <2>1. \A n \in Node : held[n] = 0
    BY DEF Init, Busy, Held, held
  <2> QED
    BY <2>1 DEF Init, Counted
<1>2. DInv /\ Counted /\ [Next]_vars => Counted'
    BY CountStep
<1> QED
    BY <1>1, <1>2, Shapes, PTL DEF Spec

(* Every frame that has left a buffer has been handled once, and Consume   *)
(* never takes what the buffer does not hold.                              *)
THEOREM HandledOnceAlways == Spec => []HandledOnce
<1>1. DInv /\ Counted => HandledOnce
  <2> SUFFICES ASSUME DInv, Counted, NEW n \in Node
               PROVE  Cardinality(Handling(n)) = Held(stack, n)
    BY HeldIs DEF Counted, HandledOnce
  <2>1. stack \in Seq(Activation) /\ NoReentry
    BY StackOf
  <2>2. CASE ~Busy(stack, n)
    <3>1. Handling(n) = {}
      BY <2>2 DEF Busy, Handling
    <3> QED
      BY <2>2, <3>1, FS_EmptySet DEF Held
  <2>3. CASE Busy(stack, n)
    <3>1. PICK i \in 1..Len(stack) : i \in Handling(n)
      BY <2>3 DEF Busy, Handling
    <3>2. ASSUME NEW j \in Handling(n) PROVE j = i
      <4>1. j \in 1..Len(stack) /\ Len(stack) \in Nat
        BY <2>1, <3>2 DEF Handling
      <4>2. ~(j < i) /\ ~(i < j)
        <5>1. ASSUME j < i PROVE FALSE
          <6>1. j \in 1..i - 1
            BY <4>1, <5>1
          <6>2. stack[j].node = n
            BY <3>2 DEF Handling
          <6> QED
            BY <2>1, <3>1, <6>1, <6>2 DEF NoReentry
        <5>2. ASSUME i < j PROVE FALSE
          <6>1. i \in 1..j - 1
            BY <4>1, <5>2
          <6>2. stack[i].node = n
            BY <3>1 DEF Handling
          <6> QED
            BY <2>1, <3>2, <4>1, <6>1, <6>2 DEF NoReentry
        <5> QED
          BY <5>1, <5>2
      <4> QED
        BY <4>1, <4>2
    <3>3. Handling(n) = {i}
      BY <3>1, <3>2
    <3> QED
      BY <2>3, <3>3, FS_Singleton DEF Held
  <2> QED
    BY <2>2, <2>3
<1> QED
    BY <1>1, Counts, Shapes, PTL

-----------------------------------------------------------------------------
(* Types.                                                                  *)

Flags == corrupt \in BOOLEAN /\ calls \in 0..MaxCalls

LEMMA FlagsStep ==
    ASSUME Flags, [Next]_vars
    PROVE  Flags'
<1>1. MaxCalls \in Nat
    BY SynchronousConstants DEF SynchronousConstants
<1>2. ASSUME NEW n \in Node, Handshake(n) \/ SendText(n) \/ Ping(n) \/ Pong(n) \/ Close(n)
      PROVE  Flags'
  <2>1. \E t \in FrameType : Call(n, t)
    BY <1>2 DEF Handshake, SendText, Ping, Pong, Close, FrameType
  <2>2. corrupt' = corrupt /\ calls < MaxCalls /\ calls' = calls + 1
    BY <2>1 DEF Call
  <2> QED
    BY <1>1, <2>2 DEF Flags
<1>3. ASSUME NEW n \in Node, OnFrame(n) \/ Notify(n) \/ Consume(n) \/ Return(n)
      PROVE  Flags'
  <2>1. calls' = calls /\ corrupt' \in {corrupt, TRUE}
    BY <1>3 DEF OnFrame, Notify, Consume, Return
  <2> QED
    BY <2>1 DEF Flags
<1>4. CASE UNCHANGED vars
    BY <1>4 DEF vars, Flags
<1> QED
    BY <1>2, <1>3, <1>4 DEF Next, ParseProcess

(* The type invariant, for any number of calls.                            *)
THEOREM TypeCorrect == Spec => []TypeOK
<1>1. Init => Flags
  <2> SUFFICES ASSUME Init PROVE Flags
    OBVIOUS
  <2>1. corrupt = FALSE /\ calls = 0
    BY DEF Init
  <2>2. MaxCalls \in Nat
    BY SynchronousConstants DEF SynchronousConstants
  <2>3. corrupt \in BOOLEAN
    BY <2>1, Zenon
  <2>4. calls \in 0..MaxCalls
    BY <2>1, <2>2
  <2> QED
    BY <2>3, <2>4 DEF Flags
<1>2. Flags /\ [Next]_vars => Flags'
    BY FlagsStep
<1>3. DInv /\ Counted /\ Flags => TypeOK
  <2> SUFFICES ASSUME DInv, Counted, Flags PROVE TypeOK
    OBVIOUS
  <2>1. stack \in Seq(Activation) /\ Types
    BY StackOf DEF DInv
  <2> QED
    BY <2>1 DEF TypeOK, Types, Counted, Flags
<1> QED
    BY <1>1, <1>2, <1>3, Shapes, Counts, PTL DEF Spec

-----------------------------------------------------------------------------
(* The steps a call has left.                                              *)

LEMMA LeftIs ==
    ASSUME NEW c \in Activation, NEW k \in {0, 4}
    PROVE  /\ Left(c, k) \in 1..4 + 2 * k
           /\ c.next = "notify" => Left(c, k) = 3 + k
           /\ c.next = "consume" => Left(c, k) = 2
           /\ c.next = "parse" =>
                Left(c, k) = IF state[c.node] # "Closed" /\ buffer[c.node] # <<>>
                             THEN 4 + 2 * k ELSE 1
BY DEF Left, Activation

LEMMA AheadIs ==
    /\ stack = <<>> => Ahead = 0
    /\ \A a \in Activation : stack = <<a>> => Ahead = Left(a, 4)
    /\ \A a, b \in Activation : stack = <<b, a>> => Ahead = Left(b, 0) + Left(a, 4)
<1>1. \A a \in Activation : stack = <<a>> => Len(stack) = 1 /\ stack[1] = a /\ stack # <<>>
    BY Single
<1>2. \A a, b \in Activation : stack = <<b, a>> =>
          Len(stack) = 2 /\ stack[1] = b /\ stack[2] = a /\ stack # <<>>
    BY Pair
<1> QED
    BY <1>1, <1>2 DEF Ahead

\* The same of the next state.
LEMMA LeftNext ==
    ASSUME NEW c \in Activation, NEW k \in {0, 4}
    PROVE  /\ Left(c, k)' \in 1..4 + 2 * k
           /\ c.next = "notify" => Left(c, k)' = 3 + k
           /\ c.next = "consume" => Left(c, k)' = 2
           /\ c.next = "parse" =>
                Left(c, k)' = IF state'[c.node] # "Closed" /\ buffer'[c.node] # <<>>
                              THEN 4 + 2 * k ELSE 1
BY DEF Left, Activation

LEMMA AheadNext ==
    /\ stack' = <<>> => Ahead' = 0
    /\ \A a \in Activation : stack' = <<a>> => Ahead' = Left(a, 4)'
    /\ \A a, b \in Activation : stack' = <<b, a>> => Ahead' = Left(b, 0)' + Left(a, 4)'
<1>1. \A a \in Activation : stack' = <<a>> => Len(stack') = 1 /\ stack'[1] = a /\ stack' # <<>>
    BY Single
<1>2. \A a, b \in Activation : stack' = <<b, a>> =>
          Len(stack') = 2 /\ stack'[1] = b /\ stack'[2] = a /\ stack' # <<>>
    BY Pair
<1> QED
    BY <1>1, <1>2 DEF Ahead

LEMMA OuterRunsOut ==
    ASSUME Types, NEW x \in Node, NEW y \in Node, x # y,
           NEW a \in Activation, stack = <<a>>, Outer(x, y, a),
           OnFrame(x) \/ Notify(x) \/ Consume(x) \/ Return(x)
    PROVE  Ahead' < Ahead
<1>1. Head(stack) = a /\ Tail(stack) = <<>> /\ a.node = x /\ a.frame \in FrameType \cup {"None"}
    BY Alone DEF Activation, Outer
<1>2. ASSUME NEW t \in FrameType \cup {"None"}, NEW k \in {"parse", "notify", "consume"}
      PROVE  \E c \in Activation :
                 /\ Then(t, k) = <<c>> /\ c.node = x /\ c.next = k
                 /\ <<Call1(y)>> \o Then(t, k) = <<Call1(y), c>>
    BY Alone DEF Outer
<1>3. Call1(y) \in Activation
    BY DEF Call1, Activation
<1>4. Ahead = Left(a, 4)
    BY AheadIs
\* What is left once the outer call has gone on to k, alone or below a new one.
<1>5. ASSUME NEW t \in FrameType \cup {"None"}, NEW k \in {"parse", "notify", "consume"},
             stack' = Then(t, k)
      PROVE  \E c \in Activation : c.node = x /\ c.next = k /\ Ahead' = Left(c, 4)'
    BY <1>2, <1>5, AheadNext
<1>6. ASSUME NEW t \in FrameType \cup {"None"}, NEW k \in {"parse", "notify", "consume"},
             stack' = <<Call1(y)>> \o Then(t, k)
      PROVE  \E c \in Activation :
                 c.node = x /\ c.next = k /\ Ahead' = Left(Call1(y), 0)' + Left(c, 4)'
    BY <1>2, <1>3, <1>6, AheadNext
<1>7. Left(Call1(y), 0)' \in 1..4
    BY <1>3, LeftNext
<1>8. CASE OnFrame(x)
  <2>1. a.next = "parse" /\ state[x] # "Closed" /\ buffer[x] # <<>>
    BY <1>1, <1>8 DEF OnFrame, Runs
  <2>2. Ahead = 12
    BY <1>1, <1>4, <2>1, LeftIs
  <2>3. PICK t \in FrameType : Before(x, y, t) /\ buffer[x] = <<t>>
    BY <2>1 DEF Outer, Quiet
  <2>4. Head(buffer[x]) = t
    BY <2>3, Single
  <2>5. stack' = Then(t, "notify") \/ stack' = <<Call1(y)>> \o Then(t, "notify")
    BY <1>8, <2>4, PeerOf DEF OnFrame, SendFrame, Feed, Call1
  <2>6. CASE stack' = Then(t, "notify")
    <3>1. PICK c \in Activation : c.next = "notify" /\ Ahead' = Left(c, 4)'
      BY <1>5, <2>6
    <3> QED
      BY <2>2, <3>1, LeftNext
  <2>7. CASE stack' = <<Call1(y)>> \o Then(t, "notify")
    <3>1. PICK c \in Activation : c.next = "notify" /\ Ahead' = Left(Call1(y), 0)' + Left(c, 4)'
      BY <1>6, <2>7
    <3>2. Left(c, 4)' = 7
      BY <3>1, LeftNext
    <3> QED
      BY <1>7, <2>2, <3>1, <3>2
  <2> QED
    BY <2>5, <2>6, <2>7
<1>9. CASE Notify(x)
  <2>1. a.next = "notify"
    BY <1>1, <1>9 DEF Notify, Runs
  <2>2. Ahead = 7
    BY <1>4, <2>1, LeftIs
  <2>3. \/ stack' = Then(a.frame, "consume")
        \/ stack' = <<Call1(y)>> \o Then(a.frame, "consume")
    BY <1>1, <1>9, PeerOf DEF Notify, SendFrame, Feed, Call1
  <2>4. CASE stack' = Then(a.frame, "consume")
    <3>1. PICK c \in Activation : c.next = "consume" /\ Ahead' = Left(c, 4)'
      BY <1>1, <1>5, <2>4
    <3> QED
      BY <2>2, <3>1, LeftNext
  <2>5. CASE stack' = <<Call1(y)>> \o Then(a.frame, "consume")
    <3>1. PICK c \in Activation : c.next = "consume" /\ Ahead' = Left(Call1(y), 0)' + Left(c, 4)'
      BY <1>1, <1>6, <2>5
    <3>2. Left(c, 4)' = 2
      BY <3>1, LeftNext
    <3> QED
      BY <1>7, <2>2, <3>1, <3>2
  <2> QED
    BY <2>3, <2>4, <2>5
<1>10. CASE Consume(x)
  <2>1. a.next = "consume"
    BY <1>1, <1>10 DEF Consume, Runs
  <2>2. Ahead = 2
    BY <1>4, <2>1, LeftIs
  <2>3. buffer[x] = <<a.frame>>
    BY <2>1 DEF Outer
  <2>4. buffer'[x] = <<>> /\ stack' = Then("None", "parse")
    BY <1>10, <2>3, Single DEF Consume, Types
  <2>5. PICK c \in Activation : c.node = x /\ c.next = "parse" /\ Ahead' = Left(c, 4)'
    BY <1>5, <2>4
  <2> QED
    BY <2>2, <2>4, <2>5, LeftNext
<1>11. CASE Return(x)
  <2>1. Ahead' = 0
    BY <1>1, <1>11, AheadNext DEF Return
  <2> QED
    BY <1>4, <2>1, LeftIs
<1> QED
    BY <1>8, <1>9, <1>10, <1>11

LEMMA InnerRunsOut ==
    ASSUME Types, NEW x \in Node, NEW y \in Node, x # y,
           NEW a \in Activation, NEW b \in Activation, stack = <<b, a>>, Inner(x, y, a, b),
           OnFrame(y) \/ Notify(y) \/ Consume(y) \/ Return(y)
    PROVE  Ahead' < Ahead
<1>1. /\ Head(stack) = b /\ Tail(stack) = <<a>> /\ b.node = y
      /\ a.frame \in FrameType \cup {"None"} /\ b.frame \in FrameType \cup {"None"}
    BY Nested DEF Activation, Inner
<1>2. ASSUME NEW t \in FrameType \cup {"None"}, NEW k \in {"parse", "notify", "consume"}
      PROVE  \E c \in Activation : Then(t, k) = <<c, a>> /\ c.node = y /\ c.next = k
    BY Nested DEF Inner
<1>3. a.next \in {"notify", "consume"}
    BY DEF Inner, Activation
<1>4. Ahead = Left(b, 0) + Left(a, 4)
    BY AheadIs
<1>5. Left(a, 4)' = Left(a, 4) /\ Left(a, 4) \in 1..12
    BY <1>3, LeftIs, LeftNext
<1>6. PICK t \in FrameType :
          /\ Handles(b, y, t)
          /\ a.next = "notify" =>
                t \in {"System", "Close"} /\ (~Over(b, y) => Answered(x, y, t))
          /\ a.next = "consume" =>
                /\ state[x] = state[y] /\ state[x] \in {"Init", "Connected"}
                /\ t \in Reply /\ (t \in Notified => react[y][t] = "None")
    BY <1>3 DEF Inner, Reply, FrameType
\* What is left once the inner call has gone on to k.
<1>7. ASSUME NEW u \in FrameType \cup {"None"}, NEW k \in {"parse", "notify", "consume"},
             stack' = Then(u, k)
      PROVE  \E c \in Activation :
                 c.node = y /\ c.next = k /\ Ahead' = Left(c, 0)' + Left(a, 4)'
    BY <1>2, <1>7, AheadNext
<1>8. CASE OnFrame(y)
  <2>1. b.next = "parse" /\ state[y] # "Closed" /\ buffer[y] # <<>>
    BY <1>1, <1>8 DEF OnFrame, Runs
  <2>2. Left(b, 0) = 4
    BY <1>1, <2>1, LeftIs
  <2>3. buffer[y] = <<t>> /\ Head(buffer[y]) = t /\ ~Over(b, y)
    BY <1>6, <2>1, Single DEF Handles, Over
  <2>4. ~Answers(y, t)
    BY <1>3, <1>6, <2>3 DEF Answers, Answered, Reply
  <2>5. stack' = Then(t, "notify")
    BY <1>8, <2>3, <2>4 DEF OnFrame
  <2>6. PICK c \in Activation : c.next = "notify" /\ Ahead' = Left(c, 0)' + Left(a, 4)'
    BY <1>7, <2>5
  <2>7. Left(c, 0)' = 3
    BY <2>6, LeftNext
  <2> QED
    BY <1>4, <1>5, <2>2, <2>6, <2>7
<1>9. CASE Notify(y)
  <2>1. b.next = "notify" /\ b.frame = t /\ ~Over(b, y)
    BY <1>1, <1>6, <1>9 DEF Notify, Runs, Handles, Over
  <2>2. Left(b, 0) = 3
    BY <2>1, LeftIs
  <2>3. Reaction(y, t) = "None"
    <3>1. CASE t = "System"
      BY <1>3, <1>6, <2>1, <3>1 DEF Answered, Reaction, Reply, Types, Safe
    <3>2. CASE t = "Close"
      BY <3>2 DEF Reaction, Notified
    <3>3. CASE t # "System" /\ t # "Close"
      BY <1>3, <1>6, <3>3 DEF Reaction
    <3> QED
      BY <3>1, <3>2, <3>3
  <2>4. stack' = Then(t, "consume")
    BY <1>1, <1>9, <2>1, <2>3 DEF Notify
  <2>5. PICK c \in Activation : c.next = "consume" /\ Ahead' = Left(c, 0)' + Left(a, 4)'
    BY <1>7, <2>4
  <2>6. Left(c, 0)' = 2
    BY <2>5, LeftNext
  <2> QED
    BY <1>4, <1>5, <2>2, <2>5, <2>6
<1>10. CASE Consume(y)
  <2>1. b.next = "consume" /\ buffer[y] = <<t>>
    BY <1>1, <1>6, <1>10 DEF Consume, Runs, Handles
  <2>2. Left(b, 0) = 2
    BY <2>1, LeftIs
  <2>3. buffer'[y] = <<>> /\ stack' = Then("None", "parse")
    BY <1>10, <2>1, Single DEF Consume, Types
  <2>4. PICK c \in Activation :
            c.node = y /\ c.next = "parse" /\ Ahead' = Left(c, 0)' + Left(a, 4)'
    BY <1>7, <2>3
  <2>5. Left(c, 0)' = 1
    BY <2>3, <2>4, LeftNext
  <2> QED
    BY <1>4, <1>5, <2>2, <2>4, <2>5
<1>11. CASE Return(y)
  <2>1. Ahead' = Left(a, 4)'
    BY <1>1, <1>11, AheadNext DEF Return
  <2>2. Left(b, 0) \in 1..4
    BY LeftIs
  <2> QED
    BY <1>4, <1>5, <2>1, <2>2
<1> QED
    BY <1>8, <1>9, <1>10, <1>11

LEMMA RunsOut ==
    ASSUME DInv, ParseProcess
    PROVE  Ahead' < Ahead
<1>1. PICK x \in Node, y \in Node : x # y /\ Depth(x, y)
    BY DEF DInv
<1>2. Types /\ Node = {x, y}
    BY <1>1, PeerOf DEF DInv
<1>3. stack # <<>>
    BY DEF ParseProcess, OnFrame, Notify, Consume, Return, Runs
<1>4. PICK n \in Node : Head(stack).node = n /\ (OnFrame(n) \/ Notify(n) \/ Consume(n) \/ Return(n))
    BY DEF ParseProcess, OnFrame, Notify, Consume, Return, Runs
<1>5. CASE \E a \in Activation : stack = <<a>> /\ Outer(x, y, a)
  <2>1. PICK a \in Activation : stack = <<a>> /\ Outer(x, y, a)
    BY <1>5
  <2>2. n = x
    BY <1>4, <2>1, Single DEF Outer
  <2> QED
    BY <1>1, <1>2, <1>4, <2>1, <2>2, OuterRunsOut
<1>6. CASE \E a, b \in Activation : stack = <<b, a>> /\ Inner(x, y, a, b)
  <2>1. PICK a \in Activation, b \in Activation : stack = <<b, a>> /\ Inner(x, y, a, b)
    BY <1>6
  <2>2. n = y
    BY <1>4, <2>1, Pair DEF Inner
  <2> QED
    BY <1>1, <1>2, <1>4, <2>1, <2>2, InnerRunsOut
<1> QED
    BY <1>1, <1>3, <1>5, <1>6 DEF Depth

(* Every step of the running code leaves fewer steps of the application's  *)
(* call ahead, so that two listeners never keep each other sending on one  *)
(* stack, whatever their safe policies are.                                *)
THEOREM StepsRunOutAlways == Spec => StepsRunOut
<1>1. DInv /\ [Next]_vars => [ParseProcess => Ahead' < Ahead]_vars
    BY RunsOut
<1> QED
    BY <1>1, Shapes, PTL DEF Spec, StepsRunOut

(* There are never more than twelve of them: Handshake, SendText, Ping,    *)
(* Pong and Close return after twelve steps of ParseProcess at most.       *)
THEOREM CallsAreShort == Spec => [](Ahead \in 0..12)
<1>1. DInv => Ahead \in 0..12
  <2> SUFFICES ASSUME DInv PROVE Ahead \in 0..12
    OBVIOUS
  <2>1. PICK x \in Node, y \in Node : x # y /\ Depth(x, y)
    BY DEF DInv
  <2>2. CASE stack = <<>>
    BY <2>2, AheadIs
  <2>3. CASE \E a \in Activation : stack = <<a>>
    <3>1. PICK a \in Activation : stack = <<a>>
      BY <2>3
    <3> QED
      BY <3>1, AheadIs, LeftIs
  <2>4. CASE \E a, b \in Activation : stack = <<b, a>> /\ Inner(x, y, a, b)
    <3>1. PICK a \in Activation, b \in Activation : stack = <<b, a>> /\ Inner(x, y, a, b)
      BY <2>4
    <3>2. a.next \in {"notify", "consume"}
      BY <3>1 DEF Inner, Activation
    <3>3. Left(a, 4) \in 2..7 /\ Left(b, 0) \in 1..4
      BY <3>2, LeftIs
    <3> QED
      BY <3>1, <3>3, AheadIs
  <2> QED
    BY <2>1, <2>2, <2>3, <2>4 DEF Depth
<1> QED
    BY <1>1, Shapes, PTL

=============================================================================
