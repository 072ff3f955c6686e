-------------------------- MODULE SynchronousPair --------------------------
(***************************************************************************)
(* Two WSocketContexts (include/WSocketContext.hpp) on a link without a    *)
(* queue: the send handler of each calls Feed of the other at once, as in  *)
(* test_WSocketContext (test.cpp).  Everything then runs on one stack.     *)
(* ParseOne calls OnFrame before it consumes the frame, so a Feed that     *)
(* comes back to a context while one of its frames is being handled parses *)
(* that frame again, and leaves the outer Consume, which reads the header  *)
(* again, with other bytes or none.                                        *)
(* Listeners send from their callbacks; which frame on which callback is   *)
(* the policy react.  Calls of the application are made on an empty stack. *)
(***************************************************************************)
EXTENDS Naturals, Sequences, FiniteSets

CONSTANTS
    Node,      \* the two contexts
    Initiator, \* the one whose application calls Handshake
    MaxCalls   \* bound on the calls of the applications

ASSUME SynchronousConstants ==
    /\ \E a, b \in Node : a # b /\ Node = {a, b}
    /\ Initiator \in Node
    /\ MaxCalls \in Nat

Peer(n) == CHOOSE m \in Node : m # n

State == {"Init", "Connecting", "Connected", "Closing", "Closed"}
FrameType == {"System", "Text", "Ping", "Pong", "Close"}

\* The frames whose callbacks (OnConnected, OnText, OnPing) may send a frame.
Notified == {"System", "Text", "Ping"}
Reply == {"Text", "Ping", "Pong"}
Policy == [Node -> [Notified -> Reply \cup {"None"}]]

\* What a callback sends is taken in silence; so is the answer to a handshake.
Safe(p) ==
    /\ p[Initiator]["System"] = "None"
    /\ \A n \in Node : \A t \in Notified :
          p[n][t] \in Notified => p[Peer(n)][p[n][t]] = "None"

VARIABLES
    react,   \* the listeners' policy
    state,   \* state_ of each context
    buffer,  \* the frames in each context's buffer
    stack,   \* the running calls of ParseProcess, the innermost first
    sent,    \* sent[n]: number of frames sent to n
    handled, \* handled[n]: number of calls of n's OnFrame
    corrupt, \* a Consume has taken more than the buffer held
    calls    \* the calls of the applications so far

vars == <<react, state, buffer, stack, sent, handled, corrupt, calls>>

\* A call of ParseProcess: on which context, the frame it is handling, and
\* what it does next.
Activation ==
    [node : Node, frame : FrameType \cup {"None"}, next : {"parse", "notify", "consume"}]

TypeOK ==
    /\ react \in Policy
    /\ state \in [Node -> State]
    /\ buffer \in [Node -> Seq(FrameType)]
    /\ stack \in Seq(Activation)
    /\ sent \in [Node -> Nat]
    /\ handled \in [Node -> Nat]
    /\ corrupt \in BOOLEAN
    /\ calls \in 0..MaxCalls

Init ==
    /\ react \in {p \in Policy : Safe(p)}
    /\ state = [n \in Node |-> "Init"]
    /\ buffer = [n \in Node |-> <<>>]
    /\ stack = <<>>
    /\ sent = [n \in Node |-> 0]
    /\ handled = [n \in Node |-> 0]
    /\ corrupt = FALSE
    /\ calls = 0

-----------------------------------------------------------------------------
(* SendFrame: the send handler feeds the peer, whose ParseProcess starts   *)
(* on top of the calls in rest.                                            *)

Feed(n, t, rest) ==
    /\ buffer' = [buffer EXCEPT ![n] = Append(@, t)]
    /\ stack' = <<[node |-> n, frame |-> "None", next |-> "parse"]>> \o rest

SendFrame(n, t, rest) ==
    /\ Feed(Peer(n), t, rest)
    /\ sent' = [sent EXCEPT ![Peer(n)] = @ + 1]

-----------------------------------------------------------------------------
(* Calls of the applications.                                              *)

Call(n, t) ==
    /\ stack = <<>>
    /\ calls < MaxCalls
    /\ calls' = calls + 1
    /\ SendFrame(n, t, <<>>)
    /\ UNCHANGED <<react, handled, corrupt>>

Handshake(n) ==
    /\ n = Initiator
    /\ state[n] = "Init"
    /\ state' = [state EXCEPT ![n] = "Connecting"]
    /\ Call(n, "System")

SendText(n) ==
    /\ state[n] = "Connected"
    /\ Call(n, "Text")
    /\ UNCHANGED state

Ping(n) == Call(n, "Ping") /\ UNCHANGED state

Pong(n) == Call(n, "Pong") /\ UNCHANGED state

Close(n) ==
    /\ state[n] # "Closed"
    /\ state' = [state EXCEPT ![n] = "Closing"]
    /\ Call(n, "Close")

-----------------------------------------------------------------------------
(* The innermost ParseProcess.                                             *)

Runs(n, next) == stack # <<>> /\ Head(stack).node = n /\ Head(stack).next = next

\* The stack once the innermost call has gone on to do next.
Then(t, next) == <<[Head(stack) EXCEPT !.frame = t, !.next = next]>> \o Tail(stack)

\* Mutant: a Close frame is acknowledged in any state.
Answers_Always(n, t) == (t = "System" /\ state[n] = "Init") \/ t = "Close"

\* Mutant: a Close frame is not acknowledged.
Answers_NoClose(n, t) == t = "System" /\ state[n] = "Init"

\* The frames a context answers itself: the first handshake and the first close.
Answers(n, t) ==
    \/ t = "System" /\ state[n] = "Init"
    \/ t = "Close" /\ state[n] # "Closing"

\* ParseOne calls OnFrame, which answers with a frame of the same type.
OnFrame(n) ==
    /\ Runs(n, "parse")
    /\ state[n] # "Closed"
    /\ buffer[n] # <<>>
    /\ LET t == Head(buffer[n]) IN
         IF Answers(n, t)
         THEN /\ state' = [state EXCEPT ![n] = IF t = "System" THEN "Connecting" ELSE "Closing"]
              /\ SendFrame(n, t, Then(t, "notify"))
         ELSE /\ stack' = Then(t, "notify")
              /\ UNCHANGED <<state, buffer, sent>>
    /\ handled' = [handled EXCEPT ![n] = @ + 1]
    /\ UNCHANGED <<react, corrupt, calls>>

\* A listener sends texts between OnConnected and OnClose only.
Reaction(n, t) ==
    IF t \in Notified /\ ~(react[n][t] = "Text" /\ state'[n] # "Connected")
    THEN react[n][t] ELSE "None"

\* Mutant: a close leaves the context in Error.
Notify_Error(n) ==
    /\ Runs(n, "notify")
    /\ state' = [state EXCEPT ![n] = IF Head(stack).frame = "Close" THEN "Error" ELSE "Connected"]
    /\ stack' = Then(Head(stack).frame, "consume")
    /\ UNCHANGED <<react, buffer, sent, handled, corrupt, calls>>

\* OnFrame goes on: the state after the answer, then the callback.
Notify(n) ==
    /\ Runs(n, "notify")
    /\ LET t == Head(stack).frame IN
         /\ state' = [state EXCEPT ![n] =
                        CASE t = "System" -> "Connected" [] t = "Close" -> "Closed" [] OTHER -> @]
         /\ IF Reaction(n, t) # "None"
            THEN SendFrame(n, Reaction(n, t), Then(t, "consume"))
            ELSE /\ stack' = Then(t, "consume")
                 /\ UNCHANGED <<buffer, sent>>
    /\ UNCHANGED <<react, handled, corrupt, calls>>

\* Mutant: the frame stays in the buffer when its handling has closed the context.
Consume_NotClosed(n) ==
    /\ Runs(n, "consume")
    /\ buffer' = [buffer EXCEPT ![n] = IF state[n] = "Closed" THEN @ ELSE Tail(@)]
    /\ stack' = Then("None", "parse")
    /\ UNCHANGED <<react, state, sent, handled, corrupt, calls>>

\* Consume removes the frame that is now the first; without one the length
\* of the buffer wraps around.
Consume(n) ==
    /\ Runs(n, "consume")
    /\ IF buffer[n] = <<>>
       THEN corrupt' = TRUE /\ UNCHANGED buffer
       ELSE buffer' = [buffer EXCEPT ![n] = Tail(@)] /\ UNCHANGED corrupt
    /\ stack' = Then("None", "parse")
    /\ UNCHANGED <<react, state, sent, handled, calls>>

\* Mutant: ParseProcess does not return while there are frames in the buffer.
Return_Drained(n) ==
    /\ Runs(n, "parse")
    /\ buffer[n] = <<>>
    /\ stack' = Tail(stack)
    /\ UNCHANGED <<react, state, buffer, sent, handled, corrupt, calls>>

Return(n) ==
    /\ Runs(n, "parse")
    /\ state[n] = "Closed" \/ buffer[n] = <<>>
    /\ stack' = Tail(stack)
    /\ UNCHANGED <<react, state, buffer, sent, handled, corrupt, calls>>

-----------------------------------------------------------------------------

ParseProcess == \E n \in Node : OnFrame(n) \/ Notify(n) \/ Consume(n) \/ Return(n)

Next ==
    \/ ParseProcess
    \/ \E n \in Node : Handshake(n) \/ SendText(n) \/ Ping(n) \/ Pong(n) \/ Close(n)

Spec == Init /\ [][Next]_vars

\* The code that is running goes on.
FairSpec == Spec /\ WF_vars(ParseProcess)

Handling(n) == {i \in 1..Len(stack) : stack[i].node = n /\ stack[i].next # "parse"}

\* No Feed comes back to a context that is in the middle of a frame, so the
\* frame ParseOne consumes is the one it has handled.
NoReentry ==
    \A n \in Node : \A i \in 1..Len(stack) : i \in Handling(n) =>
        /\ \A j \in 1..i - 1 : stack[j].node # n
        /\ buffer[n] # <<>> /\ Head(buffer[n]) = stack[i].frame

\* OnFrame has been called once for every frame that has left the buffer or
\* is being handled, and for no other.
HandledOnce ==
    /\ ~corrupt
    /\ \A n \in Node : handled[n] + Len(buffer[n]) = sent[n] + Cardinality(Handling(n))

\* A call returns when all it has brought about is over: both contexts are in
\* the same state, no handshake or close is under way and no frame is left.
Settled ==
    stack = <<>> => \A n \in Node :
        /\ state[n] \in {"Init", "Connected", "Closed"}
        /\ state[n] = state[Peer(n)]
        /\ state[n] # "Closed" => buffer[n] = <<>>

\* Every call returns: the two sides never answer each other for ever.
CallsReturn == stack # <<>> ~> stack = <<>>

\* The steps a call of ParseProcess has left, when what its frame makes the
\* peer do takes k steps for the answer and k for what the callback sends.
Left(c, k) ==
    CASE c.next = "parse" ->
           IF state[c.node] # "Closed" /\ buffer[c.node] # <<>> THEN 4 + 2 * k ELSE 1
      [] c.next = "notify" -> 3 + k
      [] OTHER -> 2

\* At most so many steps are left: a call that is called from another one
\* makes its peer do nothing.
Ahead ==
    IF stack = <<>> THEN 0
    ELSE IF Len(stack) = 1 THEN Left(stack[1], 4)
    ELSE Left(stack[1], 0) + Left(stack[Len(stack)], 4)

\* Every step of the running code brings the return of the application's call
\* nearer: a call brings about one handshake or close, one answer and what one
\* callback sends, and never an exchange that feeds itself.
StepsRunOut == [][ParseProcess => Ahead' < Ahead]_vars

=============================================================================
