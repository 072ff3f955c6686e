---------------------------- MODULE DuplexStream ----------------------------
(***************************************************************************)
(* What a pair of WSocketContexts promises the two applications: in each   *)
(* direction a stream of texts that is opened once, delivers every text in *)
(* order while it is open, and is closed to the application only when the  *)
(* other side has stopped sending and its last text has been delivered.    *)
(***************************************************************************)
EXTENDS Naturals

CONSTANT Node

Peer(n) == CHOOSE m \in Node : m # n

VARIABLES
    phase,    \* what n's application has been told: "fresh", "open", "done"
    stopped,  \* n sends no more texts
    sent,     \* number of texts n has sent
    got       \* number of texts n has received

vars == <<phase, stopped, sent, got>>

Init ==
    /\ phase = [n \in Node |-> "fresh"]
    /\ stopped = [n \in Node |-> FALSE]
    /\ sent = [n \in Node |-> 0]
    /\ got = [n \in Node |-> 0]

\* The application may turn the connection down while it is being opened.
Open(n) ==
    /\ phase[n] = "fresh"
    /\ phase' = [phase EXCEPT ![n] = "open"]
    /\ \E refuse \in BOOLEAN : stopped' = [stopped EXCEPT ![n] = @ \/ refuse]
    /\ UNCHANGED <<sent, got>>

Send(n) ==
    /\ phase[n] = "open"
    /\ ~stopped[n]
    /\ sent' = [sent EXCEPT ![n] = @ + 1]
    /\ UNCHANGED <<phase, stopped, got>>

Stop(n) ==
    /\ phase[n] # "done"
    /\ stopped' = [stopped EXCEPT ![n] = TRUE]
    /\ UNCHANGED <<phase, sent, got>>

Deliver(n) ==
    /\ phase[n] = "open"
    /\ got[n] < sent[Peer(n)]
    /\ got' = [got EXCEPT ![n] = @ + 1]
    /\ UNCHANGED <<phase, stopped, sent>>

Finish(n) ==
    /\ phase[n] # "done"
    /\ stopped[Peer(n)]
    /\ got[n] = sent[Peer(n)]
    /\ phase' = [phase EXCEPT ![n] = "done"]
    /\ stopped' = [stopped EXCEPT ![n] = TRUE]
    /\ UNCHANGED <<sent, got>>

Next == \E n \in Node : Open(n) \/ Send(n) \/ Stop(n) \/ Deliver(n) \/ Finish(n)

Spec == Init /\ [][Next]_vars

\* What was sent arrives, and a stopped stream ends on the other side.
FairSpec == Spec /\ \A n \in Node : WF_vars(Deliver(n)) /\ WF_vars(Finish(n))

=============================================================================
