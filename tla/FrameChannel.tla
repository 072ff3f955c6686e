---------------------------- MODULE FrameChannel ----------------------------
(***************************************************************************)
(* What frame parsing promises the layer above: a reliable FIFO channel of *)
(* whole frames.  WSocketContext.tla is written over such channels.        *)
(***************************************************************************)
EXTENDS Naturals, Sequences

CONSTANT Frames

VARIABLES
    sent,    \* the frames sent, in order
    handled  \* the frames handed to OnFrame, in order

vars == <<sent, handled>>

Init == sent = <<>> /\ handled = <<>>

Send(f) == sent' = Append(sent, f) /\ UNCHANGED handled

Handle ==
    /\ Len(handled) < Len(sent)
    /\ handled' = Append(handled, sent[Len(handled) + 1])
    /\ UNCHANGED sent

Next == Handle \/ \E f \in Frames : Send(f)

Spec == Init /\ [][Next]_vars

\* No frame that was sent stays unhandled for ever.
FairSpec == Spec /\ WF_vars(Handle)

=============================================================================
