----------------------------- MODULE FrameParser -----------------------------
(***************************************************************************)
(* One direction of a connection as bytes: SendFrame writes the bytes of a *)
(* frame to a stream that arrives in pieces of any size, and FrameParser   *)
(* (include/WSocketContext.hpp) finds the frames again in its              *)
(* SlidingBuffer (include/SlidingBuffer.hpp).  Bytes come in by Feed, as   *)
(* the tests use it, or by PrepareWrite and CommitWrite, as WSocketBase    *)
(* receives from its socket.  The context above never stops parsing here.  *)
(***************************************************************************)
EXTENDS FrameHeader, SequencesExt

CONSTANTS
    Frames,    \* the frames that are sent: records of a tag byte and data bytes
    MaxFrames, \* bound on their number
    Capacity   \* RECEIVE_BUFFER_DEFAULT

ASSUME ParserConstants ==
    /\ Frames \subseteq [tag : Byte, data : Seq(Byte)]
    /\ MaxFrames \in Nat
    /\ Capacity \in Nat /\ Capacity >= Basic + Wide

VARIABLES
    inPlace, \* the owner receives with CommitWrite (WSocketBase) or with Feed
    sent,    \* the frames sent
    wire,    \* the bytes sent and not received
    buffer,  \* the memory of the SlidingBuffer, buffer_size_ long
    used,    \* buffer_used_: the first used bytes are data, the others stale
    parsing, \* ParseProcess is running
    handled  \* the frames handed to OnFrame

vars == <<inPlace, sent, wire, buffer, used, parsing, handled>>

TypeOK ==
    /\ inPlace \in BOOLEAN
    /\ sent \in Seq(Frames)
    /\ wire \in Seq(Byte)
    /\ buffer \in Seq(Byte)
    /\ Len(buffer) >= Capacity
    /\ used \in 0..Len(buffer)
    /\ parsing \in BOOLEAN
    /\ handled \in Seq([tag : Byte, data : Seq(Byte)])

Zeros(k) == [i \in 1..k |-> 0]

Data == SubSeq(buffer, 1, used)

Init ==
    /\ inPlace \in BOOLEAN
    /\ sent = <<>>
    /\ wire = <<>>
    /\ buffer = Zeros(Capacity)
    /\ used = 0
    /\ parsing = FALSE
    /\ handled = <<>>

SendFrame(f) ==
    /\ Len(sent) < MaxFrames
    /\ sent' = Append(sent, f)
    /\ wire' = wire \o Encode(f)
    /\ UNCHANGED <<inPlace, buffer, used, parsing, handled>>

-----------------------------------------------------------------------------
(* SlidingBuffer.                                                          *)

\* The memory mem with bytes written from position at + 1 on.
Written(mem, at, bytes) ==
    [i \in 1..Len(mem) |->
        IF i > at /\ i <= at + Len(bytes) THEN bytes[i - at] ELSE mem[i]]

\* Mutant: the new memory does not get the data of the old.
Resize_Forgets(len) == Zeros(len)

\* Fresh zeroed memory that keeps the data, not the stale bytes.
Resize(len) == Data \o Zeros(len - used)

\* Mutant: the room in the buffer is not checked.
Feed_Unchecked(bytes) ==
    /\ buffer' = Written(buffer, used, bytes)
    /\ used' = used + Len(bytes)

Feed(bytes) ==
    /\ buffer' =
          Written(IF Len(bytes) + used > Len(buffer) THEN Resize(Len(bytes) + used) ELSE buffer,
                  used, bytes)
    /\ used' = used + Len(bytes)

\* async_receive fills at most what PrepareWrite returned; with no room left
\* it completes with no bytes.
CommitWrite(bytes) ==
    /\ Len(bytes) <= Len(buffer) - used
    /\ buffer' = Written(buffer, used, bytes)
    /\ used' = used + Len(bytes)

Consume(len) ==
    /\ used' = used - len
    /\ buffer' = Written(buffer, 0, SubSeq(buffer, len + 1, used))

-----------------------------------------------------------------------------
(* WSocketContext::Feed and CommitWrite: take bytes, then ParseProcess.    *)

Receive ==
    /\ ~parsing
    /\ wire # <<>>
    /\ \E k \in 0..Len(wire) :
          /\ k > 0 \/ (inPlace /\ used = Len(buffer))
          /\ IF inPlace THEN CommitWrite(SubSeq(wire, 1, k)) ELSE Feed(SubSeq(wire, 1, k))
          /\ wire' = SubSeq(wire, k + 1, Len(wire))
    /\ parsing' = TRUE
    /\ UNCHANGED <<inPlace, sent, handled>>

\* Mutant: a frame that ends with the data waits for more.
Complete_Late ==
    /\ used >= 2
    /\ HeaderLength(buffer[2]) <= used
    /\ HeaderLength(buffer[2]) + Length(buffer) < used

\* The tests of ParseOne, in order.  Length() may read past the data.
Complete ==
    /\ used >= 2
    /\ HeaderLength(buffer[2]) <= used
    /\ (HeaderLength(buffer[2]) + Length(buffer)) % SizeT <= used

ParseOne ==
    /\ parsing
    /\ Complete
    /\ LET head == HeaderLength(buffer[2])
           len == Length(buffer)
       IN  /\ handled' = Append(handled, [tag |-> buffer[1],
                                          data |-> SubSeq(buffer, head + 1, head + len)])
           /\ Consume((head + len) % SizeT)
    /\ UNCHANGED <<inPlace, sent, wire, parsing>>

NeedMore ==
    /\ parsing
    /\ ~Complete
    /\ parsing' = FALSE
    /\ UNCHANGED <<inPlace, sent, wire, buffer, used, handled>>

-----------------------------------------------------------------------------

Next == Receive \/ ParseOne \/ NeedMore \/ \E f \in Frames : SendFrame(f)

Spec == Init /\ [][Next]_vars

\* The transport delivers and the event loop runs; nobody has to send.
FairSpec == Spec /\ WF_vars(Receive) /\ WF_vars(ParseOne) /\ WF_vars(NeedMore)

\* No byte is lost, repeated or misplaced however the stream is cut: what the
\* buffer and the wire hold is exactly the frames not yet handled.
BytesConserved ==
    Data \o wire = FlattenSeq([i \in 1..Len(sent) - Len(handled) |->
                                  Encode(sent[Len(handled) + i])])

\* The frames handled are those sent, in order.
FramesIntact == IsPrefix(handled, sent)

\* Every frame that is sent is handled in the end.
FramesArrive == \A i \in 1..MaxFrames : Len(sent) >= i ~> Len(handled) >= i

\* The parser implements the channel of frames the contexts rely on.
Channel == INSTANCE FrameChannel

ChannelSpec == Channel!FairSpec

=============================================================================
