-------------------------- MODULE MCWSocketContext --------------------------
(* Constants for the runs of WSocketContext: a client and a server.        *)
EXTENDS WSocketContext

CONSTANTS client, server

MCNode == {client, server}
Nobody == {}

WithZstd == [n \in MCNode |-> {"Zstd"}]

Bound(text, binary, close, ping, pong, other) ==
    [t \in FrameType |->
        CASE t = "Text" -> text [] t = "Binary" -> binary [] t = "Close" -> close
          [] t = "Ping" -> ping [] t = "Pong" -> pong [] t = "Other" -> other [] OTHER -> 0]

\* Two texts and two closes a side, and a stray frame and a Pong of the
\* server: every crossing of text, reply, close and a frame the code skips.
TextsAndCloses ==
    [n \in MCNode |->
        IF n = server THEN Bound(2, 0, 2, 0, 1, 1) ELSE Bound(2, 0, 2, 0, 0, 0)]
\* One call of most kinds, and a second Close.
MostCalls == [n \in MCNode |-> Bound(1, 1, 2, 1, 0, 0)]
\* One call of every kind.
EachCallOnce == [n \in MCNode |-> Bound(1, 1, 1, 1, 1, 0)]
=============================================================================
