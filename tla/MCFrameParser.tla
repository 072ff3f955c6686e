---------------------------- MODULE MCFrameParser ----------------------------
(* Constants for the runs of FrameParser: bytes of 4 values, a field of 6   *)
(* bytes.  A length of 0 or 1 is in the length byte, one of 2..15 is after  *)
(* the first mark and a longer one after the second.                        *)
EXTENDS FrameParser

Filled(len, byte) == [i \in 1..len |-> byte]

\* Both sides of the first boundary, with payloads that look like headers, up
\* to a frame that fills a buffer of 12 bytes.
ShortAndMedium ==
    { [tag |-> 0, data |-> <<>>], [tag |-> 1, data |-> <<3>>],
      [tag |-> 2, data |-> <<2, 3>>], [tag |-> 3, data |-> Filled(4, 2)] }

\* The longest medium payload and one that is just too long.
Large == { [tag |-> 1, data |-> Filled(15, 1)], [tag |-> 1, data |-> Filled(16, 0)] }

\* A frame that fits a buffer of 12 bytes and one that is a byte too long.
TooLong == { [tag |-> 1, data |-> <<1>>], [tag |-> 2, data |-> Filled(5, 3)] }
=============================================================================
