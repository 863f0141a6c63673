--------------------------- MODULE MCSerialReader ----------------------------
(* A byte has three bits: the CRC flag and a length of 0..3, where 2 and 3  *)
(* announce an extended length.                                             *)
EXTENDS SerialReader

MCByte == 0..7
MCNoise == {AA}
MCCrc(d) == <<(d[1] + Len(d)) % 8>>
MCIsArray(d) == d # <<>> /\ d[1] = 7
\* Three good messages, one that is not an array and one whose length is
\* beyond the index of the loop that reads it.
MCSent == {[data |-> <<7>>, cf |-> TRUE, wide |-> FALSE],
           [data |-> <<7, 0>>, cf |-> FALSE, wide |-> FALSE],
           [data |-> <<7, 0>>, cf |-> TRUE, wide |-> TRUE],
           [data |-> <<3>>, cf |-> FALSE, wide |-> FALSE],
           [data |-> <<7, 0, 0>>, cf |-> FALSE, wide |-> FALSE]}
==============================================================================
