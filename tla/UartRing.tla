------------------------------ MODULE UartRing -------------------------------
(***************************************************************************)
(* The receive ring of driver/uart.c.  The interrupt handler writes at     *)
(* head, the readers take at tail; one slot stays free so that head = tail *)
(* means empty.  The handler pre-empts the readers, which call             *)
(* uart0_rx_read only for bytes that uart0_rx_available has counted: a run *)
(* of such reads is one action here.                                       *)
(***************************************************************************)
EXTENDS Integers, Sequences

CONSTANTS
    Byte,       \* values of a byte
    Size        \* UART0_RX_BUFFER_SIZE, 1024 in the code

ASSUME UartRingAssumption == Size \in Nat \ {0} /\ 0 \in Byte

VARIABLES
    buffer, head, tail      \* m_rx_buffer

ring == <<buffer, head, tail>>

RingTypeOK ==
    /\ buffer \in [0..Size-1 -> Byte]
    /\ head \in 0..Size-1
    /\ tail \in 0..Size-1

\* Static storage: all zero.
RingInit ==
    /\ head = 0 /\ tail = 0
    /\ buffer = [k \in 0..Size-1 |-> 0]

RxAvailable == (Size + head - tail) % Size

\* The k-th unread byte, from 1.
Unread(k) == buffer[(tail + k - 1) % Size]

Content == [k \in 1..RxAvailable |-> Unread(k)]

\* Mutants: a full ring is overwritten; the index does not wrap.
RxWriteOver(b) ==
    /\ buffer' = [buffer EXCEPT ![head] = b]
    /\ head' = (head + 1) % Size
    /\ tail' = tail
\* uart0_rx_write, by the interrupt handler: a full ring drops the byte.
RxWrite(b) ==
    /\ LET next_write_index == (head + 1) % Size
       IN IF next_write_index # tail
          THEN /\ buffer' = [buffer EXCEPT ![head] = b]
               /\ head' = next_write_index
          ELSE UNCHANGED <<buffer, head>>
    /\ tail' = tail

\* n calls of uart0_rx_read; the bytes are Unread(1) .. Unread(n).
RxRead(n) ==
    /\ tail' = (tail + n) % Size
    /\ UNCHANGED <<buffer, head>>

\* A reset clears the static storage.
RingReset ==
    /\ head' = 0 /\ tail' = 0
    /\ buffer' = [k \in 0..Size-1 |-> 0]

RingNext ==
    \/ \E b \in Byte : RxWrite(b)
    \/ \E n \in 1..RxAvailable : RxRead(n)
    \/ RingReset

RingSpec == RingInit /\ [][RingNext]_ring

------------------------------------------------------------------------------
(* The ring is a queue of up to Size - 1 bytes: unless the device is reset, *)
(* the interrupt handler adds one byte at the end, and only while there is  *)
(* room, and a reader takes bytes from the front.  No index arithmetic,     *)
(* wrap or overflow makes bytes appear, move or vanish.                     *)
Fifo ==
    \/ /\ Len(Content) < Size - 1
       /\ \E b \in Byte : Content' = Append(Content, b)
       /\ tail' = tail
    \/ /\ \E n \in 1..Len(Content) : Content' = SubSeq(Content, n + 1, Len(Content))
       /\ UNCHANGED <<buffer, head>>
    \/ RingReset

RingIsFifo == [][Fifo]_ring
==============================================================================
