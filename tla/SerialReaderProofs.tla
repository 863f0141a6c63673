------------------------- MODULE SerialReaderProofs --------------------------
(***************************************************************************)
(* The receive ring of driver/uart.c is a queue, for every size of the     *)
(* ring and every set of bytes, and the reader of the frames of the MCU    *)
(* takes from it only what is there and rejects a good frame only after    *)
(* one that failed.  The lemmas about the ring take the modulus out of the *)
(* index arithmetic; they speak of numbers, not of the variables, so that  *)
(* they hold before and after a step.                                      *)
(***************************************************************************)
EXTENDS SerialReader, WellFoundedInduction, TLAPS

(* An index that has gone at most once around is brought back by one        *)
(* subtraction: what "% UART0_RX_BUFFER_SIZE" does in driver/uart.c.        *)
LEMMA Wrap ==
    ASSUME NEW N \in Nat \ {0}, NEW a \in 0..(2 * N - 1)
    PROVE  a % N = IF a < N THEN a ELSE a - N
  <1>1. CASE a < N
    BY <1>1, SMT
  <1>2. CASE ~(a < N)
    <2>1. a - N \in 0..N-1
      BY <1>2, SMT
    <2>2. a = 1 * N + (a - N)
      BY SMT
    <2> QED
      BY <1>2, <2>1, <2>2, SMT
  <1> QED
    BY <1>1, <1>2

(* An index advanced by at most one round, without the modulus.             *)
LEMMA Advance ==
    ASSUME NEW N \in Nat \ {0}, NEW i \in 0..N-1, NEW d \in 0..N
    PROVE  (i + d) % N = IF i + d < N THEN i + d ELSE i + d - N
  <1> DEFINE a == i + d
  <1>1. a \in 0..(2 * N - 1)
    BY SMT
  <1>2. a % N = IF a < N THEN a ELSE a - N
    BY <1>1, Wrap
  <1> QED
    BY <1>2

(* uart0_rx_available without the modulus.                                  *)
LEMMA Distance ==
    ASSUME NEW N \in Nat \ {0}, NEW h \in 0..N-1, NEW t \in 0..N-1
    PROVE  /\ (N + h - t) % N = IF h >= t THEN h - t ELSE N + h - t
           /\ (N + h - t) % N \in 0..N-1
  <1> DEFINE a == N + h - t
  <1>1. a \in 0..(2 * N - 1)
    BY SMT
  <1>2. a % N = IF a < N THEN a ELSE a - N
    BY <1>1, Wrap
  <1> QED
    BY <1>2, SMT

(* The slot of the k-th unread byte without the modulus.                    *)
LEMMA Slot ==
    ASSUME NEW N \in Nat \ {0}, NEW t \in 0..N-1, NEW k \in 1..N
    PROVE  /\ (t + k - 1) % N = IF t + k - 1 < N THEN t + k - 1 ELSE t + k - 1 - N
           /\ (t + k - 1) % N \in 0..N-1
  <1> DEFINE a == t + k - 1
  <1>1. a \in 0..(2 * N - 1)
    BY SMT
  <1>2. a % N = IF a < N THEN a ELSE a - N
    BY <1>1, Wrap
  <1> QED
    BY <1>2, SMT

(* The unread bytes are a sequence as long as uart0_rx_available says.      *)
LEMMA ContentIsSeq ==
    ASSUME RingTypeOK
    PROVE  /\ RxAvailable \in 0..Size-1
           /\ Content \in Seq(Byte)
           /\ Len(Content) = RxAvailable
  <1> USE UartRingAssumption
  <1>1. RxAvailable \in 0..Size-1
    BY Distance DEF RxAvailable, RingTypeOK
  <1>2. \A k \in 1..RxAvailable : Unread(k) \in Byte
    <2> TAKE k \in 1..RxAvailable
    <2>1. k \in 1..Size
      BY <1>1, SMT
    <2>2. (tail + k - 1) % Size \in 0..Size-1
      BY <2>1, Slot DEF RingTypeOK
    <2> QED
      BY <2>2, Zenon DEF Unread, RingTypeOK
  <1> QED
    BY <1>1, <1>2, SMT DEF Content

(* Every step of the ring keeps its indices in range.                       *)
LEMMA RingTypeStep ==
    RingTypeOK /\ [RingNext]_ring => RingTypeOK'
  <1> SUFFICES ASSUME RingTypeOK, [RingNext]_ring PROVE RingTypeOK'
    OBVIOUS
  <1> USE UartRingAssumption
  <1>1. CASE UNCHANGED ring
    BY <1>1 DEF RingTypeOK, ring
  <1>2. ASSUME NEW b \in Byte, RxWrite(b) PROVE RingTypeOK'
    <2>1. (head + 1) % Size \in 0..Size-1
      BY SMT DEF RingTypeOK
    <2> QED
      BY <1>2, <2>1 DEF RingTypeOK, RxWrite
  <1>3. ASSUME NEW n \in 1..RxAvailable, RxRead(n) PROVE RingTypeOK'
    <2>1. n \in 0..Size-1
      BY ContentIsSeq, SMT
    <2>2. (tail + n) % Size \in 0..Size-1
      BY <2>1, SMT DEF RingTypeOK
    <2> QED
      BY <1>3, <2>2 DEF RingTypeOK, RxRead
  <1>4. CASE RingReset
    BY <1>4, SMT DEF RingReset, RingTypeOK
  <1> QED
    BY <1>1, <1>2, <1>3, <1>4 DEF RingNext

(* uart0_rx_write appends its byte while the ring is not full: the slot it  *)
(* writes is behind the last unread byte and is none of the unread ones.    *)
LEMMA WriteAppends ==
    ASSUME RingTypeOK, RingTypeOK', NEW b \in Byte, RxWrite(b), ~UNCHANGED ring
    PROVE  /\ Len(Content) < Size - 1
           /\ Content' = Append(Content, b)
  <1> DEFINE n == RxAvailable
  <1>0. Size \in Nat \ {0} /\ head \in 0..Size-1 /\ tail \in 0..Size-1
        /\ buffer \in [0..Size-1 -> Byte]
    BY UartRingAssumption DEF RingTypeOK
  <1>1. /\ (head + 1) % Size # tail
        /\ head' = (head + 1) % Size
        /\ tail' = tail
        /\ buffer' = [buffer EXCEPT ![head] = b]
    BY DEF RxWrite, ring
  <1>2. head' = IF head + 1 < Size THEN head + 1 ELSE 0
    <2>1. 1 \in 0..Size
      BY <1>0, SMT
    <2>2. (head + 1) % Size = IF head + 1 < Size THEN head + 1 ELSE head + 1 - Size
      BY <1>0, <2>1, Advance
    <2> QED
      BY <1>0, <1>1, <2>2, SMT
  <1>3. n = IF head >= tail THEN head - tail ELSE Size + head - tail
    BY <1>0, Distance DEF RxAvailable
  <1>4. RxAvailable' = IF head' >= tail THEN head' - tail ELSE Size + head' - tail
    <2>1. head' \in 0..Size-1
      BY <1>0, <1>2, SMT
    <2> QED
      BY <1>0, <1>1, <2>1, Distance DEF RxAvailable
  <1>5. n \in 0..Size-2 /\ RxAvailable' = n + 1
    BY <1>0, <1>1, <1>2, <1>3, <1>4, SMT
  <1>6. ASSUME NEW k \in 1..n+1
        PROVE  Unread(k)' = IF k <= n THEN Unread(k) ELSE b
    <2>1. k \in 1..Size
      BY <1>0, <1>5, SMT
    <2> DEFINE s == (tail + k - 1) % Size
    <2>2. s = IF tail + k - 1 < Size THEN tail + k - 1 ELSE tail + k - 1 - Size
      BY <1>0, <2>1, Slot
    <2>3. s \in 0..Size-1
      BY <1>0, <2>1, Slot
    <2> HIDE DEF s
    <2>4. IF k <= n THEN s # head ELSE s = head
      BY <1>0, <1>3, <1>5, <2>1, <2>2, SMT
    <2>5. Unread(k) = buffer[s] /\ Unread(k)' = buffer'[s]
      BY <1>1 DEF Unread, s
    <2> QED
      BY <1>0, <1>1, <2>3, <2>4, <2>5
  <1>7. Content = [k \in 1..n |-> Unread(k)] /\ Content \in Seq(Byte) /\ Len(Content) = n
    BY ContentIsSeq DEF Content
  <1>8. Content' = [k \in 1..n+1 |-> Unread(k)']
    BY <1>5 DEF Content
  <1> HIDE DEF n
  <1>9. Content' = [k \in 1..n+1 |-> IF k <= n THEN Content[k] ELSE b]
    BY <1>5, <1>6, <1>7, <1>8, SMT
  <1> QED
    BY <1>0, <1>5, <1>7, <1>9, SMT

(* A run of uart0_rx_read takes that many bytes from the front.             *)
LEMMA ReadTakesFront ==
    ASSUME RingTypeOK, RingTypeOK', NEW m \in 1..RxAvailable, RxRead(m)
    PROVE  Content' = SubSeq(Content, m + 1, Len(Content))
  <1> DEFINE n == RxAvailable
  <1>0. Size \in Nat \ {0} /\ head \in 0..Size-1 /\ tail \in 0..Size-1 /\ tail' \in 0..Size-1
    BY UartRingAssumption DEF RingTypeOK
  <1>1. head' = head /\ buffer' = buffer /\ tail' = (tail + m) % Size
    BY DEF RxRead
  <1>2. n \in 0..Size-1 /\ m \in 1..n
    BY ContentIsSeq
  <1>3. tail' = IF tail + m < Size THEN tail + m ELSE tail + m - Size
    <2>1. m \in 0..Size
      BY <1>0, <1>2, SMT
    <2> QED
      BY <1>0, <1>1, <2>1, Advance
  <1>4. n = IF head >= tail THEN head - tail ELSE Size + head - tail
    BY <1>0, Distance DEF RxAvailable
  <1>5. RxAvailable' = IF head >= tail' THEN head - tail' ELSE Size + head - tail'
    BY <1>0, <1>1, Distance DEF RxAvailable
  <1>6. RxAvailable' = n - m
    BY <1>0, <1>2, <1>3, <1>4, <1>5, SMT
  <1>7. ASSUME NEW k \in 1..n-m
        PROVE  Unread(k)' = Unread(k + m)
    <2>1. k \in 1..Size /\ k + m \in 1..Size
      BY <1>0, <1>2, SMT
    <2>2. (tail' + k - 1) % Size = IF tail' + k - 1 < Size THEN tail' + k - 1
                                    ELSE tail' + k - 1 - Size
      BY <1>0, <2>1, Slot
    <2>3. (tail + (k + m) - 1) % Size = IF tail + (k + m) - 1 < Size THEN tail + (k + m) - 1
                                         ELSE tail + (k + m) - 1 - Size
      BY <1>0, <2>1, Slot
    <2>4. (tail' + k - 1) % Size = (tail + (k + m) - 1) % Size
      BY <1>0, <1>2, <1>3, <2>1, <2>2, <2>3, SMT
    <2> QED
      BY <1>1, <2>4 DEF Unread
  <1>8. Content = [k \in 1..n |-> Unread(k)] /\ Content \in Seq(Byte) /\ Len(Content) = n
    BY ContentIsSeq DEF Content
  <1>9. Content' = [k \in 1..n-m |-> Unread(k)']
    BY <1>6 DEF Content
  <1> HIDE DEF n
  <1>10. Content' = [k \in 1..n-m |-> Content[k + m]]
    BY <1>2, <1>7, <1>8, <1>9, SMT
  <1> QED
    BY <1>2, <1>8, <1>10, SMT

(* The indices of the ring stay in range.                                   *)
THEOREM RingTyped ==
    RingSpec => []RingTypeOK
  <1>1. RingInit => RingTypeOK
    BY UartRingAssumption, SMT DEF RingInit, RingTypeOK
  <1> QED
    BY <1>1, RingTypeStep, PTL DEF RingSpec

(* RingIsFifo for every size of the ring: what the interrupt handler writes *)
(* is read in the same order, each byte once, and a byte is dropped only    *)
(* when Size - 1 bytes are unread.                                          *)
THEOREM RingFifo ==
    RingSpec => RingIsFifo
  <1>1. RingTypeOK /\ RingTypeOK' /\ [RingNext]_ring => [Fifo]_ring
    <2> SUFFICES ASSUME RingTypeOK, RingTypeOK', RingNext, ~UNCHANGED ring PROVE Fifo
      OBVIOUS
    <2>1. ASSUME NEW b \in Byte, RxWrite(b) PROVE Fifo
      BY <2>1, WriteAppends DEF Fifo, RxWrite
    <2>2. ASSUME NEW m \in 1..RxAvailable, RxRead(m) PROVE Fifo
      <3>1. Content' = SubSeq(Content, m + 1, Len(Content))
        BY <2>2, ReadTakesFront
      <3>2. m \in 1..Len(Content)
        BY ContentIsSeq
      <3> QED
        BY <2>2, <3>1, <3>2 DEF Fifo, RxRead
    <2>3. CASE RingReset
      BY <2>3 DEF Fifo
    <2> QED
      BY <2>1, <2>2, <2>3 DEF RingNext
  <1> QED
    BY <1>1, RingTyped, PTL DEF RingSpec, RingIsFifo

(* What the reader keeps from step to step: types, and what seen, the bytes *)
(* it took of the frame being read, says of the frame.                      *)
ReaderTypeOK ==
    /\ u2art_data \in [start : BOOLEAN, cf : BOOLEAN, length : 0..Half-1, extend_length : Nat]
    /\ get_length \in BOOLEAN /\ failed \in BOOLEAN
    /\ sending \in Seq(Byte) /\ seen \in Seq(Byte)

Measured ==
    /\ Len(seen) = 3 + LengthBytes
    /\ LengthBytes > 0 => Number(SubSeq(seen, 4, Len(seen))) = u2art_data.extend_length

ParseInv ==
    /\ pc = "scan" => ~u2art_data.start
    /\ pc = "length" => u2art_data.start /\ ~get_length
    /\ pc = "data" => u2art_data.start /\ get_length
    /\ u2art_data.start =>
          /\ Len(seen) >= 3 /\ seen[1] = AA /\ seen[2] = B55
          /\ seen[3] = Header(u2art_data.cf, u2art_data.length)
    /\ u2art_data.start /\ ~get_length => Len(seen) = 3
    /\ u2art_data.start /\ get_length => Measured \/ (failed /\ u2art_data.length >= Half - 2)
    /\ get_length /\ ~u2art_data.start => failed

ReaderInv == RingTypeOK /\ ReaderTypeOK /\ ParseInv

------------------------------------------------------------------------------
(* Induction: a nonempty set of numbers has a least one, and a function    *)
(* that is defined by a step on what it is at the number before exists and *)
(* has its type.                                                           *)
LEMMA LeastNumber == ASSUME NEW T \in SUBSET Nat, T # {} PROVE \E x \in T : \A y \in T : x <= y
<1>1. IsWellFoundedOn({ss \in Nat \X Nat : ss[1] < ss[2]}, Nat)
  BY NatLessThanWellFounded DEF OpToRel
<1>2. PICK x \in T : \A y \in T : ~ (<<y, x>> \in {ss \in Nat \X Nat : ss[1] < ss[2]})
  BY <1>1, WFMin
<1>3. ASSUME NEW y \in T PROVE x <= y
  <2>1. <<y, x>> \notin {ss \in Nat \X Nat : ss[1] < ss[2]} /\ x \in Nat /\ y \in Nat
    BY <1>2
  <2> QED BY <2>1
<1> QED BY <1>3

Steps(g, F, x, a, k) == \A n \in a..k : g[n] = IF n = a THEN x ELSE F[<<n, g[n - 1]>>]

LEMMA Induction ==
    ASSUME NEW S, NEW a \in Nat, NEW k \in Nat, NEW g,
           g[a] \in S, \A n \in a + 1..k : g[n - 1] \in S => g[n] \in S
    PROVE  \A n \in a..k : g[n] \in S
<1> DEFINE T == {n \in a..k : g[n] \notin S}
<1>1. SUFFICES ASSUME T # {} PROVE FALSE
  OBVIOUS
<1>2. T \in SUBSET Nat
  OBVIOUS
<1>3. PICK n \in T : \A m \in T : n <= m
  <2> HIDE DEF T
  <2> QED BY <1>1, <1>2, LeastNumber
<1>4. n \in a + 1..k /\ n - 1 \in a..k
  BY <1>3
<1>5. n - 1 \notin T
  BY <1>2, <1>3
<1> QED BY <1>4, <1>5

LEMMA StepsExist ==
    ASSUME NEW S, NEW F \in [Nat \X S -> S], NEW x \in S, NEW a \in Nat, NEW k \in Nat, a <= k
    PROVE  \E g \in [a..k -> S] : Steps(g, F, x, a, k)
<1> DEFINE Good(m) == \E g \in [a..m -> S] : Steps(g, F, x, a, m)
           T == {m \in Nat : a <= m /\ ~Good(m)}
<1>1. SUFFICES ASSUME T # {} PROVE FALSE
  OBVIOUS
<1>2. PICK m \in T : \A j \in T : m <= j
  BY <1>1, LeastNumber
<1>3. m # a
  <2> SUFFICES Good(a)
    BY <1>2
  <2>1. [n \in a..a |-> x] \in [a..a -> S] /\ Steps([n \in a..a |-> x], F, x, a, a)
    BY DEF Steps
  <2> QED BY <2>1
<1>4. m - 1 \in Nat /\ a <= m - 1 /\ m \in Nat /\ m - 1 \notin T
  BY <1>2, <1>3
<1>5. PICK h \in [a..m - 1 -> S] : Steps(h, F, x, a, m - 1)
  BY <1>4
<1> DEFINE g == [n \in a..m |-> IF n = m THEN F[<<m, h[m - 1]>>] ELSE h[n]]
<1>6. g \in [a..m -> S]
  <2>1. h[m - 1] \in S
    BY <1>4, <1>5
  <2> QED BY <1>4, <1>5, <2>1
<1>7. Steps(g, F, x, a, m)
  <2> SUFFICES ASSUME NEW n \in a..m PROVE g[n] = IF n = a THEN x ELSE F[<<n, g[n - 1]>>]
    BY DEF Steps
  <2>1. CASE n = m
    <3>1. g[m] = F[<<m, h[m - 1]>>] /\ g[m - 1] = h[m - 1]
      BY <1>4
    <3> QED BY <1>3, <2>1, <3>1
  <2>2. CASE n # m
    <3>1. n \in a..m - 1 /\ g[n] = h[n] /\ (n # a => g[n - 1] = h[n - 1])
      BY <1>4, <2>2
    <3> QED BY <1>5, <3>1 DEF Steps
  <2> QED BY <2>1, <2>2
<1>8. Good(m)
  BY <1>6, <1>7
<1> QED BY <1>2, <1>8

\* The value of bytes is a number.
LEMMA NumberType == ASSUME NEW s \in Seq(Byte) PROVE Number(s) \in Nat
<1> DEFINE N == Len(s)
           F == [p \in Nat \X Nat |-> IF p[1] \in 1..N THEN 2 * Half * p[2] + s[p[1]] ELSE 0]
           Step(f) == [k \in 0..Len(s) |-> IF k = 0 THEN 0 ELSE 2 * Half * f[k - 1] + s[k]]
           value == CHOOSE f : f = Step(f)
<1>1. Number(s) = value[N]
  BY DEF Number
<1>2. N \in Nat /\ Half \in Nat /\ \A k \in 1..N : s[k] \in Nat
  BY SerialReaderAssumption
<1>3. F \in [Nat \X Nat -> Nat]
  <2>1. ASSUME NEW k \in Nat, NEW v \in Nat PROVE (IF k \in 1..N THEN 2 * Half * v + s[k] ELSE 0) \in Nat
    <3> HIDE DEF N
    <3>1. k \in 1..N => s[k] \in Nat
      BY <1>2
    <3>2. \A h, x, b \in Nat : 2 * h * x + b \in Nat
      OBVIOUS
    <3> QED BY <1>2, <3>1, <3>2
  <2> HIDE DEF N
  <2> QED BY <2>1
<1>4. PICK g \in [0..N -> Nat] : Steps(g, F, 0, 0, N)
  <2> HIDE DEF F
  <2>1. 0 \in Nat /\ 0 <= N
    BY <1>2
  <2> QED BY <1>2, <1>3, <2>1, StepsExist
<1>5. ASSUME NEW n \in 0..N PROVE g[n] = Step(g)[n]
  <2>1. CASE n = 0
    BY <1>4, <2>1 DEF Steps
  <2>2. CASE n # 0
    <3>1. n - 1 \in 0..N /\ n \in Nat /\ n \in 1..N /\ g[n - 1] \in Nat
      BY <1>2, <2>2
    <3>2. g[n] = F[<<n, g[n - 1]>>]
      <4> HIDE DEF F
      <4> QED BY <1>4, <2>2 DEF Steps
    <3>3. F[<<n, g[n - 1]>>] = 2 * Half * g[n - 1] + s[n]
      BY <3>1
    <3> QED BY <2>2, <3>2, <3>3
  <2> QED BY <2>1, <2>2
<1>6. g = Step(g)
  <2> HIDE DEF F
  <2> QED BY <1>5
<1>7. value = Step(value)
  <2> HIDE DEF Step
  <2> QED BY <1>6
<1>8. value[0] = 0 /\ \A n \in 1..N : value[n] = 2 * Half * value[n - 1] + s[n]
  <2>1. \A n \in 0..N : value[n] = Step(value)[n]
    <3> HIDE DEF value, Step
    <3> QED BY <1>7
  <2>2. 0 \in 0..N /\ \A n \in 1..N : n \in 0..N /\ n # 0
    BY <1>2
  <2> HIDE DEF value
  <2> QED BY <2>1, <2>2
<1>9. \A n \in 0..N : value[n] \in Nat
  <2>1. \A n \in 0 + 1..N : value[n - 1] \in Nat => value[n] \in Nat
    <3> HIDE DEF value, N
    <3>1. \A h, x, b \in Nat : 2 * h * x + b \in Nat
      OBVIOUS
    <3> SUFFICES ASSUME NEW n \in 1..N, value[n - 1] \in Nat PROVE value[n] \in Nat
      BY <1>2
    <3>2. s[n] \in Nat /\ value[n] = 2 * Half * value[n - 1] + s[n]
      BY <1>2, <1>8
    <3>3. PICK h, x, b \in Nat : h = Half /\ x = value[n - 1] /\ b = s[n]
      BY <1>2, <3>2
    <3>4. 2 * h * x + b \in Nat
      BY <3>1
    <3> QED BY <3>2, <3>3, <3>4
  <2> HIDE DEF value, N
  <2>2. 0 \in Nat /\ value[0] \in Nat
    BY <1>8
  <2> QED BY <1>2, <2>1, <2>2, Induction
<1>10. N \in 0..N
  BY <1>2
<1> HIDE DEF value, N
<1> QED BY <1>1, <1>9, <1>10

------------------------------------------------------------------------------
\* The next bytes of the ring.
LEMMA FirstBytesAre ==
    ASSUME RingTypeOK, NEW n \in 0..RxAvailable
    PROVE  /\ n \in Nat /\ FirstBytes(n) \in Seq(Byte) /\ Len(FirstBytes(n)) = n
           /\ \A k \in 1..n : FirstBytes(n)[k] = Content[k]
<1>1. RxAvailable \in Nat /\ Content \in Seq(Byte) /\ Len(Content) = RxAvailable
  BY ContentIsSeq, UartRingAssumption
<1>2. n \in Nat /\ n <= RxAvailable
  BY <1>1
<1>3. ASSUME NEW k \in 1..n PROVE FirstBytes(n)[k] = Content[k] /\ Content[k] \in Byte
  <2>1. k \in 1..RxAvailable
    BY <1>1, <1>2
  <2>2. Content[k] = Unread(k)
    BY <2>1, Zenon DEF Content
  <2>3. Content[k] \in Byte
    BY <1>1, <2>1
  <2> QED BY <2>2, <2>3 DEF FirstBytes
<1>4. FirstBytes(n) \in [1..n -> Byte]
  <2>1. FirstBytes(n) = [k \in 1..n |-> FirstBytes(n)[k]]
    BY DEF FirstBytes
  <2> HIDE DEF FirstBytes
  <2> QED BY <1>3, <2>1
<1> QED BY <1>2, <1>3, <1>4

LEMMA HeaderSplit ==
    ASSUME NEW c \in BOOLEAN, NEW d \in BOOLEAN, NEW j \in 0..Half - 1, NEW k \in 0..Half - 1,
           Header(c, j) = Header(d, k)
    PROVE  c = d /\ j = k
BY SerialReaderAssumption DEF Header

LEMMA HeaderOf ==
    ASSUME NEW b \in Byte
    PROVE  b % Half \in 0..Half - 1 /\ Header(b >= Half, b % Half) = b
<1>1. PICK h \in Nat : h = Half /\ h > 2
  BY SerialReaderAssumption
<1>2. b \in Nat /\ b <= 2 * h - 1
  BY <1>1, SerialReaderAssumption
<1>3. b % h = IF b < h THEN b ELSE b - h
  <2>1. b \in 0..(2 * h - 1)
    BY <1>1, <1>2
  <2>2. h \in Nat \ {0}
    BY <1>1
  <2> QED BY <2>1, <2>2, Wrap
<1> QED BY <1>1, <1>2, <1>3 DEF Header

\* What a frame consists of.
LEMMA EncodeIs ==
    ASSUME NEW m \in Sent
    PROVE  \E kind \in 0..Half - 1, digits, crc \in Seq(Byte) :
              /\ Encode(m.data, m.cf, m.wide) = <<AA, B55, Header(m.cf, kind)>> \o digits \o crc \o m.data
              /\ Len(crc) = IF m.cf THEN CrcLen ELSE 0
              /\ m.cf => crc = Crc(m.data)
              /\ kind < Half - 2 => kind = Len(m.data) /\ digits = <<>>
              /\ kind >= Half - 2 => Number(digits) = Len(m.data)
              /\ Len(digits) = CASE kind = Half - 2 -> Ext2Len [] kind = Half - 1 -> Ext4Len [] OTHER -> 0
<1> DEFINE n == Len(m.data)
           kind == CASE m.wide \/ Digits(n, Ext2Len) = {} -> Half - 1
                     [] ~m.wide /\ n < Half - 2 -> n
                     [] OTHER -> Half - 2
           size == IF kind = Half - 1 THEN Ext4Len ELSE Ext2Len
           digits == IF kind < Half - 2 THEN <<>> ELSE CHOOSE d \in Digits(n, size) : TRUE
           crc == IF m.cf THEN Crc(m.data) ELSE <<>>
<1>1. Encode(m.data, m.cf, m.wide) = <<AA, B55, Header(m.cf, kind)>> \o digits \o crc \o m.data
  BY DEF Encode
<1>2. n \in Nat /\ Half \in Nat /\ Half > 2 /\ Ext2Len \in Nat /\ Ext4Len \in Nat /\ CrcLen \in Nat
  BY SerialReaderAssumption
<1>3. \/ kind = Half - 1
      \/ kind = n /\ n < Half - 2
      \/ kind = Half - 2 /\ Digits(n, Ext2Len) # {}
  <2> HIDE DEF n
  <2> QED OBVIOUS
<1>4. Digits(n, Ext4Len) # {}
  BY LengthAssumption
<1>5. crc \in Seq(Byte) /\ Len(crc) = (IF m.cf THEN CrcLen ELSE 0) /\ (m.cf => crc = Crc(m.data))
  <2>1. Crc(m.data) \in [1..CrcLen -> Byte]
    BY SerialReaderAssumption
  <2>2. Crc(m.data) \in Seq(Byte) /\ Len(Crc(m.data)) = CrcLen
    BY <1>2, <2>1
  <2> QED BY <2>2
<1> HIDE DEF kind, n, crc
<1>6. kind \in 0..Half - 1
  BY <1>2, <1>3
<1>7. CASE kind < Half - 2
  <2>1. kind = n /\ digits = <<>> /\ kind # Half - 1 /\ kind # Half - 2
    BY <1>2, <1>3, <1>7
  <2>2. /\ kind < Half - 2 => kind = n /\ digits = <<>>
        /\ kind >= Half - 2 => Number(digits) = n
        /\ Len(digits) = CASE kind = Half - 2 -> Ext2Len [] kind = Half - 1 -> Ext4Len [] OTHER -> 0
        /\ digits \in Seq(Byte)
    BY <1>2, <1>7, <2>1
  <2> HIDE DEF digits
  <2> QED BY <1>1, <1>5, <1>6, <2>2 DEF n
<1>8. CASE ~(kind < Half - 2)
  <2>1. Digits(n, size) # {} /\ digits = CHOOSE d \in Digits(n, size) : TRUE
    BY <1>2, <1>3, <1>4, <1>8
  <2>2. digits \in Digits(n, size)
    <3> HIDE DEF digits, size
    <3> QED BY <2>1
  <2>3. size \in Nat /\ size = CASE kind = Half - 2 -> Ext2Len [] kind = Half - 1 -> Ext4Len [] OTHER -> 0
    BY <1>2, <1>6, <1>8
  <2>4. digits \in Seq(Byte) /\ Len(digits) = size /\ Number(digits) = n
    <3> HIDE DEF digits, size
    <3> QED BY <2>2, <2>3 DEF Digits
  <2> HIDE DEF digits, size
  <2> QED BY <1>1, <1>5, <1>6, <1>8, <2>3, <2>4 DEF n
<1> QED BY <1>7, <1>8

------------------------------------------------------------------------------
\* The lengths of a frame are numbers.
LEMMA LengthTypes ==
    ASSUME ReaderTypeOK
    PROVE  /\ Half \in Nat /\ Half > 2 /\ CrcLen \in Nat /\ CrcLen > 0
           /\ Ext2Len \in Nat /\ Ext2Len > 0 /\ Ext4Len \in Nat /\ Ext4Len > 0
           /\ u2art_data.length \in Nat /\ u2art_data.extend_length \in Nat
           /\ u2art_data.length < Half /\ u2art_data.cf \in BOOLEAN
           /\ LengthBytes \in Nat /\ Length \in Nat /\ Whole \in Nat /\ Consumed \in Nat
           /\ Consumed <= Whole /\ (u2art_data.length < Half - 2 => LengthBytes = 0)
<1>1. Half \in Nat /\ Half > 2 /\ CrcLen \in Nat /\ CrcLen > 0
      /\ Ext2Len \in Nat /\ Ext2Len > 0 /\ Ext4Len \in Nat /\ Ext4Len > 0
  BY SerialReaderAssumption
<1>2. u2art_data.length \in Nat /\ u2art_data.extend_length \in Nat
      /\ u2art_data.length < Half /\ u2art_data.cf \in BOOLEAN
  BY <1>1 DEF ReaderTypeOK
<1>3. LengthBytes \in Nat /\ (u2art_data.length < Half - 2 => LengthBytes = 0)
  BY <1>1, <1>2 DEF LengthBytes
<1>4. Length \in Nat
  BY <1>1, <1>2 DEF Length
<1>5. Whole \in Nat /\ Consumed \in Nat /\ Consumed <= Whole
  BY <1>1, <1>2, <1>4 DEF Whole, Consumed
<1> QED BY <1>1, <1>2, <1>3, <1>4, <1>5

\* Taking n bytes of those that are there is a step of the ring.
LEMMA ReadIsStep ==
    ASSUME RingTypeOK, NEW n \in Nat, n <= RxAvailable, RxRead(n)
    PROVE  [RingNext]_ring
<1>1. CASE n = 0
  <2>1. Size \in Nat \ {0} /\ tail \in 0..Size - 1
    BY UartRingAssumption DEF RingTypeOK
  <2>2. tail % Size = tail
    BY <2>1
  <2>3. tail' = tail
    BY <1>1, <2>1, <2>2 DEF RxRead
  <2> QED BY <2>3 DEF RxRead, ring
<1>2. CASE n # 0
  <2>1. RxAvailable \in Nat
    BY ContentIsSeq, UartRingAssumption
  <2>2. n \in 1..RxAvailable
    BY <1>2, <2>1
  <2> QED BY <2>2 DEF RingNext
<1> QED BY <1>1, <1>2

\* The bytes of a frame.
LEMMA FramesAreBytes == Frames \subseteq Seq(Byte)
<1> SUFFICES ASSUME NEW m \in Sent PROVE Encode(m.data, m.cf, m.wide) \in Seq(Byte)
  BY DEF Frames
<1>1. PICK kind \in 0..Half - 1, digits, crc \in Seq(Byte) :
          Encode(m.data, m.cf, m.wide) = <<AA, B55, Header(m.cf, kind)>> \o digits \o crc \o m.data
  BY EncodeIs
<1>2. m.data \in Seq(Byte) /\ m.cf \in BOOLEAN
  BY SerialReaderAssumption
<1>3. AA \in Byte /\ B55 \in Byte
  BY SerialReaderAssumption
<1>4. Header(m.cf, kind) \in Byte
  BY <1>2, SerialReaderAssumption DEF Header
<1>5. <<AA, B55, Header(m.cf, kind)>> \in Seq(Byte)
  BY <1>3, <1>4
<1> QED BY <1>1, <1>2, <1>5

\* Every step of the reader, the line and the MCU is one of the ring's.
LEMMA RingSteps == RingTypeOK /\ ReaderTypeOK /\ [Next]_vars => [RingNext]_ring
<1> SUFFICES ASSUME RingTypeOK, ReaderTypeOK, Next PROVE [RingNext]_ring
  BY DEF vars, ring
<1>1. RxAvailable \in Nat
  BY ContentIsSeq, UartRingAssumption
<1>2. ASSUME NEW f \in Frames, McuSend(f) PROVE [RingNext]_ring
  BY <1>2 DEF McuSend
<1>3. CASE Receive
  <2>1. \E b \in Byte : RxWrite(b)
    <3>1. Head(sending) \in Byte /\ Noise \subseteq Byte
      BY <1>3, SerialReaderAssumption DEF Receive, ReaderTypeOK
    <3> QED BY <1>3, <3>1 DEF Receive
  <2> QED BY <2>1 DEF RingNext
<1>4. CASE Lose
  BY <1>4 DEF Lose
<1>5. CASE Scan
  <2>1. PICK n \in {1, 2, 3} : RxRead(n)
    BY <1>5 DEF Scan
  <2>2. n <= RxAvailable /\ n \in Nat
    BY <1>1, <1>5 DEF Scan
  <2> QED BY <2>1, <2>2, ReadIsStep
<1>6. CASE GetExtendLength
  <2>1. CASE RxAvailable >= LengthBytes
    <3>1. RxRead(LengthBytes) /\ LengthBytes \in Nat /\ LengthBytes <= RxAvailable
      BY <1>1, <1>6, <2>1, LengthTypes DEF GetExtendLength
    <3> QED BY <3>1, ReadIsStep
  <2>2. CASE ~(RxAvailable >= LengthBytes)
    BY <1>6, <2>2 DEF GetExtendLength
  <2> QED BY <2>1, <2>2
<1>7. CASE BadData \/ ProcessCmd
  <2>1. RxRead(Consumed) /\ RxAvailable >= Whole
    BY <1>7 DEF BadData, ProcessCmd, DataHere
  <2>2. Consumed \in Nat /\ Consumed <= RxAvailable
    BY <1>1, <2>1, LengthTypes
  <2> QED BY <2>1, <2>2, ReadIsStep
<1>8. CASE EndlessLoop
  BY <1>8 DEF EndlessLoop, RingNext
<1>9. CASE Tick \/ NothingToScan \/ EmptyFrame \/ DataTooLong \/ DataMissing \/ End
  BY <1>9 DEF Tick, NothingToScan, EmptyFrame, DataTooLong, DataMissing, End
<1> QED BY <1>2, <1>3, <1>4, <1>5, <1>6, <1>7, <1>8, <1>9 DEF Next, Callback

\* processErrorCmd leaves a frame that has not started.
LEMMA CommandCleared ==
    ASSUME ProcessErrorCmd
    PROVE  /\ u2art_data' \in [start : BOOLEAN, cf : BOOLEAN, length : 0..Half-1, extend_length : Nat]
           /\ seen' \in Seq(Byte) /\ ~u2art_data'.start
BY SerialReaderAssumption DEF ProcessErrorCmd, Cleared

\* The types are kept by every step.
LEMMA ReaderTypes == RingTypeOK /\ ReaderTypeOK /\ [Next]_vars => ReaderTypeOK'
<1> SUFFICES ASSUME RingTypeOK, ReaderTypeOK, [Next]_vars PROVE ReaderTypeOK'
  OBVIOUS
<1>1. RxAvailable \in Nat
  BY ContentIsSeq, UartRingAssumption
<1>2. ASSUME NEW f \in Frames, McuSend(f) PROVE ReaderTypeOK'
  BY <1>2, FramesAreBytes DEF McuSend, ReaderTypeOK, reader
<1>3. CASE Receive \/ Lose
  <2>1. sending # <<>> /\ sending' = Tail(sending) /\ UNCHANGED <<reader, seen, failed>>
    BY <1>3 DEF Receive, Lose
  <2>2. sending' \in Seq(Byte)
    BY <2>1 DEF ReaderTypeOK
  <2> QED BY <2>1, <2>2 DEF ReaderTypeOK, reader
<1>4. CASE Scan
  <2>1. CASE FirstBytes(2) = <<AA, B55>>
    <3>1. 3 \in 0..RxAvailable /\ 3 \in 1..3
      BY <1>1, <1>4 DEF Scan
    <3>2. FirstBytes(3) \in Seq(Byte) /\ Len(FirstBytes(3)) = 3
      BY <3>1, FirstBytesAre
    <3>3. FirstBytes(3)[3] = Unread(3)
      BY DEF FirstBytes
    <3>4. Unread(3) \in Byte
      BY <3>2, <3>3
    <3>5. Unread(3) % Half \in 0..Half - 1 /\ (Unread(3) >= Half) \in BOOLEAN
      BY <3>4, HeaderOf
    <3>6. u2art_data' = [u2art_data EXCEPT !.start = TRUE, !.cf = Unread(3) >= Half, !.length = Unread(3) % Half]
      BY <1>4, <2>1 DEF Scan
    <3>7. u2art_data' \in [start : BOOLEAN, cf : BOOLEAN, length : 0..Half-1, extend_length : Nat]
      BY <3>5, <3>6 DEF ReaderTypeOK
    <3> QED BY <1>4, <2>1, <3>2, <3>7 DEF Scan, ReaderTypeOK
  <2>2. CASE FirstBytes(2) # <<AA, B55>>
    BY <1>4, <2>2 DEF Scan, ReaderTypeOK
  <2> QED BY <2>1, <2>2
<1>5. CASE GetExtendLength
  <2>1. CASE RxAvailable >= LengthBytes
    <3>1. LengthBytes \in 0..RxAvailable
      BY <1>1, <2>1, LengthTypes
    <3>2. FirstBytes(LengthBytes) \in Seq(Byte)
      BY <3>1, FirstBytesAre
    <3>3. Number(FirstBytes(LengthBytes)) \in Nat
      BY <3>2, NumberType
    <3>4. /\ u2art_data' = [u2art_data EXCEPT !.extend_length = Number(FirstBytes(LengthBytes))]
          /\ seen' = seen \o FirstBytes(LengthBytes) /\ get_length' = TRUE
          /\ UNCHANGED <<timerout_couter, sending, spent, failed>>
      BY <1>5, <2>1 DEF GetExtendLength
    <3>5. u2art_data' \in [start : BOOLEAN, cf : BOOLEAN, length : 0..Half-1, extend_length : Nat]
      BY <3>3, <3>4 DEF ReaderTypeOK
    <3>6. seen' \in Seq(Byte)
      BY <3>2, <3>4 DEF ReaderTypeOK
    <3> QED BY <3>4, <3>5, <3>6 DEF ReaderTypeOK
  <2>2. CASE ~(RxAvailable >= LengthBytes)
    BY <1>5, <2>2 DEF GetExtendLength, ReaderTypeOK
  <2> QED BY <2>1, <2>2
<1>6. CASE EmptyFrame \/ DataTooLong \/ BadData \/ ProcessCmd
  <2>1. ProcessErrorCmd /\ get_length' \in BOOLEAN /\ failed' \in BOOLEAN /\ sending' = sending
    BY <1>6 DEF EmptyFrame, DataTooLong, BadData, ProcessCmd, ReaderTypeOK
  <2> QED BY <2>1, CommandCleared DEF ReaderTypeOK
<1>7. CASE EndlessLoop
  <2>1. Cleared \in [start : BOOLEAN, cf : BOOLEAN, length : 0..Half-1, extend_length : Nat]
    BY SerialReaderAssumption DEF Cleared
  <2>2. u2art_data' = Cleared /\ get_length' = FALSE /\ seen' = <<>> /\ failed' = FALSE /\ sending' = sending
    BY <1>7 DEF EndlessLoop
  <2>3. <<>> \in Seq(Byte) /\ FALSE \in BOOLEAN /\ sending \in Seq(Byte)
    BY DEF ReaderTypeOK
  <2> QED BY <2>1, <2>2, <2>3, Zenon DEF ReaderTypeOK
<1>8. CASE End
  <2>1. CASE timerout_couter >= TimeoutTime
    <3>1. failed' \in BOOLEAN
      BY <1>8, <2>1 DEF End, ReaderTypeOK
    <3> QED BY <1>8, <2>1, <3>1, CommandCleared DEF End, ReaderTypeOK
  <2>2. CASE ~(timerout_couter >= TimeoutTime)
    BY <1>8, <2>2 DEF End, ReaderTypeOK
  <2> QED BY <2>1, <2>2
<1>9. CASE Tick \/ NothingToScan \/ DataMissing
  BY <1>9 DEF Tick, NothingToScan, DataMissing, ReaderTypeOK
<1>10. CASE UNCHANGED vars
  BY <1>10 DEF vars, ReaderTypeOK
<1> QED BY <1>2, <1>3, <1>4, <1>5, <1>6, <1>7, <1>8, <1>9, <1>10 DEF Next, Callback

------------------------------------------------------------------------------
\* What the reader has seen of its frame, step by step.
LEMMA ForgottenInv ==
    ASSUME ParseInv, ProcessErrorCmd, pc' = "end", get_length' => failed'
    PROVE  ParseInv'
BY DEF ProcessErrorCmd, Cleared, ParseInv

LEMMA ScanInv == RingTypeOK /\ ReaderTypeOK /\ ParseInv /\ Scan => ParseInv'
<1> SUFFICES ASSUME RingTypeOK, ReaderTypeOK, ParseInv, Scan PROVE ParseInv'
  OBVIOUS
<1>1. RxAvailable \in Nat
  BY ContentIsSeq, UartRingAssumption
<1>2. ~u2art_data.start /\ pc = "scan" /\ get_length' = get_length /\ failed' = failed
  BY DEF Scan, ParseInv
<1>3. CASE FirstBytes(2) = <<AA, B55>>
  <2>1. 3 \in 0..RxAvailable /\ 3 \in 1..3
    BY <1>1 DEF Scan
  <2> DEFINE s == FirstBytes(3)
  <2>2. s \in Seq(Byte) /\ Len(s) = 3
    BY <2>1, FirstBytesAre
  <2>3. s[1] = Unread(1) /\ s[2] = Unread(2) /\ s[3] = Unread(3)
    BY DEF FirstBytes
  <2>4. Unread(1) = AA /\ Unread(2) = B55
    <3>1. FirstBytes(2)[1] = Unread(1) /\ FirstBytes(2)[2] = Unread(2)
      BY DEF FirstBytes
    <3> HIDE DEF s
    <3> QED BY <1>3, <3>1
  <2>5. Unread(3) \in Byte
    <3> HIDE DEF s
    <3> QED BY <2>2, <2>3
  <2>6. Unread(3) % Half \in 0..Half - 1 /\ Header(Unread(3) >= Half, Unread(3) % Half) = Unread(3)
    BY <2>5, HeaderOf
  <2>7. /\ u2art_data' = [u2art_data EXCEPT !.start = TRUE, !.cf = Unread(3) >= Half, !.length = Unread(3) % Half]
        /\ pc' = Stage /\ seen' = s
    BY <1>3 DEF Scan
  <2> HIDE DEF s
  <2>8. u2art_data'.start /\ u2art_data'.cf = (Unread(3) >= Half) /\ u2art_data'.length = Unread(3) % Half
    BY <2>7 DEF ReaderTypeOK
  <2>9. Len(seen') = 3 /\ seen'[1] = AA /\ seen'[2] = B55 /\ seen'[3] = Header(u2art_data'.cf, u2art_data'.length)
    BY <2>2, <2>3, <2>4, <2>6, <2>7, <2>8
  <2>10. (Measured \/ (failed /\ u2art_data.length >= Half - 2))' \/ ~get_length
    <3> SUFFICES ASSUME get_length PROVE (Measured \/ (failed /\ u2art_data.length >= Half - 2))'
      OBVIOUS
    <3>1. failed'
      BY <1>2 DEF ParseInv
    <3>2. PICK n \in Nat : u2art_data'.length = n /\ n < Half
      BY <2>6, <2>8, SerialReaderAssumption
    <3>3. Half \in Nat /\ Half > 2
      BY SerialReaderAssumption
    <3>4. CASE n < Half - 2
      <4>1. LengthBytes' = 0
        BY <3>2, <3>3, <3>4 DEF LengthBytes
      <4> QED BY <2>9, <4>1 DEF Measured
    <3>5. CASE ~(n < Half - 2)
      BY <3>1, <3>2, <3>3, <3>5
    <3> QED BY <3>4, <3>5
  <2>11. (pc' = "length" /\ ~get_length) \/ (pc' = "data" /\ get_length)
    <3>1. pc' = IF get_length THEN "data" ELSE "length"
      BY <2>7 DEF Stage
    <3>2. get_length => pc' = "data"
      BY ONLY <3>1
    <3>3. ~get_length => pc' = "length"
      BY ONLY <3>1
    <3> QED BY ONLY <3>2, <3>3
  <2> QED BY <1>2, <2>8, <2>9, <2>10, <2>11 DEF ParseInv
<1>4. CASE FirstBytes(2) # <<AA, B55>>
  <2>1. UNCHANGED <<u2art_data, timerout_couter, pc, seen>>
    BY <1>4 DEF Scan
  <2> QED BY <1>2, <2>1 DEF ParseInv
<1> QED BY <1>3, <1>4

\* A sequence after another.
LEMMA Joined ==
    ASSUME NEW S, NEW a \in Seq(S), NEW b \in Seq(S)
    PROVE  /\ a \o b \in Seq(S) /\ Len(a \o b) = Len(a) + Len(b)
           /\ \A k \in 1..Len(a) + Len(b) : (a \o b)[k] = IF k <= Len(a) THEN a[k] ELSE b[k - Len(a)]
<1>1. a \o b \in Seq(S) /\ Len(a \o b) = Len(a) + Len(b)
  OBVIOUS
<1>2. ASSUME NEW k \in 1..Len(a) + Len(b)
      PROVE  (a \o b)[k] = IF k <= Len(a) THEN a[k] ELSE b[k - Len(a)]
  OBVIOUS
<1> QED BY <1>1, <1>2

\* What follows the three bytes of the head, and the head itself.
LEMMA AfterHead ==
    ASSUME NEW a \in Seq(Byte), NEW b \in Seq(Byte), Len(a) = 3
    PROVE  /\ Len(a \o b) = 3 + Len(b) /\ SubSeq(a \o b, 4, Len(a \o b)) = b
           /\ (a \o b)[1] = a[1] /\ (a \o b)[2] = a[2] /\ (a \o b)[3] = a[3]
<1> DEFINE c == a \o b
<1>0. /\ c \in Seq(Byte) /\ Len(c) = Len(a) + Len(b)
      /\ \A k \in 1..Len(a) + Len(b) : c[k] = IF k <= Len(a) THEN a[k] ELSE b[k - Len(a)]
  BY ONLY a \in Seq(Byte), b \in Seq(Byte), Joined, Zenon
<1> HIDE DEF c
<1>1. c \in Seq(Byte) /\ Len(c) = 3 + Len(b)
  BY <1>0
<1>3. \A k \in 1..3 + Len(b) : c[k] = IF k <= 3 THEN a[k] ELSE b[k - 3]
  BY <1>0
<1>4. Len(b) \in Nat
  OBVIOUS
<1>2. SubSeq(c, 4, Len(c)) = b
  <2>1. ASSUME NEW k \in 1..Len(b) PROVE c[k + 3] = b[k]
    <3>1. k + 3 \in 1..3 + Len(b) /\ ~(k + 3 <= 3) /\ (k + 3) - 3 = k
      BY <1>4
    <3> QED BY <1>3, <3>1
  <2> QED BY <1>1, <1>4, <2>1
<1>5. 1 \in 1..3 + Len(b) /\ 2 \in 1..3 + Len(b) /\ 3 \in 1..3 + Len(b)
  BY <1>4
<1>6. c[1] = a[1] /\ c[2] = a[2] /\ c[3] = a[3]
  BY <1>3, <1>5
<1> QED BY <1>1, <1>2, <1>6 DEF c

\* The extended length is read into extend_length and into seen alike.
LEMMA LengthInv == RingTypeOK /\ ReaderTypeOK /\ ParseInv /\ GetExtendLength => ParseInv'
<1> SUFFICES ASSUME RingTypeOK, ReaderTypeOK, ParseInv, GetExtendLength PROVE ParseInv'
  OBVIOUS
<1>1. RxAvailable \in Nat
  BY ContentIsSeq, UartRingAssumption
<1>2. /\ pc = "length" /\ u2art_data.start /\ ~get_length /\ failed' = failed
      /\ Len(seen) = 3 /\ seen[1] = AA /\ seen[2] = B55
      /\ seen[3] = Header(u2art_data.cf, u2art_data.length) /\ seen \in Seq(Byte)
  BY DEF GetExtendLength, ParseInv, ReaderTypeOK
<1>3. CASE RxAvailable >= LengthBytes
  <2> DEFINE s == FirstBytes(LengthBytes)
  <2>1. LengthBytes \in 0..RxAvailable /\ LengthBytes \in Nat
    BY <1>1, <1>3, LengthTypes
  <2>2. s \in Seq(Byte) /\ Len(s) = LengthBytes
    BY <2>1, FirstBytesAre
  <2>3. /\ u2art_data' = [u2art_data EXCEPT !.extend_length = Number(s)]
        /\ seen' = seen \o s /\ get_length' = TRUE /\ pc' = "data"
    BY <1>3 DEF GetExtendLength
  <2> HIDE DEF s
  <2>4. /\ u2art_data'.start /\ u2art_data'.cf = u2art_data.cf /\ u2art_data'.length = u2art_data.length
        /\ u2art_data'.extend_length = Number(s)
    BY <1>2, <2>3 DEF ReaderTypeOK
  <2>5. /\ Len(seen') = 3 + LengthBytes /\ seen'[1] = AA /\ seen'[2] = B55 /\ seen'[3] = seen[3]
        /\ SubSeq(seen', 4, Len(seen')) = s
    BY <1>2, <2>2, <2>3, AfterHead, Zenon
  <2>7. LengthBytes' = LengthBytes
    BY <2>4 DEF LengthBytes
  <2>8. Measured'
    BY <2>4, <2>5, <2>7 DEF Measured
  <2>9. Len(seen') >= 3
    BY <2>1, <2>5
  <2> QED BY <1>2, <2>3, <2>4, <2>5, <2>8, <2>9 DEF ParseInv
<1>4. CASE ~(RxAvailable >= LengthBytes)
  BY <1>2, <1>4 DEF GetExtendLength, ParseInv, Measured, LengthBytes
<1> QED BY <1>3, <1>4

\* Steps that leave the frame alone.
LEMMA KeptInv ==
    ASSUME ParseInv, UNCHANGED <<u2art_data, get_length, seen, failed>>,
           pc' = pc \/ pc' \in {"idle", "end"} \/ (pc' = Stage /\ u2art_data.start) \/ (pc' = "scan" /\ ~u2art_data.start)
    PROVE  ParseInv'
BY DEF ParseInv, Stage, Measured, LengthBytes

\* The inductive step, action by action.
LEMMA ReaderInvStep == ReaderInv /\ [Next]_vars => ReaderInv'
<1> SUFFICES ASSUME RingTypeOK, ReaderTypeOK, ParseInv, [Next]_vars PROVE ReaderInv'
  BY DEF ReaderInv
<1>1. RingTypeOK' /\ ReaderTypeOK'
  BY RingSteps, RingTypeStep, ReaderTypes
<1> SUFFICES ParseInv'
  BY <1>1 DEF ReaderInv
<1>2. CASE \/ \E f \in Frames : McuSend(f)
           \/ Receive \/ Lose \/ Tick \/ NothingToScan \/ DataMissing \/ UNCHANGED vars
  <2>1. UNCHANGED <<u2art_data, get_length, seen, failed>>
    BY <1>2 DEF McuSend, Receive, Lose, Tick, NothingToScan, DataMissing, vars, reader
  <2>2. pc' = pc \/ pc' \in {"idle", "end"} \/ (pc' = Stage /\ u2art_data.start) \/ (pc' = "scan" /\ ~u2art_data.start)
    BY <1>2 DEF McuSend, Receive, Lose, Tick, NothingToScan, DataMissing, vars, reader
  <2> QED BY <2>1, <2>2, KeptInv
<1>3. CASE Scan
  BY <1>3, ScanInv
<1>4. CASE GetExtendLength
  BY <1>4, LengthInv
<1>5. CASE EmptyFrame \/ DataTooLong \/ BadData \/ ProcessCmd
  <2>1. ProcessErrorCmd /\ pc' = "end" /\ (get_length' => failed')
    BY <1>5 DEF EmptyFrame, DataTooLong, BadData, ProcessCmd
  <2> QED BY <2>1, ForgottenInv
<1>6. CASE EndlessLoop
  BY <1>6 DEF EndlessLoop, Cleared, ParseInv
<1>7. CASE End
  <2>1. CASE timerout_couter >= TimeoutTime
    <3>1. ProcessErrorCmd /\ pc' = "idle" /\ get_length' = get_length /\ failed' = (failed \/ u2art_data.start)
      BY <1>7, <2>1 DEF End
    <3>2. get_length' => failed'
      BY <3>1 DEF ParseInv
    <3> QED BY <3>1, <3>2 DEF ProcessErrorCmd, Cleared, ParseInv
  <2>2. CASE ~(timerout_couter >= TimeoutTime)
    <3>1. UNCHANGED <<u2art_data, get_length, seen, failed>> /\ pc' = "idle"
      BY <1>7, <2>2 DEF End
    <3> QED BY <3>1, KeptInv
  <2> QED BY <2>1, <2>2
<1> QED BY <1>2, <1>3, <1>4, <1>5, <1>6, <1>7 DEF Next, Callback

\* The static storage satisfies it.
LEMMA ReaderInvStarts == Init => ReaderInv
<1> SUFFICES ASSUME Init PROVE ReaderInv
  OBVIOUS
<1>1. RingTypeOK
  BY UartRingAssumption, SMT DEF Init, RingInit, RingTypeOK
<1>2. Cleared \in [start : BOOLEAN, cf : BOOLEAN, length : 0..Half-1, extend_length : Nat] /\ ~Cleared.start
  BY SerialReaderAssumption DEF Cleared
<1>3. u2art_data = Cleared /\ get_length = FALSE /\ failed = FALSE /\ sending = <<>> /\ seen = <<>> /\ pc = "idle"
  BY DEF Init, ReaderInit
<1>4. <<>> \in Seq(Byte) /\ FALSE \in BOOLEAN
  OBVIOUS
<1>5. ReaderTypeOK
  BY <1>2, <1>3, <1>4, Zenon DEF ReaderTypeOK
<1>6. ParseInv
  BY <1>2, <1>3 DEF ParseInv
<1> QED BY <1>1, <1>5, <1>6 DEF ReaderInv

(* What the reader has taken of its frame is its start signal, header and   *)
(* length bytes, and get_length is set outside a frame, or against what was *)
(* read of it, only after a frame that failed: the statics of               *)
(* parseU2artData that no error path clears.                                *)
THEOREM ReaderInvHolds == Spec => []ReaderInv
BY ReaderInvStarts, ReaderInvStep, PTL DEF Spec

(* The reader takes from the ring only bytes that uart0_rx_available has   *)
(* counted and leaves head to the interrupt handler, so that the ring and  *)
(* its two users together behave as the ring alone.                        *)
THEOREM ReadsWhatIsThereHolds == Spec => ReadsWhatIsThere
<1>1. Init => RingInit
  BY DEF Init
<1>2. ReaderInv /\ [Next]_vars => [RingNext]_ring
  BY RingSteps DEF ReaderInv
<1> QED BY <1>1, <1>2, ReaderInvHolds, PTL DEF Spec, ReadsWhatIsThere, RingSpec

(* Hence the ring is a queue under this reader: no byte of a frame is lost  *)
(* between the interrupt handler and parseU2artData, doubled or reordered.  *)
THEOREM ReaderKeepsFifo == Spec => RingIsFifo
<1>1. ReadsWhatIsThere => RingIsFifo
  BY RingFifo DEF ReadsWhatIsThere
<1> QED BY <1>1, ReadsWhatIsThereHolds

------------------------------------------------------------------------------
\* The elements of two sequences in a row, by their places ...
InTwoParts(e, S, a, b) ==
    /\ e \in Seq(S) /\ Len(e) = Len(a) + Len(b)
    /\ \A k \in 1..Len(a) : e[k] = a[k]
    /\ \A k \in 1..Len(b) : e[Len(a) + k] = b[k]

LEMMA TwoParts ==
    ASSUME NEW S, NEW a \in Seq(S), NEW b \in Seq(S)
    PROVE  InTwoParts(a \o b, S, a, b)
<1>1. /\ a \o b \in Seq(S) /\ Len(a \o b) = Len(a) + Len(b)
      /\ \A k \in 1..Len(a) + Len(b) : (a \o b)[k] = IF k <= Len(a) THEN a[k] ELSE b[k - Len(a)]
  BY ONLY a \in Seq(S), b \in Seq(S), Joined, Zenon
<1>2. PICK p, q \in Nat : p = Len(a) /\ q = Len(b)
  OBVIOUS
<1> DEFINE e == a \o b
<1>3. e = a \o b /\ p = Len(a) /\ q = Len(b)
  BY <1>2
<1> HIDE DEF e
<1>4. /\ e \in Seq(S) /\ Len(e) = p + q
      /\ \A k \in 1..p + q : e[k] = IF k <= p THEN a[k] ELSE b[k - p]
  BY ONLY <1>1, <1>3, Zenon
<1>5. ASSUME NEW k \in 1..p PROVE e[k] = a[k]
  <2>1. k \in 1..p + q /\ k <= p
    OBVIOUS
  <2> QED BY ONLY <1>4, <2>1
<1>6. ASSUME NEW k \in 1..q PROVE e[p + k] = b[k]
  <2>1. PICK i \in Nat : i = p + k
    OBVIOUS
  <2>2. i \in 1..p + q /\ ~(i <= p) /\ i - p = k
    BY <2>1
  <2> QED BY ONLY <1>4, <2>1, <2>2
<1>7. InTwoParts(e, S, a, b)
  BY ONLY <1>3, <1>4, <1>5, <1>6, Zenon DEF InTwoParts
<1> QED BY ONLY <1>3, <1>7, Zenon

\* ... and of four.
InFourParts(e, S, h, d, c, x) ==
    /\ e \in Seq(S) /\ Len(e) = Len(h) + Len(d) + Len(c) + Len(x)
    /\ \A k \in 1..Len(h) : e[k] = h[k]
    /\ \A k \in 1..Len(d) : e[Len(h) + k] = d[k]
    /\ \A k \in 1..Len(c) : e[Len(h) + Len(d) + k] = c[k]
    /\ \A k \in 1..Len(x) : e[Len(h) + Len(d) + Len(c) + k] = x[k]

LEMMA FourParts ==
    ASSUME NEW S, NEW h \in Seq(S), NEW d \in Seq(S), NEW c \in Seq(S), NEW x \in Seq(S)
    PROVE  InFourParts(h \o d \o c \o x, S, h, d, c, x)
<1>1. PICK p, q, r, s \in Nat : p = Len(h) /\ q = Len(d) /\ r = Len(c) /\ s = Len(x)
  OBVIOUS
<1>2. p = Len(h) /\ q = Len(d) /\ r = Len(c) /\ s = Len(x)
  BY <1>1
<1>3. PICK f : f = h \o d /\ InTwoParts(f, S, h, d)
  BY ONLY h \in Seq(S), d \in Seq(S), TwoParts, Zenon
<1>4. PICK g : g = f \o c /\ InTwoParts(g, S, f, c)
  <2>1. f \in Seq(S)
    BY ONLY <1>3, Zenon DEF InTwoParts
  <2> QED BY ONLY <2>1, c \in Seq(S), TwoParts, Zenon
<1>5. PICK e : e = g \o x /\ InTwoParts(e, S, g, x)
  <2>1. g \in Seq(S)
    BY ONLY <1>4, Zenon DEF InTwoParts
  <2> QED BY ONLY <2>1, x \in Seq(S), TwoParts, Zenon
<1>6. e = h \o d \o c \o x
  BY ONLY <1>3, <1>4, <1>5, Zenon DEF InTwoParts
<1>7. Len(f) = p + q /\ Len(g) = p + q + r /\ Len(e) = p + q + r + s
  BY ONLY <1>2, <1>3, <1>4, <1>5, Zenon DEF InTwoParts
<1>8. ASSUME NEW k \in 1..p PROVE e[k] = h[k]
  <2>1. k \in 1..p + q /\ k \in 1..p + q + r
    BY ONLY k \in 1..p, p \in Nat, q \in Nat, r \in Nat
  <2> QED BY ONLY <1>2, <1>3, <1>4, <1>5, <1>7, <2>1, k \in 1..p, Zenon DEF InTwoParts
<1>9. ASSUME NEW k \in 1..q PROVE e[p + k] = d[k]
  <2>1. p + k \in 1..p + q /\ p + k \in 1..p + q + r
    BY ONLY k \in 1..q, p \in Nat, q \in Nat, r \in Nat
  <2> QED BY ONLY <1>2, <1>3, <1>4, <1>5, <1>7, <2>1, k \in 1..q, Zenon DEF InTwoParts
<1>10. ASSUME NEW k \in 1..r PROVE e[p + q + k] = c[k]
  <2>1. p + q + k \in 1..p + q + r
    BY ONLY k \in 1..r, p \in Nat, q \in Nat, r \in Nat
  <2>2. g[p + q + k] = c[k]
    BY ONLY <1>2, <1>4, <1>7, k \in 1..r, Zenon DEF InTwoParts
  <2> QED BY ONLY <1>5, <1>7, <2>1, <2>2, Zenon DEF InTwoParts
<1>11. \A k \in 1..s : e[p + q + r + k] = x[k]
  BY ONLY <1>2, <1>5, <1>7, Zenon DEF InTwoParts
<1>12. InFourParts(e, S, h, d, c, x)
  <2>1. e \in Seq(S)
    BY ONLY <1>5, Zenon DEF InTwoParts
  <2> QED BY ONLY <1>2, <1>7, <1>8, <1>9, <1>10, <1>11, <2>1, Zenon DEF InFourParts
<1> QED BY ONLY <1>6, <1>12, Zenon

\* A sequence that begins another has its elements.
LEMMA PrefixIs ==
    ASSUME NEW S, NEW e \in Seq(S), NEW t \in Seq(S), IsPrefix(e, t)
    PROVE  Len(e) <= Len(t) /\ \A k \in 1..Len(e) : e[k] = t[k]
<1>1. Len(e) <= Len(t) /\ SubSeq(e, 1, Len(e)) = SubSeq(t, 1, Len(e))
  BY DEF IsPrefix
<1>2. ASSUME NEW k \in 1..Len(e) PROVE e[k] = t[k]
  <2>1. SubSeq(e, 1, Len(e))[k] = e[k]
    OBVIOUS
  <2>2. SubSeq(t, 1, Len(e))[k] = t[k]
    BY <1>1
  <2> QED BY <1>1, <2>1, <2>2
<1> QED BY <1>1, <1>2

\* What an intact frame has to do with what was seen of it and what the ring
\* holds: its parts are where the reader expects them.
LEMMA IntactIs ==
    ASSUME ReaderInv, Intact, u2art_data.start
    PROVE  \E m \in Sent : \E digits, crc \in Seq(Byte) :
              /\ Acceptable(m.data) /\ m.cf = u2art_data.cf /\ m.data \in Seq(Byte)
              /\ Len(crc) = IF u2art_data.cf THEN CrcLen ELSE 0
              /\ u2art_data.cf => crc = Crc(m.data)
              /\ u2art_data.length < Half - 2 => u2art_data.length = Len(m.data)
              /\ u2art_data.length >= Half - 2 => Number(digits) = Len(m.data)
              /\ Len(digits) = LengthBytes
              /\ LET t == seen \o Content
                 IN  /\ \A k \in 1..LengthBytes : t[3 + k] = digits[k]
                     /\ \A k \in 1..Len(crc) : t[3 + LengthBytes + k] = crc[k]
                     /\ \A k \in 1..Len(m.data) : t[3 + LengthBytes + Len(crc) + k] = m.data[k]
<1> DEFINE t == seen \o Content
<1>1. PICK m \in Sent : Acceptable(m.data) /\ IsPrefix(Encode(m.data, m.cf, m.wide), t)
  BY DEF Intact
<1>2. PICK kind \in 0..Half - 1, digits, crc \in Seq(Byte) :
              /\ Encode(m.data, m.cf, m.wide) = <<AA, B55, Header(m.cf, kind)>> \o digits \o crc \o m.data
              /\ Len(crc) = IF m.cf THEN CrcLen ELSE 0
              /\ m.cf => crc = Crc(m.data)
              /\ kind < Half - 2 => kind = Len(m.data) /\ digits = <<>>
              /\ kind >= Half - 2 => Number(digits) = Len(m.data)
              /\ Len(digits) = CASE kind = Half - 2 -> Ext2Len [] kind = Half - 1 -> Ext4Len [] OTHER -> 0
  BY EncodeIs
<1>3. m.data \in Seq(Byte) /\ m.cf \in BOOLEAN
  BY SerialReaderAssumption
<1> DEFINE h == <<AA, B55, Header(m.cf, kind)>>
           e == h \o digits \o crc \o m.data
<1>4. h \in Seq(Byte) /\ Len(h) = 3 /\ h[1] = AA /\ h[2] = B55 /\ h[3] = Header(m.cf, kind)
  <2>1. AA \in Byte /\ B55 \in Byte /\ Header(m.cf, kind) \in Byte
    BY <1>3, SerialReaderAssumption DEF Header
  <2> QED BY <2>1
<1>5. seen \in Seq(Byte) /\ Content \in Seq(Byte)
  BY ContentIsSeq DEF ReaderInv, ReaderTypeOK
<1>6. /\ t \in Seq(Byte) /\ Len(t) = Len(seen) + Len(Content)
      /\ \A k \in 1..Len(seen) + Len(Content) : t[k] = IF k <= Len(seen) THEN seen[k] ELSE Content[k - Len(seen)]
  BY ONLY <1>5, Joined, Zenon
<1>10. PICK ld, lc, lx, ls, lo \in Nat :
          ld = Len(digits) /\ lc = Len(crc) /\ lx = Len(m.data) /\ ls = Len(seen) /\ lo = Len(Content)
  BY <1>3, <1>5
<1> HIDE DEF h
<1>7. /\ e \in Seq(Byte) /\ Len(e) = 3 + ld + lc + lx
      /\ \A k \in 1..3 : e[k] = h[k]
      /\ \A k \in 1..ld : e[3 + k] = digits[k]
      /\ \A k \in 1..lc : e[3 + ld + k] = crc[k]
      /\ \A k \in 1..lx : e[3 + ld + lc + k] = m.data[k]
  <2>1. 3 = Len(h) /\ ld = Len(digits) /\ lc = Len(crc) /\ lx = Len(m.data)
    BY <1>4, <1>10
  <2>2. h \in Seq(Byte) /\ m.data \in Seq(Byte)
    BY <1>3, <1>4
  <2>3. InFourParts(e, Byte, h, digits, crc, m.data)
    BY ONLY <2>2, digits \in Seq(Byte), crc \in Seq(Byte), FourParts, Zenon
  <2> HIDE DEF e
  <2> QED BY ONLY <2>1, <2>3, Zenon DEF InFourParts
<1>8. IsPrefix(e, t)
  <2> HIDE DEF t
  <2> QED BY <1>1, <1>2 DEF h
<1> HIDE DEF e, t
<1>9. Len(e) <= Len(t) /\ \A k \in 1..Len(e) : e[k] = t[k]
  BY ONLY <1>6, <1>7, <1>8, PrefixIs
<1>12. ls >= 3 /\ seen[3] = Header(u2art_data.cf, u2art_data.length)
  BY <1>10 DEF ReaderInv, ParseInv
<1>13. t[3] = seen[3]
  <2>1. 3 \in 1..ls + lo /\ 3 <= ls
    BY <1>10, <1>12
  <2> QED BY <1>6, <1>10, <2>1
<1>14. e[3] = Header(m.cf, kind) /\ e[3] = t[3]
  <2>1. 3 \in 1..3 /\ 3 \in 1..3 + ld + lc + lx
    BY ONLY ld \in Nat, lc \in Nat, lx \in Nat
  <2> QED BY <1>4, <1>7, <1>9, <2>1
<1>15. m.cf = u2art_data.cf /\ kind = u2art_data.length
  <2>1. u2art_data.cf \in BOOLEAN /\ u2art_data.length \in 0..Half - 1
    BY DEF ReaderInv, ReaderTypeOK
  <2>2. Header(m.cf, kind) = Header(u2art_data.cf, u2art_data.length)
    BY <1>12, <1>13, <1>14
  <2> QED BY <1>3, <2>1, <2>2, HeaderSplit
<1>16. ld = LengthBytes
  BY <1>2, <1>10, <1>15 DEF LengthBytes
<1>17. ASSUME NEW k \in 1..ld PROVE t[3 + k] = digits[k]
  <2>1. 3 + k \in 1..3 + ld + lc + lx
    BY ONLY k \in 1..ld, ld \in Nat, lc \in Nat, lx \in Nat
  <2> QED BY ONLY <1>7, <1>9, <2>1, k \in 1..ld
<1>18. ASSUME NEW k \in 1..lc PROVE t[3 + ld + k] = crc[k]
  <2>1. 3 + ld + k \in 1..3 + ld + lc + lx
    BY ONLY k \in 1..lc, ld \in Nat, lc \in Nat, lx \in Nat
  <2> QED BY ONLY <1>7, <1>9, <2>1, k \in 1..lc
<1>19. ASSUME NEW k \in 1..lx PROVE t[3 + ld + lc + k] = m.data[k]
  <2>1. 3 + ld + lc + k \in 1..3 + ld + lc + lx
    BY ONLY k \in 1..lx, ld \in Nat, lc \in Nat, lx \in Nat
  <2> QED BY ONLY <1>7, <1>9, <2>1, k \in 1..lx
<1>20. /\ Len(crc) = IF u2art_data.cf THEN CrcLen ELSE 0
       /\ u2art_data.cf => crc = Crc(m.data)
       /\ u2art_data.length < Half - 2 => u2art_data.length = Len(m.data)
       /\ u2art_data.length >= Half - 2 => Number(digits) = Len(m.data)
  BY <1>2, <1>15
<1>21. /\ \A k \in 1..LengthBytes : t[3 + k] = digits[k]
       /\ \A k \in 1..Len(crc) : t[3 + LengthBytes + k] = crc[k]
       /\ \A k \in 1..Len(m.data) : t[3 + LengthBytes + Len(crc) + k] = m.data[k]
  BY <1>10, <1>16, <1>17, <1>18, <1>19
<1>22. Acceptable(m.data) /\ m.cf = u2art_data.cf /\ m.data \in Seq(Byte) /\ Len(digits) = LengthBytes
  BY <1>1, <1>3, <1>10, <1>15, <1>16
<1> QED BY ONLY <1>20, <1>21, <1>22, m \in Sent, digits \in Seq(Byte), crc \in Seq(Byte), Zenon DEF t

------------------------------------------------------------------------------
\* The frame that is rejected while its data are read is the one the ring
\* holds, unless its length was misread.
LEMMA LengthIsRight ==
    ASSUME ReaderInv, Measured, NEW data \in Seq(Byte), NEW digits \in Seq(Byte),
           u2art_data.length < Half - 2 => u2art_data.length = Len(data),
           u2art_data.length >= Half - 2 => Number(digits) = Len(data),
           Len(digits) = LengthBytes,
           \A k \in 1..LengthBytes : (seen \o Content)[3 + k] = digits[k]
    PROVE  Length = Len(data)
<1>1. /\ Half \in Nat /\ u2art_data.length \in Nat /\ LengthBytes \in Nat
      /\ Ext2Len > 0 /\ Ext4Len > 0 /\ u2art_data.length < Half
  BY LengthTypes DEF ReaderInv
<1>2. CASE u2art_data.length < Half - 2
  BY <1>1, <1>2 DEF Length
<1>3. CASE u2art_data.length >= Half - 2
  <2>1. LengthBytes > 0
    BY <1>1, <1>3 DEF LengthBytes
  <2>2. Len(seen) = 3 + LengthBytes /\ Number(SubSeq(seen, 4, Len(seen))) = u2art_data.extend_length
    BY <2>1 DEF Measured
  <2>3. seen \in Seq(Byte) /\ Content \in Seq(Byte)
    BY ContentIsSeq DEF ReaderInv, ReaderTypeOK
  <2>4. \A k \in 1..Len(seen) : (seen \o Content)[k] = seen[k]
    BY ONLY <2>3, TwoParts, Zenon DEF InTwoParts
  <2>5. ASSUME NEW k \in 1..LengthBytes PROVE seen[3 + k] = digits[k]
    <3>1. 3 + k \in 1..Len(seen)
      BY <1>1, <2>2
    <3> QED BY <2>4, <3>1
  <2>6. SubSeq(seen, 4, Len(seen)) = digits
    <3> DEFINE q == SubSeq(seen, 4, Len(seen))
    <3>1. PICK n \in Nat : n = LengthBytes
      BY <1>1
    <3>2. Len(seen) = 3 + n /\ \A k \in 1..n : seen[3 + k] = digits[k]
      BY <2>2, <2>5, <3>1
    <3>3. q \in Seq(Byte) /\ Len(q) = n /\ \A k \in 1..n : q[k] = seen[3 + k]
      BY ONLY <2>3, <3>2, n \in Nat
    <3>4. Len(digits) = n
      BY <3>1
    <3> HIDE DEF q
    <3>5. q = digits
      BY ONLY <3>2, <3>3, <3>4, digits \in Seq(Byte), n \in Nat
    <3> QED BY <3>5 DEF q
  <2> QED BY <1>3, <2>2, <2>6 DEF Length
<1> QED BY <1>1, <1>2, <1>3

\* What follows the head of an intact frame in the ring is its CRC and data.
LEMMA DataIsThere ==
    ASSUME ReaderInv, NEW data \in Seq(Byte), NEW crc \in Seq(Byte), NEW h \in Nat,
           Len(seen) = h, Len(crc) + Len(data) <= RxAvailable,
           \A k \in 1..Len(crc) : (seen \o Content)[h + k] = crc[k],
           \A k \in 1..Len(data) : (seen \o Content)[h + Len(crc) + k] = data[k]
    PROVE  \A n \in Nat : n = Len(crc) + Len(data) =>
              /\ SubSeq(FirstBytes(n), 1, Len(crc)) = crc
              /\ SubSeq(FirstBytes(n), n - Len(data) + 1, n) = data
<1>1. seen \in Seq(Byte) /\ Content \in Seq(Byte) /\ Len(Content) = RxAvailable /\ RxAvailable \in Nat
  BY ContentIsSeq, UartRingAssumption DEF ReaderInv, ReaderTypeOK
<1>2. PICK c, d \in Nat : c = Len(crc) /\ d = Len(data)
  <2>1. Len(crc) \in Nat /\ Len(data) \in Nat
    BY ONLY crc \in Seq(Byte), data \in Seq(Byte)
  <2> QED BY ONLY <2>1, Zenon
<1>3. \A k \in 1..RxAvailable : (seen \o Content)[h + k] = Content[k]
  <2>1. \A k \in 1..Len(Content) : (seen \o Content)[Len(seen) + k] = Content[k]
    <3>1. InTwoParts(seen \o Content, Byte, seen, Content)
      <4>1. seen \in Seq(Byte) /\ Content \in Seq(Byte)
        BY <1>1
      <4> QED BY ONLY <4>1, TwoParts, Zenon
    <3> QED BY ONLY <3>1, Zenon DEF InTwoParts
  <2> QED BY ONLY <1>1, <2>1, Len(seen) = h, Zenon
<1> DEFINE s == FirstBytes(c + d)
<1>4. s \in Seq(Byte) /\ Len(s) = c + d
  <2>1. c + d \in 0..RxAvailable
    BY <1>1, <1>2
  <2> QED BY <2>1, FirstBytesAre DEF ReaderInv
<1>5. \A k \in 1..c + d : s[k] = (seen \o Content)[h + k]
  <2> SUFFICES ASSUME NEW k \in 1..c + d PROVE s[k] = (seen \o Content)[h + k]
    OBVIOUS
  <2>1. k \in 1..RxAvailable
    BY <1>1, <1>2
  <2>2. s[k] = Unread(k) /\ Content[k] = Unread(k)
    BY <2>1 DEF FirstBytes, Content
  <2> QED BY <1>3, <2>1, <2>2
<1> DEFINE t == seen \o Content
<1>6. /\ \A k \in 1..c : t[h + k] = crc[k]
      /\ \A k \in 1..d : t[h + c + k] = data[k]
  BY <1>2
<1> HIDE DEF s, t
<1>7. \A k \in 1..c + d : s[k] = t[h + k]
  BY ONLY <1>5 DEF t
<1>8. \A k \in 1..c : s[k] = crc[k]
  <2> SUFFICES ASSUME NEW k \in 1..c PROVE s[k] = crc[k]
    OBVIOUS
  <2>1. k \in 1..c + d
    OBVIOUS
  <2> QED BY ONLY <1>6, <1>7, <2>1, k \in 1..c
<1>9. \A k \in 1..d : s[c + k] = data[k]
  <2> SUFFICES ASSUME NEW k \in 1..d PROVE s[c + k] = data[k]
    OBVIOUS
  <2>1. c + k \in 1..c + d /\ h + (c + k) = h + c + k
    OBVIOUS
  <2> QED BY ONLY <1>6, <1>7, <2>1, k \in 1..d
<1>10. SubSeq(s, 1, c) = crc
  BY ONLY <1>2, <1>4, <1>8, crc \in Seq(Byte), c \in Nat, d \in Nat
<1>11. SubSeq(s, c + 1, c + d) = data
  <2> DEFINE q == SubSeq(s, c + 1, c + d)
  <2>1. q \in Seq(Byte) /\ Len(q) = d /\ \A k \in 1..d : q[k] = s[c + k]
    BY ONLY <1>4, c \in Nat, d \in Nat
  <2> HIDE DEF q
  <2>2. Len(data) = d /\ \A k \in 1..d : q[k] = data[k]
    BY ONLY <1>2, <1>9, <2>1, Zenon
  <2>3. q = data
    BY ONLY <2>1, <2>2, data \in Seq(Byte), d \in Nat
  <2> QED BY <2>3 DEF q
<1> SUFFICES ASSUME NEW n \in Nat, n = Len(crc) + Len(data)
             PROVE  /\ SubSeq(FirstBytes(n), 1, Len(crc)) = crc
                    /\ SubSeq(FirstBytes(n), n - Len(data) + 1, n) = data
  OBVIOUS
<1>12. n = c + d /\ n - d + 1 = c + 1
  BY <1>2
<1> QED BY ONLY <1>2, <1>10, <1>11, <1>12 DEF s

\* A step that rejects a frame all of which has arrived: an empty frame and
\* one that is too long are excluded by what was sent, and wrong data by the
\* invariant, unless an extended length was taken for what it is not.
LEMMA GoodStep ==
    ASSUME ReaderInv, [Next]_vars, Rejected, Intact, failed'
    PROVE  failed /\ u2art_data.length >= Half - 2
<1> SUFFICES ASSUME ~(failed /\ u2art_data.length >= Half - 2) PROVE FALSE
  OBVIOUS
<1>1. u2art_data.start /\ ~u2art_data'.start /\ pc # "end" /\ ReaderTypeOK /\ ParseInv /\ RingTypeOK
  BY DEF Rejected, ReaderInv
<1>2. PICK m \in Sent, digits, crc \in Seq(Byte) :
              /\ Acceptable(m.data) /\ m.cf = u2art_data.cf /\ m.data \in Seq(Byte)
              /\ Len(crc) = IF u2art_data.cf THEN CrcLen ELSE 0
              /\ u2art_data.cf => crc = Crc(m.data)
              /\ u2art_data.length < Half - 2 => u2art_data.length = Len(m.data)
              /\ u2art_data.length >= Half - 2 => Number(digits) = Len(m.data)
              /\ Len(digits) = LengthBytes
              /\ LET t == seen \o Content
                 IN  /\ \A k \in 1..LengthBytes : t[3 + k] = digits[k]
                     /\ \A k \in 1..Len(crc) : t[3 + LengthBytes + k] = crc[k]
                     /\ \A k \in 1..Len(m.data) : t[3 + LengthBytes + Len(crc) + k] = m.data[k]
  BY <1>1, IntactIs
<1>3. Len(m.data) \in Nat /\ Len(m.data) > 0 /\ Len(m.data) <= BufMax /\ IsArray(m.data)
  <2>1. m.data # <<>>
    BY <1>2, SerialReaderAssumption DEF Acceptable
  <2> QED BY <1>2, <2>1 DEF Acceptable
<1>4. /\ Half \in Nat /\ Half > 2 /\ u2art_data.length \in Nat /\ LengthBytes \in Nat
      /\ Length \in Nat /\ CrcLen \in Nat
  BY <1>1, LengthTypes
<1>5. EmptyFrame \/ DataTooLong \/ BadData
  <2>1. ~ \E f \in Frames : McuSend(f)
    BY <1>1 DEF McuSend, reader
  <2>2. ~Receive /\ ~Lose /\ ~Tick /\ ~NothingToScan /\ ~DataMissing /\ ~UNCHANGED vars
    BY <1>1 DEF Receive, Lose, Tick, NothingToScan, DataMissing, vars, reader
  <2>3. ~Scan /\ ~End
    BY <1>1 DEF Scan, End, ParseInv
  <2>4. ~GetExtendLength
    <3> SUFFICES ASSUME GetExtendLength PROVE FALSE
      OBVIOUS
    <3>1. u2art_data' = u2art_data
          \/ u2art_data' = [u2art_data EXCEPT !.extend_length = Number(FirstBytes(LengthBytes))]
      BY DEF GetExtendLength
    <3> QED BY <1>1, <3>1 DEF ReaderTypeOK
  <2>5. ~ProcessCmd /\ ~EndlessLoop
    BY DEF ProcessCmd, EndlessLoop
  <2> QED BY <2>1, <2>2, <2>3, <2>4, <2>5 DEF Next, Callback
<1>6. ~EmptyFrame
  <2> SUFFICES ASSUME u2art_data.length = 0 PROVE FALSE
    BY DEF EmptyFrame
  <2> QED BY <1>2, <1>3, <1>4
<1>7. pc = "data"
  BY <1>5, <1>6 DEF DataTooLong, BadData, DataHere
<1>8. Measured
  BY <1>1, <1>7 DEF ParseInv
<1>9. Length = Len(m.data)
  BY <1>2, <1>8, LengthIsRight
<1>10. ~DataTooLong
  BY <1>3, <1>4, <1>9, SerialReaderAssumption DEF DataTooLong
<1>11. BadData /\ ~DataIsGood /\ RxAvailable >= Whole
  BY <1>5, <1>6, <1>10 DEF BadData, DataHere
<1>12. Consumed = Len(crc) + Len(m.data) /\ Consumed = Whole /\ Consumed \in Nat
  <2>1. PICK l, c \in Nat : l = Length /\ c = Len(crc)
    BY <1>2, <1>4
  <2>2. l = Len(m.data) /\ l > 0 /\ Length = l
    BY <1>3, <1>9, <2>1
  <2>3. Whole = l + c
    BY <1>2, <1>4, <2>1 DEF Whole
  <2>4. Consumed = Whole
    BY ONLY <2>2, l \in Nat DEF Consumed
  <2>5. l + c = c + l /\ l + c \in Nat
    BY ONLY l \in Nat, c \in Nat
  <2> QED BY ONLY <2>1, <2>2, <2>3, <2>4, <2>5, Zenon
<1>13. /\ SubSeq(FirstBytes(Consumed), 1, Len(crc)) = crc
       /\ SubSeq(FirstBytes(Consumed), Consumed - Len(m.data) + 1, Consumed) = m.data
  <2>1. RxAvailable \in Nat
    BY <1>1, ContentIsSeq, UartRingAssumption
  <2>2. Len(crc) + Len(m.data) <= RxAvailable
    BY <1>11, <1>12, <2>1
  <2>3. Len(seen) = 3 + LengthBytes
    BY <1>8 DEF Measured
  <2>4. PICK h \in Nat : h = 3 + LengthBytes
    BY <1>4
  <2>5. /\ Len(seen) = h
        /\ \A k \in 1..Len(crc) : (seen \o Content)[h + k] = crc[k]
        /\ \A k \in 1..Len(m.data) : (seen \o Content)[h + Len(crc) + k] = m.data[k]
    BY <1>2, <2>3, <2>4
  <2>6. \A n \in Nat : n = Len(crc) + Len(m.data) =>
              /\ SubSeq(FirstBytes(n), 1, Len(crc)) = crc
              /\ SubSeq(FirstBytes(n), n - Len(m.data) + 1, n) = m.data
    BY <1>2, <2>2, <2>5, DataIsThere
  <2> QED BY <1>12, <2>6
<1>14. DataIsGood
  <2>1. u2art_data.cf => SubSeq(FirstBytes(Consumed), 1, CrcLen) = Crc(m.data)
    BY <1>2, <1>13
  <2> QED BY <1>3, <1>9, <1>13, <2>1 DEF DataIsGood
<1> QED BY <1>11, <1>14

(* For every frame format, buffer size and traffic: a frame whose bytes     *)
(* have all arrived is rejected only if it announces an extended length and *)
(* a frame failed after the last command, the stale get_length of           *)
(* parseU2artData.                                                          *)
THEOREM GoodFrameAcceptedHolds == Spec => GoodFrameAccepted
<1> DEFINE A == (Rejected /\ Intact /\ failed') => (failed /\ u2art_data.length >= Half - 2)
<1>1. ReaderInv /\ [Next]_vars => A
  BY GoodStep
<1>2. ([][A]_vars) => GoodFrameAccepted
  BY PTL DEF GoodFrameAccepted
<1> HIDE DEF A
<1> QED BY <1>1, <1>2, ReaderInvHolds, PTL DEF Spec
==============================================================================
